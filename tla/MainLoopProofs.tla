--------------------------- MODULE MainLoopProofs ---------------------------
(* The pace of a device, for any length of loop, counter and period. *)
EXTENDS MainLoop, TLAPS

LEMMA ModRange ==
    ASSUME NEW x \in Int, NEW m \in Nat \ {0}
    PROVE  x % m \in 0..(m - 1)
OBVIOUS

LEMMA ModUnique ==
    ASSUME NEW q \in Nat, NEW p \in Nat \ {0}, NEW r \in 0..(p - 1)
    PROVE  (q * p + r) % p = r
BY SMTT(60)

LEMMA NextMultiple ==
    ASSUME NEW q \in Nat, NEW p \in Nat
    PROVE  q * p \in Nat /\ (q + 1) * p = q * p + p
BY SMTT(60)

\* The counter goes up by one, or wraps to 0.
LEMMA NextCounter ==
    ASSUME NEW c \in 0..(CounterMod - 1)
    PROVE  (c + 1) % CounterMod = c + 1 \/ (c + 1) % CounterMod = 0
<1>1. CounterMod \in Nat \ {0}
  BY MainLoopAssumption
<1>2. CASE c + 1 < CounterMod
  BY <1>1, <1>2
<1>3. CASE c + 1 = CounterMod
  <2>1. (1 * CounterMod + 0) % CounterMod = 0
    BY <1>1, ModUnique
  <2> QED BY <1>1, <1>3, <2>1
<1> QED BY <1>1, <1>2, <1>3

LEMMA SleepType ==
    ASSUME TypeOK, LongIsWide
    PROVE  UsecToSleep \in Int /\ UsecToSleep <= Loop
<1>1. Elapsed \in Nat
  BY MainLoopAssumption DEF Elapsed, TypeOK
<1> QED BY <1>1, MainLoopAssumption DEF UsecToSleep

LEMMA SleepRange ==
    ASSUME TypeOK
    PROVE  UsecToSleep \in Int /\ UsecToSleep < Wrap
<1>1. Elapsed \in Nat /\ Loop \in Int /\ Wrap \in Nat \ {0} /\ Loop < Wrap
  BY MainLoopAssumption DEF Elapsed, TypeOK
<1>2. (Loop - Elapsed) % Wrap \in 0..(Wrap - 1)
  BY <1>1
<1>3. ToSigned(Loop - Elapsed) \in Int /\ ToSigned(Loop - Elapsed) < Wrap
  BY <1>1, <1>2 DEF ToSigned
<1> QED BY <1>1, <1>3 DEF UsecToSleep

LEMMA TypeInit == Init => TypeOK
<1> SUFFICES ASSUME Init PROVE TypeOK
  OBVIOUS
<1>1. 0 \in 0..(Wrap - 1) /\ 0 \in 0..(CounterMod - 1) /\ SendPeriod - 1 \in Nat
  BY MainLoopAssumption
<1> QED BY <1>1 DEF Init, TypeOK

LEMMA TypeStep == TypeOK /\ [Next]_vars => TypeOK'
<1> SUFFICES ASSUME TypeOK, [Next]_vars PROVE TypeOK'
  OBVIOUS
<1>0. Wrap \in Nat \ {0} /\ CounterMod \in Nat \ {0}
  BY MainLoopAssumption
<1>1. \A x \in Int : x % Wrap \in 0..(Wrap - 1)
  BY <1>0
<1>2. CASE StartTimer
  <2>1. 0 \in 0..(Wrap - 1)
    BY <1>0
  <2> QED BY <1>2, <2>1 DEF StartTimer, TypeOK
<1>3. ASSUME NEW w \in WorkTimes, HandleBcast(w) PROVE TypeOK'
  <2>1. w \in 0..(Wrap - 1)
    BY MainLoopAssumption
  <2>2. wall' \in 0..(Wrap - 1)
    BY <1>1, <1>3, <2>1 DEF HandleBcast, TypeOK
  <2>3. counter' \in 0..(CounterMod - 1)
    BY <1>0, <1>3 DEF HandleBcast, TypeOK
  <2>4. calls' \in Nat
    BY <1>3 DEF HandleBcast, TypeOK
  <2> QED BY <1>3, <2>1, <2>2, <2>3, <2>4 DEF HandleBcast, TypeOK
<1>4. CASE EndTimer
  <2>1. UsecToSleep \in Int /\ UsecToSleep < Wrap
    BY SleepRange
  <2>2. sleep' \in 0..(Wrap - 1)
    BY <1>0, <1>4, <2>1 DEF EndTimer
  <2>3. pc' \in {"start", "work", "end", "sleep"}
    BY <1>4 DEF EndTimer
  <2> QED BY <1>4, <2>2, <2>3 DEF EndTimer, TypeOK
<1>5. CASE USleep
  <2>1. wall' \in 0..(Wrap - 1)
    BY <1>1, <1>5 DEF USleep, TypeOK
  <2> QED BY <1>5, <2>1 DEF USleep, TypeOK
<1>6. ASSUME NEW j \in Jumps, SetClock(j) PROVE TypeOK'
  <2>1. j \in Int
    BY MainLoopAssumption
  <2>2. wall' \in 0..(Wrap - 1)
    BY <1>1, <1>6, <2>1 DEF SetClock, TypeOK
  <2> QED BY <1>6, <2>2 DEF SetClock, TypeOK
<1>7. CASE UNCHANGED vars
  BY <1>7 DEF vars, TypeOK
<1> QED BY <1>2, <1>3, <1>4, <1>5, <1>6, <1>7 DEF Next, Work

\* A call of NET_HandleBcast keeps count.
LEMMA CallKeepsCount ==
    ASSUME IInv, NEW w, HandleBcast(w)
    PROVE  NeverLate' /\ (counter' = 0 \/ \E q \in Nat : CountedFrom(q)')
<1>1. /\ SendPeriod \in Nat \ {0}
      /\ counter \in 0..(CounterMod - 1)
      /\ calls \in 0..(SendPeriod - 1)
  BY MainLoopAssumption DEF IInv, TypeOK, NeverLate
<1>2. counter' = counter + 1 \/ counter' = 0
  BY <1>1, NextCounter DEF HandleBcast
<1>3. calls' = IF counter % SendPeriod = 0 THEN 0 ELSE calls + 1
  BY <1>1 DEF HandleBcast, Due
<1>4. CASE counter = 0
  <2>1. (0 * SendPeriod + 0) % SendPeriod = 0
    BY <1>1, ModUnique
  <2>2. calls' = 0
    BY <1>1, <1>3, <1>4, <2>1
  <2>3. counter' = 0 \/ counter' = 0 * SendPeriod + calls' + 1
    BY <1>1, <1>2, <1>4, <2>2
  <2> QED BY <1>1, <2>2, <2>3 DEF NeverLate, CountedFrom
<1>5. CASE counter # 0
  <2>1. PICK q \in Nat : counter = q * SendPeriod + calls + 1
    BY <1>5 DEF IInv, CountedFrom
  <2>2. CASE calls + 1 < SendPeriod
    <3>1. (q * SendPeriod + (calls + 1)) % SendPeriod = calls + 1
      BY <1>1, <2>2, ModUnique
    <3>2. q * SendPeriod \in Nat
      BY <1>1
    <3>3. calls' = calls + 1
      BY <1>1, <1>3, <2>1, <3>1, <3>2
    <3>4. counter' = 0 \/ counter' = q * SendPeriod + calls' + 1
      BY <1>1, <1>2, <2>1, <3>2, <3>3
    <3> QED BY <1>1, <2>2, <3>3, <3>4 DEF NeverLate, CountedFrom
  <2>3. CASE calls + 1 = SendPeriod
    <3>1. ((q + 1) * SendPeriod + 0) % SendPeriod = 0
      BY <1>1, ModUnique
    <3>2. q * SendPeriod \in Nat /\ (q + 1) * SendPeriod = q * SendPeriod + SendPeriod
      BY <1>1, NextMultiple
    <3>3. counter = (q + 1) * SendPeriod + 0
      BY <1>1, <2>1, <2>3, <3>2
    <3>4. calls' = 0
      BY <1>3, <3>1, <3>3
    <3>5. counter' = 0 \/ counter' = (q + 1) * SendPeriod + calls' + 1
      BY <1>1, <1>2, <3>2, <3>3, <3>4
    <3>6. counter' = 0 \/ CountedFrom(q + 1)'
      BY <3>5 DEF CountedFrom
    <3>7. q + 1 \in Nat /\ NeverLate'
      BY <1>1, <3>4 DEF NeverLate
    <3> QED BY <3>6, <3>7
  <2> QED BY <1>1, <2>2, <2>3
<1> QED BY <1>4, <1>5

LEMMA InvStep == IInv /\ [Next]_vars => IInv'
<1> SUFFICES ASSUME IInv, [Next]_vars PROVE IInv'
  OBVIOUS
<1>1. TypeOK'
  BY TypeStep DEF IInv
<1>2. ASSUME NEW w \in WorkTimes, HandleBcast(w) PROVE IInv'
  BY <1>1, <1>2, CallKeepsCount DEF IInv
<1>3. CASE UNCHANGED <<counter, calls>>
  BY <1>1, <1>3 DEF IInv, NeverLate, CountedFrom
<1> QED BY <1>2, <1>3 DEF Next, Work, StartTimer, EndTimer, USleep, SetClock, vars

\* For any period and any range of the counter, also one that is no multiple
\* of the period: NET_HandleBcast never lets SendPeriod calls in a row go by
\* without an announcement.
THEOREM NeverLateCorrect == Spec => []NeverLate
<1>1. Init => IInv
  BY TypeInit, MainLoopAssumption DEF Init, IInv, NeverLate
<1>2. IInv => NeverLate
  BY DEF IInv
<1> QED BY <1>1, <1>2, InvStep, PTL DEF Spec

\* Where a long holds every uint32_t, main never sleeps for more than 500ms,
\* wherever the clock of the timer is set.
THEOREM SleepBoundedCorrect == LongIsWide => (Spec => []SleepBounded)
<1> SUFFICES ASSUME LongIsWide PROVE Spec => []SleepBounded
  OBVIOUS
<1>1. Init => TypeOK /\ SleepBounded
  BY TypeInit DEF Init, SleepBounded
<1>2. TypeOK /\ SleepBounded /\ [Next]_vars => TypeOK' /\ SleepBounded'
  <2> SUFFICES ASSUME TypeOK, SleepBounded, [Next]_vars PROVE SleepBounded'
    BY TypeStep
  <2>1. CASE EndTimer
    BY <2>1, SleepType DEF EndTimer, SleepBounded
  <2>2. CASE UNCHANGED sleep /\ (pc' = "sleep" => pc = "sleep")
    BY <2>2 DEF SleepBounded
  <2> QED BY <2>1, <2>2 DEF Next, Work, StartTimer, HandleBcast, USleep, SetClock, vars
<1> QED BY <1>1, <1>2, PTL DEF Spec

-----------------------------------------------------------------------------
(* The length of an iteration *)

\* While nobody sets it, the clock is ahead of startTime by the work done.
Timed ==
    ~ jumped =>
        /\ pc = "work" => wall = start
        /\ pc = "end" => wall = (start + worked) % Wrap

\* The difference of two readings less than Wrap apart, also across the wrap.
LEMMA DifferenceWraps ==
    ASSUME NEW m \in Nat \ {0}, NEW s \in 0..(m - 1), NEW w \in 0..(m - 1)
    PROVE  (((s + w) % m) - s) % m = w
<1>1. CASE s + w < m
  <2>1. (s + w) % m = s + w
    BY <1>1
  <2>2. (s + w) - s = w
    OBVIOUS
  <2> QED BY <2>1, <2>2
<1>2. CASE s + w >= m
  <2>1. (1 * m + (s + w - m)) % m = s + w - m
    BY <1>2, ModUnique
  <2>2. (s + w) % m = s + w - m
    BY <1>2, <2>1
  <2>3. (w - m) % m = w
    BY SMTT(60)
  <2> QED BY <2>2, <2>3
<1> QED BY <1>1, <1>2

LEMMA TimedStep == TypeOK /\ Timed /\ [Next]_vars => Timed'
<1> SUFFICES ASSUME TypeOK, Timed, [Next]_vars PROVE Timed'
  OBVIOUS
<1>1. CASE StartTimer
  BY <1>1 DEF StartTimer, Timed
<1>2. ASSUME NEW w \in WorkTimes, HandleBcast(w) PROVE Timed'
  BY <1>2 DEF HandleBcast, Timed
<1>3. CASE EndTimer \/ USleep
  BY <1>3 DEF EndTimer, USleep, Timed
<1>4. ASSUME NEW j \in Jumps, SetClock(j) PROVE Timed'
  BY <1>4 DEF SetClock, Timed
<1>5. CASE UNCHANGED vars
  BY <1>5 DEF vars, Timed
<1> QED BY <1>1, <1>2, <1>3, <1>4, <1>5 DEF Next, Work

\* Where a long holds every uint32_t and nobody sets the clock, the work and
\* the sleep of PLAT_USleep fill the 500ms exactly, for any length of loop,
\* any work and any moment at which the difference of PLAT_EndTimer wraps.
THEOREM KeepsPaceCorrect == LongIsWide => (Spec => KeepsPace)
<1> SUFFICES ASSUME LongIsWide PROVE Spec => KeepsPace
  OBVIOUS
<1>1. Init => TypeOK /\ Timed
  BY TypeInit DEF Init, Timed
<1>2. TypeOK /\ Timed /\ [Next]_vars => TypeOK' /\ Timed'
  BY TypeStep, TimedStep
<1>3. TypeOK /\ Timed /\ [Next]_vars =>
        [EndTimer /\ ~ jumped =>
            IF worked < Loop THEN worked + sleep' = Loop ELSE pc' = "start"]_vars
  <2> SUFFICES ASSUME TypeOK, Timed, EndTimer, ~ jumped
               PROVE  IF worked < Loop THEN worked + sleep' = Loop ELSE pc' = "start"
    OBVIOUS
  <2>1. Loop \in Nat /\ worked \in Nat
    BY MainLoopAssumption DEF TypeOK
  <2>2. Elapsed = worked
    BY DifferenceWraps, MainLoopAssumption DEF Elapsed, EndTimer, Timed, TypeOK
  <2>3. UsecToSleep = Loop - worked
    BY <2>2 DEF UsecToSleep
  <2> QED BY <2>1, <2>3 DEF EndTimer
<1> QED BY <1>1, <1>2, <1>3, PTL DEF Spec, KeepsPace

-----------------------------------------------------------------------------
(* KeepsAnnouncing.  Between two announcements every step of main brings    *)
(* the next one nearer: Rank counts the steps it may still take.  Induction *)
(* over the rank is not to be had below []<>, but with the period of the    *)
(* code (15 calls) the rank is less than 64.                                *)

Stage == IF pc = "end" THEN 3 ELSE IF pc = "sleep" THEN 2 ELSE IF pc = "start" THEN 1 ELSE 0

Rank == 4 * (SendPeriod - calls) + Stage

\* Announcements for ever, or a rank of at most i again and again.
Nears(i) == []<>(Rank <= i) \/ []<><<Announce>>_vars

LEMMA SmallerStage ==
    ASSUME NEW n \in Nat, NEW c \in Nat, NEW x \in 0..3, NEW y \in 0..3, x < y
    PROVE  4 * (n - c) + x < 4 * (n - c) + y
OBVIOUS

LEMMA RankType == IInv => Rank \in Nat \ {0} /\ Rank <= 4 * SendPeriod + 3
<1> SUFFICES ASSUME IInv PROVE Rank \in Nat \ {0} /\ Rank <= 4 * SendPeriod + 3
  OBVIOUS
<1>1. SendPeriod \in Nat /\ calls \in Nat /\ calls < SendPeriod
  BY MainLoopAssumption DEF IInv, TypeOK, NeverLate
<1>2. Stage \in 0..3
  BY DEF Stage
<1> QED BY <1>1, <1>2 DEF Rank

\* A step of main that announces nothing.
LEMMA WorkNears ==
    ASSUME IInv, IInv', Work, ~ Announce
    PROVE  Rank' < Rank
<1>1. /\ SendPeriod \in Nat /\ calls \in Nat /\ calls < SendPeriod
      /\ calls' \in Nat /\ calls' < SendPeriod
  BY MainLoopAssumption DEF IInv, TypeOK, NeverLate
<1>2. CASE StartTimer
  <2>1. calls' = calls /\ Stage = 1 /\ Stage' = 0
    BY <1>2 DEF StartTimer, Stage
  <2> QED BY <1>1, <2>1 DEF Rank
<1>3. CASE EndTimer
  <2>1. calls' = calls /\ Stage = 3 /\ Stage' \in 0..2
    BY <1>3 DEF EndTimer, Stage
  <2>2. Stage \in 0..3 /\ Stage' \in 0..3 /\ Stage' < Stage
    BY <2>1
  <2> QED BY <1>1, <2>1, <2>2, SmallerStage DEF Rank
<1>4. CASE USleep
  <2>1. calls' = calls /\ Stage = 2 /\ Stage' = 1
    BY <1>4 DEF USleep, Stage
  <2> QED BY <1>1, <2>1 DEF Rank
<1>5. ASSUME NEW w \in WorkTimes, HandleBcast(w) PROVE Rank' < Rank
  <2>1. pc = "work" /\ pc' = "end" /\ calls' # 0
    BY <1>5 DEF HandleBcast, Announce
  <2>2. calls' = calls + 1
    BY <1>1, <1>5, <2>1 DEF HandleBcast
  <2>3. Stage = 0 /\ Stage' = 3
    BY <2>1 DEF Stage
  <2> QED BY <1>1, <2>2, <2>3 DEF Rank
<1> QED BY <1>2, <1>3, <1>4, <1>5 DEF Work

LEMMA Invariant == Spec => []IInv
<1>1. Init => IInv
  BY TypeInit, MainLoopAssumption DEF Init, IInv, NeverLate
<1> QED BY <1>1, InvStep, PTL DEF Spec

\* One step nearer.
LEMMA Nearer ==
    ASSUME NEW i \in Nat
    PROVE  FairSpec => (Nears(i + 1) => Nears(i))
<1>1. (IInv => Rank \in Nat \ {0} /\ Rank <= 4 * SendPeriod + 3)'
  BY RankType, PTL
<1>2. IInv /\ IInv' /\ Rank <= i + 1 /\ <<Work>>_vars => (Rank <= i)' \/ <<Announce>>_vars
  <2> SUFFICES ASSUME IInv, IInv', Rank <= i + 1, Work, ~ Announce PROVE Rank' <= i
    BY DEF Announce, vars
  <2>1. Rank' < Rank /\ Rank \in Nat /\ Rank' \in Nat
    BY <1>1, RankType, WorkNears
  <2> QED BY <2>1
<1>3. IInv /\ IInv' /\ Rank <= i + 1 /\ [Next]_vars => (Rank <= i + 1)' \/ <<Announce>>_vars
  <2> SUFFICES ASSUME IInv, IInv', Rank <= i + 1, [Next]_vars, ~ Announce PROVE Rank' <= i + 1
    BY DEF Announce, vars
  <2>1. CASE Work
    <3>1. Rank' < Rank /\ Rank \in Nat /\ Rank' \in Nat
      BY <1>1, <2>1, RankType, WorkNears
    <3> QED BY <3>1
  <2>2. CASE UNCHANGED <<pc, calls>>
    BY <2>2 DEF Rank, Stage
  <2> QED BY <2>1, <2>2 DEF Next, SetClock, vars
<1> QED BY <1>2, <1>3, Invariant, PTL DEF FairSpec, Spec, Nears

LEMMA Nearer4 ==
    ASSUME NEW i \in Nat
    PROVE  FairSpec => (Nears(i + 4) => Nears(i))
<1>1. FairSpec => (Nears(i + 2) => Nears(i))
  <2>1. i + 1 \in Nat /\ (i + 1) + 1 = i + 2
    OBVIOUS
  <2> QED BY <2>1, Nearer
<1>2. FairSpec => (Nears(i + 4) => Nears(i + 2))
  <2>1. i + 2 \in Nat /\ i + 3 \in Nat /\ (i + 2) + 1 = i + 3 /\ (i + 3) + 1 = i + 4
    OBVIOUS
  <2> QED BY <2>1, Nearer
<1> QED BY <1>1, <1>2

LEMMA Nearer16 ==
    ASSUME NEW i \in Nat
    PROVE  FairSpec => (Nears(i + 16) => Nears(i))
<1>1. /\ i + 4 \in Nat /\ i + 8 \in Nat /\ i + 12 \in Nat
      /\ (i + 4) + 4 = i + 8 /\ (i + 8) + 4 = i + 12 /\ (i + 12) + 4 = i + 16
  OBVIOUS
<1> QED BY <1>1, Nearer4

LEMMA Nearer64 == FairSpec => (Nears(64) => Nears(0))
<1>1. /\ 0 \in Nat /\ 16 \in Nat /\ 32 \in Nat /\ 48 \in Nat
      /\ 0 + 16 = 16 /\ 16 + 16 = 32 /\ 32 + 16 = 48 /\ 48 + 16 = 64
  OBVIOUS
<1> QED BY <1>1, Nearer16

\* With a period as long as the code's, or shorter: as long as main is not
\* stopped for good, NET_HandleBcast announces again and again, wherever the
\* counter wraps, however long the work takes and however the clock is set.
THEOREM KeepsAnnouncingCorrect == SendPeriod <= 15 => (FairSpec => KeepsAnnouncing)
<1> SUFFICES ASSUME SendPeriod <= 15 PROVE FairSpec => KeepsAnnouncing
  OBVIOUS
<1>1. IInv => Rank <= 64 /\ ~ (Rank <= 0)
  <2> SUFFICES ASSUME IInv PROVE Rank <= 64 /\ ~ (Rank <= 0)
    OBVIOUS
  <2>1. Rank \in Nat \ {0} /\ Rank <= 4 * SendPeriod + 3 /\ SendPeriod \in Nat
    BY RankType, MainLoopAssumption
  <2> QED BY <2>1
<1>2. FairSpec => Nears(64)
  BY <1>1, Invariant, PTL DEF FairSpec, Nears
<1>3. FairSpec => Nears(0)
  BY <1>2, Nearer64
<1> QED BY <1>1, <1>3, Invariant, PTL DEF FairSpec, Nears, KeepsAnnouncing
=============================================================================
