---------------------------- MODULE NetInitProofs ----------------------------
(* POSIX_NetInit finds the right interfaces in any list, for any limit. *)
EXTENDS NetInit, SequenceTheorems, TLAPS

LEMMA CallsType ==
    /\ OpenCalls \in Seq(SetupCalls)
    /\ LateCalls \in Seq(SetupCalls)
<1>1. OpenCalls \in Seq(SetupCalls)
  BY DEF OpenCalls, SetupCalls
<1>2. McastCalls \in Seq(SetupCalls) /\ <<"malloc">> \in Seq(SetupCalls)
  BY DEF McastCalls, SetupCalls
<1>3. McastCalls \o <<"malloc">> \in Seq(SetupCalls)
  BY <1>2, ConcatProperties
<1> QED BY <1>1, <1>2, <1>3 DEF LateCalls

LEMMA InvInit == Init => IInv
<1> SUFFICES ASSUME Init PROVE IInv
  OBVIOUS
<1>1. ifs = << >> /\ bcast = << >>
  BY DEF Init
<1>2. ifs \in Seq(Kinds) /\ Len(ifs) = 0 /\ bcast \in Seq(Nat)
  BY <1>1
<1>3. TypeOK
  <2>1. todo \in Seq(SetupCalls)
    BY CallsType DEF Init
  <2>2. cur \in 1..(Len(ifs) + 1)
    BY <1>2 DEF Init
  <2>3. build \in Builds /\ phase = "open" /\ warned \in BOOLEAN
    BY DEF Init
  <2> QED BY <1>2, <2>1, <2>2, <2>3 DEF TypeOK
<1> QED BY <1>3 DEF Init, IInv, InterfacesComplete

\* Steps that leave the list, the position and the result alone.
LEMMA CallStep ==
    ASSUME IInv, TypeOK', UNCHANGED <<build, ifs, cur, bcast>>,
           \/ UNCHANGED phase
           \/ phase' = "exit"
           \/ phase = "late" /\ phase' = "ready"
           \/ phase = "name" /\ phase' = "list"
    PROVE  IInv'
BY DEF IInv, InterfacesComplete, InOrder, Found, Usable, Collected

LEMMA LeaveStep ==
    ASSUME IInv, TypeOK', LeaveLoop
    PROVE  IInv'
<1>1. Collected /\ phase' = "late" /\ UNCHANGED <<build, ifs, cur, bcast>>
  BY DEF IInv, LeaveLoop
<1>2. Len(bcast) \in Nat /\ Len(ifs) \in Nat /\ MaxInt \in Nat /\ cur \in 1..(Len(ifs) + 1)
  BY NetInitAssumption, LenProperties DEF IInv, TypeOK
<1>3. \A i \in 1..Len(bcast) : bcast[i] \in 1..Len(ifs) /\ Usable(bcast[i])
  BY <1>1, <1>2 DEF Collected
<1>4. ASSUME NEW j \in 1..Len(ifs), Usable(j), j \notin Found
      PROVE  Len(bcast) = MaxInt /\ \A i \in 1..MaxInt : bcast[i] < j
  <2>1. j >= cur
    BY <1>1, <1>2, <1>4 DEF Collected
  <2>2. Len(bcast) = MaxInt
    BY <1>1, <1>2, <2>1 DEF LeaveLoop, Full, Collected
  <2>3. \A i \in 1..Len(bcast) : bcast[i] \in 1..(cur - 1)
    BY <1>1 DEF Collected
  <2>4. \A i \in 1..MaxInt : bcast[i] < j
    BY <1>2, <2>1, <2>2, <2>3
  <2> QED BY <2>2, <2>4
<1>5. InterfacesComplete'
  BY <1>1, <1>3, <1>4 DEF InterfacesComplete, Collected, InOrder, Usable, Found
<1> QED BY <1>1, <1>5 DEF IInv

LEMMA SkipStep ==
    ASSUME IInv, TypeOK', SkipInterface
    PROVE  IInv'
<1>1. /\ Collected /\ phase = "list" /\ ~ Usable(cur)
      /\ cur' = cur + 1 /\ UNCHANGED <<build, phase, ifs, bcast>>
  BY DEF IInv, SkipInterface, AtInterface, Skipped, Usable
<1>2. cur \in Nat
  BY LenProperties DEF IInv, TypeOK
<1>3. \A i \in 1..Len(bcast) : bcast[i] \in 1..cur /\ Usable(bcast[i])
  BY <1>1, <1>2 DEF Collected
<1>4. \A j \in 1..cur : Usable(j) => j \in Found
  BY <1>1, <1>2 DEF Collected
<1>5. Collected'
  BY <1>1, <1>2, <1>3, <1>4 DEF Collected, InOrder, Usable, Found
<1> QED BY <1>1, <1>5 DEF IInv, InterfacesComplete

LEMMA AddStep ==
    ASSUME IInv, TypeOK', AddInterface
    PROVE  IInv'
<1>1. /\ Collected /\ phase' = "list" /\ Usable(cur) /\ Len(bcast) < MaxInt
      /\ cur' = cur + 1 /\ UNCHANGED <<build, ifs>>
      /\ bcast' = Append(bcast, cur)
  BY DEF IInv, AddInterface
<1>2. PICK k \in Nat : k = Len(bcast)
  BY LenProperties DEF IInv, TypeOK
<1>3. cur \in Nat /\ cur >= 1 /\ MaxInt \in Nat /\ bcast \in Seq(Nat)
  BY NetInitAssumption, LenProperties DEF IInv, TypeOK
<1>4. /\ Len(bcast') = k + 1
      /\ bcast'[k + 1] = cur
      /\ \A i \in 1..k : bcast'[i] = bcast[i]
  BY <1>1, <1>2, <1>3, AppendProperties
<1>5. \A i \in 1..k : bcast[i] \in 1..(cur - 1) /\ Usable(bcast[i])
  BY <1>1, <1>2 DEF Collected
<1>6. \A i \in 1..(k + 1) : bcast'[i] \in 1..cur /\ Usable(bcast'[i])
  BY <1>1, <1>3, <1>4, <1>5
<1>7. \A i, j \in 1..(k + 1) : i < j => bcast'[i] < bcast'[j]
  <2>1. \A i, j \in 1..k : i < j => bcast[i] < bcast[j]
    BY <1>1, <1>2 DEF Collected, InOrder
  <2>2. \A i \in 1..k : bcast[i] < cur
    BY <1>3, <1>5
  <2> QED BY <1>2, <1>4, <2>1, <2>2
<1>8. \A j \in 1..cur : Usable(j) => j \in Found'
  <2>1. Found' = Found \cup {cur}
    <3>1. Found' = {bcast'[i] : i \in 1..(k + 1)}
      BY <1>4 DEF Found
    <3>2. Found = {bcast[i] : i \in 1..k}
      BY <1>2 DEF Found
    <3> QED BY <1>2, <1>4, <3>1, <3>2
  <2>2. \A j \in 1..(cur - 1) : Usable(j) => j \in Found
    BY <1>1 DEF Collected
  <2> QED BY <1>3, <2>1, <2>2
<1>9. Collected'
  BY <1>1, <1>2, <1>3, <1>4, <1>6, <1>7, <1>8 DEF Collected, InOrder, Usable
<1> QED BY <1>1, <1>9 DEF IInv, InterfacesComplete

LEMMA TypeStep == IInv /\ [Next]_vars => TypeOK'
<1> SUFFICES ASSUME IInv, [Next]_vars PROVE TypeOK'
  OBVIOUS
<1>1. TypeOK /\ Len(ifs) \in Nat
  BY LenProperties DEF IInv, TypeOK
<1>2. CASE CallSucceeds
  BY <1>1, <1>2, HeadTailProperties DEF CallSucceeds, TypeOK
<1>3. CASE CallFails \/ ListFails \/ MaskAddress \/ NameFails \/ Finish
  BY <1>1, <1>3 DEF CallFails, ListFails, MaskAddress, NameFails, Finish, TypeOK
<1>4. CASE ListInterfaces
  <2>1. cur = 1 /\ ifs' \in Seq(Kinds)
    BY <1>4, NetInitAssumption DEF IInv, ListInterfaces
  <2>2. Len(ifs') \in Nat
    BY <2>1, LenProperties
  <2> QED BY <1>1, <1>4, <2>1, <2>2 DEF ListInterfaces, TypeOK
<1>5. CASE GuessInterface
  BY <1>1, <1>5, CallsType DEF GuessInterface, TypeOK
<1>6. CASE LeaveLoop
  BY <1>1, <1>6, CallsType DEF LeaveLoop, TypeOK
<1>7. CASE SkipInterface
  BY <1>1, <1>7 DEF SkipInterface, AtInterface, TypeOK
<1>8. CASE AddInterface
  <2>1. cur \in Nat /\ bcast \in Seq(Nat)
    BY <1>1 DEF TypeOK
  <2>2. bcast' \in Seq(Nat)
    BY <1>8, <2>1, AppendProperties DEF AddInterface
  <2>3. cur' \in 1..(Len(ifs) + 1)
    BY <1>1, <1>8 DEF IInv, AddInterface, TypeOK
  <2> QED BY <1>1, <1>8, <2>2, <2>3 DEF AddInterface, TypeOK
<1>9. CASE UNCHANGED vars
  BY <1>1, <1>9 DEF vars, TypeOK
<1> QED BY <1>2, <1>3, <1>4, <1>5, <1>6, <1>7, <1>8, <1>9 DEF Next

LEMMA InvStep == IInv /\ [Next]_vars => IInv'
<1> SUFFICES ASSUME IInv, [Next]_vars PROVE IInv'
  OBVIOUS
<1>1. TypeOK'
  BY TypeStep
<1>2. CASE CallSucceeds \/ CallFails \/ ListFails \/ NameFails \/ Finish \/ UNCHANGED vars
  BY <1>1, <1>2, CallStep DEF CallSucceeds, CallFails, ListFails, NameFails, Finish, vars
<1>3. CASE ListInterfaces
  <2>1. cur = 1 /\ bcast = << >> /\ phase' = "list" /\ UNCHANGED <<cur, bcast>>
    BY <1>3 DEF IInv, ListInterfaces
  <2>2. Collected'
    BY <2>1, NetInitAssumption DEF Collected, InOrder
  <2> QED BY <1>1, <2>1, <2>2 DEF IInv, InterfacesComplete
<1>4. CASE GuessInterface
  BY <1>1, <1>4 DEF GuessInterface, IInv, InterfacesComplete
<1>5. CASE LeaveLoop
  BY <1>1, <1>5, LeaveStep
<1>6. CASE SkipInterface
  BY <1>1, <1>6, SkipStep
<1>7. CASE MaskAddress
  <2>1. /\ Usable(cur) /\ cur <= Len(ifs) /\ Len(bcast) < MaxInt
        /\ phase' = "name" /\ UNCHANGED <<build, ifs, cur, bcast>> /\ Collected
    <3>1. cur \in 1..Len(ifs) /\ ifs \in Seq(Kinds)
      BY <1>7, LenProperties DEF MaskAddress, AtInterface, IInv, TypeOK
    <3>2. ifs[cur] \in Kinds
      BY <3>1, ElementOfSeq
    <3>3. Len(bcast) \in Nat /\ MaxInt \in Nat
      BY NetInitAssumption, LenProperties DEF IInv, TypeOK
    <3> QED
      BY <1>7, <3>1, <3>2, <3>3 DEF MaskAddress, AtInterface, Full, Skipped, Kinds, Usable, IInv
  <2> QED
    BY <1>1, <2>1 DEF IInv, InterfacesComplete, Collected, InOrder, Usable, Found
<1>8. CASE AddInterface
  BY <1>1, <1>8, AddStep
<1> QED BY <1>2, <1>3, <1>4, <1>5, <1>6, <1>7, <1>8 DEF Next

\* In any list of interfaces and for any CONFIG_NET_MAX_INT, POSIX_NetInit uses
\* exactly the first usable interfaces, each once.
THEOREM InterfacesCompleteCorrect == Spec => []InterfacesComplete
<1>1. IInv => InterfacesComplete
  BY DEF IInv
<1> QED BY <1>1, InvInit, InvStep, PTL DEF Spec

\* The loop that leaves a usable interface out stands on an interface.
LEMMA LeaveWarns ==
    ASSUME IInv, LeaveLoop
    PROVE  WarnsIfDropped'
<1>1. /\ Collected /\ UNCHANGED <<build, ifs, cur, bcast>> /\ warned' = (cur <= Len(ifs))
  BY DEF IInv, LeaveLoop
<1>2. Len(ifs) \in Nat /\ cur \in 1..(Len(ifs) + 1)
  BY LenProperties DEF IInv, TypeOK
<1>3. ASSUME NEW j \in 1..Len(ifs), Usable(j), j \notin Found
      PROVE  cur <= Len(ifs)
  BY <1>1, <1>2, <1>3 DEF Collected
<1> QED BY <1>1, <1>3 DEF WarnsIfDropped, Usable, Found

LEMMA WarnsStep == IInv /\ WarnsIfDropped /\ [Next]_vars => WarnsIfDropped'
<1> SUFFICES ASSUME IInv, WarnsIfDropped, [Next]_vars PROVE WarnsIfDropped'
  OBVIOUS
<1>1. CASE LeaveLoop
  BY <1>1, LeaveWarns
<1>2. CASE CallSucceeds \/ Finish \/ UNCHANGED vars
  BY <1>2 DEF CallSucceeds, Finish, vars, WarnsIfDropped, Usable, Found
<1>3. CASE CallFails \/ ListFails \/ ListInterfaces
  BY <1>3 DEF CallFails, ListFails, ListInterfaces, WarnsIfDropped
<1>4. CASE SkipInterface \/ MaskAddress \/ AddInterface \/ NameFails
  BY <1>4 DEF SkipInterface, AtInterface, MaskAddress, AddInterface, NameFails, WarnsIfDropped
<1>5. CASE GuessInterface
  BY <1>5 DEF GuessInterface, WarnsIfDropped
<1> QED BY <1>1, <1>2, <1>3, <1>4, <1>5 DEF Next

\* Whatever the list and the limit, no interface is left out in silence: when
\* one that could be used is missing from bcastAddr, the head of the loop has
\* met it, or one before it, with knownIfaces at CONFIG_NET_MAX_INT.
THEOREM WarnsIfDroppedCorrect == Spec => []WarnsIfDropped
<1>1. Init => WarnsIfDropped
  BY DEF Init, WarnsIfDropped
<1> QED BY <1>1, InvInit, InvStep, WarnsStep, PTL DEF Spec
-----------------------------------------------------------------------------
(* POSIX_NetInit ends *)

\* A host has no more interfaces than that.
ListsBound == \A s \in IfLists : Len(s) <= 1000

\* The calls and turns still to come, at most, not counting a getnameinfo()
\* that fails.
Rank ==
    CASE phase = "open"             -> Len(todo) + 1010
      [] phase \in {"list", "name"} -> (Len(ifs) + 1 - cur) + 6
      [] phase = "late"             -> Len(todo) + 1
      [] OTHER                      -> 0

LEMMA RankParts ==
    IInv => /\ Len(todo) \in Nat /\ Len(ifs) \in Nat /\ cur \in 1..(Len(ifs) + 1)
            /\ Rank \in Nat /\ (Ended => Rank = 0)
<1> SUFFICES ASSUME IInv
             PROVE  /\ Len(todo) \in Nat /\ Len(ifs) \in Nat /\ cur \in 1..(Len(ifs) + 1)
                    /\ Rank \in Nat /\ (Ended => Rank = 0)
  OBVIOUS
<1>1. todo \in Seq(SetupCalls) /\ ifs \in Seq(Kinds) /\ cur \in 1..(Len(ifs) + 1)
      /\ phase \in {"open", "list", "name", "late", "ready", "exit"}
  BY DEF IInv, TypeOK
<1>2. Len(todo) \in Nat /\ Len(ifs) \in Nat
  BY <1>1
<1>3. Rank \in Nat
  BY <1>1, <1>2 DEF Rank
<1>4. Ended => Rank = 0
  BY DEF Ended, Rank
<1> QED BY <1>1, <1>2, <1>3, <1>4

LEMMA RankTypeNext == IInv' => Rank' \in Nat
<1>1. IInv => Rank \in Nat
  BY RankParts
<1>2. (IInv => Rank \in Nat)'
  BY <1>1, PTL
<1> QED BY <1>2

LEMMA LateLength ==
    /\ Len(LateCalls) \in Nat /\ Len(LateCalls) <= 4
    /\ Len(OpenCalls) = 4
<1>1. Len(<<"malloc">>) = 1 /\ <<"malloc">> \in Seq(SetupCalls)
  BY DEF SetupCalls
<1>2. Len(McastCalls) = 3 /\ McastCalls \in Seq(SetupCalls)
  BY DEF McastCalls, SetupCalls
<1>3. Len(McastCalls \o <<"malloc">>) = 4
  <2>1. Len(McastCalls \o <<"malloc">>) = Len(McastCalls) + Len(<<"malloc">>)
    BY <1>1, <1>2, ConcatProperties
  <2>2. Len(McastCalls) + Len(<<"malloc">>) = 3 + 1
    BY <1>1, <1>2
  <2> QED BY <2>1, <2>2
<1>4. Len(OpenCalls) = 4
  BY DEF OpenCalls
<1> QED BY <1>1, <1>3, <1>4 DEF LateCalls

\* The name of an interface is looked up, with or without success.
Named ==
    \/ phase = "list" /\ phase' = "name"
    \/ phase = "name" /\ phase' = "list"

LEMMA RankFalls ==
    ASSUME ListsBound, IInv, Next
    PROVE  Rank' < Rank \/ (Rank' = Rank /\ Named)
<1>1. Len(todo) \in Nat /\ Len(ifs) \in Nat /\ cur \in 1..(Len(ifs) + 1)
  BY RankParts
<1>2. CASE CallSucceeds
  <2>1. todo # << >> /\ todo \in Seq(SetupCalls) /\ todo' = Tail(todo) /\ phase' = phase
        /\ phase \in {"open", "late"}
    BY <1>2 DEF CallSucceeds, IInv, TypeOK
  <2>2. Len(todo') = Len(todo) - 1
    BY <2>1
  <2>3. \/ Rank = Len(todo) + 1010 /\ Rank' = Len(todo') + 1010
        \/ Rank = Len(todo) + 1 /\ Rank' = Len(todo') + 1
    BY <2>1 DEF Rank
  <2> QED BY <1>1, <2>2, <2>3
<1>3. CASE CallFails \/ ListFails
  <2>1. phase \in {"open", "late"} /\ phase' = "exit"
    BY <1>3 DEF CallFails, ListFails
  <2>2. Rank' = 0 /\ Rank \in {Len(todo) + 1010, Len(todo) + 1}
    BY <2>1 DEF Rank
  <2> QED BY <1>1, <2>2
<1>4. CASE ListInterfaces
  <2>1. phase = "open" /\ phase' = "list" /\ cur' = cur /\ cur = 1 /\ ifs' \in IfLists
        /\ Len(todo) = 0
    BY <1>4 DEF ListInterfaces, IInv
  <2>2. Len(ifs') \in Nat /\ Len(ifs') <= 1000
    BY <2>1, NetInitAssumption DEF ListsBound
  <2>3. Rank = 0 + 1010 /\ Rank' = (Len(ifs') + 1 - 1) + 6
    BY <2>1 DEF Rank
  <2> QED BY <2>2, <2>3
<1>5. CASE GuessInterface \/ LeaveLoop
  <2>1. phase \in {"open", "list"} /\ phase' = "late" /\ todo' = LateCalls
    BY <1>5 DEF GuessInterface, LeaveLoop
  <2>2. Rank' = Len(LateCalls) + 1 /\ Rank \in {Len(todo) + 1010, (Len(ifs) + 1 - cur) + 6}
    BY <2>1 DEF Rank
  <2> QED BY <1>1, <2>2, LateLength
<1>6. CASE SkipInterface \/ AddInterface
  <2>1. phase \in {"list", "name"} /\ phase' = "list" /\ cur' = cur + 1 /\ ifs' = ifs /\ cur <= Len(ifs)
    BY <1>6 DEF SkipInterface, AddInterface, AtInterface, IInv
  <2>2. Rank = (Len(ifs) + 1 - cur) + 6 /\ Rank' = (Len(ifs) + 1 - (cur + 1)) + 6
    BY <2>1 DEF Rank
  <2> QED BY <1>1, <2>1, <2>2
<1>7. CASE MaskAddress \/ NameFails
  <2>1. Named /\ cur' = cur /\ ifs' = ifs
    BY <1>7 DEF MaskAddress, NameFails, AtInterface, Named
  <2> QED BY <2>1 DEF Rank, Named
<1>8. CASE Finish
  <2>1. Rank = Len(todo) + 1 /\ Rank' = 0
    BY <1>8 DEF Finish, Rank
  <2> QED BY <1>1, <2>1
<1> QED BY <1>2, <1>3, <1>4, <1>5, <1>6, <1>7, <1>8 DEF Next

\* At some time the rank is at most i.
Reach(i) == <>(Rank <= i)

LEMMA Nearer ==
    ASSUME NEW i \in Nat
    PROVE  ListsBound => (LiveSpec => (Reach(i + 1) => Reach(i)))
<1> SUFFICES ASSUME ListsBound PROVE LiveSpec => (Reach(i + 1) => Reach(i))
  OBVIOUS
<1>1. IInv /\ IInv' /\ Rank <= i + 1 /\ [Next]_vars => (Rank <= i + 1)'
  <2> SUFFICES ASSUME IInv, IInv', Rank <= i + 1, [Next]_vars PROVE Rank' <= i + 1
    OBVIOUS
  <2>1. Rank \in Nat /\ Rank' \in Nat
    BY RankParts, RankTypeNext
  <2>2. Rank' <= Rank
    <3>1. CASE Next
      BY <2>1, <3>1, RankFalls
    <3>2. CASE UNCHANGED vars
      BY <2>1, <3>2 DEF vars, Rank
    <3> QED BY <3>1, <3>2
  <2> QED BY <2>1, <2>2
<1>2. IInv /\ IInv' /\ Rank <= i + 1 /\ <<Next>>_vars
        => (Rank <= i)' \/ phase = "name" \/ (phase = "name")'
  <2> SUFFICES ASSUME IInv, IInv', Rank <= i + 1, Next, ~ Named PROVE Rank' <= i
    BY DEF Named
  <2>1. Rank \in Nat /\ Rank' \in Nat /\ Rank' < Rank
    BY RankParts, RankTypeNext, RankFalls
  <2> QED BY <2>1
<1>3. IInv /\ IInv' /\ Rank <= i + 1 /\ <<AddInterface>>_vars => (Rank <= i)'
  <2> SUFFICES ASSUME IInv, IInv', Rank <= i + 1, AddInterface PROVE Rank' <= i
    OBVIOUS
  <2>1. cur' = cur + 1 /\ ifs' = ifs /\ phase = "name" /\ phase' = "list"
    BY DEF AddInterface
  <2>2. Rank = (Len(ifs) + 1 - cur) + 6 /\ Rank' = (Len(ifs) + 1 - (cur + 1)) + 6
    BY <2>1 DEF Rank
  <2>3. Len(ifs) \in Nat /\ cur \in Nat
    BY RankParts
  <2> QED BY <2>2, <2>3
<1>4. IInv /\ Ended => Rank <= i
  BY RankParts
<1> QED BY <1>1, <1>2, <1>3, <1>4, InvInit, InvStep, PTL DEF LiveSpec, Spec, Reach

LEMMA Nearer4 ==
    ASSUME NEW i \in Nat
    PROVE  ListsBound => (LiveSpec => (Reach(i + 4) => Reach(i)))
<1>1. /\ i + 1 \in Nat /\ i + 2 \in Nat /\ i + 3 \in Nat
      /\ (i + 1) + 1 = i + 2 /\ (i + 2) + 1 = i + 3 /\ (i + 3) + 1 = i + 4
  BY SMT
<1> QED BY <1>1, Nearer, SMT

LEMMA Nearer16 ==
    ASSUME NEW i \in Nat
    PROVE  ListsBound => (LiveSpec => (Reach(i + 16) => Reach(i)))
<1>1. /\ i + 4 \in Nat /\ i + 8 \in Nat /\ i + 12 \in Nat
      /\ (i + 4) + 4 = i + 8 /\ (i + 8) + 4 = i + 12 /\ (i + 12) + 4 = i + 16
  BY SMT
<1> QED BY <1>1, Nearer4, SMT

LEMMA Nearer64 ==
    ASSUME NEW i \in Nat
    PROVE  ListsBound => (LiveSpec => (Reach(i + 64) => Reach(i)))
<1>1. /\ i + 16 \in Nat /\ i + 32 \in Nat /\ i + 48 \in Nat
      /\ (i + 16) + 16 = i + 32 /\ (i + 32) + 16 = i + 48 /\ (i + 48) + 16 = i + 64
  BY SMT
<1> QED BY <1>1, Nearer16, SMT

LEMMA Nearer256 ==
    ASSUME NEW i \in Nat
    PROVE  ListsBound => (LiveSpec => (Reach(i + 256) => Reach(i)))
<1>1. /\ i + 64 \in Nat /\ i + 128 \in Nat /\ i + 192 \in Nat
      /\ (i + 64) + 64 = i + 128 /\ (i + 128) + 64 = i + 192 /\ (i + 192) + 64 = i + 256
  BY SMT
<1> QED BY <1>1, Nearer64, SMT

LEMMA Nearer1024 ==
    ASSUME NEW i \in Nat
    PROVE  ListsBound => (LiveSpec => (Reach(i + 1024) => Reach(i)))
<1>1. /\ i + 256 \in Nat /\ i + 512 \in Nat /\ i + 768 \in Nat
      /\ (i + 256) + 256 = i + 512 /\ (i + 512) + 256 = i + 768 /\ (i + 768) + 256 = i + 1024
  BY SMT
<1> QED BY <1>1, Nearer256, SMT

\* On any list of interfaces, and whichever calls fail, POSIX_NetInit returns or
\* the program exits, if no getnameinfo() fails for ever.
THEOREM InitEndsCorrect == ListsBound => (LiveSpec => InitEnds)
<1> SUFFICES ASSUME ListsBound PROVE LiveSpec => InitEnds
  OBVIOUS
<1>1. Init => Rank <= 1024
  <2>1. Init => Rank = Len(OpenCalls) + 1010
    BY DEF Init, Rank
  <2>2. Len(OpenCalls) + 1010 <= 1024
    BY LateLength
  <2> QED BY <2>1, <2>2
<1>2. 0 \in Nat /\ 0 + 1024 = 1024
  OBVIOUS
<1>3. LiveSpec => (Reach(1024) => Reach(0))
  BY <1>2, Nearer1024
<1>4. IInv /\ Rank <= 0 => Ended
  <2> SUFFICES ASSUME IInv, ~ Ended PROVE Rank \in Nat /\ Rank > 0
    BY RankParts
  <2>1. phase \in {"open", "list", "name", "late"}
    BY DEF Ended, IInv, TypeOK
  <2> QED BY <2>1, RankParts DEF Rank
<1> QED BY <1>1, <1>3, <1>4, InvInit, InvStep, PTL DEF LiveSpec, Spec, Reach, InitEnds
=============================================================================
