------------------------------ MODULE MainLoop ------------------------------
(***************************************************************************)
(* The pace of a device: the main loop (app/main.c), the timer it measures *)
(* its work with (plat/common/posix_timers.c) and the counter by which     *)
(* NET_HandleBcast (app/net.c) decides on which calls it announces.        *)
(*                                                                         *)
(* Time is counted in units of which Loop make the 500ms of one iteration. *)
(* The differences of two readings of the clock are cut to a uint32_t, so  *)
(* the clock itself is kept modulo Wrap.                                   *)
(***************************************************************************)
EXTENDS Integers

CONSTANTS
    Loop,        \* the length of one iteration (500ms)
    Wrap,        \* the range of uint32_t, in units of time
    LongIsWide,  \* a long holds every uint32_t (LP64)
    WorkTimes,   \* bound: how long one call of NET_HandleBcast may take
    Jumps,       \* by how much the wall clock may be set, modulo Wrap
    SendPeriod,  \* the calls per announcement (15)
    CounterMod   \* the range of the counter (2^32)

ASSUME MainLoopAssumption ==
    /\ Wrap \in Nat \ {0}
    /\ Loop \in 1..(Wrap - 1)
    /\ LongIsWide \in BOOLEAN
    /\ WorkTimes \subseteq 0..(Wrap - 1) /\ WorkTimes # {}
    /\ Jumps \subseteq 0..(Wrap - 1)
    /\ SendPeriod \in Nat \ {0}
    /\ CounterMod \in Nat \ {0}

VARIABLES
    pc,       \* where main is
    wall,     \* gettimeofday(), modulo Wrap
    start,    \* startTime
    worked,   \* time really spent since PLAT_StartTimer
    jumped,   \* the clock was set since PLAT_StartTimer
    sleep,    \* the argument of PLAT_USleep
    counter,  \* net.c's counter
    calls     \* bound SendPeriod: the calls of NET_HandleBcast since the last
              \* that announced

vars == <<pc, wall, start, worked, jumped, sleep, counter, calls>>

Init ==
    /\ pc = "start"
    /\ wall \in 0..(Wrap - 1)
    /\ start = 0
    /\ worked = 0
    /\ jumped = FALSE
    /\ sleep = 0
    /\ counter = 0
    /\ calls = SendPeriod - 1

StartTimer ==
    /\ pc = "start"
    /\ start' = wall
    /\ worked' = 0
    /\ jumped' = FALSE
    /\ pc' = "work"
    /\ UNCHANGED <<wall, sleep, counter, calls>>

\* Mutants: never announce; announce one call late.
DueNever(c) == c % SendPeriod = SendPeriod
DueLate(c) == c % SendPeriod = 1

Due(c) == c % SendPeriod = 0

HandleBcast(w) ==
    /\ pc = "work"
    /\ wall' = (wall + w) % Wrap
    /\ worked' = w
    /\ calls' = IF Due(counter) THEN 0 ELSE IF calls < SendPeriod THEN calls + 1 ELSE calls
    /\ counter' = (counter + 1) % CounterMod
    /\ pc' = "end"
    /\ UNCHANGED <<start, jumped, sleep>>

\* Mutant: the difference is not cut.
ElapsedUncut == wall - start

\* PLAT_EndTimer: the difference, cut to a uint32_t.
Elapsed == (wall - start) % Wrap

\* What a long of 32 bits makes of the difference x of a long and a uint32_t.
ToSigned(x) == LET u == x % Wrap IN IF 2 * u >= Wrap THEN u - Wrap ELSE u

\* Mutants: the elapsed time is not subtracted; usecToSleep is an int.
WholeLoop == Loop
IntToSleep == ToSigned(Loop - Elapsed)

UsecToSleep == IF LongIsWide THEN Loop - Elapsed ELSE ToSigned(Loop - Elapsed)

EndTimer ==
    /\ pc = "end"
    /\ sleep' = IF UsecToSleep > 0 THEN UsecToSleep ELSE 0
    /\ pc' = IF UsecToSleep > 0 THEN "sleep" ELSE "start"
    /\ UNCHANGED <<wall, start, worked, jumped, counter, calls>>

USleep ==
    /\ pc = "sleep"
    /\ wall' = (wall + sleep) % Wrap
    /\ pc' = "start"
    /\ UNCHANGED <<start, worked, jumped, sleep, counter, calls>>

\* Somebody, or NTP, sets the clock that gettimeofday() reads.
SetClock(j) ==
    /\ wall' = (wall + j) % Wrap
    /\ jumped' = TRUE
    /\ UNCHANGED <<pc, start, worked, sleep, counter, calls>>

Work == StartTimer \/ EndTimer \/ USleep \/ \E w \in WorkTimes : HandleBcast(w)

Next == Work \/ \E j \in Jumps : SetClock(j)

Spec == Init /\ [][Next]_vars

\* The device runs: main never blocks for good.  It has something to do in
\* every state, so this is weak fairness of Work, written without ENABLED so
\* that it can be reasoned from.
FairSpec == Spec /\ []<><<Work>>_vars
-----------------------------------------------------------------------------
(* Properties *)

\* Every variable keeps its type.
TypeOK ==
    /\ pc \in {"start", "work", "end", "sleep"}
    /\ wall \in 0..(Wrap - 1)
    /\ start \in 0..(Wrap - 1)
    /\ worked \in 0..(Wrap - 1)
    /\ jumped \in BOOLEAN
    /\ sleep \in 0..(Wrap - 1)
    /\ counter \in 0..(CounterMod - 1)
    /\ calls \in Nat

\* NET_HandleBcast "should be called every 500ms" (net.h): main never sleeps
\* longer, wherever the clock is set.
SleepBounded == pc = "sleep" => sleep <= Loop

\* If the clock was left alone, an iteration takes 500ms to the end of its
\* sleep, also when the clock's uint32_t difference wraps; and only one whose
\* work took that long does not sleep.
KeepsPace ==
    [][EndTimer /\ ~ jumped =>
        IF worked < Loop THEN worked + sleep' = Loop ELSE pc' = "start"]_vars

Announce == pc = "work" /\ pc' = "end" /\ calls' = 0

\* No SendPeriod calls in a row go by without an announcement, not even where
\* the counter wraps.
NeverLate == calls < SendPeriod

\* A running device announces itself for ever.
KeepsAnnouncing == []<><<Announce>>_vars

-----------------------------------------------------------------------------
(* The inductive invariant *)

\* Unless the counter has just wrapped, calls is counted from a multiple of
\* the period.
CountedFrom(q) == counter = q * SendPeriod + calls + 1

IInv ==
    /\ TypeOK
    /\ NeverLate
    /\ counter = 0 \/ \E q \in Nat : CountedFrom(q)
=============================================================================
