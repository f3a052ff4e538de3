------------------------------- MODULE NetInit -------------------------------
(***************************************************************************)
(* POSIX_NetInit (plat/common/posix_net.c): open and set up the broadcast  *)
(* socket, find the interfaces to announce on, set up the multicast        *)
(* socket, and NET_Init's buffer.  A step is one system call and what the  *)
(* code does until the next one.                                           *)
(***************************************************************************)
EXTENDS Naturals, Sequences

CONSTANTS
    MaxInt,    \* CONFIG_NET_MAX_INT
    Builds,    \* the builds: multi is CONFIG_PLAT_CAN_HAVE_MULTIPLE_INTERFACES,
               \* mcast is CONFIG_PLAT_SUPPORTS_MULTICAST
    IfLists,   \* the lists getifaddrs() may return
    Failing    \* the calls that may fail

\* What the loop over the interfaces tells apart: no address, an address that
\* is not IPv4, the loopback interface, any other one with an IPv4 address.
Kinds == {"noaddr", "other", "lo", "inet"}

SetupCalls ==
    {"socket", "reuseaddr", "broadcast", "bind",
     "mcast_socket", "mcast_reuseaddr", "mcast_loop", "malloc"}

OpenCalls == <<"socket", "reuseaddr", "broadcast", "bind">>

McastCalls == <<"mcast_socket", "mcast_reuseaddr", "mcast_loop">>

ASSUME NetInitAssumption ==
    /\ MaxInt \in Nat \ {0}
    /\ Builds \subseteq [multi : BOOLEAN, mcast : BOOLEAN]
    /\ IfLists \subseteq Seq(Kinds)

VARIABLES
    build,     \* the configuration of this build: never changes
    phase,     \* where POSIX_NetInit is
    todo,      \* the calls left in the phases "open" and "late"
    ifs,       \* the list of getifaddrs()
    cur,       \* the position of `ifaces`; past the end: NULL
    bcast,     \* bcastAddr[0 .. knownIfaces-1]: the positions they come from
    warned     \* "Exceeded maximum number of broadcast interfaces" was printed

vars == <<build, phase, todo, ifs, cur, bcast, warned>>

LateCalls == IF build.mcast THEN McastCalls \o <<"malloc">> ELSE <<"malloc">>

Init ==
    /\ build \in Builds
    /\ phase = "open"
    /\ todo = OpenCalls
    /\ ifs = << >>
    /\ cur = 1
    /\ bcast = << >>
    /\ warned = FALSE

CallSucceeds ==
    /\ phase \in {"open", "late"}
    /\ todo # << >>
    /\ todo' = Tail(todo)
    /\ UNCHANGED <<build, phase, ifs, cur, bcast, warned>>

\* perror() and APP_CleanupAndExit(1).
CallFails ==
    /\ phase \in {"open", "late"}
    /\ todo # << >>
    /\ Head(todo) \in Failing
    /\ phase' = "exit"
    /\ UNCHANGED <<build, todo, ifs, cur, bcast, warned>>

ListInterfaces ==
    /\ build.multi
    /\ phase = "open" /\ todo = << >>
    /\ ifs' \in IfLists
    /\ phase' = "list"
    /\ UNCHANGED <<build, todo, cur, bcast, warned>>

ListFails ==
    /\ build.multi
    /\ phase = "open" /\ todo = << >>
    /\ "getifaddrs" \in Failing
    /\ phase' = "exit"
    /\ UNCHANGED <<build, todo, ifs, cur, bcast, warned>>

\* Without getifaddrs(): one interface, its address guessed from gethostid().
GuessInterface ==
    /\ ~ build.multi
    /\ phase = "open" /\ todo = << >>
    /\ bcast' = <<1>>
    /\ phase' = "late"
    /\ todo' = LateCalls
    /\ UNCHANGED <<build, ifs, cur, warned>>

AtInterface == phase = "list" /\ cur <= Len(ifs)

\* Mutant: the limit tested one interface too late.
FullLate == Len(bcast) > MaxInt

Full == Len(bcast) >= MaxInt

\* Mutant: the loopback interface is used like any other.
SkippedButLo(kind) == kind \in {"noaddr", "other"}

Skipped(kind) == kind \in {"noaddr", "other", "lo"}

\* Mutant: the warning is lost when the last interface is the one left out.
LeaveQuietly ==
    /\ phase = "list"
    /\ cur > Len(ifs) \/ Full
    /\ warned' = (cur < Len(ifs))
    /\ phase' = "late"
    /\ todo' = LateCalls
    /\ UNCHANGED <<build, ifs, cur, bcast>>

\* The loop ends, at the end of the list or at the limit.
LeaveLoop ==
    /\ phase = "list"
    /\ cur > Len(ifs) \/ Full
    /\ warned' = (cur <= Len(ifs))
    /\ phase' = "late"
    /\ todo' = LateCalls
    /\ UNCHANGED <<build, ifs, cur, bcast>>

\* Mutants: `continue` in place of `goto out`; the list advanced twice.
SkipStays ==
    /\ AtInterface /\ ~ Full
    /\ Skipped(ifs[cur])
    /\ UNCHANGED vars

SkipTwo ==
    /\ AtInterface /\ ~ Full
    /\ Skipped(ifs[cur])
    /\ cur' = cur + 2
    /\ UNCHANGED <<build, phase, todo, ifs, bcast, warned>>

SkipInterface ==
    /\ AtInterface /\ ~ Full
    /\ Skipped(ifs[cur])
    /\ cur' = cur + 1
    /\ UNCHANGED <<build, phase, todo, ifs, bcast, warned>>

\* ifa_addr is turned into the broadcast address in place, before its name
\* is looked up.
MaskAddress ==
    /\ AtInterface /\ ~ Full
    /\ ~ Skipped(ifs[cur])
    /\ phase' = "name"
    /\ UNCHANGED <<build, todo, ifs, cur, bcast, warned>>

AddInterface ==
    /\ phase = "name"
    /\ bcast' = Append(bcast, cur)
    /\ cur' = cur + 1
    /\ phase' = "list"
    /\ UNCHANGED <<build, todo, ifs, warned>>

\* getnameinfo() fails: `continue`, with `ifaces` where it was.
NameFails ==
    /\ phase = "name"
    /\ "getnameinfo" \in Failing
    /\ phase' = "list"
    /\ UNCHANGED <<build, todo, ifs, cur, bcast, warned>>

Finish ==
    /\ phase = "late" /\ todo = << >>
    /\ phase' = "ready"
    /\ UNCHANGED <<build, todo, ifs, cur, bcast, warned>>

Next ==
    \/ CallSucceeds \/ CallFails
    \/ ListInterfaces \/ ListFails \/ GuessInterface
    \/ LeaveLoop \/ SkipInterface \/ MaskAddress \/ AddInterface \/ NameFails
    \/ Finish

Spec == Init /\ [][Next]_vars

\* One thread, no waiting: POSIX_NetInit goes on as long as it can.
FairSpec == Spec /\ WF_vars(Next)

\* ... and a getnameinfo() that fails for a while succeeds in the end.
TransientSpec == FairSpec /\ SF_vars(AddInterface)

Ended == phase \in {"ready", "exit"}

\* The same without ENABLED, to be reasoned from: before the end there is always
\* a call to make, and getnameinfo() may succeed whenever it is called.
LiveSpec ==
    /\ Spec
    /\ []<>Ended \/ []<><<Next>>_vars
    /\ []<>(phase = "name") => []<><<AddInterface>>_vars
-----------------------------------------------------------------------------
(* Properties *)

\* Every variable keeps its type.
TypeOK ==
    /\ build \in Builds
    /\ phase \in {"open", "list", "name", "late", "ready", "exit"}
    /\ todo \in Seq(SetupCalls)
    /\ ifs \in Seq(Kinds)
    /\ cur \in 1..(Len(ifs) + 1)
    /\ bcast \in Seq(Nat)
    /\ warned \in BOOLEAN

Usable(j) == ifs[j] = "inet"

Found == {bcast[i] : i \in 1..Len(bcast)}

InOrder == \A i, j \in 1..Len(bcast) : i < j => bcast[i] < bcast[j]

\* Each interface is used at most once, in the order of the list, and only one
\* with an IPv4 address that is not the loopback; one that could be used is
\* left out only for want of room in bcastAddr, and then it comes after all
\* those used.
InterfacesComplete ==
    build.multi /\ phase \in {"late", "ready"} =>
        /\ Len(bcast) <= MaxInt
        /\ InOrder
        /\ \A i \in 1..Len(bcast) : bcast[i] \in 1..Len(ifs) /\ Usable(bcast[i])
        /\ \A j \in 1..Len(ifs) :
             Usable(j) /\ j \notin Found =>
                 Len(bcast) = MaxInt /\ \A i \in 1..MaxInt : bcast[i] < j

\* POSIX_NetInit comes to an end, whichever call fails: an interface whose
\* getnameinfo() fails is left out ("continuing without it").
InitEnds == <>Ended

\* Whenever an interface that could be used had to be left out, the user has
\* been told to rebuild with a larger CONFIG_NET_MAX_INT.
WarnsIfDropped ==
    /\ build.multi /\ phase \in {"late", "ready"}
    /\ \E j \in 1..Len(ifs) : Usable(j) /\ j \notin Found
    => warned

-----------------------------------------------------------------------------
(* The inductive invariant *)

\* In the loop: exactly the usable interfaces before `ifaces` have been added.
Collected ==
    /\ Len(bcast) <= MaxInt
    /\ InOrder
    /\ \A i \in 1..Len(bcast) : bcast[i] \in 1..(cur - 1) /\ Usable(bcast[i])
    /\ \A j \in 1..(cur - 1) : Usable(j) => j \in Found

IInv ==
    /\ TypeOK
    /\ InterfacesComplete
    /\ phase = "open" => cur = 1 /\ bcast = << >>
    /\ phase \in {"list", "name"} => Collected
    /\ phase = "name" => cur <= Len(ifs) /\ Usable(cur) /\ Len(bcast) < MaxInt
=============================================================================
