------------------------------ MODULE Directory ------------------------------
(***************************************************************************)
(* What discovery promises, without messages: every running device keeps a *)
(* set of node entries.  It starts with its own; from then on it only      *)
(* learns, one entry at a time, something a neighbour has listed at some   *)
(* time, and only of nodes it does not know yet.  A device that stops      *)
(* forgets everything.                                                     *)
(***************************************************************************)
EXTENDS Naturals

CONSTANTS
    Nodes,       \* the devices
    Uuid,        \* Uuid[n]: the UUID of device n
    Links,       \* Links[n]: the devices that share a network with n
    MaxLaunch    \* bound: MaxLaunch[n] launches of device n

VARIABLES
    running,     \* the devices that are switched on
    launch,      \* how often each device was started
    known,       \* known[n]: the entries device n lists
    told         \* told[n]: the entries device n has ever listed

dvars == <<running, launch, known, told>>

Own(n, l) == [uuid |-> Uuid[n], info |-> l]

DInit ==
    /\ running = {}
    /\ launch = [n \in Nodes |-> 0]
    /\ known = [n \in Nodes |-> {}]
    /\ told = [n \in Nodes |-> {}]

Start(n) ==
    /\ n \notin running
    /\ launch[n] < MaxLaunch[n]
    /\ running' = running \cup {n}
    /\ launch' = [launch EXCEPT ![n] = @ + 1]
    /\ known' = [known EXCEPT ![n] = {Own(n, launch[n] + 1)}]
    /\ told' = [told EXCEPT ![n] = @ \cup {Own(n, launch[n] + 1)}]

Stop(n) ==
    /\ n \in running
    /\ running' = running \ {n}
    /\ known' = [known EXCEPT ![n] = {}]
    /\ UNCHANGED <<launch, told>>

Learn(n, m, e) ==
    /\ n \in running
    /\ e \in told[m]
    /\ \A f \in known[n] : f.uuid # e.uuid
    /\ known' = [known EXCEPT ![n] = @ \cup {e}]
    /\ told' = [told EXCEPT ![n] = @ \cup {e}]
    /\ UNCHANGED <<running, launch>>

DNext ==
    \E n \in Nodes :
        \/ Start(n)
        \/ Stop(n)
        \/ \E m \in Links[n] : \E e \in told[m] : Learn(n, m, e)

DSpec == DInit /\ [][DNext]_dvars
=============================================================================
