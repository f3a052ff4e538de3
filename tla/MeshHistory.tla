----------------------------- MODULE MeshHistory -----------------------------
(***************************************************************************)
(* NodeMesh with a history variable that remembers what every device has   *)
(* ever listed, and the mapping under which it implements Directory.       *)
(***************************************************************************)
EXTENDS NodeMesh

VARIABLE told  \* told[n]: the entries device n has ever listed

hvars == <<vars, told>>

Entries(nl) == {nl[i] : i \in 1..Len(nl)}

HInit == Init /\ told = [n \in Nodes |-> {}]

HNext == Next /\ told' = [n \in Nodes |-> told[n] \cup Entries(nodeList'[n])]

HSpec == HInit /\ [][HNext]_hvars

FairHSpec == HSpec /\ DeviceFairness /\ LinkFairness /\ DrainsEnd

D == INSTANCE Directory WITH
        Links <- [n \in Nodes |-> Neighbours(n)],
        running <- {n \in Nodes : pc[n] # "off"},
        known <- [n \in Nodes |-> Entries(nodeList[n])]

\* The lists of NET_HandleBcast and NODE_MaybeAddEntry implement the sets of
\* Directory: knowledge moves one hop at a time, from a neighbour that had it.
ImplementsDirectory == D!DSpec
-----------------------------------------------------------------------------
(* What the proof needs: where the entries that are listed or under way come *)
(* from.                                                                     *)

FromHistory(n, es) ==
    es = << >> \/ \E m \in Neighbours(n) : \A i \in 1..Len(es) : es[i] \in told[m]

\* What a device lists it has ever listed, and what is queued at it or left of
\* the message it merges is from a neighbour that has ever listed all of it.
HInv ==
    /\ told \in [Nodes -> SUBSET Entry]
    /\ \A n \in Nodes :
         /\ Entries(nodeList[n]) \subseteq told[n]
         /\ \A i \in 1..Len(queue[n]) : FromHistory(n, queue[n][i].nodes)
         /\ FromHistory(n, rest[n])
=============================================================================
