------------------------------ MODULE NodeMesh ------------------------------
(***************************************************************************)
(* The discovery protocol of EverythingNet: every device runs              *)
(* NET_HandleBcast (app/net.c) in its main loop (app/main.c), announces    *)
(* its node list by UDP broadcast on each of its interfaces, and merges    *)
(* the lists it hears (app/node.c).  A device is one process; what other   *)
(* devices, the network and the operating system do may happen between     *)
(* any two of its system calls, so a step is one recvfrom, one             *)
(* NODE_MaybeAddEntry or one sendto.                                       *)
(*                                                                         *)
(* A node entry is abstracted to its UUID and to the launch of the device  *)
(* whose data (name, PLAT_Info) it holds: the code copies it verbatim.     *)
(***************************************************************************)
EXTENDS Naturals, Sequences, FiniteSets

CONSTANTS
    Nodes,       \* the devices
    Networks,    \* the broadcast domains
    Ifaces,      \* Ifaces[n]: the networks behind bcastAddr[0 .. knownIfaces-1]
    Uuids,       \* the values NODE_LocalUUID may have
    NoUuid,      \* NODE_DiscoverySourceNode == NULL
    Uuid,        \* Uuid[n]: the NODE_LocalUUID of device n
    SendPeriod,  \* calls of NET_HandleBcast per announcement (15)
    CounterMod,  \* the range of the uint32_t counter (2^32)
    QueueCap,    \* bound: the datagrams that fit in a socket's receive buffer
    MaxLaunch,   \* bound: MaxLaunch[n] launches of device n
    Faults       \* which faults the environment injects

FaultKinds == {"loss", "sendto", "recv", "junk", "reorder", "duplicate"}

ASSUME MeshAssumption ==
    /\ Ifaces \in [Nodes -> Seq(Networks)]
    /\ Uuid \in [Nodes -> Uuids]
    /\ NoUuid \notin Uuids
    /\ SendPeriod \in Nat \ {0}
    /\ CounterMod \in Nat \ {0}
    /\ QueueCap \in Nat
    /\ MaxLaunch \in [Nodes -> Nat]
    /\ Faults \subseteq FaultKinds

VARIABLES
    pc,        \* "off", or where the device is in NET_HandleBcast
    launch,    \* how often the device has been started
    nodeList,  \* NODE_NodeList
    credit,    \* credit[n][i]: the source printed when nodeList[n][i] was found
    counter,   \* net.c's counter
    queue,     \* the receive buffer of bcastSock
    reads,     \* recvfrom calls made by this PLAT_NetCheckBcastData
    rest,      \* the entries of msg not merged yet
    source,    \* NODE_DiscoverySourceNode; NoUuid: found by broadcast
    iface      \* next interface of PLAT_NetDoBroadcast

vars == <<pc, launch, nodeList, credit, counter, queue, reads, rest, source, iface>>

-----------------------------------------------------------------------------
(* Data *)

Entry == [uuid : Uuids, info : Nat]

Datagram == [uuid : Uuids \cup {NoUuid}, nodes : Seq(Entry)]

\* What PLAT_NetCheckBcastData refuses: a wrong magic, or a length that
\* differs from the one received.
Junk == [uuid |-> NoUuid, nodes |-> << >>]

LocalEntry(n, l) == [uuid |-> Uuid[n], info |-> l]

Knows(nl, u) == \E i \in 1..Len(nl) : nl[i].uuid = u

Known(n) == {nodeList[n][i].uuid : i \in 1..Len(nodeList[n])}

KnownIfaces(n) == Len(Ifaces[n])

OnNetwork(n, w) == \E i \in 1..Len(Ifaces[n]) : Ifaces[n][i] = w

\* Devices whose socket (bound to INADDR_ANY) gets a broadcast on w: the
\* sender's own socket is one of them.
Listeners(w) == {m \in Nodes : pc[m] # "off" /\ OnNetwork(m, w)}

Receivers(w) ==
    IF "loss" \in Faults THEN SUBSET Listeners(w) ELSE {Listeners(w)}

Enqueue(q, d) == IF Len(q) < QueueCap THEN Append(q, d) ELSE q

-----------------------------------------------------------------------------
(* NODE_MaybeAddEntry *)

\* Mutants: no search for the UUID; the new entry goes over the last one (no
\* ENTRY_NEXT(lastEntry)), or stays blank (no memcpy).
AddUnchecked(nl, e) == Append(nl, e)
AddOver(nl, e) == IF Knows(nl, e.uuid) THEN nl ELSE [nl EXCEPT ![Len(nl)] = e]
AddBlank(nl, e) == IF Knows(nl, e.uuid) THEN nl ELSE Append(nl, [e EXCEPT !.info = 0])

MaybeAddEntry(nl, e) == IF Knows(nl, e.uuid) THEN nl ELSE Append(nl, e)

AddCredit(nl, cr, e, src) == IF Knows(nl, e.uuid) THEN cr ELSE Append(cr, src)

\* Mutants: the source is never set, or always the entry before.
SourceNeverSet(src, e) == src
SourceIsPrevious(src, e) == e.uuid

\* NODE_CheckForNewNodes: every entry after the first is credited to the
\* first entry of the message.
NextSource(src, e) == IF src = NoUuid THEN e.uuid ELSE src

\* Mutant: the receive loop does not reset the source.
SourceKept(src, e, last) == NextSource(src, e)

\* After the last entry the receive loop starts over and resets it.
SourceAfter(src, e, last) == IF last THEN NoUuid ELSE NextSource(src, e)

-----------------------------------------------------------------------------
(* The process of one device *)

Init ==
    /\ pc = [n \in Nodes |-> "off"]
    /\ launch = [n \in Nodes |-> 0]
    /\ nodeList = [n \in Nodes |-> << >>]
    /\ credit = [n \in Nodes |-> << >>]
    /\ counter = [n \in Nodes |-> 0]
    /\ queue = [n \in Nodes |-> << >>]
    /\ reads = [n \in Nodes |-> 0]
    /\ rest = [n \in Nodes |-> << >>]
    /\ source = [n \in Nodes |-> NoUuid]
    /\ iface = [n \in Nodes |-> 1]

\* PLAT_Init binds the socket, NODE_Init makes the local entry.
Boot(n) ==
    /\ pc[n] = "off"
    /\ launch[n] < MaxLaunch[n]
    /\ launch' = [launch EXCEPT ![n] = @ + 1]
    /\ nodeList' = [nodeList EXCEPT ![n] = <<LocalEntry(n, launch[n] + 1)>>]
    /\ credit' = [credit EXCEPT ![n] = <<NoUuid>>]
    /\ counter' = [counter EXCEPT ![n] = 0]
    /\ pc' = [pc EXCEPT ![n] = "recv"]
    /\ UNCHANGED <<queue, reads, rest, source, iface>>

\* The process dies at any point: nothing is persisted.
Crash(n) ==
    /\ pc[n] # "off"
    /\ launch[n] < MaxLaunch[n]
    /\ pc' = [pc EXCEPT ![n] = "off"]
    /\ nodeList' = [nodeList EXCEPT ![n] = << >>]
    /\ credit' = [credit EXCEPT ![n] = << >>]
    /\ queue' = [queue EXCEPT ![n] = << >>]
    /\ reads' = [reads EXCEPT ![n] = 0]
    /\ rest' = [rest EXCEPT ![n] = << >>]
    /\ source' = [source EXCEPT ![n] = NoUuid]
    /\ iface' = [iface EXCEPT ![n] = 1]
    /\ counter' = [counter EXCEPT ![n] = 0]
    /\ UNCHANGED launch

\* Mutants: announce on every call, or never.
DueAlways(c) == TRUE
DueNever(c) == c % SendPeriod = SendPeriod

NextCount(c) == (c + 1) % CounterMod

Due(c) == c % SendPeriod = 0

\* The break out of the receive loop, up to the test of counter.
EndDrain(n) ==
    /\ reads' = [reads EXCEPT ![n] = 0]
    /\ IF Due(counter[n])
       THEN /\ pc' = [pc EXCEPT ![n] = "send"]
            /\ iface' = [iface EXCEPT ![n] = 1]
            /\ UNCHANGED counter
       ELSE /\ counter' = [counter EXCEPT ![n] = NextCount(@)]
            /\ UNCHANGED <<pc, iface>>
    /\ UNCHANGED <<launch, nodeList, credit, rest, source>>

\* poll() reports nothing, or the receive loop over the interfaces is over.
\* PLAT_NetCheckMcastData, called next, finds nothing: its socket joins no group.
NoData(n) ==
    /\ pc[n] = "recv"
    /\ \/ reads[n] = 0 /\ queue[n] = << >>
       \/ reads[n] = KnownIfaces(n)
    /\ EndDrain(n)
    /\ UNCHANGED queue

\* recvfrom() says EAGAIN: "no data from that interface".
Again(n) ==
    /\ pc[n] = "recv"
    /\ reads[n] \in 1..(KnownIfaces(n) - 1)
    /\ queue[n] = << >>
    /\ reads' = [reads EXCEPT ![n] = @ + 1]
    /\ UNCHANGED <<pc, launch, nodeList, credit, counter, queue, rest, source, iface>>

\* poll() or recvfrom() fails: PLAT_NetCheckBcastData returns -1.
RecvError(n) ==
    /\ "recv" \in Faults
    /\ pc[n] = "recv"
    /\ EndDrain(n)
    /\ UNCHANGED queue

CanRead(n) ==
    /\ pc[n] = "recv"
    /\ reads[n] < KnownIfaces(n)
    /\ queue[n] # << >>

Refuse(n) ==
    /\ CanRead(n)
    /\ Head(queue[n]) = Junk
    /\ queue' = [queue EXCEPT ![n] = Tail(@)]
    /\ reads' = [reads EXCEPT ![n] = @ + 1]
    /\ UNCHANGED <<pc, launch, nodeList, credit, counter, rest, source, iface>>

\* An empty datagram, errno not left at EAGAIN: taken for an error.
RefuseEmpty(n) ==
    /\ CanRead(n)
    /\ Head(queue[n]) = Junk
    /\ queue' = [queue EXCEPT ![n] = Tail(@)]
    /\ EndDrain(n)

\* Our own announcement comes back: the receive loop ends at once, whatever
\* is queued behind it.
Loopback(n) ==
    /\ CanRead(n)
    /\ Head(queue[n]) # Junk
    /\ Head(queue[n]).uuid = Uuid[n]
    /\ queue' = [queue EXCEPT ![n] = Tail(@)]
    /\ EndDrain(n)

\* Mutant: the datagram is read and left in the buffer (MSG_PEEK).
AcceptPeeked(n) ==
    /\ CanRead(n)
    /\ Head(queue[n]) # Junk
    /\ Head(queue[n]).uuid # Uuid[n]
    /\ rest' = [rest EXCEPT ![n] = Head(queue[n]).nodes]
    /\ source' = [source EXCEPT ![n] = NoUuid]
    /\ reads' = [reads EXCEPT ![n] = 0]
    /\ pc' = [pc EXCEPT ![n] = "merge"]
    /\ UNCHANGED <<launch, nodeList, credit, counter, queue, iface>>

Accept(n) ==
    /\ CanRead(n)
    /\ Head(queue[n]) # Junk
    /\ Head(queue[n]).uuid # Uuid[n]
    /\ queue' = [queue EXCEPT ![n] = Tail(@)]
    /\ rest' = [rest EXCEPT ![n] = Head(queue[n]).nodes]
    /\ source' = [source EXCEPT ![n] = NoUuid]
    /\ reads' = [reads EXCEPT ![n] = 0]
    /\ pc' = [pc EXCEPT ![n] = "merge"]
    /\ UNCHANGED <<launch, nodeList, credit, counter, iface>>

\* One turn of the loop of NODE_CheckForNewNodes.
Merge(n) ==
    /\ pc[n] = "merge"
    /\ LET e == Head(rest[n])
           last == Tail(rest[n]) = << >>
       IN  /\ nodeList' = [nodeList EXCEPT ![n] = MaybeAddEntry(@, e)]
           /\ credit' = [credit EXCEPT ![n] = AddCredit(nodeList[n], @, e, source[n])]
           /\ source' = [source EXCEPT ![n] = SourceAfter(@, e, last)]
           /\ rest' = [rest EXCEPT ![n] = Tail(@)]
           /\ pc' = [pc EXCEPT ![n] = IF last THEN "recv" ELSE "merge"]
    /\ UNCHANGED <<launch, counter, queue, reads, iface>>

\* Mutant: only the device's own entry is announced.
OwnEntryOnly(n) == [uuid |-> Uuid[n], nodes |-> <<Head(nodeList[n])>>]

Announcement(n) == [uuid |-> Uuid[n], nodes |-> nodeList[n]]

\* One sendto() of PLAT_NetDoBroadcast: got is who receives it.
SendIface(n, got) ==
    /\ pc[n] = "send"
    /\ iface[n] <= KnownIfaces(n)
    /\ got \in Receivers(Ifaces[n][iface[n]])
    /\ queue' = [m \in Nodes |->
                   IF m \in got THEN Enqueue(queue[m], Announcement(n)) ELSE queue[m]]
    /\ iface' = [iface EXCEPT ![n] = @ + 1]
    /\ UNCHANGED <<pc, launch, nodeList, credit, counter, reads, rest, source>>

\* sendto() fails: PLAT_NetDoBroadcast returns, the interfaces after this one
\* get nothing.
SendFails(n) ==
    /\ pc[n] = "send"
    /\ iface[n] <= KnownIfaces(n)
    /\ "sendto" \in Faults
    /\ iface' = [iface EXCEPT ![n] = KnownIfaces(n) + 1]
    /\ UNCHANGED <<pc, launch, nodeList, credit, counter, queue, reads, rest, source>>

\* The announcement is out (PLAT_NetDoMulticast reaches nobody): counter++, and
\* the main loop sleeps.
FinishTick(n) ==
    /\ pc[n] = "send"
    /\ iface[n] > KnownIfaces(n)
    /\ counter' = [counter EXCEPT ![n] = NextCount(@)]
    /\ iface' = [iface EXCEPT ![n] = 1]
    /\ pc' = [pc EXCEPT ![n] = "recv"]
    /\ UNCHANGED <<launch, nodeList, credit, queue, reads, rest, source>>

Process(n) ==
    \/ NoData(n) \/ Again(n) \/ RecvError(n) \/ Refuse(n) \/ RefuseEmpty(n)
    \/ Loopback(n) \/ Accept(n) \/ Merge(n)
    \/ \E got \in SUBSET Nodes : SendIface(n, got)
    \/ SendFails(n) \/ FinishTick(n)

-----------------------------------------------------------------------------
(* The network may also misbehave between two steps of a device *)

\* Anything else that uses UDP port 6000.
InjectJunk(n) ==
    /\ "junk" \in Faults
    /\ pc[n] # "off"
    /\ Len(queue[n]) < QueueCap
    /\ queue' = [queue EXCEPT ![n] = Append(@, Junk)]
    /\ UNCHANGED <<pc, launch, nodeList, credit, counter, reads, rest, source, iface>>

Swap(q, i) == [q EXCEPT ![i] = q[i + 1], ![i + 1] = q[i]]

Reorder(n) ==
    /\ "reorder" \in Faults
    /\ \E i \in 1..(Len(queue[n]) - 1) : queue' = [queue EXCEPT ![n] = Swap(@, i)]
    /\ UNCHANGED <<pc, launch, nodeList, credit, counter, reads, rest, source, iface>>

Duplicate(n) ==
    /\ "duplicate" \in Faults
    /\ Len(queue[n]) < QueueCap
    /\ \E i \in 1..Len(queue[n]) : queue' = [queue EXCEPT ![n] = Append(@, @[i])]
    /\ UNCHANGED <<pc, launch, nodeList, credit, counter, reads, rest, source, iface>>

Next ==
    \E n \in Nodes :
        \/ Boot(n) \/ Crash(n)
        \/ Process(n)
        \/ InjectJunk(n) \/ Reorder(n) \/ Duplicate(n)

Spec == Init /\ [][Next]_vars
-----------------------------------------------------------------------------
(* Safety *)

\* Every variable keeps its type, and an idle device keeps no half-read message.
TypeOK ==
    /\ pc \in [Nodes -> {"off", "recv", "merge", "send"}]
    /\ launch \in [Nodes -> Nat]
    /\ nodeList \in [Nodes -> Seq(Entry)]
    /\ credit \in [Nodes -> Seq(Uuids \cup {NoUuid})]
    /\ counter \in [Nodes -> 0..(CounterMod - 1)]
    /\ queue \in [Nodes -> Seq(Datagram)]
    /\ reads \in [Nodes -> Nat]
    /\ rest \in [Nodes -> Seq(Entry)]
    /\ source \in [Nodes -> Uuids \cup {NoUuid}]
    /\ iface \in [Nodes -> Nat \ {0}]

NoRepeat(nl) == \A i, j \in 1..Len(nl) : nl[i].uuid = nl[j].uuid => i = j

\* A device never lists the same UUID twice, however often and along however
\* many paths it hears of a node (NODE_MaybeAddEntry's search).
NoDuplicates == \A n \in Nodes : NoRepeat(nodeList[n])

\* The first entry of a running device's list is its own, of this launch:
\* what NODE_CheckForNewNodes relies on when it credits nl->entries.
LocalFirst ==
    \A n \in Nodes :
        pc[n] # "off" =>
            /\ nodeList[n] # << >>
            /\ nodeList[n][1] = LocalEntry(n, launch[n])

Genuine(e) == \E m \in Nodes : Uuid[m] = e.uuid /\ e.info \in 1..launch[m]

\* Whatever was lost, repeated, reordered or restarted, every entry a device
\* lists holds the data of one real launch of the device with that UUID.
OnlyRealNodes ==
    \A n \in Nodes : \A i \in 1..Len(nodeList[n]) : Genuine(nodeList[n][i])

Neighbours(n) ==
    {m \in Nodes : \E w \in Networks : OnNetwork(n, w) /\ OnNetwork(m, w)}

IsNeighbour(n, u) == \E m \in Neighbours(n) : Uuid[m] = u

CreditsOf(n, nl, cr) ==
    \A i \in 2..Len(nl) :
        IF cr[i] = NoUuid
        THEN IsNeighbour(n, nl[i].uuid)
        ELSE /\ IsNeighbour(n, cr[i])
             /\ \E j \in 2..(i - 1) : nl[j].uuid = cr[i]

\* "discovery source: Broadcast" is only printed of a node that shares a
\* network with us, and "discovered by node: X" only names another device X
\* that shares one and that we had already listed (NODE_DiscoverySourceNode).
CreditIsTrue == \A n \in Nodes : CreditsOf(n, nodeList[n], credit[n])

\* n has less to do before the receive loop ends: fewer datagrams to read, fewer
\* entries to merge, or fewer interfaces to ask before there is "no data".
LessToDo(n) ==
    \/ Len(queue'[n]) < Len(queue[n])
    \/ /\ Len(queue'[n]) = Len(queue[n])
       /\ \/ Len(rest'[n]) < Len(rest[n])
          \/ rest'[n] = rest[n] /\ reads[n] < reads'[n] /\ reads'[n] <= KnownIfaces(n)

\* The while (1) of NET_HandleBcast is no endless loop by itself: every step
\* that a device takes in it, whatever it was sent and whichever call failed,
\* leaves it less to do.  Only datagrams that arrive meanwhile keep it going.
DrainRunsDown ==
    [][\A n \in Nodes :
         /\ pc[n] \in {"recv", "merge"} /\ pc'[n] \in {"recv", "merge"}
         /\ counter'[n] = counter[n]
         /\ <<pc'[n], nodeList'[n], reads'[n], rest'[n], source'[n]>>
              # <<pc[n], nodeList[n], reads[n], rest[n], source[n]>>
         => LessToDo(n)]_vars

\* The positions of a queue's messages that were announced under UUID u.
Own(q, u) == {i \in 1..Len(q) : q[i].uuid = u}

\* The calls from the last announcement before the counter wraps to the first
\* one after it: 2^32 is no multiple of 15.
WrapGap == IF CounterMod % SendPeriod = 0 THEN SendPeriod ELSE CounterMod % SendPeriod

\* What may be left of that announcement when the next one is made.
Carry(n) == IF KnownIfaces(n) > WrapGap THEN KnownIfaces(n) - WrapGap ELSE 0

\* Announcements of its own that a device has not read back yet: each call of
\* NET_HandleBcast reads only one, yet with an announcement every SendPeriod
\* calls they never pile up, and where the counter wraps no more than two
\* announcements do.
OwnBacklog ==
    \A n \in Nodes : Cardinality(Own(queue[n], Uuid[n])) <= KnownIfaces(n) + Carry(n)

-----------------------------------------------------------------------------
(* The inductive invariant *)

\* A device that is off has no memory; the two lists grow together.
ListShape(n) ==
    /\ Len(credit[n]) = Len(nodeList[n])
    /\ pc[n] = "off" => nodeList[n] = << >> /\ queue[n] = << >>

\* A message comes from a neighbour, its first entry is the sender's own, and
\* all its entries are real.
FromNeighbour(n, d) ==
    /\ d.nodes # << >>
    /\ d.nodes[1].uuid = d.uuid
    /\ IsNeighbour(n, d.uuid)
    /\ \A i \in 1..Len(d.nodes) : Genuine(d.nodes[i])

QueueOK(n) ==
    \A i \in 1..Len(queue[n]) :
        queue[n][i] = Junk \/ FromNeighbour(n, queue[n][i])

\* Half-way through a message: the first entry left is the sender's, or the
\* sender has been listed already and is who the next entry is credited to.
MergeOK(n) ==
    /\ pc[n] = "merge" <=> rest[n] # << >>
    /\ \A i \in 1..Len(rest[n]) : Genuine(rest[n][i])
    /\ IF source[n] = NoUuid
       THEN rest[n] # << >> => IsNeighbour(n, rest[n][1].uuid) /\ rest[n][1].uuid # Uuid[n]
       ELSE /\ pc[n] = "merge"
            /\ source[n] # Uuid[n]
            /\ IsNeighbour(n, source[n])
            /\ Knows(nodeList[n], source[n])

IInv ==
    /\ TypeOK
    /\ NoDuplicates /\ LocalFirst /\ OnlyRealNodes /\ CreditIsTrue
    /\ \A n \in Nodes : ListShape(n) /\ QueueOK(n) /\ MergeOK(n)

\* The calls of NET_HandleBcast since the last that announced, the one with
\* counter c included.
CallsSince(c) ==
    IF c = 0 THEN WrapGap ELSE IF Due(c) THEN SendPeriod ELSE c % SendPeriod

\* How many announcements of its own a device may find when that call begins:
\* every call since the announcement has read one, unless none was left.
Room(n, c) ==
    LET sent == KnownIfaces(n) + (IF c \in 1..SendPeriod THEN Carry(n) ELSE 0)
    IN IF sent >= CallsSince(c) THEN sent - CallsSince(c) + 1 ELSE 0

\* ... and how many are left when it announces anew.
LeftAt(n, c) == IF c = 0 THEN Carry(n) ELSE 0

BacklogOK(n) ==
    /\ reads[n] = 0
    /\ \A i \in 1..Len(queue[n]) : queue[n][i] # Junk
    /\ IF pc[n] = "send"
       THEN /\ Due(counter[n])
            /\ iface[n] <= KnownIfaces(n) + 1
            /\ Cardinality(Own(queue[n], Uuid[n])) <= LeftAt(n, counter[n]) + iface[n] - 1
       ELSE Cardinality(Own(queue[n], Uuid[n])) <= Room(n, counter[n])

BacklogInv == IInv /\ \A n \in Nodes : BacklogOK(n)

\* UUIDs are unique, poll and recvfrom do not fail, nothing is repeated or
\* comes from elsewhere, and the announcements around a wrap fit in a period:
\* so they do for up to 8 interfaces, the default of CONFIG_NET_MAX_INT.
BacklogAssumption ==
    /\ \A m, n \in Nodes : Uuid[m] = Uuid[n] => m = n
    /\ Faults \subseteq {"loss", "sendto", "reorder"}
    /\ CounterMod >= SendPeriod
    /\ \A n \in Nodes : KnownIfaces(n) + Carry(n) <= SendPeriod

-----------------------------------------------------------------------------
(* Liveness *)

\* m gets what n sends: there is room in its receive buffer.
Delivers(n, m) ==
    /\ Len(queue[m]) < QueueCap
    /\ \E got \in SUBSET Nodes : m \in got /\ SendIface(n, got)

\* The main loop never stops: keepRunning stays true, and a device that was
\* switched off is switched on again while its launches last.
DeviceFairness == \A n \in Nodes : WF_vars(Boot(n)) /\ WF_vars(Process(n))

\* A lossy link is not a dead one: what is announced over and over to a
\* neighbour is received over and over.
LinkFairness ==
    \A n \in Nodes : \A m \in Neighbours(n) \ {n} :
        ([]<><<\E got \in SUBSET Nodes : SendIface(n, got)>>_vars) => []<><<Delivers(n, m)>>_vars

\* Draining the socket is faster than filling it: a call of NET_HandleBcast
\* that a device makes every 500ms does not receive for ever.
DrainsEnd ==
    \A n \in Nodes :
        ([]<>(pc[n] = "off")) \/ []<><<EndDrain(n)>>_vars

FairSpec == Spec /\ DeviceFairness /\ LinkFairness /\ DrainsEnd

\* Every device ends up listing every device, across gateways, for good.
Convergence == \A n, m \in Nodes : <>[](Uuid[m] \in Known(n))

=============================================================================
