--------------------------- MODULE NodeMeshProofs ---------------------------
(***************************************************************************)
(* Proofs about NodeMesh, for any devices, topology, UUIDs and faults.     *)
(*                                                                         *)
(* The inductive invariant IInv adds to the properties what is in flight:  *)
(* the messages queued at a device (QueueOK) and the message it is half    *)
(* way through (MergeOK).  TypeOK is inductive by itself and comes first.  *)
(* BacklogInv adds how many of its own announcements a device still has to *)
(* read at each value of its counter.                                      *)
(*                                                                         *)
(* NodeMesh implements Directory: Boot is Start, Crash is Stop, a Merge    *)
(* that adds an entry is Learn, and everything else a stutter.  The entry  *)
(* learned was told by a neighbour, perhaps long ago: HInv follows it from *)
(* the list it was sent from through the buffer and the message merged.    *)
(***************************************************************************)
EXTENDS MeshHistory, SequenceTheorems, FiniteSetTheorems, TLAPS

-----------------------------------------------------------------------------
(* Operators *)

LEMMA AppendType ==
    ASSUME NEW S, NEW s \in Seq(S), NEW e \in S
    PROVE  /\ Append(s, e) \in Seq(S)
           /\ Len(Append(s, e)) = Len(s) + 1
           /\ \A i \in 1..Len(s) : Append(s, e)[i] = s[i]
           /\ Append(s, e)[Len(s) + 1] = e
BY AppendProperties

LEMMA JunkType == Junk \in Datagram
BY EmptySeq DEF Junk, Datagram

Extends(s, t) == Len(s) <= Len(t) /\ \A i \in 1..Len(s) : t[i] = s[i]

\* NODE_MaybeAddEntry keeps what was listed, and afterwards e's UUID is known.
LEMMA MaybeAddProperties ==
    ASSUME NEW nl \in Seq(Entry), NEW e \in Entry
    PROVE  /\ MaybeAddEntry(nl, e) \in Seq(Entry)
           /\ Extends(nl, MaybeAddEntry(nl, e))
           /\ Knows(MaybeAddEntry(nl, e), e.uuid)
           /\ Knows(nl, e.uuid) => MaybeAddEntry(nl, e) = nl
           /\ ~ Knows(nl, e.uuid) =>
                /\ Len(MaybeAddEntry(nl, e)) = Len(nl) + 1
                /\ MaybeAddEntry(nl, e)[Len(nl) + 1] = e
<1>1. CASE Knows(nl, e.uuid)
  BY <1>1, LenProperties DEF MaybeAddEntry, Extends
<1>2. CASE ~ Knows(nl, e.uuid)
  <2>1. MaybeAddEntry(nl, e) = Append(nl, e)
    BY <1>2 DEF MaybeAddEntry
  <2>2. Len(nl) \in Nat
    BY LenProperties
  <2>3. /\ Append(nl, e) \in Seq(Entry)
        /\ Len(Append(nl, e)) = Len(nl) + 1
        /\ \A i \in 1..Len(nl) : Append(nl, e)[i] = nl[i]
        /\ Append(nl, e)[Len(nl) + 1] = e
    BY AppendType
  <2>4. Knows(Append(nl, e), e.uuid)
    BY <2>2, <2>3 DEF Knows
  <2>5. Extends(nl, Append(nl, e))
    BY <2>2, <2>3 DEF Extends
  <2> QED BY <1>2, <2>1, <2>3, <2>4, <2>5
<1> QED BY <1>1, <1>2

\* ... and nothing but e is new.
LEMMA MaybeAddContents ==
    ASSUME NEW nl \in Seq(Entry), NEW e \in Entry
    PROVE  /\ MaybeAddEntry(nl, e) \in Seq(Entry)
           /\ Extends(nl, MaybeAddEntry(nl, e))
           /\ Knows(MaybeAddEntry(nl, e), e.uuid)
           /\ \A i \in 1..Len(MaybeAddEntry(nl, e)) :
                \/ \E j \in 1..Len(nl) : MaybeAddEntry(nl, e)[i] = nl[j]
                \/ MaybeAddEntry(nl, e)[i] = e
<1>1. PICK new : new = MaybeAddEntry(nl, e)
  OBVIOUS
<1>2. /\ new \in Seq(Entry)
      /\ Extends(nl, new)
      /\ Knows(new, e.uuid)
  BY <1>1, MaybeAddProperties
<1>3. CASE Knows(nl, e.uuid)
  <2>1. new = nl
    BY <1>1, <1>3, MaybeAddProperties
  <2> QED BY <1>1, <1>2, <2>1
<1>4. CASE ~ Knows(nl, e.uuid)
  <2>1. Len(new) = Len(nl) + 1 /\ new[Len(nl) + 1] = e /\ Len(nl) \in Nat
    BY <1>1, <1>4, MaybeAddProperties, LenProperties
  <2>2. \A i \in 1..Len(new) : (\E j \in 1..Len(nl) : new[i] = nl[j]) \/ new[i] = e
    BY <1>2, <2>1 DEF Extends
  <2> QED BY <1>1, <1>2, <2>2
<1> QED BY <1>3, <1>4

\* An entry with a new UUID cannot repeat one.
LEMMA MaybeAddNoRepeat ==
    ASSUME NEW nl \in Seq(Entry), NEW e \in Entry, NoRepeat(nl)
    PROVE  NoRepeat(MaybeAddEntry(nl, e))
<1>1. CASE Knows(nl, e.uuid)
  BY <1>1 DEF MaybeAddEntry
<1>2. CASE ~ Knows(nl, e.uuid)
  <2> DEFINE new == MaybeAddEntry(nl, e)
  <2>1. /\ Len(new) = Len(nl) + 1
        /\ new[Len(nl) + 1] = e
        /\ \A i \in 1..Len(nl) : new[i] = nl[i]
        /\ Len(nl) \in Nat
    BY <1>2, MaybeAddProperties, LenProperties DEF Extends
  <2>2. \A i \in 1..Len(nl) : nl[i].uuid # e.uuid
    BY <1>2 DEF Knows
  <2> HIDE DEF new
  <2>3. NoRepeat(new)
    BY <2>1, <2>2 DEF NoRepeat
  <2> QED BY <2>3 DEF new
<1> QED BY <1>1, <1>2

\* Swapping two neighbouring datagrams permutes the queue.
LEMMA SwapProperties ==
    ASSUME NEW S, NEW q \in Seq(S), NEW i \in 1..(Len(q) - 1)
    PROVE  /\ Swap(q, i) \in Seq(S)
           /\ Len(Swap(q, i)) = Len(q)
           /\ \A j \in 1..Len(q) : \E k \in 1..Len(q) : Swap(q, i)[j] = q[k]
<1>1. Len(q) \in Nat /\ i \in 1..Len(q) /\ i + 1 \in 1..Len(q)
  BY LenProperties
<1>2. q[i] \in S /\ q[i + 1] \in S
  BY <1>1, ElementOfSeq
<1> DEFINE p == [q EXCEPT ![i] = q[i + 1]]
<1>3. /\ p \in Seq(S)
      /\ Len(p) = Len(q)
      /\ \A j \in 1..Len(q) : p[j] = IF j = i THEN q[i + 1] ELSE q[j]
  BY <1>1, <1>2, ExceptSeq
<1>4. Swap(q, i) = [p EXCEPT ![i + 1] = q[i]]
  BY DEF Swap
<1> HIDE DEF p
<1>5. /\ Swap(q, i) \in Seq(S)
      /\ Len(Swap(q, i)) = Len(p)
      /\ \A j \in 1..Len(p) : Swap(q, i)[j] = IF j = i + 1 THEN q[i] ELSE p[j]
  BY <1>1, <1>2, <1>3, <1>4, ExceptSeq
<1> QED BY <1>1, <1>3, <1>5

-----------------------------------------------------------------------------
(* Type correctness *)

LEMMA EnqueueType ==
    ASSUME NEW q \in Seq(Datagram), NEW d \in Datagram
    PROVE  Enqueue(q, d) \in Seq(Datagram)
BY AppendType DEF Enqueue

LEMMA LocalEntryType ==
    ASSUME NEW n \in Nodes, NEW l \in Nat
    PROVE  LocalEntry(n, l) \in Entry
BY MeshAssumption DEF LocalEntry, Entry

LEMMA AnnouncementType ==
    ASSUME TypeOK, NEW n \in Nodes
    PROVE  Announcement(n) \in Datagram
BY MeshAssumption DEF TypeOK, Announcement, Datagram

LEMMA TypeInit == Init => TypeOK
BY MeshAssumption, EmptySeq DEF Init, TypeOK

LEMMA HeadTailType ==
    ASSUME TypeOK, NEW n \in Nodes
    PROVE  /\ queue[n] # << >> => /\ Head(queue[n]) \in Datagram
                                  /\ Tail(queue[n]) \in Seq(Datagram)
           /\ rest[n] # << >> => /\ Head(rest[n]) \in Entry
                                 /\ Tail(rest[n]) \in Seq(Entry)
<1>1. queue[n] \in Seq(Datagram) /\ rest[n] \in Seq(Entry)
  BY DEF TypeOK
<1> QED BY <1>1, HeadTailProperties

LEMMA EndDrainType ==
    ASSUME TypeOK, NEW n \in Nodes, EndDrain(n), queue' \in [Nodes -> Seq(Datagram)]
    PROVE  TypeOK'
<1>1. NextCount(counter[n]) \in 0..(CounterMod - 1)
  BY MeshAssumption DEF TypeOK, NextCount
<1>2. reads' \in [Nodes -> Nat]
  BY DEF TypeOK, EndDrain
<1>6. iface' \in [Nodes -> Nat \ {0}]
  <2>1. iface' = iface \/ iface' = [iface EXCEPT ![n] = 1]
    BY DEF EndDrain
  <2>2. iface \in [Nodes -> Nat \ {0}] /\ 1 \in Nat \ {0}
    BY DEF TypeOK
  <2>3. [iface EXCEPT ![n] = 1] \in [Nodes -> Nat \ {0}]
    BY ONLY <2>2, n \in Nodes
  <2> QED BY <2>1, <2>2, <2>3
<1>3. pc' \in [Nodes -> {"off", "recv", "merge", "send"}]
  BY DEF TypeOK, EndDrain
<1>4. counter' \in [Nodes -> 0..(CounterMod - 1)]
  BY <1>1 DEF TypeOK, EndDrain
<1>5. UNCHANGED <<launch, nodeList, credit, rest, source>>
  BY DEF EndDrain
<1> QED BY <1>2, <1>3, <1>4, <1>5, <1>6 DEF TypeOK

\* Merge needs more than types: a device merges only a message that has
\* entries left, which is part of MergeOK.
LEMMA TypeStep == TypeOK /\ (\A n \in Nodes : MergeOK(n)) /\ [Next]_vars => TypeOK'
<1> SUFFICES ASSUME TypeOK, \A n \in Nodes : MergeOK(n), [Next]_vars
             PROVE  TypeOK'
  OBVIOUS
<1>0. 0 \in 0..(CounterMod - 1)
  BY MeshAssumption
<1>1. ASSUME NEW n \in Nodes, Boot(n) PROVE TypeOK'
  <2>1. <<LocalEntry(n, launch[n] + 1)>> \in Seq(Entry)
    BY LocalEntryType DEF TypeOK
  <2>2. nodeList' \in [Nodes -> Seq(Entry)]
    BY <1>1, <2>1 DEF TypeOK, Boot
  <2>3. credit' \in [Nodes -> Seq(Uuids \cup {NoUuid})]
    BY <1>1 DEF TypeOK, Boot
  <2>4. launch' \in [Nodes -> Nat]
    BY <1>1 DEF TypeOK, Boot
  <2>5. counter' \in [Nodes -> 0..(CounterMod - 1)]
    BY <1>0, <1>1 DEF TypeOK, Boot
  <2>6. pc' \in [Nodes -> {"off", "recv", "merge", "send"}]
    BY <1>1 DEF TypeOK, Boot
  <2>7. UNCHANGED <<queue, reads, rest, source, iface>>
    BY <1>1 DEF Boot
  <2> QED BY <2>2, <2>3, <2>4, <2>5, <2>6, <2>7 DEF TypeOK
<1>2. ASSUME NEW n \in Nodes, Crash(n) PROVE TypeOK'
  <2>1. nodeList' \in [Nodes -> Seq(Entry)]
    BY <1>2 DEF TypeOK, Crash
  <2>2. credit' \in [Nodes -> Seq(Uuids \cup {NoUuid})]
    BY <1>2 DEF TypeOK, Crash
  <2>8. rest' \in [Nodes -> Seq(Entry)]
    BY <1>2 DEF TypeOK, Crash
  <2>9. source' \in [Nodes -> Uuids \cup {NoUuid}]
    BY <1>2 DEF TypeOK, Crash
  <2>3. queue' \in [Nodes -> Seq(Datagram)]
    BY <1>2 DEF TypeOK, Crash
  <2>4. reads' \in [Nodes -> Nat] /\ iface' \in [Nodes -> Nat \ {0}]
    BY <1>2 DEF TypeOK, Crash
  <2>5. counter' \in [Nodes -> 0..(CounterMod - 1)]
    BY <1>0, <1>2 DEF TypeOK, Crash
  <2>6. pc' \in [Nodes -> {"off", "recv", "merge", "send"}]
    BY <1>2 DEF TypeOK, Crash
  <2>7. UNCHANGED launch
    BY <1>2 DEF Crash
  <2> QED BY <2>1, <2>2, <2>3, <2>4, <2>5, <2>6, <2>7, <2>8, <2>9 DEF TypeOK
<1>3. ASSUME NEW n \in Nodes, NoData(n) \/ RecvError(n) PROVE TypeOK'
  <2>1. EndDrain(n) /\ queue' = queue
    BY <1>3 DEF NoData, RecvError
  <2> QED BY <2>1, EndDrainType DEF TypeOK
<1>4. ASSUME NEW n \in Nodes, Again(n) PROVE TypeOK'
  <2>1. reads' \in [Nodes -> Nat]
    BY <1>4 DEF TypeOK, Again
  <2> QED BY <1>4, <2>1 DEF TypeOK, Again
<1>5. ASSUME NEW n \in Nodes, Refuse(n) PROVE TypeOK'
  <2>1. reads' \in [Nodes -> Nat]
    BY <1>5 DEF TypeOK, Refuse
  <2>2. queue' \in [Nodes -> Seq(Datagram)]
    BY <1>5, HeadTailType DEF TypeOK, Refuse, CanRead
  <2> QED BY <1>5, <2>1, <2>2 DEF TypeOK, Refuse
<1>6. ASSUME NEW n \in Nodes, Loopback(n) \/ RefuseEmpty(n) PROVE TypeOK'
  <2>1. queue' \in [Nodes -> Seq(Datagram)]
    BY <1>6, HeadTailType DEF TypeOK, Loopback, RefuseEmpty, CanRead
  <2> QED BY <1>6, <2>1, EndDrainType DEF Loopback, RefuseEmpty
<1>7. ASSUME NEW n \in Nodes, Accept(n) PROVE TypeOK'
  <2>1. queue' \in [Nodes -> Seq(Datagram)]
    BY <1>7, HeadTailType DEF TypeOK, Accept, CanRead
  <2>2. Head(queue[n]).nodes \in Seq(Entry)
    BY <1>7, HeadTailType DEF Accept, CanRead, Datagram
  <2>3. rest' \in [Nodes -> Seq(Entry)]
    BY <1>7, <2>2 DEF TypeOK, Accept
  <2>4. source' \in [Nodes -> Uuids \cup {NoUuid}] /\ reads' \in [Nodes -> Nat]
    BY <1>7 DEF TypeOK, Accept
  <2>5. pc' \in [Nodes -> {"off", "recv", "merge", "send"}]
    BY <1>7 DEF TypeOK, Accept
  <2>6. UNCHANGED <<launch, nodeList, credit, counter, iface>>
    BY <1>7 DEF Accept
  <2> QED BY <2>1, <2>3, <2>4, <2>5, <2>6 DEF TypeOK
<1>8. ASSUME NEW n \in Nodes, Merge(n) PROVE TypeOK'
  <2> DEFINE e == Head(rest[n])
  <2>1. e \in Entry /\ Tail(rest[n]) \in Seq(Entry)
    BY <1>8, HeadTailType DEF Merge, MergeOK
  <2>2. MaybeAddEntry(nodeList[n], e) \in Seq(Entry)
    BY <2>1, MaybeAddProperties DEF TypeOK
  <2>3. AddCredit(nodeList[n], credit[n], e, source[n]) \in Seq(Uuids \cup {NoUuid})
    BY AppendType DEF TypeOK, AddCredit
  <2>4. \A last : SourceAfter(source[n], e, last) \in Uuids \cup {NoUuid}
    BY <2>1 DEF TypeOK, SourceAfter, NextSource, Entry
  <2> HIDE DEF e
  <2>5. nodeList' \in [Nodes -> Seq(Entry)]
    BY <1>8, <2>2 DEF TypeOK, Merge, e
  <2>6. credit' \in [Nodes -> Seq(Uuids \cup {NoUuid})]
    BY <1>8, <2>3 DEF TypeOK, Merge, e
  <2>7. source' \in [Nodes -> Uuids \cup {NoUuid}]
    BY <1>8, <2>4 DEF TypeOK, Merge, e
  <2>8. rest' \in [Nodes -> Seq(Entry)]
    BY <1>8, <2>1 DEF TypeOK, Merge
  <2>9. pc' \in [Nodes -> {"off", "recv", "merge", "send"}]
    BY <1>8 DEF TypeOK, Merge
  <2>10. UNCHANGED <<launch, counter, queue, reads, iface>>
    BY <1>8 DEF Merge
  <2> QED BY <2>5, <2>6, <2>7, <2>8, <2>9, <2>10 DEF TypeOK
<1>9. ASSUME NEW n \in Nodes, NEW got \in SUBSET Nodes, SendIface(n, got) PROVE TypeOK'
  <2>1. queue' \in [Nodes -> Seq(Datagram)]
    BY <1>9, AnnouncementType, EnqueueType DEF TypeOK, SendIface
  <2>2. iface' \in [Nodes -> Nat \ {0}]
    BY <1>9 DEF TypeOK, SendIface
  <2> QED BY <1>9, <2>1, <2>2 DEF TypeOK, SendIface
<1>10. ASSUME NEW n \in Nodes, SendFails(n) PROVE TypeOK'
  <2>1. KnownIfaces(n) \in Nat
    BY MeshAssumption, LenProperties DEF KnownIfaces
  <2>2. iface' \in [Nodes -> Nat \ {0}]
    BY <1>10, <2>1 DEF TypeOK, SendFails
  <2> QED BY <1>10, <2>2 DEF TypeOK, SendFails
<1>11. ASSUME NEW n \in Nodes, FinishTick(n) PROVE TypeOK'
  <2>1. NextCount(counter[n]) \in 0..(CounterMod - 1)
    BY MeshAssumption DEF TypeOK, NextCount
  <2>2. counter' \in [Nodes -> 0..(CounterMod - 1)]
    BY <1>11, <2>1 DEF TypeOK, FinishTick
  <2>3. /\ iface' \in [Nodes -> Nat \ {0}]
        /\ pc' \in [Nodes -> {"off", "recv", "merge", "send"}]
    BY <1>11 DEF TypeOK, FinishTick
  <2> QED BY <1>11, <2>2, <2>3 DEF TypeOK, FinishTick
<1>12. ASSUME NEW n \in Nodes, InjectJunk(n) \/ Reorder(n) \/ Duplicate(n) PROVE TypeOK'
  <2>0. queue[n] \in Seq(Datagram)
    BY DEF TypeOK
  <2>1. \A d \in Datagram : Append(queue[n], d) \in Seq(Datagram)
    BY <2>0, AppendType
  <2>2. \A i \in 1..Len(queue[n]) : queue[n][i] \in Datagram
    BY <2>0, ElementOfSeq
  <2>3. \A i \in 1..(Len(queue[n]) - 1) : Swap(queue[n], i) \in Seq(Datagram)
    BY <2>0, SwapProperties
  <2>4. \E q \in Seq(Datagram) : queue' = [queue EXCEPT ![n] = q]
    <3>1. CASE InjectJunk(n)
      BY <2>1, <3>1, JunkType DEF InjectJunk
    <3>2. CASE Reorder(n)
      BY <2>3, <3>2 DEF Reorder
    <3>3. CASE Duplicate(n)
      BY <2>1, <2>2, <3>3 DEF Duplicate
    <3> QED BY <1>12, <3>1, <3>2, <3>3
  <2>5. queue' \in [Nodes -> Seq(Datagram)]
    BY <2>4 DEF TypeOK
  <2>6. UNCHANGED <<pc, launch, nodeList, credit, counter, reads, rest, source, iface>>
    BY <1>12 DEF InjectJunk, Reorder, Duplicate
  <2> QED BY <2>5, <2>6 DEF TypeOK
<1>13. ASSUME UNCHANGED vars PROVE TypeOK'
  BY <1>13 DEF TypeOK, vars
<1> QED
  BY <1>1, <1>2, <1>3, <1>4, <1>5, <1>6, <1>7, <1>8, <1>9, <1>10, <1>11, <1>12, <1>13
     DEF Next, Process

-----------------------------------------------------------------------------
(* The inductive invariant *)

\* What a device's queue may hold in the next state, read in this one.
GoodQueue(n, q) == \A i \in 1..Len(q) : q[i] = Junk \/ FromNeighbour(n, q[i])

LEMMA GenuineUnchanged ==
    ASSUME UNCHANGED launch, NEW e
    PROVE  Genuine(e)' <=> Genuine(e)
BY DEF Genuine

LEMMA FromNeighbourUnchanged ==
    ASSUME UNCHANGED launch, NEW n, NEW d, FromNeighbour(n, d)
    PROVE  FromNeighbour(n, d)'
BY GenuineUnchanged DEF FromNeighbour, IsNeighbour, Neighbours, OnNetwork

LEMMA OtherMergeOK ==
    ASSUME UNCHANGED launch, NEW m, MergeOK(m), rest'[m] = rest[m], source'[m] = source[m],
           pc'[m] = pc[m], nodeList'[m] = nodeList[m]
    PROVE  MergeOK(m)'
<1>1. PICK r : r = rest[m]
  OBVIOUS
<1>2. \A i \in 1..Len(r) : Genuine(r[i])'
  BY <1>1, GenuineUnchanged DEF MergeOK
<1> QED BY <1>1, <1>2 DEF MergeOK, Knows

\* Steps that change neither a list nor a message being merged.
LEMMA QuietStep ==
    ASSUME IInv, TypeOK',
           UNCHANGED <<launch, nodeList, credit, rest, source>>,
           \A n \in Nodes : /\ pc'[n] = "off" <=> pc[n] = "off"
                            /\ pc'[n] = "merge" <=> pc[n] = "merge"
                            /\ pc[n] = "off" => queue'[n] = << >>
                            /\ GoodQueue(n, queue'[n])
    PROVE  IInv'
<1>1. NoDuplicates'
  BY DEF IInv, NoDuplicates, NoRepeat
<1>6. LocalFirst'
  BY DEF IInv, LocalFirst, LocalEntry
<1>7. CreditIsTrue'
  BY DEF IInv, CreditIsTrue, CreditsOf
<1>2. OnlyRealNodes'
  BY GenuineUnchanged DEF IInv, OnlyRealNodes
<1>3. ASSUME NEW n \in Nodes PROVE ListShape(n)'
  BY DEF IInv, ListShape
<1>4. ASSUME NEW n \in Nodes PROVE QueueOK(n)'
  <2>1. GoodQueue(n, queue'[n])
    OBVIOUS
  <2> QED BY <2>1, FromNeighbourUnchanged DEF GoodQueue, QueueOK
<1>5. ASSUME NEW n \in Nodes PROVE MergeOK(n)'
  <2>1. MergeOK(n)
    BY DEF IInv
  <2>2. \A i \in 1..Len(rest[n]) : Genuine(rest[n][i])'
    BY <2>1, GenuineUnchanged DEF MergeOK
  <2> QED
    BY <2>1, <2>2 DEF MergeOK, Knows, IsNeighbour, Neighbours, OnNetwork
<1> QED BY <1>1, <1>2, <1>3, <1>4, <1>5, <1>6, <1>7 DEF IInv

\* The queues after one queue changed.
LEMMA OneQueue ==
    ASSUME IInv, NEW n \in Nodes, NEW q, pc[n] # "off", GoodQueue(n, q),
           queue' = [queue EXCEPT ![n] = q]
    PROVE  \A m \in Nodes : /\ pc[m] = "off" => queue'[m] = << >>
                            /\ GoodQueue(m, queue'[m])
<1>1. ASSUME NEW m \in Nodes
      PROVE  /\ queue'[m] = IF m = n THEN q ELSE queue[m]
             /\ GoodQueue(m, queue[m])
             /\ pc[m] = "off" => queue[m] = << >>
  BY DEF IInv, TypeOK, QueueOK, GoodQueue, ListShape
<1> QED BY <1>1

LEMMA GoodTail ==
    ASSUME IInv, NEW n \in Nodes, queue[n] # << >>
    PROVE  GoodQueue(n, Tail(queue[n]))
<1>1. queue[n] \in Seq(Datagram) /\ Len(queue[n]) \in Nat
  BY LenProperties DEF IInv, TypeOK
<1>2. /\ Len(Tail(queue[n])) = Len(queue[n]) - 1
      /\ \A i \in 1..Len(Tail(queue[n])) : Tail(queue[n])[i] = queue[n][i + 1]
  BY <1>1, HeadTailProperties
<1> QED BY <1>1, <1>2 DEF IInv, QueueOK, GoodQueue

LEMMA GoodAppend ==
    ASSUME NEW n \in Nodes, NEW q \in Seq(Datagram), GoodQueue(n, q),
           NEW d \in Datagram, d = Junk \/ FromNeighbour(n, d)
    PROVE  GoodQueue(n, Append(q, d))
<1>1. Len(q) \in Nat
  BY LenProperties
<1>2. /\ Len(Append(q, d)) = Len(q) + 1
      /\ \A i \in 1..Len(q) : Append(q, d)[i] = q[i]
      /\ Append(q, d)[Len(q) + 1] = d
  BY AppendType
<1> QED BY <1>1, <1>2 DEF GoodQueue

\* An announcement reaches only neighbours, and its first entry is the
\* sender's own.
LEMMA GoodAnnouncement ==
    ASSUME IInv, NEW n \in Nodes, NEW m \in Nodes, NEW w \in Networks,
           pc[n] # "off", OnNetwork(n, w), OnNetwork(m, w)
    PROVE  FromNeighbour(m, Announcement(n))
<1>1. n \in Neighbours(m)
  BY DEF Neighbours
<1>2. IsNeighbour(m, Uuid[n])
  BY <1>1 DEF IsNeighbour
<1>5. nodeList[n] # << >> /\ nodeList[n][1] = LocalEntry(n, launch[n])
  BY DEF IInv, LocalFirst
<1>3. nodeList[n][1].uuid = Uuid[n]
  BY <1>5 DEF LocalEntry
<1>4. \A i \in 1..Len(nodeList[n]) : Genuine(nodeList[n][i])
  BY DEF IInv, OnlyRealNodes
<1> QED BY <1>2, <1>3, <1>4, <1>5 DEF FromNeighbour, Announcement

LEMMA SendKeepsInv ==
    ASSUME IInv, TypeOK', NEW n \in Nodes, NEW got \in SUBSET Nodes, SendIface(n, got)
    PROVE  IInv'
<1> DEFINE w == Ifaces[n][iface[n]]
<1>1. UNCHANGED <<pc, launch, nodeList, credit, rest, source>>
  BY DEF SendIface
<1>2. pc[n] # "off"
  BY DEF SendIface
<1>4. iface[n] \in 1..Len(Ifaces[n])
  <2>1. iface[n] \in Nat \ {0}
    BY DEF IInv, TypeOK
  <2>2. iface[n] <= Len(Ifaces[n]) /\ Len(Ifaces[n]) \in Nat
    BY MeshAssumption, LenProperties DEF SendIface, KnownIfaces
  <2> QED BY <2>1, <2>2
<1>5. OnNetwork(n, w) /\ w \in Networks
  BY <1>4, MeshAssumption, ElementOfSeq DEF OnNetwork
<1>6. Announcement(n) \in Datagram
  BY AnnouncementType DEF IInv
<1> HIDE DEF w
<1>7. got \in Receivers(w) /\ \A m \in Nodes :
        queue'[m] = IF m \in got THEN Enqueue(queue[m], Announcement(n)) ELSE queue[m]
  BY DEF SendIface, w
<1>3. ASSUME NEW m \in got
      PROVE  pc[m] # "off" /\ GoodQueue(m, queue'[m])
  <2>1. m \in Listeners(w)
    BY <1>7 DEF Receivers
  <2>2. pc[m] # "off" /\ m \in Nodes /\ OnNetwork(m, w)
    BY <2>1 DEF Listeners
  <2>3. FromNeighbour(m, Announcement(n))
    BY <1>2, <1>5, <2>2, GoodAnnouncement
  <2>4. queue[m] \in Seq(Datagram) /\ GoodQueue(m, queue[m])
    BY <2>2 DEF IInv, TypeOK, QueueOK, GoodQueue
  <2>5. GoodQueue(m, Append(queue[m], Announcement(n)))
    BY <1>6, <2>2, <2>3, <2>4, GoodAppend
  <2>6. queue'[m] = Enqueue(queue[m], Announcement(n))
    BY <1>7, <2>2
  <2> QED BY <2>2, <2>4, <2>5, <2>6 DEF Enqueue
<1>8. ASSUME NEW m \in Nodes
      PROVE  /\ pc[m] = "off" => queue'[m] = << >>
             /\ GoodQueue(m, queue'[m])
  <2>1. CASE m \in got
    BY <1>3, <2>1
  <2>2. CASE m \notin got
    BY <1>7, <2>2 DEF IInv, ListShape, QueueOK, GoodQueue
  <2> QED BY <2>1, <2>2
<1> QED BY <1>1, <1>8, QuietStep

\* Steps of the receive loop and of the network that only touch one queue.
LEMMA OneQueueKeepsInv ==
    ASSUME IInv, TypeOK', NEW n \in Nodes, NEW q, pc[n] # "off", GoodQueue(n, q),
           queue' = [queue EXCEPT ![n] = q],
           UNCHANGED <<launch, nodeList, credit, rest, source>>,
           \A m \in Nodes : /\ pc'[m] = "off" <=> pc[m] = "off"
                            /\ pc'[m] = "merge" <=> pc[m] = "merge"
    PROVE  IInv'
BY OneQueue, QuietStep

LEMMA NoQueueKeepsInv ==
    ASSUME IInv, TypeOK',
           UNCHANGED <<launch, nodeList, credit, queue, rest, source>>,
           \A m \in Nodes : /\ pc'[m] = "off" <=> pc[m] = "off"
                            /\ pc'[m] = "merge" <=> pc[m] = "merge"
    PROVE  IInv'
<1>1. \A m \in Nodes : /\ pc[m] = "off" => queue'[m] = << >>
                       /\ GoodQueue(m, queue'[m])
  BY DEF IInv, ListShape, QueueOK, GoodQueue
<1> QED BY <1>1, QuietStep

LEMMA EndDrainPc ==
    ASSUME TypeOK, NEW n \in Nodes, pc[n] = "recv", EndDrain(n)
    PROVE  /\ UNCHANGED <<launch, nodeList, credit, rest, source>>
           /\ \A m \in Nodes : /\ pc'[m] = "off" <=> pc[m] = "off"
                               /\ pc'[m] = "merge" <=> pc[m] = "merge"
<1>1. pc' = pc \/ pc' = [pc EXCEPT ![n] = "send"]
  BY DEF EndDrain
<1>2. pc \in [Nodes -> {"off", "recv", "merge", "send"}]
  BY DEF TypeOK
<1> QED BY <1>1, <1>2 DEF EndDrain

LEMMA NetworkKeepsInv ==
    ASSUME IInv, TypeOK', NEW n \in Nodes,
           InjectJunk(n) \/ Reorder(n) \/ Duplicate(n)
    PROVE  IInv'
<1>1. queue[n] \in Seq(Datagram) /\ GoodQueue(n, queue[n])
  BY DEF IInv, TypeOK, QueueOK, GoodQueue
<1>2. pc[n] = "off" => queue[n] = << >>
  BY DEF IInv, ListShape
<1>3. \E q : /\ pc[n] # "off"
             /\ GoodQueue(n, q)
             /\ queue' = [queue EXCEPT ![n] = q]
  <2>1. CASE InjectJunk(n)
    <3>1. GoodQueue(n, Append(queue[n], Junk))
      BY <1>1, JunkType, GoodAppend
    <3> QED BY <2>1, <3>1 DEF InjectJunk
  <2>2. CASE Reorder(n)
    <3>1. PICK i \in 1..(Len(queue[n]) - 1) :
            queue' = [queue EXCEPT ![n] = Swap(queue[n], i)]
      BY <2>2 DEF Reorder
    <3>2. /\ Len(Swap(queue[n], i)) = Len(queue[n])
          /\ \A j \in 1..Len(queue[n]) :
               \E k \in 1..Len(queue[n]) : Swap(queue[n], i)[j] = queue[n][k]
      BY <1>1, SwapProperties
    <3>3. GoodQueue(n, Swap(queue[n], i))
      BY <1>1, <3>2 DEF GoodQueue
    <3>4. queue[n] # << >>
      BY <1>1, EmptySeq
    <3> QED BY <1>2, <3>1, <3>3, <3>4
  <2>3. CASE Duplicate(n)
    <3>1. PICK i \in 1..Len(queue[n]) :
            queue' = [queue EXCEPT ![n] = Append(queue[n], queue[n][i])]
      BY <2>3 DEF Duplicate
    <3>2. queue[n][i] \in Datagram
      BY <1>1, ElementOfSeq
    <3>3. queue[n][i] = Junk \/ FromNeighbour(n, queue[n][i])
      BY <1>1 DEF GoodQueue
    <3>4. GoodQueue(n, Append(queue[n], queue[n][i]))
      BY <1>1, <3>2, <3>3, GoodAppend
    <3>5. queue[n] # << >>
      BY <1>1, EmptySeq
    <3> QED BY <1>2, <3>1, <3>4, <3>5
  <2> QED BY <2>1, <2>2, <2>3
<1>4. UNCHANGED <<pc, launch, nodeList, credit, rest, source>>
  BY DEF InjectJunk, Reorder, Duplicate
<1> QED BY <1>3, <1>4, OneQueueKeepsInv

LEMMA AcceptKeepsInv ==
    ASSUME IInv, TypeOK', NEW n \in Nodes, Accept(n)
    PROVE  IInv'
<1>1. UNCHANGED <<launch, nodeList, credit, counter, iface>>
  BY DEF Accept
<1>2. queue[n] # << >> /\ pc[n] = "recv"
  BY DEF Accept, CanRead
<1>3. GoodQueue(n, Tail(queue[n]))
  BY <1>2, GoodTail
<1>4. \A m \in Nodes : /\ pc[m] = "off" => queue'[m] = << >>
                       /\ GoodQueue(m, queue'[m])
  BY <1>2, <1>3, OneQueue DEF Accept
<1>5. PICK d : d = Head(queue[n]) /\ FromNeighbour(n, d) /\ d.uuid # Uuid[n]
  <2>1. Head(queue[n]) = queue[n][1] /\ 1 \in 1..Len(queue[n])
    BY <1>2, EmptySeq DEF IInv, TypeOK
  <2> QED BY <2>1 DEF IInv, QueueOK, Accept
<1>6. \A m \in Nodes : pc'[m] = IF m = n THEN "merge" ELSE pc[m]
  BY DEF Accept, IInv, TypeOK
<1>7. \A m \in Nodes : rest'[m] = IF m = n THEN d.nodes ELSE rest[m]
  BY <1>5 DEF Accept, IInv, TypeOK
<1>8. \A m \in Nodes : source'[m] = IF m = n THEN NoUuid ELSE source[m]
  BY DEF Accept, IInv, TypeOK
<1>9. NoDuplicates'
  BY <1>1 DEF IInv, NoDuplicates, NoRepeat
<1>10. LocalFirst'
  BY <1>1, <1>2, <1>6 DEF IInv, LocalFirst, LocalEntry
<1>11. CreditIsTrue'
  BY <1>1 DEF IInv, CreditIsTrue, CreditsOf
<1>12. OnlyRealNodes'
  BY <1>1, GenuineUnchanged DEF IInv, OnlyRealNodes
<1>13. ASSUME NEW m \in Nodes PROVE ListShape(m)'
  BY <1>1, <1>2, <1>4, <1>6 DEF IInv, ListShape
<1>14. ASSUME NEW m \in Nodes PROVE QueueOK(m)'
  <2>1. GoodQueue(m, queue'[m])
    BY <1>4
  <2> QED BY <1>1, <2>1, FromNeighbourUnchanged DEF GoodQueue, QueueOK
<1>15. ASSUME NEW m \in Nodes PROVE MergeOK(m)'
  <2>1. CASE m = n
    <3>1. rest'[n] = d.nodes /\ source'[n] = NoUuid /\ pc'[n] = "merge"
      BY <1>6, <1>7, <1>8
    <3>2. d.nodes # << >> /\ IsNeighbour(n, d.nodes[1].uuid) /\ d.nodes[1].uuid # Uuid[n]
      BY <1>5 DEF FromNeighbour
    <3>3. \A i \in 1..Len(d.nodes) : Genuine(d.nodes[i])'
      BY <1>1, <1>5, GenuineUnchanged DEF FromNeighbour
    <3> QED BY <2>1, <3>1, <3>2, <3>3 DEF MergeOK
  <2>2. CASE m # n
    <3>1. MergeOK(m)
      BY DEF IInv
    <3>2. rest'[m] = rest[m] /\ source'[m] = source[m] /\ pc'[m] = pc[m]
      BY <1>6, <1>7, <1>8, <2>2
    <3> QED BY <1>1, <3>1, <3>2, OtherMergeOK
  <2> QED BY <2>1, <2>2
<1> QED BY <1>9, <1>10, <1>11, <1>12, <1>13, <1>14, <1>15 DEF IInv

LEMMA KnowsExtends ==
    ASSUME NEW nl \in Seq(Entry), NEW new \in Seq(Entry), Extends(nl, new), NEW u, Knows(nl, u)
    PROVE  Knows(new, u)
<1>1. Len(nl) \in Nat /\ Len(new) \in Nat
  BY LenProperties
<1> QED BY <1>1 DEF Extends, Knows

\* One entry more keeps the credits of the list true, if it is a neighbour's
\* own entry or if we have listed the sender.
LEMMA CreditsGrow ==
    ASSUME NEW n \in Nodes, NEW nl \in Seq(Entry), NEW e \in Entry,
           NEW cr \in Seq(Uuids \cup {NoUuid}), Len(cr) = Len(nl),
           NEW src \in Uuids \cup {NoUuid},
           CreditsOf(n, nl, cr),
           nl[1].uuid = Uuid[n], src # Uuid[n],
           IF src = NoUuid THEN IsNeighbour(n, e.uuid)
                           ELSE IsNeighbour(n, src) /\ Knows(nl, src)
    PROVE  /\ Len(AddCredit(nl, cr, e, src)) = Len(MaybeAddEntry(nl, e))
           /\ CreditsOf(n, MaybeAddEntry(nl, e), AddCredit(nl, cr, e, src))
<1>1. CASE Knows(nl, e.uuid)
  BY <1>1 DEF MaybeAddEntry, AddCredit
<1>2. CASE ~ Knows(nl, e.uuid)
  <2>1. PICK new : new = MaybeAddEntry(nl, e)
    OBVIOUS
  <2>2. PICK crs : crs = AddCredit(nl, cr, e, src)
    OBVIOUS
  <2>3. PICK k \in Nat : k = Len(nl)
    BY LenProperties
  <2>4. /\ Len(new) = k + 1
        /\ new[k + 1] = e
        /\ \A i \in 1..k : new[i] = nl[i]
    <3>1. /\ Extends(nl, MaybeAddEntry(nl, e))
          /\ Len(MaybeAddEntry(nl, e)) = Len(nl) + 1
          /\ MaybeAddEntry(nl, e)[Len(nl) + 1] = e
      BY <1>2, MaybeAddProperties
    <3> QED BY <2>1, <2>3, <3>1 DEF Extends
  <2>5. crs = Append(cr, src)
    BY <1>2, <2>2 DEF AddCredit
  <2>6. /\ Len(crs) = k + 1
        /\ crs[k + 1] = src
        /\ \A i \in 1..k : crs[i] = cr[i]
    BY <2>3, <2>5, AppendType
  <2>7. ASSUME NEW i \in 2..k
        PROVE  IF crs[i] = NoUuid
               THEN IsNeighbour(n, new[i].uuid)
               ELSE /\ IsNeighbour(n, crs[i])
                    /\ \E j \in 2..(i - 1) : new[j].uuid = crs[i]
    <3>1. IF cr[i] = NoUuid
          THEN IsNeighbour(n, nl[i].uuid)
          ELSE /\ IsNeighbour(n, cr[i])
               /\ \E j \in 2..(i - 1) : nl[j].uuid = cr[i]
      BY <2>3 DEF CreditsOf
    <3>2. /\ crs[i] = cr[i]
          /\ new[i] = nl[i]
          /\ \A j \in 1..(i - 1) : new[j] = nl[j]
      BY <2>4, <2>6
    <3> QED BY <3>1, <3>2
  <2>8. IF crs[k + 1] = NoUuid
        THEN IsNeighbour(n, new[k + 1].uuid)
        ELSE /\ IsNeighbour(n, crs[k + 1])
             /\ \E j \in 2..k : new[j].uuid = crs[k + 1]
    BY <2>3, <2>4, <2>6 DEF Knows
  <2>9. CreditsOf(n, new, crs)
    BY <2>4, <2>7, <2>8 DEF CreditsOf
  <2> QED BY <2>1, <2>2, <2>4, <2>6, <2>9
<1> QED BY <1>1, <1>2

LEMMA MergeKeepsInv ==
    ASSUME IInv, TypeOK', NEW n \in Nodes, Merge(n)
    PROVE  IInv'
<1>1. UNCHANGED <<launch, counter, queue, reads, iface>>
  BY DEF Merge
<1>2. MergeOK(n) /\ pc[n] = "merge" /\ rest[n] # << >> /\ rest[n] \in Seq(Entry)
  BY DEF IInv, TypeOK, Merge, MergeOK
<1>3. PICK e \in Entry, tail \in Seq(Entry) :
        /\ e = Head(rest[n])
        /\ tail = Tail(rest[n])
  BY <1>2, HeadTailProperties
<1>4. /\ e = rest[n][1]
      /\ Genuine(e)
      /\ \A i \in 1..Len(tail) : Genuine(tail[i])
  <2>1. Len(rest[n]) \in Nat /\ Len(rest[n]) # 0
    BY <1>2, LenProperties, EmptySeq
  <2>2. e = rest[n][1] /\ Len(tail) = Len(rest[n]) - 1
    BY <1>2, <1>3, HeadTailProperties
  <2>3. \A i \in 1..Len(tail) : tail[i] = rest[n][i + 1]
    BY <1>2, <1>3, HeadTailProperties
  <2> QED BY <1>2, <2>1, <2>2, <2>3 DEF MergeOK
<1>5. PICK src \in Uuids \cup {NoUuid} : src = source[n]
  BY DEF IInv, TypeOK
<1>6. IF src = NoUuid THEN IsNeighbour(n, e.uuid) /\ e.uuid # Uuid[n]
                      ELSE IsNeighbour(n, src) /\ Knows(nodeList[n], src) /\ src # Uuid[n]
  BY <1>2, <1>4, <1>5 DEF MergeOK
<1>7. PICK new : new = MaybeAddEntry(nodeList[n], e)
  OBVIOUS
<1>8. PICK crs : crs = AddCredit(nodeList[n], credit[n], e, src)
  OBVIOUS
<1>9. nodeList[n] \in Seq(Entry) /\ credit[n] \in Seq(Uuids \cup {NoUuid})
  BY DEF IInv, TypeOK
<1>10. /\ new \in Seq(Entry)
       /\ Extends(nodeList[n], new)
       /\ Knows(new, e.uuid)
       /\ \A i \in 1..Len(new) : (\E j \in 1..Len(nodeList[n]) : new[i] = nodeList[n][j]) \/ new[i] = e
  BY <1>7, <1>9, MaybeAddContents
<1>11. \A m \in Nodes :
         /\ nodeList'[m] = IF m = n THEN new ELSE nodeList[m]
         /\ credit'[m] = IF m = n THEN crs ELSE credit[m]
  BY <1>3, <1>5, <1>7, <1>8 DEF Merge, IInv, TypeOK
<1>12. \A m \in Nodes :
         /\ rest'[m] = IF m = n THEN tail ELSE rest[m]
         /\ m # n => source'[m] = source[m] /\ pc'[m] = pc[m]
  BY <1>3 DEF Merge, IInv, TypeOK
<1>13. /\ pc'[n] = IF tail = << >> THEN "recv" ELSE "merge"
       /\ source'[n] = IF tail = << >> THEN NoUuid ELSE NextSource(src, e)
  BY <1>3, <1>5 DEF Merge, SourceAfter, IInv, TypeOK
<1>14. NoDuplicates'
  <2>1. \A m \in Nodes : NoRepeat(nodeList[m])
    BY DEF IInv, NoDuplicates
  <2>2. NoRepeat(new)
    BY <1>7, <1>9, <2>1, MaybeAddNoRepeat
  <2>3. \A m \in Nodes : NoRepeat(nodeList'[m])
    BY <1>11, <2>1, <2>2
  <2> QED BY <2>3 DEF NoDuplicates, NoRepeat
<1>15. LocalFirst'
  <2>1. ASSUME NEW m \in Nodes, pc'[m] # "off"
        PROVE  nodeList'[m] # << >> /\ nodeList'[m][1] = LocalEntry(m, launch[m])
    <3>1. nodeList[m] # << >> /\ nodeList[m][1] = LocalEntry(m, launch[m])
      BY <1>2, <1>12, <2>1 DEF IInv, LocalFirst
    <3>2. CASE m # n
      BY <1>11, <3>1, <3>2
    <3>3. CASE m = n
      <4>1. Len(nodeList[n]) \in Nat \ {0}
        BY <1>9, <3>1, <3>3, LenProperties, EmptySeq
      <4>2. Len(new) # 0 /\ new[1] = nodeList[n][1]
        BY <1>10, <4>1, LenProperties DEF Extends
      <4>3. new # << >>
        BY <4>2
      <4> QED BY <1>11, <3>1, <3>3, <4>2, <4>3
    <3> QED BY <3>2, <3>3
  <2> QED BY <1>1, <2>1 DEF LocalFirst, LocalEntry
<1>16. Len(crs) = Len(new) /\ CreditsOf(n, new, crs)
  <2>1. Len(credit[n]) = Len(nodeList[n]) /\ CreditsOf(n, nodeList[n], credit[n])
    BY DEF IInv, ListShape, CreditIsTrue
  <2>2. nodeList[n][1].uuid = Uuid[n] /\ src # Uuid[n]
    <3>1. nodeList[n][1] = LocalEntry(n, launch[n])
      BY <1>2 DEF IInv, LocalFirst
    <3>2. Uuid[n] # NoUuid
      BY MeshAssumption
    <3>3. nodeList[n][1].uuid = Uuid[n]
      BY <3>1 DEF LocalEntry
    <3> QED BY <1>6, <3>2, <3>3
  <2> QED BY <1>6, <1>7, <1>8, <1>9, <2>1, <2>2, CreditsGrow
<1>17. CreditIsTrue'
  <2>1. \A m \in Nodes : CreditsOf(m, nodeList'[m], credit'[m])
    BY <1>11, <1>16 DEF IInv, CreditIsTrue
  <2> QED BY <2>1 DEF CreditIsTrue, CreditsOf
<1>18. OnlyRealNodes'
  <2>1. ASSUME NEW m \in Nodes, NEW i \in 1..Len(nodeList'[m])
        PROVE  \E g : g = nodeList'[m][i] /\ Genuine(g)
    BY <1>4, <1>10, <1>11 DEF IInv, OnlyRealNodes
  <2>2. ASSUME NEW m \in Nodes, NEW i \in 1..Len(nodeList'[m])
        PROVE  Genuine(nodeList[m][i])'
    <3>1. PICK g : g = nodeList'[m][i] /\ Genuine(g)
      BY <2>1, <2>2
    <3>2. Genuine(g)'
      BY <1>1, <3>1, GenuineUnchanged
    <3> QED BY <3>1, <3>2
  <2> QED BY <2>2 DEF OnlyRealNodes
<1>19. ASSUME NEW m \in Nodes PROVE ListShape(m)'
  <2>1. ListShape(m) /\ (pc'[m] = "off" => m # n /\ pc[m] = "off")
    BY <1>12, <1>13 DEF IInv
  <2> QED BY <1>1, <1>11, <1>16, <2>1 DEF ListShape
<1>20. ASSUME NEW m \in Nodes PROVE QueueOK(m)'
  BY <1>1, FromNeighbourUnchanged DEF IInv, QueueOK
<1>21. ASSUME NEW m \in Nodes PROVE MergeOK(m)'
  <2>1. CASE m = n
    <3>1. \A i \in 1..Len(tail) : Genuine(tail[i])'
      BY <1>1, <1>4, GenuineUnchanged
    <3>2. rest'[n] = tail /\ nodeList'[n] = new
      BY <1>11, <1>12
    <3>3. CASE tail = << >>
      BY <1>13, <2>1, <3>1, <3>2, <3>3 DEF MergeOK
    <3>4. CASE tail # << >>
      <4>1. source'[n] \in Uuids
        BY <1>13, <3>4 DEF NextSource, Entry
      <4>2. source'[n] # NoUuid
        BY <4>1, MeshAssumption
      <4>3. IsNeighbour(n, source'[n]) /\ Knows(new, source'[n]) /\ source'[n] # Uuid[n]
        <5>1. CASE src = NoUuid
          BY <1>6, <1>10, <1>13, <3>4, <5>1 DEF NextSource
        <5>2. CASE src # NoUuid
          <6>1. Knows(new, src)
            BY <1>6, <1>9, <1>10, <5>2, KnowsExtends
          <6> QED BY <1>6, <1>13, <3>4, <5>2, <6>1 DEF NextSource
        <5> QED BY <5>1, <5>2
      <4>4. pc'[n] = "merge"
        BY <1>13, <3>4
      <4> QED BY <2>1, <3>1, <3>2, <3>4, <4>2, <4>3, <4>4 DEF MergeOK, Knows
    <3> QED BY <3>3, <3>4
  <2>2. CASE m # n
    <3>1. MergeOK(m)
      BY DEF IInv
    <3>2. /\ rest'[m] = rest[m] /\ source'[m] = source[m] /\ pc'[m] = pc[m]
          /\ nodeList'[m] = nodeList[m]
      BY <1>11, <1>12, <2>2
    <3> QED BY <1>1, <3>1, <3>2, OtherMergeOK
  <2> QED BY <2>1, <2>2
<1> QED BY <1>14, <1>15, <1>17, <1>18, <1>19, <1>20, <1>21 DEF IInv

\* A launch makes more entries genuine, and none false.
LEMMA GenuineMonotone ==
    ASSUME IInv, NEW n \in Nodes, launch' = [launch EXCEPT ![n] = @ + 1], NEW e, Genuine(e)
    PROVE  Genuine(e)'
<1>1. PICK m \in Nodes : Uuid[m] = e.uuid /\ e.info \in 1..launch[m]
  BY DEF Genuine
<1>2. launch[m] \in Nat /\ launch'[m] \in Nat /\ launch'[m] >= launch[m]
  <2>1. launch \in [Nodes -> Nat]
    BY DEF IInv, TypeOK
  <2>2. launch'[m] = IF m = n THEN launch[m] + 1 ELSE launch[m]
    BY <2>1
  <2> QED BY <2>1, <2>2
<1>3. e.info \in 1..launch'[m]
  BY <1>1, <1>2
<1> QED BY <1>1, <1>3 DEF Genuine

LEMMA BootKeepsInv ==
    ASSUME IInv, TypeOK', NEW n \in Nodes, Boot(n)
    PROVE  IInv'
<1>1. UNCHANGED <<queue, reads, rest, source, iface>>
  BY DEF Boot
<1>2. launch' = [launch EXCEPT ![n] = @ + 1] /\ launch[n] \in Nat /\ launch'[n] = launch[n] + 1
  BY DEF Boot, IInv, TypeOK
<1>3. PICK own : own = LocalEntry(n, launch[n] + 1)
  OBVIOUS
<1>4. \A m \in Nodes :
        /\ nodeList'[m] = IF m = n THEN <<own>> ELSE nodeList[m]
        /\ credit'[m] = IF m = n THEN <<NoUuid>> ELSE credit[m]
        /\ launch'[m] = IF m = n THEN launch[n] + 1 ELSE launch[m]
  BY <1>3 DEF Boot, IInv, TypeOK
<1>5. pc[n] = "off" /\ \A m \in Nodes : pc'[m] = IF m = n THEN "recv" ELSE pc[m]
  BY DEF Boot, IInv, TypeOK
<1>6. NoDuplicates'
  <2>1. \A m \in Nodes : NoRepeat(nodeList'[m])
    BY <1>4 DEF IInv, NoDuplicates, NoRepeat
  <2> QED BY <2>1 DEF NoDuplicates, NoRepeat
<1>7. LocalFirst'
  <2>1. ASSUME NEW m \in Nodes, pc'[m] # "off"
        PROVE  nodeList'[m] # << >> /\ nodeList'[m][1] = LocalEntry(m, launch'[m])
    <3>1. CASE m = n
      BY <1>3, <1>4, <3>1
    <3>2. CASE m # n
      BY <1>4, <1>5, <2>1, <3>2 DEF IInv, LocalFirst
    <3> QED BY <3>1, <3>2
  <2> QED BY <2>1 DEF LocalFirst, LocalEntry
<1>8. CreditIsTrue'
  <2>1. \A m \in Nodes : CreditsOf(m, nodeList'[m], credit'[m])
    <3>1. CreditsOf(n, <<own>>, <<NoUuid>>)
      BY DEF CreditsOf
    <3> QED BY <1>4, <3>1 DEF IInv, CreditIsTrue
  <2> QED BY <2>1 DEF CreditIsTrue, CreditsOf
<1>9. Genuine(own)'
  <2>1. own.uuid = Uuid[n] /\ own.info = launch[n] + 1
    BY <1>3 DEF LocalEntry
  <2>2. own.info \in 1..launch'[n]
    BY <1>2, <2>1
  <2> QED BY <2>1, <2>2 DEF Genuine
<1>10. OnlyRealNodes'
  <2>1. ASSUME NEW m \in Nodes, NEW i \in 1..Len(nodeList'[m])
        PROVE  Genuine(nodeList[m][i])'
    <3>1. CASE m = n
      BY <1>4, <1>9, <2>1, <3>1
    <3>2. CASE m # n
      <4>1. PICK g : g = nodeList[m][i] /\ g = nodeList'[m][i] /\ Genuine(g)
        BY <1>4, <2>1, <3>2 DEF IInv, OnlyRealNodes
      <4>2. Genuine(g)'
        BY <1>2, <4>1, GenuineMonotone
      <4> QED BY <4>1, <4>2
    <3> QED BY <3>1, <3>2
  <2> QED BY <2>1 DEF OnlyRealNodes
<1>11. ASSUME NEW m \in Nodes PROVE ListShape(m)'
  BY <1>1, <1>4, <1>5 DEF IInv, ListShape
<1>12. ASSUME NEW m \in Nodes PROVE QueueOK(m)'
  <2>1. ASSUME NEW d, FromNeighbour(m, d) PROVE FromNeighbour(m, d)'
    BY <1>2, <2>1, GenuineMonotone DEF FromNeighbour
  <2> QED BY <1>1, <2>1 DEF IInv, QueueOK
<1>13. ASSUME NEW m \in Nodes PROVE MergeOK(m)'
  <2>1. MergeOK(m)
    BY DEF IInv
  <2>2. PICK r : r = rest[m]
    OBVIOUS
  <2>3. \A i \in 1..Len(r) : Genuine(r[i])'
    BY <1>2, <2>1, <2>2, GenuineMonotone DEF MergeOK
  <2>4. /\ pc'[m] = "merge" <=> pc[m] = "merge"
        /\ pc[m] = "merge" => nodeList'[m] = nodeList[m]
    BY <1>4, <1>5
  <2> QED BY <1>1, <2>1, <2>2, <2>3, <2>4 DEF MergeOK, Knows
<1> QED BY <1>6, <1>7, <1>8, <1>10, <1>11, <1>12, <1>13 DEF IInv

LEMMA CrashKeepsInv ==
    ASSUME IInv, TypeOK', NEW n \in Nodes, Crash(n)
    PROVE  IInv'
<1>1. UNCHANGED launch
  BY DEF Crash
<1>2. \A m \in Nodes :
        /\ nodeList'[m] = IF m = n THEN << >> ELSE nodeList[m]
        /\ credit'[m] = IF m = n THEN << >> ELSE credit[m]
  BY DEF Crash, IInv, TypeOK
<1>3. \A m \in Nodes :
        /\ queue'[m] = IF m = n THEN << >> ELSE queue[m]
        /\ rest'[m] = IF m = n THEN << >> ELSE rest[m]
  BY DEF Crash, IInv, TypeOK
<1>4. \A m \in Nodes :
        /\ source'[m] = IF m = n THEN NoUuid ELSE source[m]
        /\ pc'[m] = IF m = n THEN "off" ELSE pc[m]
  BY DEF Crash, IInv, TypeOK
<1>5. NoDuplicates'
  <2>1. \A m \in Nodes : NoRepeat(nodeList'[m])
    BY <1>2 DEF IInv, NoDuplicates, NoRepeat
  <2> QED BY <2>1 DEF NoDuplicates, NoRepeat
<1>6. LocalFirst'
  BY <1>1, <1>2, <1>4 DEF IInv, LocalFirst, LocalEntry
<1>7. CreditIsTrue'
  <2>1. \A m \in Nodes : CreditsOf(m, nodeList'[m], credit'[m])
    BY <1>2 DEF IInv, CreditIsTrue, CreditsOf
  <2> QED BY <2>1 DEF CreditIsTrue, CreditsOf
<1>8. OnlyRealNodes'
  <2>1. ASSUME NEW m \in Nodes, NEW i \in 1..Len(nodeList'[m])
        PROVE  Genuine(nodeList[m][i])'
    <3>1. PICK g : g = nodeList'[m][i] /\ Genuine(g)
      BY <1>2, <2>1 DEF IInv, OnlyRealNodes
    <3>2. Genuine(g)'
      BY <1>1, <3>1, GenuineUnchanged
    <3> QED BY <3>1, <3>2
  <2> QED BY <2>1 DEF OnlyRealNodes
<1>9. ASSUME NEW m \in Nodes PROVE ListShape(m)'
  BY <1>2, <1>3, <1>4 DEF IInv, ListShape
<1>10. ASSUME NEW m \in Nodes PROVE QueueOK(m)'
  <2>1. GoodQueue(m, queue'[m])
    BY <1>3 DEF IInv, QueueOK, GoodQueue
  <2> QED BY <1>1, <2>1, FromNeighbourUnchanged DEF GoodQueue, QueueOK
<1>11. ASSUME NEW m \in Nodes PROVE MergeOK(m)'
  <2>1. CASE m = n
    BY <1>3, <1>4, <2>1 DEF MergeOK
  <2>2. CASE m # n
    <3>1. MergeOK(m)
      BY DEF IInv
    <3>2. /\ rest'[m] = rest[m] /\ source'[m] = source[m] /\ pc'[m] = pc[m]
          /\ nodeList'[m] = nodeList[m]
      BY <1>2, <1>3, <1>4, <2>2
    <3> QED BY <1>1, <3>1, <3>2, OtherMergeOK
  <2> QED BY <2>1, <2>2
<1> QED BY <1>5, <1>6, <1>7, <1>8, <1>9, <1>10, <1>11 DEF IInv

LEMMA InvInit == Init => IInv
<1> SUFFICES ASSUME Init PROVE IInv
  OBVIOUS
<1>1. TypeOK
  BY TypeInit
<1>2. NoDuplicates /\ LocalFirst /\ OnlyRealNodes /\ CreditIsTrue
  BY DEF Init, NoDuplicates, NoRepeat, LocalFirst, OnlyRealNodes, CreditIsTrue, CreditsOf
<1>3. ASSUME NEW n \in Nodes PROVE ListShape(n) /\ QueueOK(n) /\ MergeOK(n)
  BY DEF Init, ListShape, QueueOK, MergeOK
<1> QED BY <1>1, <1>2, <1>3 DEF IInv

LEMMA InvStep == IInv /\ [Next]_vars => IInv'
<1> SUFFICES ASSUME IInv, [Next]_vars PROVE IInv'
  OBVIOUS
<1>1. TypeOK /\ TypeOK'
  BY TypeStep DEF IInv
<1>2. ASSUME NEW n \in Nodes, Boot(n) \/ Crash(n) PROVE IInv'
  BY <1>1, <1>2, BootKeepsInv, CrashKeepsInv
<1>3. ASSUME NEW n \in Nodes, NoData(n) \/ RecvError(n) PROVE IInv'
  <2>1. pc[n] = "recv" /\ EndDrain(n) /\ UNCHANGED queue
    BY <1>3 DEF NoData, RecvError
  <2>2. /\ UNCHANGED <<launch, nodeList, credit, rest, source>>
        /\ \A m \in Nodes : /\ pc'[m] = "off" <=> pc[m] = "off"
                            /\ pc'[m] = "merge" <=> pc[m] = "merge"
    BY <1>1, <2>1, EndDrainPc
  <2> QED BY <1>1, <2>1, <2>2, NoQueueKeepsInv
<1>4. ASSUME NEW n \in Nodes, Again(n) PROVE IInv'
  BY <1>1, <1>4, NoQueueKeepsInv DEF Again
<1>5. ASSUME NEW n \in Nodes, Refuse(n) PROVE IInv'
  <2>1. GoodQueue(n, Tail(queue[n])) /\ pc[n] # "off"
    BY <1>5, GoodTail DEF Refuse, CanRead
  <2>2. queue' = [queue EXCEPT ![n] = Tail(queue[n])]
    BY <1>5 DEF Refuse
  <2>3. UNCHANGED <<pc, launch, nodeList, credit, rest, source>>
    BY <1>5 DEF Refuse
  <2> QED BY <1>1, <2>1, <2>2, <2>3, OneQueueKeepsInv
<1>6. ASSUME NEW n \in Nodes, Loopback(n) \/ RefuseEmpty(n) PROVE IInv'
  <2>1. pc[n] = "recv" /\ EndDrain(n) /\ queue[n] # << >>
    BY <1>6 DEF Loopback, RefuseEmpty, CanRead
  <2>2. /\ UNCHANGED <<launch, nodeList, credit, rest, source>>
        /\ \A m \in Nodes : /\ pc'[m] = "off" <=> pc[m] = "off"
                            /\ pc'[m] = "merge" <=> pc[m] = "merge"
    BY <1>1, <2>1, EndDrainPc
  <2>3. GoodQueue(n, Tail(queue[n]))
    BY <2>1, GoodTail
  <2>4. queue' = [queue EXCEPT ![n] = Tail(queue[n])] /\ pc[n] # "off"
    BY <1>6, <2>1 DEF Loopback, RefuseEmpty
  <2> QED BY <1>1, <2>2, <2>3, <2>4, OneQueueKeepsInv
<1>7. ASSUME NEW n \in Nodes, Accept(n) \/ Merge(n) PROVE IInv'
  BY <1>1, <1>7, AcceptKeepsInv, MergeKeepsInv
<1>8. ASSUME NEW n \in Nodes, NEW got \in SUBSET Nodes, SendIface(n, got) PROVE IInv'
  BY <1>1, <1>8, SendKeepsInv
<1>9. ASSUME NEW n \in Nodes, SendFails(n) PROVE IInv'
  BY <1>1, <1>9, NoQueueKeepsInv DEF SendFails
<1>10. ASSUME NEW n \in Nodes, FinishTick(n) PROVE IInv'
  <2>1. pc[n] = "send" /\ pc' = [pc EXCEPT ![n] = "recv"]
    BY <1>10 DEF FinishTick
  <2>2. \A m \in Nodes : /\ pc'[m] = "off" <=> pc[m] = "off"
                         /\ pc'[m] = "merge" <=> pc[m] = "merge"
    BY <1>1, <2>1 DEF TypeOK
  <2>3. UNCHANGED <<launch, nodeList, credit, queue, rest, source>>
    BY <1>10 DEF FinishTick
  <2> QED BY <1>1, <2>2, <2>3, NoQueueKeepsInv
<1>11. ASSUME NEW n \in Nodes, InjectJunk(n) \/ Reorder(n) \/ Duplicate(n) PROVE IInv'
  BY <1>1, <1>11, NetworkKeepsInv
<1>12. ASSUME UNCHANGED vars PROVE IInv'
  BY <1>1, <1>12, NoQueueKeepsInv DEF vars
<1> QED
  BY <1>2, <1>3, <1>4, <1>5, <1>6, <1>7, <1>8, <1>9, <1>10, <1>11, <1>12
     DEF Next, Process

-----------------------------------------------------------------------------
(* The theorems *)

\* IInv holds in every reachable state: of NODE_NodeList, the datagrams in
\* flight and the message being merged, for any devices and faults.
THEOREM Invariant == Spec => []IInv
BY InvInit, InvStep, PTL DEF Spec

\* Every variable of every device keeps its type (app/net.c, app/node.c).
THEOREM TypeCorrect == Spec => []TypeOK
<1>1. IInv => TypeOK
  BY DEF IInv
<1> QED BY <1>1, Invariant, PTL

\* NODE_MaybeAddEntry never makes a device list a UUID twice, along whatever
\* paths and however often it hears of a node.
THEOREM NoDuplicatesCorrect == Spec => []NoDuplicates
<1>1. IInv => NoDuplicates
  BY DEF IInv
<1> QED BY <1>1, Invariant, PTL

\* The list of a running device starts with its own entry of this launch, so
\* NODE_CheckForNewNodes credits a relayed node to the sender and to no other.
THEOREM LocalFirstCorrect == Spec => []LocalFirst
<1>1. IInv => LocalFirst
  BY DEF IInv
<1> QED BY <1>1, Invariant, PTL

\* No loss, repetition, reordering or restart makes a device list a node that
\* never ran.
THEOREM OnlyRealNodesCorrect == Spec => []OnlyRealNodes
<1>1. IInv => OnlyRealNodes
  BY DEF IInv
<1> QED BY <1>1, Invariant, PTL

\* What a device prints about how it found a node is true: the printed
\* discoverer is a neighbour that it had already listed.
THEOREM CreditIsTrueCorrect == Spec => []CreditIsTrue
<1>1. IInv => CreditIsTrue
  BY DEF IInv
<1> QED BY <1>1, Invariant, PTL

-----------------------------------------------------------------------------
(* The counter: division, as far as it is needed *)

LEMMA DivMod ==
    ASSUME NEW x \in Nat, NEW p \in Nat \ {0}
    PROVE  /\ (x % p) \in 0..(p - 1)
           /\ \E q \in Nat : x = q * p + (x % p)
<1>1. (x % p) \in 0..(p - 1)
  OBVIOUS
<1>2. x = (x \div p) * p + (x % p) /\ x \div p \in Nat
  BY SMTT(60)
<1> QED BY <1>1, <1>2

LEMMA ModOf ==
    ASSUME NEW q \in Nat, NEW p \in Nat \ {0}, NEW r \in 0..(p - 1)
    PROVE  (q * p + r) % p = r
BY SMTT(60)

LEMMA ModNext ==
    ASSUME NEW x \in Nat, NEW p \in Nat \ {0}
    PROVE  (x + 1) % p = IF (x % p) = p - 1 THEN 0 ELSE (x % p) + 1
<1>1. PICK q \in Nat : x = q * p + (x % p)
  BY DivMod
<1>2. (x % p) \in 0..(p - 1)
  BY DivMod
<1>3. q * p \in Nat /\ (q + 1) * p \in Nat /\ (q + 1) * p = q * p + p
  BY SMTT(60)
<1>4. CASE (x % p) = p - 1
  <2>1. x + 1 = (q + 1) * p + 0
    BY <1>1, <1>3, <1>4
  <2>2. ((q + 1) * p + 0) % p = 0
    BY ModOf
  <2> QED BY <1>4, <2>1, <2>2
<1>5. CASE (x % p) # p - 1
  <2>1. (x % p) + 1 \in 0..(p - 1)
    BY <1>2, <1>5
  <2>2. x + 1 = q * p + ((x % p) + 1)
    BY <1>1, <1>2, <1>3
  <2>3. (q * p + ((x % p) + 1)) % p = (x % p) + 1
    BY <2>1, ModOf
  <2> QED BY <1>5, <2>2, <2>3
<1> QED BY <1>4, <1>5

\* The arithmetic of the counter: c is due or not, and the call after it.
LEMMA RoomAfter ==
    ASSUME BacklogAssumption, NEW n \in Nodes, NEW c \in 0..(CounterMod - 1)
    PROVE  /\ Room(n, c) \in Nat /\ LeftAt(n, c) \in Nat /\ LeftAt(n, c) <= Carry(n)
           /\ Room(n, c) <= KnownIfaces(n) + Carry(n)
           /\ Due(c) => /\ Room(n, c) <= LeftAt(n, c) + 1
                        /\ LeftAt(n, c) + KnownIfaces(n) <= Room(n, NextCount(c))
           /\ ~ Due(c) => Room(n, c) <= Room(n, NextCount(c)) + 1
<1> DEFINE k == KnownIfaces(n)
           cy == Carry(n)
           g == WrapGap
           P == SendPeriod
           M == CounterMod
<1>1. P \in Nat \ {0} /\ M \in Nat \ {0} /\ M >= P /\ k \in Nat
  BY MeshAssumption, LenProperties DEF BacklogAssumption, KnownIfaces
<1>0. c \in Nat
  BY <1>1
<1>2. (M % P) \in 0..(P - 1) /\ (c % P) \in 0..(P - 1)
  BY <1>0, <1>1, DivMod
<1>3. g \in 1..P /\ (M % P = 0 => g = P) /\ (M % P # 0 => g = (M % P))
  BY <1>1, <1>2 DEF WrapGap
<1>4. cy \in Nat /\ (k > g => cy = k - g) /\ (k <= g => cy = 0) /\ k + cy <= P
  BY <1>1, <1>3 DEF Carry, BacklogAssumption
<1>5. (c + 1) % P = IF (c % P) = P - 1 THEN 0 ELSE (c % P) + 1
  BY <1>0, <1>1, ModNext
<1>6. NextCount(c) = IF c + 1 = M THEN 0 ELSE c + 1
  <2>1. CASE c + 1 = M
    <3>1. (1 * M + 0) % M = 0
      BY <1>1, ModOf
    <3> QED BY <1>1, <2>1, <3>1 DEF NextCount
  <2>2. CASE c + 1 # M
    <3>1. (0 * M + (c + 1)) % M = c + 1
      BY <1>1, <2>2, ModOf
    <3> QED BY <1>1, <2>2, <3>1 DEF NextCount
  <2> QED BY <2>1, <2>2
<1>7. 0 % P = 0 /\ P % P = 0
  <2>1. (0 * P + 0) % P = 0 /\ (1 * P + 0) % P = 0
    BY <1>1, ModOf
  <2> QED BY <1>1, <2>1
<1>8. Due(c) <=> (c % P) = 0
  BY DEF Due
<1> DEFINE Since(x, r) == IF x = 0 THEN g ELSE IF r = 0 THEN P ELSE r
           Sent(x) == k + (IF x \in 1..P THEN cy ELSE 0)
<1>9. \A x \in 0..(M - 1) :
        Room(n, x) = IF Sent(x) >= Since(x, (x % P)) THEN Sent(x) - Since(x, (x % P)) + 1 ELSE 0
  BY DEF Room, CallsSince, Due
<1>10. LeftAt(n, c) = IF c = 0 THEN cy ELSE 0
  BY DEF LeftAt
<1>11. Room(n, c) = IF Sent(c) >= Since(c, (c % P)) THEN Sent(c) - Since(c, (c % P)) + 1 ELSE 0
  BY <1>9
<1>12. Room(n, 0) = IF k >= g THEN k - g + 1 ELSE 0
  BY <1>1, <1>9
<1>13. c + 1 < M => Room(n, c + 1) = IF Sent(c + 1) >= Since(c + 1, (c + 1) % P)
                                     THEN Sent(c + 1) - Since(c + 1, (c + 1) % P) + 1 ELSE 0
  BY <1>1, <1>9
<1> HIDE DEF k, cy, g, P, M
<1>14. Room(n, c) \in Nat /\ Room(n, c) <= k + cy
  BY <1>1, <1>2, <1>3, <1>4, <1>11
<1>15. ASSUME Due(c) PROVE Room(n, c) <= LeftAt(n, c) + 1
  BY <1>1, <1>2, <1>3, <1>4, <1>8, <1>10, <1>11, <1>15
<1>16. ASSUME Due(c) PROVE LeftAt(n, c) + k <= Room(n, NextCount(c))
  <2>1. CASE c + 1 < M
    <3>1. Since(c + 1, (c + 1) % P) = 1
      BY <1>1, <1>2, <1>5, <1>8, <1>16
    <3>2. c = 0 => c + 1 \in 1..P
      BY <1>1
    <3>3. Sent(c + 1) >= LeftAt(n, c) + k
      BY <1>1, <1>4, <1>10, <3>2
    <3>4. Sent(c + 1) \in Nat
      BY <1>1, <1>4
    <3>5. Room(n, c + 1) = IF Sent(c + 1) >= 1 THEN Sent(c + 1) ELSE 0
      BY <1>13, <2>1, <3>1, <3>4
    <3> HIDE DEF Sent
    <3>6. NextCount(c) = c + 1
      BY <1>1, <1>6, <2>1
    <3>7. LeftAt(n, c) \in Nat
      BY <1>4, <1>10
    <3> QED BY <1>1, <3>3, <3>4, <3>5, <3>6, <3>7
  <2>2. CASE c + 1 = M
    <3>1. (c + 1) % P = (M % P)
      BY <2>2
    <3>2. g = 1
      BY <1>1, <1>2, <1>3, <1>5, <1>8, <1>16, <3>1
    <3>3. LeftAt(n, c) = 0
      BY <1>1, <1>3, <1>4, <1>10, <2>2, <3>2
    <3> QED BY <1>1, <1>6, <1>12, <2>2, <3>2, <3>3
  <2> QED BY <1>1, <2>1, <2>2 DEF M
<1>17. ASSUME ~ Due(c) PROVE Room(n, c) <= Room(n, NextCount(c)) + 1
  <2>0. c # 0 /\ c # P /\ (c % P) # 0
    BY <1>7, <1>8, <1>17
  <2>1. CASE c + 1 < M
    <3>1. Since(c + 1, (c + 1) % P) = Since(c, (c % P)) + 1
      BY <1>1, <1>2, <1>5, <2>0
    <3>2. Sent(c + 1) = Sent(c)
      BY <1>1, <2>0
    <3> QED BY <1>1, <1>2, <1>4, <1>6, <1>11, <1>13, <2>0, <2>1, <3>1, <3>2
  <2>2. CASE c + 1 = M
    <3>1. (c + 1) % P = (M % P)
      BY <2>2
    <3>2. (c % P) = g - 1
      BY <1>1, <1>2, <1>3, <1>5, <2>0, <3>1
    <3>3. Sent(c) = k
      <4>1. CASE (M % P) = 0
        <5>1. cy = 0
          BY <1>1, <1>3, <1>4, <4>1
        <5> QED BY <1>1, <5>1
      <4>2. CASE (M % P) # 0
        <5>1. M # P
          BY <1>7, <4>2
        <5>2. c \notin 1..P
          BY <1>1, <2>0, <2>2, <5>1
        <5> QED BY <1>1, <5>2
      <4> QED BY <4>1, <4>2
    <3> QED BY <1>1, <1>3, <1>6, <1>11, <1>12, <2>0, <2>2, <3>2, <3>3
  <2> QED BY <1>1, <2>1, <2>2 DEF M
<1> QED BY <1>4, <1>10, <1>14, <1>15, <1>16, <1>17 DEF k, cy

-----------------------------------------------------------------------------
(* Counting a device's own announcements *)

LEMMA OwnFinite ==
    ASSUME NEW q \in Seq(Datagram), NEW u
    PROVE  IsFiniteSet(Own(q, u)) /\ Cardinality(Own(q, u)) \in Nat
<1>1. Len(q) \in Nat
  BY LenProperties
<1>2. IsFiniteSet(1..Len(q)) /\ Own(q, u) \in SUBSET (1..Len(q))
  BY <1>1, FS_Interval DEF Own
<1> QED BY <1>2, FS_Subset, FS_CardinalityType

LEMMA OwnEmpty == \A u : Cardinality(Own(<< >>, u)) = 0
<1>1. \A u : Own(<< >>, u) = {}
  BY DEF Own
<1> QED BY <1>1, FS_EmptySet

LEMMA OwnEnqueue ==
    ASSUME NEW q \in Seq(Datagram), NEW d \in Datagram, NEW u
    PROVE  /\ Cardinality(Own(Enqueue(q, d), u)) <= Cardinality(Own(q, u)) + 1
           /\ d.uuid # u => Own(Enqueue(q, d), u) = Own(q, u)
<1>1. Len(q) \in Nat /\ IsFiniteSet(Own(q, u)) /\ Cardinality(Own(q, u)) \in Nat
  BY OwnFinite, LenProperties
<1>2. CASE Enqueue(q, d) = q
  BY <1>1, <1>2
<1>3. CASE Enqueue(q, d) = Append(q, d)
  <2>1. /\ Len(Append(q, d)) = Len(q) + 1
        /\ \A i \in 1..Len(q) : Append(q, d)[i] = q[i]
        /\ Append(q, d)[Len(q) + 1] = d
    BY AppendType
  <2>2. Own(Append(q, d), u) = IF d.uuid = u THEN Own(q, u) \cup {Len(q) + 1} ELSE Own(q, u)
    <3>1. \A i \in 1..(Len(q) + 1) : i \in 1..Len(q) \/ i = Len(q) + 1
      BY <1>1
    <3>2. 1..Len(q) \subseteq 1..(Len(q) + 1) /\ Len(q) + 1 \in 1..(Len(q) + 1)
      BY <1>1
    <3>3. Len(q) + 1 \notin 1..Len(q)
      BY <1>1
    <3>4. Own(Append(q, d), u) = {i \in 1..(Len(q) + 1) : Append(q, d)[i].uuid = u}
      BY <2>1 DEF Own
    <3>5. Own(q, u) = {i \in 1..Len(q) : q[i].uuid = u}
      BY DEF Own
    <3>6. CASE d.uuid = u
      <4>1. \A i : i \in Own(Append(q, d), u) <=> i \in Own(q, u) \/ i = Len(q) + 1
        BY <2>1, <3>1, <3>2, <3>3, <3>4, <3>5, <3>6
      <4>2. Own(Append(q, d), u) = Own(q, u) \cup {Len(q) + 1}
        BY <4>1
      <4> QED BY <3>6, <4>2
    <3>7. CASE d.uuid # u
      <4>1. \A i : i \in Own(Append(q, d), u) <=> i \in Own(q, u)
        BY <2>1, <3>1, <3>2, <3>3, <3>4, <3>5, <3>7
      <4>2. Own(Append(q, d), u) = Own(q, u)
        BY <4>1, <3>4, <3>5
      <4> QED BY <3>7, <4>2
    <3> QED BY <3>6, <3>7
  <2>3. Cardinality(Own(q, u) \cup {Len(q) + 1}) <= Cardinality(Own(q, u)) + 1
    <3>1. Cardinality(Own(q, u) \cup {Len(q) + 1})
            = IF Len(q) + 1 \in Own(q, u) THEN Cardinality(Own(q, u)) ELSE Cardinality(Own(q, u)) + 1
      BY <1>1, FS_AddElement
    <3> QED BY <1>1, <3>1
  <2> QED BY <1>1, <1>3, <2>2, <2>3
<1> QED BY <1>2, <1>3 DEF Enqueue

\* What is read is gone.
LEMMA OwnTail ==
    ASSUME NEW q \in Seq(Datagram), q # << >>, NEW u
    PROVE  /\ Cardinality(Own(Tail(q), u)) <= Cardinality(Own(q, u))
           /\ Head(q).uuid = u => Cardinality(Own(Tail(q), u)) + 1 <= Cardinality(Own(q, u))
<1>1. /\ Len(q) \in Nat \ {0}
      /\ Head(q) = q[1]
      /\ Tail(q) \in Seq(Datagram)
      /\ Len(Tail(q)) = Len(q) - 1
      /\ \A i \in 1..Len(Tail(q)) : Tail(q)[i] = q[i + 1]
  BY HeadTailProperties, LenProperties
<1>2. /\ IsFiniteSet(Own(q, u)) /\ Cardinality(Own(q, u)) \in Nat
      /\ IsFiniteSet(Own(Tail(q), u)) /\ Cardinality(Own(Tail(q), u)) \in Nat
  BY <1>1, OwnFinite
<1> DEFINE f == [i \in Own(Tail(q), u) |-> i + 1]
<1>3. f \in Injection(Own(Tail(q), u), Own(q, u) \ {1})
  <2>1. ASSUME NEW i \in Own(Tail(q), u) PROVE i \in Nat \ {0} /\ i + 1 \in Own(q, u) \ {1}
    BY <1>1, <2>1 DEF Own
  <2> QED BY <2>1 DEF Injection, IsInjective
<1>4. /\ IsFiniteSet(Own(q, u) \ {1})
      /\ Cardinality(Own(q, u) \ {1}) = IF 1 \in Own(q, u) THEN Cardinality(Own(q, u)) - 1
                                        ELSE Cardinality(Own(q, u))
  BY <1>2, FS_RemoveElement
<1> HIDE DEF f
<1>5. Cardinality(Own(Tail(q), u)) <= Cardinality(Own(q, u) \ {1})
  BY <1>3, <1>4, FS_Injection
<1>6. Head(q).uuid = u => 1 \in Own(q, u)
  BY <1>1 DEF Own
<1> QED BY <1>2, <1>4, <1>5, <1>6

\* Swapping two messages changes no count.
LEMMA OwnSwap ==
    ASSUME NEW q \in Seq(Datagram), NEW i \in 1..(Len(q) - 1), NEW u
    PROVE  Cardinality(Own(Swap(q, i), u)) <= Cardinality(Own(q, u))
<1>1. /\ Len(q) \in Nat /\ Len(Swap(q, i)) = Len(q)
      /\ i \in 1..Len(q) /\ i + 1 \in 1..Len(q)
  BY LenProperties, SwapProperties
<1>2. \A j \in 1..Len(q) : Swap(q, i)[j] = IF j = i THEN q[i + 1] ELSE IF j = i + 1 THEN q[i] ELSE q[j]
  BY <1>1, LenProperties DEF Swap
<1> DEFINE f == [j \in Own(Swap(q, i), u) |-> IF j = i THEN i + 1 ELSE IF j = i + 1 THEN i ELSE j]
<1>3. f \in Injection(Own(Swap(q, i), u), Own(q, u))
  <2>1. ASSUME NEW j \in Own(Swap(q, i), u) PROVE j \in 1..Len(q) /\ f[j] \in Own(q, u)
    BY <1>1, <1>2 DEF Own
  <2>2. \A j, k \in Own(Swap(q, i), u) : f[j] = f[k] => j = k
    BY <1>1, <2>1
  <2> QED BY <2>1, <2>2 DEF Injection, IsInjective
<1>4. IsFiniteSet(Own(q, u))
  BY OwnFinite
<1> QED BY <1>3, <1>4, FS_Injection

-----------------------------------------------------------------------------
(* Own announcements never pile up *)

LEMMA SameBacklog ==
    ASSUME NEW m \in Nodes, BacklogOK(m), pc'[m] = pc[m], reads'[m] = reads[m],
           counter'[m] = counter[m], iface'[m] = iface[m], queue'[m] = queue[m]
    PROVE  BacklogOK(m)'
BY DEF BacklogOK

\* A device without interfaces hears nothing.
LEMMA NoIfaceNoQueue ==
    ASSUME BacklogInv, NEW n \in Nodes, KnownIfaces(n) = 0
    PROVE  queue[n] = << >>
<1>1. queue[n] \in Seq(Datagram) /\ Len(queue[n]) \in Nat
  BY LenProperties DEF BacklogInv, IInv, TypeOK
<1>2. ~ \E w \in Networks : OnNetwork(n, w)
  BY MeshAssumption, LenProperties DEF KnownIfaces, OnNetwork
<1>3. ASSUME Len(queue[n]) # 0 PROVE FALSE
  <2>1. FromNeighbour(n, queue[n][1])
    BY <1>1, <1>3 DEF BacklogInv, BacklogOK, IInv, QueueOK
  <2> QED BY <1>2, <2>1 DEF FromNeighbour, IsNeighbour, Neighbours
<1> QED BY <1>1, <1>3, EmptySeq, LenProperties

\* The call ends; it has read one of the device's own announcements, or there
\* is none.
LEMMA EndDrainBacklog ==
    ASSUME BacklogAssumption, BacklogInv, TypeOK', NEW n \in Nodes, pc[n] = "recv", EndDrain(n),
           \A i \in 1..Len(queue'[n]) : queue'[n][i] # Junk,
           \/ Cardinality(Own(queue'[n], Uuid[n])) = 0
           \/ Cardinality(Own(queue'[n], Uuid[n])) + 1 <= Room(n, counter[n])
    PROVE  BacklogOK(n)'
<1> DEFINE c == counter[n]
           own == Cardinality(Own(queue'[n], Uuid[n]))
<1>1. c \in 0..(CounterMod - 1) /\ own \in Nat /\ KnownIfaces(n) \in Nat
  BY MeshAssumption, OwnFinite, LenProperties DEF BacklogInv, IInv, TypeOK, KnownIfaces
<1>2. /\ Room(n, c) \in Nat /\ LeftAt(n, c) \in Nat
      /\ Due(c) => Room(n, c) <= LeftAt(n, c) + 1
      /\ ~ Due(c) => Room(n, c) <= Room(n, NextCount(c)) + 1
  BY <1>1, RoomAfter
<1>3. reads'[n] = 0
  BY DEF EndDrain, BacklogInv, IInv, TypeOK
<1>4. CASE Due(c)
  <2>1. pc'[n] = "send" /\ iface'[n] = 1 /\ counter' = counter
    BY <1>4 DEF EndDrain, BacklogInv, IInv, TypeOK
  <2>2. own <= LeftAt(n, c)
    BY <1>1, <1>2, <1>4
  <2>3. own <= LeftAt(n, c) + 1 - 1
    BY <1>1, <1>2, <2>2
  <2>4. 1 <= KnownIfaces(n) + 1
    BY <1>1
  <2> QED BY <1>3, <1>4, <2>1, <2>3, <2>4 DEF BacklogOK
<1>5. CASE ~ Due(c)
  <2>1. pc'[n] # "send" /\ counter'[n] = NextCount(c)
    BY <1>5 DEF EndDrain, BacklogInv, IInv, TypeOK
  <2>2. NextCount(c) \in 0..(CounterMod - 1)
    BY <1>1, MeshAssumption DEF NextCount
  <2>3. Room(n, NextCount(c)) \in Nat
    BY <2>2, RoomAfter
  <2>4. own <= Room(n, NextCount(c))
    BY <1>1, <1>2, <1>5, <2>3
  <2> QED BY <1>3, <2>1, <2>4 DEF BacklogOK
<1> QED BY <1>4, <1>5

\* One sendto: the sender's own socket gets at most one datagram.
LEMMA SendBacklog ==
    ASSUME BacklogAssumption, BacklogInv, TypeOK', NEW n \in Nodes, NEW got \in SUBSET Nodes,
           SendIface(n, got), NEW m \in Nodes
    PROVE  BacklogOK(m)'
<1>1. /\ queue[m] \in Seq(Datagram) /\ queue'[m] \in Seq(Datagram)
      /\ Announcement(n) \in Datagram
      /\ queue'[m] = queue[m] \/ queue'[m] = Enqueue(queue[m], Announcement(n))
  BY AnnouncementType DEF BacklogInv, IInv, TypeOK, SendIface
<1>2. Announcement(n).uuid = Uuid[n] /\ Announcement(n) # Junk
  BY MeshAssumption DEF Announcement, Junk
<1>3. /\ BacklogOK(m) /\ Len(queue[m]) \in Nat
      /\ Cardinality(Own(queue[m], Uuid[m])) \in Nat /\ Cardinality(Own(queue'[m], Uuid[m])) \in Nat
  BY <1>1, OwnFinite, LenProperties DEF BacklogInv
<1>4. \A i \in 1..Len(queue'[m]) : queue'[m][i] # Junk
  <2>1. CASE queue'[m] = queue[m]
    BY <1>3, <2>1 DEF BacklogOK
  <2>2. CASE queue'[m] = Append(queue[m], Announcement(n))
    BY <1>1, <1>2, <1>3, <2>2, AppendType DEF BacklogOK
  <2> QED BY <1>1, <2>1, <2>2 DEF Enqueue
<1>5. CASE m # n
  <2>1. Uuid[n] # Uuid[m]
    BY <1>5 DEF BacklogAssumption
  <2>2. Own(queue'[m], Uuid[m]) = Own(queue[m], Uuid[m])
    BY <1>1, <1>2, <2>1, OwnEnqueue
  <2>3. pc'[m] = pc[m] /\ reads'[m] = reads[m] /\ counter'[m] = counter[m] /\ iface'[m] = iface[m]
    BY <1>5 DEF SendIface, BacklogInv, IInv, TypeOK
  <2> QED BY <1>3, <1>4, <2>2, <2>3 DEF BacklogOK
<1>6. CASE m = n
  <2>1. Cardinality(Own(queue'[n], Uuid[n])) <= Cardinality(Own(queue[n], Uuid[n])) + 1
    BY <1>1, <1>3, <1>6, OwnEnqueue
  <2>2. /\ pc[n] = "send" /\ pc' = pc /\ reads' = reads /\ counter' = counter
        /\ iface'[n] = iface[n] + 1 /\ iface[n] <= KnownIfaces(n) /\ iface[n] \in Nat
        /\ counter[n] \in 0..(CounterMod - 1)
    BY DEF SendIface, BacklogInv, IInv, TypeOK
  <2>3. LeftAt(n, counter[n]) \in Nat /\ KnownIfaces(n) \in Nat
    BY <2>2, RoomAfter, MeshAssumption, LenProperties DEF KnownIfaces
  <2>4. Cardinality(Own(queue'[n], Uuid[n])) <= LeftAt(n, counter[n]) + iface'[n] - 1
    BY <1>3, <1>6, <2>1, <2>2, <2>3 DEF BacklogOK
  <2>5. iface'[n] <= KnownIfaces(n) + 1
    BY <2>2, <2>3
  <2> QED BY <1>3, <1>4, <1>6, <2>2, <2>4, <2>5 DEF BacklogOK
<1> QED BY <1>5, <1>6

\* The rest of NET_HandleBcast once the list is sent.
LEMMA SentBacklog ==
    ASSUME BacklogAssumption, BacklogInv, TypeOK', NEW n \in Nodes, SendFails(n) \/ FinishTick(n)
    PROVE  BacklogOK(n)'
<1> DEFINE c == counter[n]
           own == Cardinality(Own(queue[n], Uuid[n]))
<1>1. /\ c \in 0..(CounterMod - 1) /\ own \in Nat /\ KnownIfaces(n) \in Nat
      /\ iface[n] \in Nat \ {0} /\ pc[n] = "send"
  BY MeshAssumption, OwnFinite, LenProperties
     DEF BacklogInv, IInv, TypeOK, KnownIfaces, SendFails, FinishTick
<1>2. /\ LeftAt(n, c) \in Nat
      /\ Due(c) => LeftAt(n, c) + KnownIfaces(n) <= Room(n, NextCount(c))
  BY <1>1, RoomAfter
<1>3. /\ BacklogOK(n) /\ Due(c) /\ iface[n] <= KnownIfaces(n) + 1
      /\ own <= LeftAt(n, c) + iface[n] - 1
  BY <1>1 DEF BacklogInv, BacklogOK
<1>4. own <= LeftAt(n, c) + KnownIfaces(n)
  BY <1>1, <1>2, <1>3
<1>5. CASE SendFails(n)
  <2>1. /\ iface'[n] = KnownIfaces(n) + 1 /\ pc' = pc /\ counter' = counter /\ queue' = queue
        /\ reads' = reads
    BY <1>5 DEF SendFails, BacklogInv, IInv, TypeOK
  <2>2. own <= LeftAt(n, c) + iface'[n] - 1
    BY <1>1, <1>2, <1>4, <2>1
  <2>3. iface'[n] <= KnownIfaces(n) + 1
    BY <1>1, <2>1
  <2> QED BY <1>1, <1>3, <2>1, <2>2, <2>3 DEF BacklogOK
<1>6. CASE FinishTick(n)
  <2>1. /\ counter'[n] = NextCount(c) /\ pc'[n] = "recv" /\ queue' = queue /\ reads' = reads
    BY <1>6 DEF FinishTick, BacklogInv, IInv, TypeOK
  <2>2. NextCount(c) \in 0..(CounterMod - 1)
    BY <1>1, MeshAssumption DEF NextCount
  <2>3. Room(n, NextCount(c)) \in Nat
    BY <2>2, RoomAfter
  <2>4. own <= Room(n, NextCount(c))
    BY <1>1, <1>2, <1>3, <1>4, <2>3
  <2> QED BY <1>3, <2>1, <2>4 DEF BacklogOK
<1> QED BY <1>5, <1>6

\* A message is read: the device's own ends the call, any other is merged.
LEMMA ReadBacklog ==
    ASSUME BacklogAssumption, BacklogInv, TypeOK', NEW n \in Nodes, Loopback(n) \/ Accept(n)
    PROVE  BacklogOK(n)'
<1> DEFINE own == Cardinality(Own(queue[n], Uuid[n]))
           left == Cardinality(Own(Tail(queue[n]), Uuid[n]))
<1>1. /\ queue[n] \in Seq(Datagram) /\ queue[n] # << >> /\ pc[n] = "recv" /\ BacklogOK(n)
      /\ queue'[n] = Tail(queue[n])
      /\ counter[n] \in 0..(CounterMod - 1)
  BY DEF BacklogInv, IInv, TypeOK, Loopback, Accept, CanRead
<1>2. /\ Tail(queue[n]) \in Seq(Datagram) /\ Len(queue[n]) \in Nat
      /\ Len(Tail(queue[n])) = Len(queue[n]) - 1
      /\ \A i \in 1..Len(Tail(queue[n])) : Tail(queue[n])[i] = queue[n][i + 1]
  BY <1>1, HeadTailProperties, LenProperties
<1>3. /\ own \in Nat /\ left \in Nat /\ left <= own
      /\ Head(queue[n]).uuid = Uuid[n] => left + 1 <= own
  BY <1>1, <1>2, OwnFinite, OwnTail
<1>4. own <= Room(n, counter[n]) /\ Room(n, counter[n]) \in Nat
  BY <1>1, RoomAfter DEF BacklogOK
<1>5. \A i \in 1..Len(queue'[n]) : queue'[n][i] # Junk
  BY <1>1, <1>2 DEF BacklogOK
<1>6. CASE Loopback(n)
  <2>1. left + 1 <= Room(n, counter[n])
    BY <1>3, <1>4, <1>6 DEF Loopback
  <2>2. EndDrain(n)
    BY <1>6 DEF Loopback
  <2> QED BY <1>1, <1>5, <2>1, <2>2, EndDrainBacklog
<1>7. CASE Accept(n)
  <2>1. pc'[n] = "merge" /\ reads'[n] = 0 /\ counter' = counter
    BY <1>7 DEF Accept, BacklogInv, IInv, TypeOK
  <2>2. left <= Room(n, counter[n])
    BY <1>3, <1>4
  <2> QED BY <1>1, <1>5, <2>1, <2>2 DEF BacklogOK
<1> QED BY <1>6, <1>7

\* A device is switched on or dies: nothing is queued.
LEMMA RestartBacklog ==
    ASSUME BacklogAssumption, BacklogInv, TypeOK', NEW n \in Nodes, Boot(n) \/ Crash(n)
    PROVE  BacklogOK(n)'
<1>1. queue'[n] = << >> /\ counter'[n] = 0 /\ pc'[n] # "send" /\ reads'[n] = 0
  <2>1. CASE Boot(n)
    BY <2>1 DEF Boot, BacklogInv, IInv, TypeOK, ListShape, BacklogOK
  <2>2. CASE Crash(n)
    BY <2>2 DEF Crash, BacklogInv, IInv, TypeOK
  <2> QED BY <2>1, <2>2
<1>2. Room(n, 0) \in Nat
  BY MeshAssumption, RoomAfter
<1>3. Cardinality(Own(<< >>, Uuid[n])) = 0
  BY OwnEmpty
<1>4. Len(<< >>) = 0
  BY LenProperties, EmptySeq
<1> QED BY <1>1, <1>2, <1>3, <1>4 DEF BacklogOK

LEMMA BacklogStep ==
    BacklogAssumption => (BacklogInv /\ [Next]_vars => BacklogInv')
<1> SUFFICES ASSUME BacklogAssumption, BacklogInv, [Next]_vars, NEW m \in Nodes
             PROVE  BacklogOK(m)'
  BY InvStep DEF BacklogInv
<1>1. IInv' /\ TypeOK' /\ TypeOK /\ IInv
  BY InvStep DEF BacklogInv, IInv
<1>0. /\ pc = [k \in Nodes |-> pc[k]] /\ counter = [k \in Nodes |-> counter[k]]
      /\ queue = [k \in Nodes |-> queue[k]] /\ reads = [k \in Nodes |-> reads[k]]
      /\ iface = [k \in Nodes |-> iface[k]]
  BY <1>1 DEF TypeOK
<1>2. BacklogOK(m)
  BY DEF BacklogInv
<1>3. ASSUME NEW n \in Nodes, Boot(n) \/ Crash(n) \/ Loopback(n) \/ Accept(n) \/ SendFails(n) \/ FinishTick(n)
      PROVE  BacklogOK(m)'
  <2>1. CASE m = n
    BY <1>1, <1>3, <2>1, RestartBacklog, ReadBacklog, SentBacklog
  <2>2. CASE m # n
    <3>1. CASE Boot(n) \/ Crash(n)
      <4>1. /\ pc'[m] = pc[m] /\ counter'[m] = counter[m]
        BY <1>0, <2>2, <3>1 DEF Boot, Crash
      <4>2. reads'[m] = reads[m] /\ iface'[m] = iface[m] /\ queue'[m] = queue[m]
        <5>1. CASE Boot(n)
          BY <5>1 DEF Boot
        <5>2. CASE Crash(n)
          BY <1>0, <2>2, <5>2 DEF Crash
        <5> QED BY <3>1, <5>1, <5>2
      <4> QED BY <1>2, <4>1, <4>2, SameBacklog
    <3>2. CASE Loopback(n)
      <4>1. EndDrain(n) /\ queue'[m] = queue[m]
        BY <1>0, <2>2, <3>2 DEF Loopback
      <4>2. /\ pc'[m] = pc[m] /\ reads'[m] = reads[m] /\ counter'[m] = counter[m]
            /\ iface'[m] = iface[m]
        BY <1>0, <2>2, <4>1 DEF EndDrain
      <4> QED BY <1>2, <4>1, <4>2, SameBacklog
    <3>3. CASE Accept(n) \/ SendFails(n) \/ FinishTick(n)
      <4>1. /\ pc'[m] = pc[m] /\ reads'[m] = reads[m] /\ counter'[m] = counter[m]
            /\ iface'[m] = iface[m] /\ queue'[m] = queue[m]
        <5>1. CASE Accept(n)
          BY <1>0, <2>2, <5>1 DEF Accept
        <5>2. CASE SendFails(n) \/ FinishTick(n)
          BY <1>0, <2>2, <5>2 DEF SendFails, FinishTick
        <5> QED BY <3>3, <5>1, <5>2
      <4> QED BY <1>2, <4>1, SameBacklog
    <3> QED BY <1>3, <3>1, <3>2, <3>3
  <2> QED BY <2>1, <2>2
<1>4. ASSUME NEW n \in Nodes, NoData(n) PROVE BacklogOK(m)'
  <2>1. EndDrain(n) /\ queue' = queue /\ pc[n] = "recv" /\ BacklogOK(n)
    BY <1>4 DEF NoData, BacklogInv
  <2>2. queue[n] = << >>
    BY <1>4, <2>1, NoIfaceNoQueue DEF NoData, BacklogOK
  <2>3. Cardinality(Own(queue'[n], Uuid[n])) = 0
    BY <2>1, <2>2, OwnEmpty
  <2>4. \A i \in 1..Len(queue'[n]) : queue'[n][i] # Junk
    BY <2>1 DEF BacklogOK
  <2>5. BacklogOK(n)'
    BY <1>1, <2>1, <2>3, <2>4, EndDrainBacklog
  <2>6. CASE m # n
    <3>1. /\ pc'[m] = pc[m] /\ reads'[m] = reads[m] /\ counter'[m] = counter[m]
          /\ iface'[m] = iface[m] /\ queue'[m] = queue[m]
      BY <1>0, <2>1, <2>6 DEF EndDrain
    <3> QED BY <1>2, <3>1, SameBacklog
  <2> QED BY <2>5, <2>6
<1>5. ASSUME NEW n \in Nodes, Again(n) \/ Refuse(n) \/ RefuseEmpty(n) PROVE FALSE
  <2>1. reads[n] = 0 /\ queue[n] \in Seq(Datagram) /\ BacklogOK(n)
    BY DEF BacklogInv, BacklogOK, IInv, TypeOK
  <2>2. ~ Again(n)
    BY <2>1 DEF Again
  <2>3. queue[n] # << >> => Head(queue[n]) # Junk
    <3>1. queue[n] # << >> => Head(queue[n]) = queue[n][1] /\ 1 \in 1..Len(queue[n])
      BY <2>1, HeadTailProperties, LenProperties
    <3> QED BY <2>1, <3>1 DEF BacklogOK
  <2> QED BY <1>5, <2>2, <2>3 DEF Refuse, RefuseEmpty, CanRead
<1>6. ASSUME NEW n \in Nodes, RecvError(n) \/ InjectJunk(n) \/ Duplicate(n) PROVE FALSE
  BY <1>6 DEF BacklogAssumption, RecvError, InjectJunk, Duplicate
<1>7. ASSUME NEW n \in Nodes, Merge(n) PROVE BacklogOK(m)'
  <2>1. UNCHANGED <<counter, queue, reads, iface>> /\ pc[n] = "merge"
        /\ (pc'[m] = "send" <=> pc[m] = "send")
    BY <1>1, <1>7 DEF Merge, TypeOK
  <2> QED BY <1>2, <2>1 DEF BacklogOK
<1>8. ASSUME NEW n \in Nodes, NEW got \in SUBSET Nodes, SendIface(n, got) PROVE BacklogOK(m)'
  BY <1>1, <1>8, SendBacklog
<1>9. ASSUME NEW n \in Nodes, Reorder(n) PROVE BacklogOK(m)'
  <2>1. PICK i \in 1..(Len(queue[n]) - 1) : queue' = [queue EXCEPT ![n] = Swap(@, i)]
    BY <1>9 DEF Reorder
  <2>2. UNCHANGED <<pc, counter, reads, iface>> /\ queue[n] \in Seq(Datagram)
    BY <1>1, <1>9 DEF Reorder, TypeOK
  <2>3. CASE m # n
    BY <1>1, <1>2, <2>1, <2>2, <2>3, SameBacklog DEF TypeOK
  <2>4. CASE m = n
    <3>1. queue'[n] = Swap(queue[n], i)
      BY <1>1, <2>1 DEF TypeOK
    <3>2. /\ Swap(queue[n], i) \in Seq(Datagram)
          /\ Len(Swap(queue[n], i)) = Len(queue[n])
          /\ \A j \in 1..Len(queue[n]) : \E k \in 1..Len(queue[n]) : Swap(queue[n], i)[j] = queue[n][k]
      BY <2>2, SwapProperties
    <3>3. \A j \in 1..Len(queue'[n]) : queue'[n][j] # Junk
      <4>1. \A k \in 1..Len(queue[n]) : queue[n][k] # Junk
        BY <1>2, <2>4 DEF BacklogOK
      <4> QED BY <3>1, <3>2, <4>1
    <3>4. /\ Cardinality(Own(queue'[n], Uuid[n])) <= Cardinality(Own(queue[n], Uuid[n]))
          /\ Cardinality(Own(queue'[n], Uuid[n])) \in Nat /\ Cardinality(Own(queue[n], Uuid[n])) \in Nat
      BY <2>2, <3>1, <3>2, OwnSwap, OwnFinite
    <3>5. /\ counter[n] \in 0..(CounterMod - 1) /\ iface[n] \in Nat
      BY <1>1 DEF TypeOK
    <3>6. Room(n, counter[n]) \in Nat /\ LeftAt(n, counter[n]) \in Nat
      BY <3>5, RoomAfter
    <3>7. CASE pc[n] = "send"
      <4>1. Cardinality(Own(queue'[n], Uuid[n])) <= LeftAt(n, counter[n]) + iface[n] - 1
        BY <1>2, <2>4, <3>4, <3>5, <3>6, <3>7 DEF BacklogOK
      <4> QED BY <1>2, <2>2, <2>4, <3>3, <3>7, <4>1 DEF BacklogOK
    <3>8. CASE pc[n] # "send"
      <4>1. Cardinality(Own(queue'[n], Uuid[n])) <= Room(n, counter[n])
        BY <1>2, <2>4, <3>4, <3>6, <3>8 DEF BacklogOK
      <4> QED BY <1>2, <2>2, <2>4, <3>3, <3>8, <4>1 DEF BacklogOK
    <3> QED BY <3>7, <3>8
  <2> QED BY <2>3, <2>4
<1>10. CASE UNCHANGED vars
  BY <1>2, <1>10, SameBacklog DEF vars
<1> QED
  BY <1>3, <1>4, <1>5, <1>6, <1>7, <1>8, <1>9, <1>10 DEF Next, Process

\* Whatever is lost, reordered or not sent, and however often a device
\* restarts: its own announcements, of which a call of NET_HandleBcast reads
\* back one, never fill its receive buffer.  With the code's period of 15 and
\* its 32-bit counter this holds for up to 8 interfaces.
THEOREM OwnBacklogCorrect == BacklogAssumption => (Spec => []OwnBacklog)
<1> SUFFICES ASSUME BacklogAssumption PROVE Spec => []OwnBacklog
  OBVIOUS
<1>1. Init => BacklogInv
  <2> SUFFICES ASSUME Init, NEW n \in Nodes PROVE BacklogOK(n)
    BY InvInit DEF BacklogInv
  <2>1. queue[n] = << >> /\ counter[n] = 0 /\ pc[n] # "send" /\ reads[n] = 0
    BY DEF Init
  <2>2. Room(n, 0) \in Nat
    BY MeshAssumption, RoomAfter
  <2>3. Cardinality(Own(<< >>, Uuid[n])) = 0 /\ Len(<< >>) = 0
    BY OwnEmpty, LenProperties, EmptySeq
  <2> QED BY <2>1, <2>2, <2>3 DEF BacklogOK
<1>2. BacklogInv => OwnBacklog
  <2> SUFFICES ASSUME BacklogInv, NEW n \in Nodes
               PROVE  Cardinality(Own(queue[n], Uuid[n])) <= KnownIfaces(n) + Carry(n)
    BY DEF OwnBacklog
  <2>1. /\ counter[n] \in 0..(CounterMod - 1) /\ iface[n] \in Nat \ {0}
        /\ Cardinality(Own(queue[n], Uuid[n])) \in Nat /\ KnownIfaces(n) \in Nat /\ Carry(n) \in Nat
    BY MeshAssumption, OwnFinite, LenProperties
       DEF BacklogInv, IInv, TypeOK, KnownIfaces, Carry, WrapGap
  <2>2. /\ Room(n, counter[n]) \in Nat /\ LeftAt(n, counter[n]) \in Nat
        /\ LeftAt(n, counter[n]) <= Carry(n)
        /\ Room(n, counter[n]) <= KnownIfaces(n) + Carry(n)
    BY <2>1, RoomAfter
  <2> QED BY <2>1, <2>2 DEF BacklogInv, BacklogOK
<1> QED BY <1>1, <1>2, BacklogStep, PTL DEF Spec

-----------------------------------------------------------------------------
(* DrainRunsDown *)

\* A call of NET_HandleBcast that does not announce counts itself.
LEMMA CountMoves ==
    ASSUME NEW c \in 0..(CounterMod - 1), ~ Due(c)
    PROVE  NextCount(c) # c
<1>1. c \in Nat /\ CounterMod \in Nat \ {0} /\ SendPeriod \in Nat \ {0} /\ c % CounterMod = c
  <2>1. c \in Nat /\ CounterMod \in Nat \ {0} /\ SendPeriod \in Nat \ {0}
    BY MeshAssumption
  <2>2. 0 * CounterMod + c = c /\ 0 \in Nat
    BY <2>1
  <2>3. (0 * CounterMod + c) % CounterMod = c
    BY <2>1, <2>2, ModOf
  <2> QED BY <2>1, <2>2, <2>3
<1>2. c # 0
  <2>1. 0 % SendPeriod = 0
    BY <1>1
  <2> QED BY <2>1 DEF Due
<1>3. NextCount(c) = IF c = CounterMod - 1 THEN 0 ELSE c + 1
  BY <1>1, ModNext DEF NextCount
<1> QED BY <1>1, <1>2, <1>3

LEMMA EndDrainLeaves ==
    ASSUME TypeOK, NEW n \in Nodes, EndDrain(n), pc'[n] \in {"recv", "merge"}
    PROVE  counter'[n] # counter[n]
<1>1. counter[n] \in 0..(CounterMod - 1) /\ n \in DOMAIN pc /\ n \in DOMAIN counter
  BY DEF TypeOK
<1>2. ~ Due(counter[n])
  BY <1>1 DEF EndDrain
<1>3. counter'[n] = NextCount(counter[n])
  BY <1>1, <1>2 DEF EndDrain
<1> QED BY <1>1, <1>2, <1>3, CountMoves

LEMMA OthersStay ==
    ASSUME TypeOK, NEW n \in Nodes, NEW m \in Nodes \ {n}, Boot(m) \/ Crash(m) \/ Process(m)
    PROVE  /\ pc'[n] = pc[n] /\ nodeList'[n] = nodeList[n] /\ reads'[n] = reads[n]
           /\ rest'[n] = rest[n] /\ source'[n] = source[n]
<1>1. n # m /\ DOMAIN pc = Nodes /\ DOMAIN nodeList = Nodes /\ DOMAIN reads = Nodes
      /\ DOMAIN rest = Nodes /\ DOMAIN source = Nodes
  BY DEF TypeOK
<1>2. CASE Boot(m) \/ Crash(m)
  BY <1>1, <1>2 DEF Boot, Crash
<1>3. CASE NoData(m) \/ RecvError(m) \/ RefuseEmpty(m) \/ Loopback(m)
  <2>1. EndDrain(m)
    BY <1>3 DEF NoData, RecvError, RefuseEmpty, Loopback
  <2> QED BY <1>1, <2>1 DEF EndDrain
<1>4. CASE Again(m) \/ Refuse(m) \/ Accept(m)
  BY <1>1, <1>4 DEF Again, Refuse, Accept
<1>5. CASE Merge(m)
  BY <1>1, <1>5 DEF Merge
<1>6. CASE (\E got \in SUBSET Nodes : SendIface(m, got)) \/ SendFails(m) \/ FinishTick(m)
  BY <1>1, <1>6 DEF SendIface, SendFails, FinishTick
<1> QED BY <1>2, <1>3, <1>4, <1>5, <1>6 DEF Process

LEMMA RunsDownStep ==
    ASSUME IInv, [Next]_vars, NEW n \in Nodes,
           pc[n] \in {"recv", "merge"}, pc'[n] \in {"recv", "merge"}, counter'[n] = counter[n],
           <<pc'[n], nodeList'[n], reads'[n], rest'[n], source'[n]>>
             # <<pc[n], nodeList[n], reads[n], rest[n], source[n]>>
    PROVE  LessToDo(n)
<1>1. /\ TypeOK /\ MergeOK(n)
      /\ queue[n] \in Seq(Datagram) /\ Len(queue[n]) \in Nat
      /\ rest[n] \in Seq(Entry) /\ Len(rest[n]) \in Nat
      /\ reads[n] \in Nat /\ KnownIfaces(n) \in Nat
      /\ pc \in [Nodes -> {"off", "recv", "merge", "send"}]
  BY LenProperties, MeshAssumption DEF IInv, TypeOK, KnownIfaces
<1>2. ASSUME queue[n] # << >>, queue' = [queue EXCEPT ![n] = Tail(@)] PROVE LessToDo(n)
  <2>1. queue'[n] = Tail(queue[n])
    BY <1>2 DEF IInv, TypeOK
  <2>2. Len(queue'[n]) = Len(queue[n]) - 1
    BY <1>1, <1>2, <2>1, HeadTailProperties
  <2> QED BY <1>1, <2>2 DEF LessToDo
<1>3. CASE Process(n)
  <2>1. CASE NoData(n) \/ RecvError(n) \/ RefuseEmpty(n) \/ Loopback(n)
    BY <1>1, <2>1, EndDrainLeaves DEF NoData, RecvError, RefuseEmpty, Loopback
  <2>2. CASE Again(n)
    <3>1. /\ reads'[n] = reads[n] + 1 /\ reads[n] <= KnownIfaces(n) - 1
          /\ queue'[n] = queue[n] /\ rest'[n] = rest[n]
      BY <1>1, <2>2 DEF Again, TypeOK
    <3> QED BY <1>1, <3>1 DEF LessToDo
  <2>3. CASE Refuse(n)
    BY <1>2, <2>3 DEF Refuse, CanRead
  <2>4. CASE Accept(n)
    BY <1>2, <2>4 DEF Accept, CanRead
  <2>5. CASE Merge(n)
    <3>1. rest[n] # << >> /\ rest'[n] = Tail(rest[n]) /\ queue'[n] = queue[n]
      BY <1>1, <2>5 DEF Merge, MergeOK, TypeOK
    <3>2. Len(rest'[n]) = Len(rest[n]) - 1
      BY <1>1, <3>1, HeadTailProperties
    <3> QED BY <1>1, <3>1, <3>2 DEF LessToDo
  <2>6. ~ (\E got \in SUBSET Nodes : SendIface(n, got)) /\ ~ SendFails(n) /\ ~ FinishTick(n)
    BY DEF SendIface, SendFails, FinishTick
  <2> QED BY <1>3, <2>1, <2>2, <2>3, <2>4, <2>5, <2>6 DEF Process
<1>4. ~ Boot(n) /\ ~ Crash(n)
  BY <1>1 DEF Boot, Crash
<1>5. CASE \E m \in Nodes \ {n} : Boot(m) \/ Crash(m) \/ Process(m)
  <2>1. PICK m \in Nodes \ {n} : Boot(m) \/ Crash(m) \/ Process(m)
    BY <1>5
  <2>2. /\ pc'[n] = pc[n] /\ nodeList'[n] = nodeList[n] /\ reads'[n] = reads[n]
        /\ rest'[n] = rest[n] /\ source'[n] = source[n]
    BY <1>1, <2>1, OthersStay
  <2> QED BY <2>2
<1>6. CASE \E m \in Nodes : InjectJunk(m) \/ Reorder(m) \/ Duplicate(m)
  BY <1>6 DEF InjectJunk, Reorder, Duplicate
<1>7. CASE UNCHANGED vars
  BY <1>7 DEF vars
<1> QED BY <1>3, <1>4, <1>5, <1>6, <1>7 DEF Next

\* Whatever a device is sent, however often and whichever call fails: as long as
\* nothing more arrives, its receive loop runs down.
THEOREM DrainRunsDownCorrect == Spec => DrainRunsDown
<1>1. IInv /\ [Next]_vars =>
        [\A n \in Nodes :
            /\ pc[n] \in {"recv", "merge"} /\ pc'[n] \in {"recv", "merge"}
            /\ counter'[n] = counter[n]
            /\ <<pc'[n], nodeList'[n], reads'[n], rest'[n], source'[n]>>
                 # <<pc[n], nodeList[n], reads[n], rest[n], source[n]>>
            => LessToDo(n)]_vars
  BY RunsDownStep
<1> QED BY <1>1, Invariant, PTL DEF Spec, DrainRunsDown

-----------------------------------------------------------------------------
(* Directory *)

LEMMA EntriesType ==
    ASSUME NEW nl \in Seq(Entry)
    PROVE  Entries(nl) \subseteq Entry
BY ElementOfSeq DEF Entries

LEMMA ToldGrows ==
    ASSUME IInv', HInv, HNext
    PROVE  /\ told' \in [Nodes -> SUBSET Entry]
           /\ \A n \in Nodes : told[n] \subseteq told'[n] /\ Entries(nodeList'[n]) \subseteq told'[n]
<1>1. \A n \in Nodes : told'[n] = told[n] \cup Entries(nodeList'[n])
  BY DEF HNext
<1>2. \A n \in Nodes : Entries(nodeList'[n]) \subseteq Entry
  BY EntriesType DEF IInv, TypeOK
<1> QED BY <1>1, <1>2 DEF HNext, HInv

\* What was told stays told.
LEMMA HistoryStays ==
    ASSUME IInv', HInv, HNext, NEW n \in Nodes, NEW es, FromHistory(n, es)
    PROVE  FromHistory(n, es)'
<1>1. \A m \in Neighbours(n) : told[m] \subseteq told'[m]
  BY ToldGrows DEF Neighbours
<1> QED BY <1>1 DEF FromHistory

-----------------------------------------------------------------------------
(* HInv is inductive *)

FromHistories(n, q) == \A i \in 1..Len(q) : FromHistory(n, q[i].nodes)

\* It is enough to look at the buffers and messages that change.
LEMMA HInvFrom ==
    ASSUME IInv, IInv', HInv, HNext,
           \A n \in Nodes : queue'[n] = queue[n] \/ FromHistories(n, queue'[n]),
           \A n \in Nodes : rest'[n] = rest[n] \/ FromHistory(n, rest'[n])
    PROVE  HInv'
<1>1. ASSUME NEW n \in Nodes
      PROVE  FromHistories(n, queue'[n]) /\ FromHistory(n, rest'[n])
  BY DEF HInv, FromHistories
<1>2. ASSUME NEW n \in Nodes
      PROVE  \A i \in 1..Len(queue'[n]) : FromHistory(n, queue[n][i].nodes)'
  <2>1. PICK q : q = queue'[n]
    OBVIOUS
  <2>2. ASSUME NEW i \in 1..Len(q) PROVE FromHistory(n, q[i].nodes)'
    BY <1>1, <2>1, HistoryStays DEF FromHistories
  <2> QED BY <2>1, <2>2 DEF FromHistory
<1>3. ASSUME NEW n \in Nodes PROVE FromHistory(n, rest[n])'
  <2>1. PICK r : r = rest'[n]
    OBVIOUS
  <2>2. FromHistory(n, r)'
    BY <1>1, <2>1, HistoryStays
  <2> QED BY <2>1, <2>2 DEF FromHistory
<1> QED BY <1>2, <1>3, ToldGrows DEF HInv

LEMMA TailHistory ==
    ASSUME HInv, IInv, NEW n \in Nodes, queue[n] # << >>
    PROVE  FromHistories(n, Tail(queue[n])) /\ FromHistory(n, Head(queue[n]).nodes)
<1>1. queue[n] \in Seq(Datagram)
  BY DEF IInv, TypeOK
<1>2. /\ Len(queue[n]) \in Nat /\ Len(queue[n]) > 0
      /\ Len(Tail(queue[n])) = Len(queue[n]) - 1
      /\ \A i \in 1..Len(Tail(queue[n])) : Tail(queue[n])[i] = queue[n][i + 1]
      /\ Head(queue[n]) = queue[n][1]
  BY <1>1, HeadTailProperties, LenProperties, EmptySeq
<1>3. \A i \in 1..Len(queue[n]) : FromHistory(n, queue[n][i].nodes)
  BY DEF HInv
<1> QED BY <1>2, <1>3 DEF FromHistories

\* One more message at the end of a buffer.
LEMMA AppendHistory ==
    ASSUME HInv, IInv, NEW n \in Nodes, NEW d \in Datagram, FromHistory(n, d.nodes)
    PROVE  FromHistories(n, Append(queue[n], d))
<1>1. queue[n] \in Seq(Datagram) /\ Len(queue[n]) \in Nat
  BY LenProperties DEF IInv, TypeOK
<1>2. /\ Len(Append(queue[n], d)) = Len(queue[n]) + 1
      /\ \A i \in 1..Len(queue[n]) : Append(queue[n], d)[i] = queue[n][i]
      /\ Append(queue[n], d)[Len(queue[n]) + 1] = d
  BY <1>1, AppendType
<1> QED BY <1>1, <1>2 DEF HInv, FromHistories

LEMMA SendHistory ==
    ASSUME IInv, IInv', HInv, HNext, NEW n \in Nodes, NEW got \in SUBSET Nodes, SendIface(n, got)
    PROVE  HInv'
<1>1. iface[n] \in 1..Len(Ifaces[n])
  BY DEF SendIface, KnownIfaces, IInv, TypeOK
<1>2. PICK w \in Networks : w = Ifaces[n][iface[n]] /\ OnNetwork(n, w)
  BY <1>1, MeshAssumption, ElementOfSeq DEF OnNetwork
<1>3. ASSUME NEW m \in got
      PROVE  FromHistories(m, queue'[m])
  <2>1. m \in Nodes /\ OnNetwork(m, w)
    BY <1>2, <1>3 DEF SendIface, Receivers, Listeners
  <2>2. n \in Neighbours(m)
    BY <1>2, <2>1 DEF Neighbours
  <2>3. FromHistory(m, Announcement(n).nodes)
    BY <2>2 DEF FromHistory, Announcement, HInv, Entries
  <2>4. queue'[m] = Enqueue(queue[m], Announcement(n))
    BY <1>3, <2>1 DEF SendIface
  <2>5. Announcement(n) \in Datagram
    BY AnnouncementType DEF IInv
  <2>6. FromHistories(m, Append(queue[m], Announcement(n)))
    BY <2>1, <2>3, <2>5, AppendHistory
  <2> QED BY <2>1, <2>4, <2>6 DEF Enqueue, HInv, FromHistories
<1>4. \A m \in Nodes : queue'[m] = queue[m] \/ FromHistories(m, queue'[m])
  BY <1>3 DEF SendIface
<1> QED BY <1>4, HInvFrom DEF SendIface

LEMMA ReceiveHistory ==
    ASSUME IInv, IInv', HInv, HNext, NEW n \in Nodes,
           Refuse(n) \/ RefuseEmpty(n) \/ Loopback(n) \/ Accept(n)
    PROVE  HInv'
<1>1. queue[n] # << >> /\ queue' = [queue EXCEPT ![n] = Tail(queue[n])]
  BY DEF Refuse, RefuseEmpty, Loopback, Accept, CanRead
<1>2. \A m \in Nodes : queue'[m] = queue[m] \/ FromHistories(m, queue'[m])
  BY <1>1, TailHistory DEF IInv, TypeOK
<1>3. \A m \in Nodes : rest'[m] = rest[m] \/ FromHistory(m, rest'[m])
  <2>1. rest' = rest \/ rest' = [rest EXCEPT ![n] = Head(queue[n]).nodes]
    BY DEF Refuse, RefuseEmpty, Loopback, Accept, EndDrain
  <2> QED BY <1>1, <2>1, TailHistory DEF IInv, TypeOK
<1> QED BY <1>2, <1>3, HInvFrom

LEMMA MergeHistory ==
    ASSUME IInv, IInv', HInv, HNext, NEW n \in Nodes, Merge(n)
    PROVE  HInv'
<1>1. rest[n] # << >> /\ rest[n] \in Seq(Entry)
  BY DEF Merge, IInv, MergeOK, TypeOK
<1>2. PICK m \in Neighbours(n) : \A i \in 1..Len(rest[n]) : rest[n][i] \in told[m]
  BY <1>1 DEF HInv, FromHistory
<1>3. /\ Len(rest[n]) \in Nat
      /\ Len(Tail(rest[n])) = Len(rest[n]) - 1
      /\ \A i \in 1..Len(Tail(rest[n])) : Tail(rest[n])[i] = rest[n][i + 1]
  BY <1>1, HeadTailProperties, LenProperties, EmptySeq
<1>4. FromHistory(n, Tail(rest[n]))
  BY <1>2, <1>3 DEF FromHistory
<1>5. \A k \in Nodes : rest'[k] = rest[k] \/ FromHistory(k, rest'[k])
  BY <1>4 DEF Merge, IInv, TypeOK
<1> QED BY <1>5, HInvFrom DEF Merge

LEMMA NetworkHistory ==
    ASSUME IInv, IInv', HInv, HNext, NEW n \in Nodes,
           InjectJunk(n) \/ Reorder(n) \/ Duplicate(n)
    PROVE  HInv'
<1>1. UNCHANGED rest
  BY DEF InjectJunk, Reorder, Duplicate
<1>2. queue[n] \in Seq(Datagram) /\ Len(queue[n]) \in Nat
  BY LenProperties DEF IInv, TypeOK
<1>3. ASSUME InjectJunk(n)
      PROVE  \A m \in Nodes : queue'[m] = queue[m] \/ FromHistories(m, queue'[m])
  <2>1. FromHistory(n, Junk.nodes)
    BY DEF FromHistory, Junk
  <2>2. FromHistories(n, Append(queue[n], Junk))
    BY <2>1, JunkType, AppendHistory
  <2> QED BY <1>3, <2>2 DEF InjectJunk, IInv, TypeOK
<1>4. ASSUME Duplicate(n)
      PROVE  \A m \in Nodes : queue'[m] = queue[m] \/ FromHistories(m, queue'[m])
  <2>1. PICK i \in 1..Len(queue[n]) : queue' = [queue EXCEPT ![n] = Append(queue[n], queue[n][i])]
    BY <1>4 DEF Duplicate
  <2>2. queue[n][i] \in Datagram /\ FromHistory(n, queue[n][i].nodes)
    BY <1>2, ElementOfSeq DEF HInv
  <2>3. FromHistories(n, Append(queue[n], queue[n][i]))
    BY <2>2, AppendHistory
  <2> QED BY <2>1, <2>3 DEF IInv, TypeOK
<1>5. ASSUME Reorder(n)
      PROVE  \A m \in Nodes : queue'[m] = queue[m] \/ FromHistories(m, queue'[m])
  <2>1. PICK i \in 1..(Len(queue[n]) - 1) : queue' = [queue EXCEPT ![n] = Swap(queue[n], i)]
    BY <1>5 DEF Reorder
  <2>2. /\ Len(Swap(queue[n], i)) = Len(queue[n])
        /\ \A j \in 1..Len(queue[n]) : \E k \in 1..Len(queue[n]) : Swap(queue[n], i)[j] = queue[n][k]
    BY <1>2, SwapProperties
  <2>3. FromHistories(n, Swap(queue[n], i))
    BY <2>2 DEF FromHistories, HInv
  <2> QED BY <2>1, <2>3 DEF IInv, TypeOK
<1> QED BY <1>1, <1>3, <1>4, <1>5, HInvFrom

LEMMA CrashHistory ==
    ASSUME IInv, IInv', HInv, HNext, NEW n \in Nodes, Crash(n)
    PROVE  HInv'
<1>1. \A m \in Nodes : queue'[m] = queue[m] \/ queue'[m] = << >>
  BY DEF Crash, IInv, TypeOK
<1>2. \A m \in Nodes : rest'[m] = rest[m] \/ rest'[m] = << >>
  BY DEF Crash, IInv, TypeOK
<1>3. \A m \in Nodes : FromHistories(m, << >>) /\ FromHistory(m, << >>)
  BY DEF FromHistories, FromHistory
<1> QED BY <1>1, <1>2, <1>3, HInvFrom

LEMMA HInvInit == HInit => HInv
BY DEF HInit, Init, HInv, FromHistory, Entries

LEMMA HInvStep ==
    ASSUME IInv, IInv', HInv, HNext
    PROVE  HInv'
<1>1. ASSUME UNCHANGED <<queue, rest>> PROVE HInv'
  BY <1>1, HInvFrom
<1>2. ASSUME NEW n \in Nodes,
             Boot(n) \/ NoData(n) \/ Again(n) \/ RecvError(n) \/ SendFails(n) \/ FinishTick(n)
      PROVE  HInv'
  BY <1>1, <1>2 DEF Boot, NoData, Again, RecvError, SendFails, FinishTick, EndDrain
<1> QED
  BY <1>2, CrashHistory, ReceiveHistory, MergeHistory, SendHistory, NetworkHistory
     DEF HNext, Next, Process

-----------------------------------------------------------------------------
(* The refinement *)

LEMMA RefInit == HInit => D!DInit
BY DEF HInit, Init, D!DInit, Entries

\* A step that leaves lists, launches and devices alone is none of Directory.
LEMMA RefStutter ==
    ASSUME HInv, HNext, UNCHANGED <<nodeList, launch>>,
           \A n \in Nodes : pc'[n] = "off" <=> pc[n] = "off"
    PROVE  UNCHANGED D!dvars
<1>1. told' = told
  BY DEF HInv, HNext
<1> QED BY <1>1 DEF D!dvars

LEMMA RefBoot ==
    ASSUME IInv, HInv, HNext, NEW n \in Nodes, Boot(n)
    PROVE  D!Start(n)
<1>1. PICK own : own = LocalEntry(n, launch[n] + 1) /\ own = D!Own(n, launch[n] + 1)
  BY DEF LocalEntry, D!Own
<1>2. \A m \in Nodes : nodeList'[m] = IF m = n THEN <<own>> ELSE nodeList[m]
  BY <1>1 DEF Boot, IInv, TypeOK
<1>3. Entries(<<own>>) = {own}
  BY DEF Entries
<1>4. \A m \in Nodes : pc'[m] = IF m = n THEN "recv" ELSE pc[m]
  BY DEF Boot, IInv, TypeOK
<1>5. \A m \in Nodes : told'[m] = IF m = n THEN told[m] \cup {own} ELSE told[m]
  BY <1>2, <1>3 DEF HNext, HInv
<1>6. told' = [told EXCEPT ![n] = @ \cup {own}]
  BY <1>5 DEF HNext, HInv
<1>7. [m \in Nodes |-> Entries(nodeList'[m])]
        = [[m \in Nodes |-> Entries(nodeList[m])] EXCEPT ![n] = {own}]
  BY <1>2, <1>3
<1>8. {m \in Nodes : pc'[m] # "off"} = {m \in Nodes : pc[m] # "off"} \cup {n}
  BY <1>4
<1> QED BY <1>1, <1>6, <1>7, <1>8 DEF Boot, D!Start

LEMMA RefCrash ==
    ASSUME IInv, HInv, HNext, NEW n \in Nodes, Crash(n)
    PROVE  D!Stop(n)
<1>1. \A m \in Nodes : nodeList'[m] = IF m = n THEN << >> ELSE nodeList[m]
  BY DEF Crash, IInv, TypeOK
<1>2. Entries(<< >>) = {}
  BY DEF Entries
<1>3. \A m \in Nodes : pc'[m] = IF m = n THEN "off" ELSE pc[m]
  BY DEF Crash, IInv, TypeOK
<1>4. told' = told
  BY <1>1, <1>2 DEF HNext, HInv
<1>5. [m \in Nodes |-> Entries(nodeList'[m])]
        = [[m \in Nodes |-> Entries(nodeList[m])] EXCEPT ![n] = {}]
  BY <1>1, <1>2
<1>6. {m \in Nodes : pc'[m] # "off"} = {m \in Nodes : pc[m] # "off"} \ {n}
  BY <1>3
<1> QED BY <1>4, <1>5, <1>6 DEF Crash, D!Stop

LEMMA RefMerge ==
    ASSUME IInv, HInv, HNext, NEW n \in Nodes, Merge(n)
    PROVE  UNCHANGED D!dvars \/ \E m \in Neighbours(n) : \E e \in told[m] : D!Learn(n, m, e)
<1>1. /\ rest[n] # << >> /\ rest[n] \in Seq(Entry) /\ nodeList[n] \in Seq(Entry)
      /\ pc[n] = "merge"
  BY DEF Merge, IInv, MergeOK, TypeOK
<1>2. PICK e \in Entry : e = Head(rest[n]) /\ e = rest[n][1] /\ 1 \in 1..Len(rest[n])
  BY <1>1, HeadTailProperties, LenProperties, EmptySeq
<1>3. \A m \in Nodes : nodeList'[m] = IF m = n THEN MaybeAddEntry(nodeList[n], e) ELSE nodeList[m]
  BY <1>2 DEF Merge, IInv, TypeOK
<1>4. \A m \in Nodes : pc'[m] = "off" <=> pc[m] = "off"
  BY <1>1 DEF Merge, IInv, TypeOK
<1>5. CASE Knows(nodeList[n], e.uuid)
  <2>1. nodeList' = nodeList
    BY <1>3, <1>5 DEF MaybeAddEntry, Merge, IInv, TypeOK
  <2> QED BY <1>4, <2>1, RefStutter DEF Merge
<1>6. CASE ~ Knows(nodeList[n], e.uuid)
  <2>1. PICK m \in Neighbours(n) : e \in told[m]
    BY <1>1, <1>2 DEF HInv, FromHistory
  <2>2. nodeList'[n] = Append(nodeList[n], e)
    BY <1>3, <1>6 DEF MaybeAddEntry
  <2>3. Entries(nodeList'[n]) = Entries(nodeList[n]) \cup {e}
    <3>1. /\ Len(nodeList[n]) \in Nat
          /\ Len(nodeList'[n]) = Len(nodeList[n]) + 1
          /\ \A i \in 1..Len(nodeList[n]) : nodeList'[n][i] = nodeList[n][i]
          /\ nodeList'[n][Len(nodeList[n]) + 1] = e
      BY <1>1, <2>2, AppendType, LenProperties
    <3> QED BY <3>1 DEF Entries
  <2>4. \A k \in Nodes : told'[k] = IF k = n THEN told[k] \cup {e} ELSE told[k]
    BY <1>3, <2>3 DEF HNext, HInv
  <2>5. told' = [told EXCEPT ![n] = @ \cup {e}]
    BY <2>4 DEF HNext, HInv
  <2>6. [k \in Nodes |-> Entries(nodeList'[k])]
          = [[k \in Nodes |-> Entries(nodeList[k])] EXCEPT ![n] = @ \cup {e}]
    BY <1>3, <2>3
  <2>7. {k \in Nodes : pc'[k] # "off"} = {k \in Nodes : pc[k] # "off"} /\ n \in {k \in Nodes : pc[k] # "off"}
    BY <1>1, <1>4
  <2>8. \A f \in Entries(nodeList[n]) : f.uuid # e.uuid
    BY <1>6 DEF Knows, Entries
  <2>9. UNCHANGED launch
    BY DEF Merge
  <2>10. D!Learn(n, m, e)
    BY <2>1, <2>5, <2>6, <2>7, <2>8, <2>9 DEF D!Learn
  <2> QED BY <2>1, <2>10
<1> QED BY <1>5, <1>6

\* Everything else a device or the network does.
LEMMA RefOther ==
    ASSUME IInv, HInv, HNext, NEW n \in Nodes,
           \/ Process(n) /\ ~ Merge(n)
           \/ InjectJunk(n) \/ Reorder(n) \/ Duplicate(n)
    PROVE  UNCHANGED D!dvars
<1>1. UNCHANGED <<nodeList, launch>>
  BY DEF Process, NoData, Again, RecvError, Refuse, RefuseEmpty, Loopback, Accept, EndDrain,
         SendIface, SendFails, FinishTick, InjectJunk, Reorder, Duplicate
<1>2. \/ UNCHANGED pc
      \/ pc[n] # "off" /\ \E to \in {"recv", "merge", "send"} : pc' = [pc EXCEPT ![n] = to]
  BY DEF Process, NoData, Again, RecvError, Refuse, RefuseEmpty, Loopback, Accept, EndDrain, CanRead,
         SendIface, SendFails, FinishTick, InjectJunk, Reorder, Duplicate
<1>3. \A m \in Nodes : pc'[m] = "off" <=> pc[m] = "off"
  BY <1>2 DEF IInv, TypeOK
<1> QED BY <1>1, <1>3, RefStutter

LEMMA RefStep ==
    ASSUME IInv, HInv, [HNext]_hvars
    PROVE  [D!DNext]_D!dvars
<1>1. CASE UNCHANGED hvars
  BY <1>1 DEF hvars, vars, D!dvars
<1>2. CASE HNext
  <2>1. PICK n \in Nodes : Boot(n) \/ Crash(n) \/ Process(n) \/ InjectJunk(n) \/ Reorder(n) \/ Duplicate(n)
    BY <1>2 DEF HNext, Next
  <2>2. CASE Boot(n)
    BY <1>2, <2>2, RefBoot DEF D!DNext
  <2>3. CASE Crash(n)
    BY <1>2, <2>3, RefCrash DEF D!DNext
  <2>4. CASE Merge(n)
    BY <1>2, <2>4, RefMerge DEF D!DNext
  <2>5. CASE ~ (Boot(n) \/ Crash(n) \/ Merge(n))
    BY <1>2, <2>1, <2>5, RefOther
  <2> QED BY <2>2, <2>3, <2>4, <2>5
<1> QED BY <1>1, <1>2

LEMMA HInvariant == HSpec => [](IInv /\ HInv)
<1>1. HInit => IInv /\ HInv
  BY InvInit, HInvInit DEF HInit
<1>2. IInv /\ HInv /\ [HNext]_hvars => (IInv /\ HInv)'
  <2> SUFFICES ASSUME IInv, HInv, [HNext]_hvars PROVE IInv' /\ HInv'
    OBVIOUS
  <2>1. IInv'
    BY InvStep DEF HNext, hvars, vars
  <2>2. CASE UNCHANGED hvars
    <3>1. told' = told /\ queue' = queue /\ rest' = rest /\ nodeList' = nodeList
      BY <2>2 DEF hvars, vars
    <3>2. HInv'
      BY <3>1 DEF HInv, FromHistory, Entries
    <3> QED BY <2>1, <3>2
  <2>3. CASE HNext
    BY <2>1, <2>3, HInvStep
  <2> QED BY <2>1, <2>2, <2>3
<1> QED BY <1>1, <1>2, PTL DEF HSpec

\* Whatever is lost, repeated, reordered or restarted, in any topology, the
\* lists of NET_HandleBcast and NODE_MaybeAddEntry are the sets of Directory:
\* a device learns one entry at a time, of a node it did not know, and only
\* what a neighbour has listed.
THEOREM ImplementsDirectoryCorrect == HSpec => ImplementsDirectory
<1>1. HInit => D!DInit
  BY RefInit
<1>2. IInv /\ HInv /\ [HNext]_hvars => [D!DNext]_D!dvars
  BY RefStep
<1> QED BY <1>1, <1>2, HInvariant, PTL DEF HSpec, ImplementsDirectory, D!DSpec
=============================================================================
