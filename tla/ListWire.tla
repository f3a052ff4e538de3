------------------------------ MODULE ListWire ------------------------------
(***************************************************************************)
(* The node list in memory and on the wire (app/node.c, app/net.c): one    *)
(* device, one step per iteration of each loop over a list.                *)
(*                                                                         *)
(* An integer of the list is in the byte order of the wire or of a         *)
(* little-endian host; a conversion swaps it.  ENTRY_NEXT adds the size    *)
(* it reads to a pointer: from a size in the wrong byte order it gets a    *)
(* pointer to nowhere.  Names and other strings have no byte order, and    *)
(* are left out; so is the version, which is swapped with the length.      *)
(***************************************************************************)
EXTENDS Naturals, Sequences

CONSTANTS
    Ids,         \* the nodes
    Local,       \* this device
    Hosts,       \* the byte orders of the hosts this is built for
    Incoming,    \* the lists, as sequences of nodes, other devices announce
    TableSize,   \* the pointers entryPtrs has room for (512)
    PktEntries   \* the entries that CONFIG_NET_MAX_PKT_KB has room for

Orders == {"wire", "little"}

ASSUME ListWireAssumption ==
    /\ Local \in Ids
    /\ Hosts \subseteq Orders
    /\ Incoming \subseteq Seq(Ids)
    /\ << >> \notin Incoming
    /\ TableSize \in Nat
    /\ PktEntries \in Nat

VARIABLES
    host,   \* the host's byte order: never changes
    pc,     \* the loop that is running
    list,   \* NODE_NodeList
    msg,    \* the list in net.c's buffer
    e,      \* the pointer e, or the index i, of the running loop
    k,      \* knownEntry
    last,   \* lastEntry
    ptrs,   \* entryPtrs
    sent    \* the list in the packet sent last

vars == <<host, pc, list, msg, e, k, last, ptrs, sent>>

\* Pointers are positions in a list; this one is none.
Wild == 0

\* Mutant: the bytes of a swapped integer are in no order at all.
SwapToNone(o) == IF o = "wire" THEN "little" ELSE "none"

Swap(o) == IF o = "wire" THEN "little" ELSE "wire"

\* An entry, the byte order of its size field and of its other integers.
Entry(id, o) == [id |-> id, size |-> o, body |-> o]

\* A list whose len field, in byte order ord, covers its first n entries.
ListOf(ids, o) ==
    [n |-> Len(ids), ord |-> o, ents |-> [i \in 1..Len(ids) |-> Entry(ids[i], o)]]

SwapHeader(nl) == [nl EXCEPT !.ord = Swap(@)]

\* Mutants: one of the two is left as it was.
SwapBodyOnly(nl, i) == [nl EXCEPT !.ents[i].body = Swap(@)]
SwapSizeOnly(nl, i) == [nl EXCEPT !.ents[i].size = Swap(@)]

SwapEntry(nl, i) ==
    [nl EXCEPT !.ents[i].size = Swap(@), !.ents[i].body = Swap(@)]

NextEntry(nl, i) ==
    IF i \in 1..Len(nl.ents) /\ nl.ents[i].size = host THEN i + 1 ELSE Wild

\* The loops' conditions, which read len.
AtEntry(nl, i) == nl.ord = host /\ i # Wild /\ i <= nl.n
AtEnd(nl, i) == nl.ord = host /\ i # Wild /\ i > nl.n

Nothing == ListOf(<< >>, "wire")

\* NODE_Init.
Init ==
    /\ host \in Hosts
    /\ pc = "idle"
    /\ list = ListOf(<<Local>>, host)
    /\ msg = Nothing /\ sent = Nothing
    /\ e = 1 /\ k = 1 /\ last = 1
    /\ ptrs = << >>
-----------------------------------------------------------------------------
(* Announcing: NODE_ListToBE, memcpy, NODE_ListToNative, PLAT_NetDoBroadcast *)

\* On a big-endian host both conversions are empty.
BeginSend ==
    /\ pc = "idle"
    /\ pc' = IF host = "wire" THEN "copy" ELSE "collect"
    /\ e' = 1
    /\ ptrs' = << >>
    /\ UNCHANGED <<host, list, msg, k, last, sent>>

\* Mutant: convert the entries on the way, without the table.
ConvertOnTheWay ==
    /\ pc = "collect" /\ AtEntry(list, e)
    /\ list' = SwapEntry(list, e)
    /\ e' = NextEntry(list', e)
    /\ UNCHANGED <<host, pc, msg, k, last, ptrs, sent>>

Collect ==
    /\ pc = "collect" /\ AtEntry(list, e)
    /\ Len(ptrs) < TableSize
    /\ ptrs' = Append(ptrs, e)
    /\ e' = NextEntry(list, e)
    /\ UNCHANGED <<host, pc, list, msg, k, last, sent>>

Collected ==
    /\ pc = "collect" /\ AtEnd(list, e)
    /\ pc' = "convert"
    /\ e' = 1
    /\ UNCHANGED <<host, list, msg, k, last, ptrs, sent>>

EntryToBE ==
    /\ pc = "convert" /\ e <= Len(ptrs)
    /\ list' = SwapEntry(list, ptrs[e])
    /\ e' = e + 1
    /\ UNCHANGED <<host, pc, msg, k, last, ptrs, sent>>

HeaderToBE ==
    /\ pc = "convert" /\ e > Len(ptrs)
    /\ list' = SwapHeader(list)
    /\ pc' = "copy"
    /\ UNCHANGED <<host, msg, e, k, last, ptrs, sent>>

\* memcpy() of the len bytes, and the head of NODE_ListToNative.
Copy ==
    /\ pc = "copy" /\ list.ord = "wire"
    /\ list.n <= PktEntries
    /\ msg' = list
    /\ list' = IF host = "wire" THEN list ELSE SwapHeader(list)
    /\ pc' = IF host = "wire" THEN "send" ELSE "restore"
    /\ e' = 1
    /\ UNCHANGED <<host, k, last, ptrs, sent>>

\* More entries than entryPtrs, or msg, has room for: what is written past
\* the end, and what happens then, is undefined.
Overrun ==
    /\ \/ pc = "collect" /\ AtEntry(list, e) /\ Len(ptrs) >= TableSize
       \/ pc = "copy" /\ list.ord = "wire" /\ list.n > PktEntries
    /\ pc' = "overrun"
    /\ UNCHANGED <<host, list, msg, e, k, last, ptrs, sent>>

\* Mutant: on to the next entry before this one is converted.
NextFirst ==
    /\ pc = "restore" /\ AtEntry(list, e)
    /\ list' = SwapEntry(list, e)
    /\ e' = NextEntry(list, e)
    /\ UNCHANGED <<host, pc, msg, k, last, ptrs, sent>>

Restore ==
    /\ pc = "restore" /\ AtEntry(list, e)
    /\ list' = SwapEntry(list, e)
    /\ e' = NextEntry(list', e)
    /\ UNCHANGED <<host, pc, msg, k, last, ptrs, sent>>

Restored ==
    /\ pc = "restore" /\ AtEnd(list, e)
    /\ pc' = "send"
    /\ UNCHANGED <<host, list, msg, e, k, last, ptrs, sent>>

Send ==
    /\ pc = "send"
    /\ sent' = msg
    /\ pc' = "idle"
    /\ UNCHANGED <<host, list, msg, e, k, last, ptrs>>
-----------------------------------------------------------------------------
(* Hearing: NODE_CheckForNewNodes and NODE_MaybeAddEntry *)

\* A packet arrives in wire order; NODE_ListToNative starts with its header.
Receive(ids) ==
    /\ pc = "idle"
    /\ Len(ids) <= PktEntries
    /\ msg' = IF host = "wire" THEN ListOf(ids, "wire") ELSE SwapHeader(ListOf(ids, "wire"))
    /\ pc' = IF host = "wire" THEN "merge" ELSE "arrived"
    /\ e' = 1
    /\ UNCHANGED <<host, list, k, last, ptrs, sent>>

ToNative ==
    /\ pc = "arrived" /\ AtEntry(msg, e)
    /\ msg' = SwapEntry(msg, e)
    /\ e' = NextEntry(msg', e)
    /\ UNCHANGED <<host, pc, list, k, last, ptrs, sent>>

AllNative ==
    /\ pc = "arrived" /\ AtEnd(msg, e)
    /\ pc' = "merge"
    /\ e' = 1
    /\ UNCHANGED <<host, list, msg, k, last, ptrs, sent>>

MaybeAddEntry ==
    /\ pc = "merge" /\ AtEntry(msg, e)
    /\ pc' = "search"
    /\ k' = 1
    /\ UNCHANGED <<host, list, msg, e, last, ptrs, sent>>

Merged ==
    /\ pc = "merge" /\ AtEnd(msg, e)
    /\ pc' = "idle"
    /\ UNCHANGED <<host, list, msg, e, k, last, ptrs, sent>>

SameUuid(x, y) == x.id = y.id /\ x.body = y.body

Known ==
    /\ pc = "search" /\ AtEntry(list, k)
    /\ SameUuid(msg.ents[e], list.ents[k])
    /\ e' = NextEntry(msg, e)
    /\ pc' = "merge"
    /\ UNCHANGED <<host, list, msg, k, last, ptrs, sent>>

\* Mutant: the pointer does not move.
StuckSearch ==
    /\ pc = "search" /\ AtEntry(list, k)
    /\ ~ SameUuid(msg.ents[e], list.ents[k])
    /\ k' = 1
    /\ UNCHANGED <<host, pc, list, msg, e, last, ptrs, sent>>

SearchOn ==
    /\ pc = "search" /\ AtEntry(list, k)
    /\ ~ SameUuid(msg.ents[e], list.ents[k])
    /\ k' = NextEntry(list, k)
    /\ UNCHANGED <<host, pc, list, msg, e, last, ptrs, sent>>

NotKnown ==
    /\ pc = "search" /\ AtEnd(list, k)
    /\ pc' = "last"
    /\ k' = 1
    /\ UNCHANGED <<host, list, msg, e, last, ptrs, sent>>

FindLast ==
    /\ pc = "last" /\ AtEntry(list, k)
    /\ last' = k
    /\ k' = NextEntry(list, k)
    /\ UNCHANGED <<host, pc, list, msg, e, ptrs, sent>>

\* Mutant: the new entry is written over the last one.
OverLast(nl, at, x) ==
    [n |-> nl.n + 1, ord |-> nl.ord, ents |-> Append(SubSeq(nl.ents, 1, at - 1), x)]

\* realloc(), and memcpy() behind the entry at position at.
Extended(nl, at, x) ==
    [n |-> nl.n + 1, ord |-> nl.ord, ents |-> Append(SubSeq(nl.ents, 1, at), x)]

AddEntry ==
    /\ pc = "last" /\ AtEnd(list, k)
    /\ list' = Extended(list, last, msg.ents[e])
    /\ e' = NextEntry(msg, e)
    /\ pc' = "merge"
    /\ UNCHANGED <<host, msg, k, last, ptrs, sent>>

Handle ==
    \/ Collect \/ Collected \/ EntryToBE \/ HeaderToBE
    \/ Copy \/ Overrun \/ Restore \/ Restored \/ Send
    \/ ToNative \/ AllNative
    \/ MaybeAddEntry \/ Merged \/ Known \/ SearchOn \/ NotKnown \/ FindLast \/ AddEntry

Next == BeginSend \/ (\E ids \in Incoming : Receive(ids)) \/ Handle

Spec == Init /\ [][Next]_vars

\* One thread that waits for nothing goes on with what it has begun.
FairSpec == Spec /\ WF_vars(Handle)

AtRest == pc \in {"idle", "overrun"}

\* The same without ENABLED, to be reasoned from: whenever the handler is not
\* at rest, the invariant below leaves it a step to take.
LiveSpec == Spec /\ ([]<>AtRest \/ []<><<Handle>>_vars)
-----------------------------------------------------------------------------
(* Properties *)

IdsOf(nl) == [i \in 1..Len(nl.ents) |-> nl.ents[i].id]

Lists == [n : Nat, ord : Orders, ents : Seq([id : Ids, size : Orders, body : Orders])]

\* Every variable keeps its type.
TypeOK ==
    /\ host \in Orders
    /\ pc \in {"idle", "collect", "convert", "copy", "restore", "send",
               "arrived", "merge", "search", "last", "overrun"}
    /\ list \in Lists /\ msg \in Lists /\ sent \in Lists
    /\ e \in Nat /\ k \in Nat /\ last \in Nat
    /\ ptrs \in Seq(Nat)

\* A whole list whose integers are all in byte order o.
InOrder(nl, o) ==
    /\ nl.ord = o /\ nl.n = Len(nl.ents)
    /\ \A j \in 1..Len(nl.ents) : nl.ents[j].size = o /\ nl.ents[j].body = o

\* Between two calls of NET_HandleBcast the list is whole and in the host's
\* byte order, whatever was announced or heard ("stored in native endianness
\* by default", nodeType.h); so is it while entries are searched and added.
NativeAtRest ==
    pc \in {"idle", "send", "arrived", "merge", "search", "last"} => InOrder(list, host)

\* What is sent is the list, all of it in the order of the wire, and the same
\* for every host.
SentInWireOrder == pc = "send" => InOrder(msg, "wire") /\ IdsOf(msg) = IdsOf(list)

\* No loop over a list reads its length in the wrong byte order or follows a
\* pointer that is not an entry or the end, in a list half of whose sizes are
\* converted as in one that has just been extended (node.c:205, node.c:300).
\* A pointer is a position here: one into memory that realloc() has given back
\* would not be noticed.
NoWildPointer ==
    /\ pc \in {"collect", "restore"} =>
         list.ord = host /\ list.n = Len(list.ents) /\ e \in 1..(list.n + 1)
    /\ pc \in {"arrived", "merge"} =>
         msg.ord = host /\ msg.n = Len(msg.ents) /\ e \in 1..(msg.n + 1)
    /\ pc \in {"search", "last"} =>
         list.ord = host /\ k \in 1..(list.n + 1) /\ e \in 1..msg.n

\* An announcement or a message once begun is done with, unless the list has
\* become too long.
HandlerEnds == (pc # "idle") ~> AtRest

-----------------------------------------------------------------------------
(* Refinement *)

\* What a receiver makes of a packet.
Understood(nl) == IF InOrder(nl, "wire") THEN IdsOf(nl) ELSE << >>

Pending ==
    CASE pc = "arrived" -> IdsOf(msg)
      [] pc \in {"merge", "search", "last"} -> SubSeq(IdsOf(msg), e, msg.n)
      [] OTHER -> << >>

G == INSTANCE GossipList WITH
        Messages <- Incoming,
        known <- IdsOf(list),
        pending <- Pending,
        sent <- Understood(sent)

\* Conversions and the pointers of the loops can not be seen from outside: the
\* list takes the entries of each message, and is announced, as in GossipList.
ImplementsGossipList == G!GSpec
-----------------------------------------------------------------------------
(* The inductive invariant *)

\* A loop that converts has reached position i.
Halfway(nl, i, done, rest) ==
    /\ nl.ord = host /\ nl.n = Len(nl.ents)
    /\ i \in 1..(nl.n + 1)
    /\ \A j \in 1..Len(nl.ents) :
         LET o == IF j < i THEN done ELSE rest
         IN  nl.ents[j].size = o /\ nl.ents[j].body = o

AllCollected(m) == Len(ptrs) = m /\ \A j \in 1..m : ptrs[j] = j

Sending ==
    /\ pc = "collect" =>
         /\ host = "little" /\ InOrder(list, host)
         /\ e \in 1..(list.n + 1) /\ AllCollected(e - 1)
    /\ pc = "convert" =>
         host = "little" /\ Halfway(list, e, "wire", "little") /\ AllCollected(list.n)
    /\ pc = "copy" => InOrder(list, "wire")
    /\ pc = "restore" =>
         /\ host = "little" /\ Halfway(list, e, "little", "wire")
         /\ InOrder(msg, "wire") /\ IdsOf(msg) = IdsOf(list)

\* The searched part of the list does not hold the entry looked for.
NotAmong(m) == \A j \in 1..m : list.ents[j].id # msg.ents[e].id

Hearing ==
    /\ pc = "arrived" => host = "little" /\ Halfway(msg, e, "little", "wire")
    /\ pc \in {"merge", "search", "last"} => InOrder(msg, host) /\ e \in 1..(msg.n + 1)
    /\ pc \in {"search", "last"} => e <= msg.n /\ k \in 1..(list.n + 1)
    /\ pc = "search" => NotAmong(k - 1)
    /\ pc = "last" => NotAmong(list.n) /\ (k = 1 \/ last = k - 1)

IInv ==
    /\ TypeOK
    /\ list.ents # << >>
    /\ NativeAtRest /\ SentInWireOrder /\ NoWildPointer
    /\ Sending /\ Hearing
=============================================================================
