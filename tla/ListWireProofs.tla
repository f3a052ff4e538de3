--------------------------- MODULE ListWireProofs ---------------------------
(* The node list in memory, for any nodes, messages and limits. *)
EXTENDS ListWire, SequenceTheorems, FiniteSetTheorems, TLAPS

Entries == [id : Ids, size : Orders, body : Orders]

LEMMA ListFields ==
    ASSUME NEW nl \in Lists
    PROVE  /\ nl.n \in Nat /\ nl.ord \in Orders /\ nl.ents \in Seq(Entries)
           /\ Len(nl.ents) \in Nat
           /\ \A j \in 1..Len(nl.ents) :
                nl.ents[j] \in Entries
                /\ nl.ents[j].id \in Ids /\ nl.ents[j].size \in Orders
                /\ nl.ents[j].body \in Orders
<1>1. nl.ents \in Seq(Entries)
  BY DEF Lists, Entries
<1>2. \A j \in 1..Len(nl.ents) : nl.ents[j] \in Entries
  BY <1>1
<1> QED BY <1>1, <1>2 DEF Lists, Entries

LEMMA SwapHeaderFacts ==
    ASSUME NEW nl \in Lists
    PROVE  /\ SwapHeader(nl) \in Lists
           /\ SwapHeader(nl).ents = nl.ents
           /\ SwapHeader(nl).n = nl.n
           /\ SwapHeader(nl).ord = Swap(nl.ord)
BY DEF SwapHeader, Lists, Swap, Orders

\* Swapping one entry leaves everything else of the list as it was.
LEMMA SwapEntryFacts ==
    ASSUME NEW nl \in Lists, NEW i \in 1..Len(nl.ents)
    PROVE  LET sw == SwapEntry(nl, i)
           IN  /\ sw \in Lists
               /\ sw.n = nl.n /\ sw.ord = nl.ord
               /\ Len(sw.ents) = Len(nl.ents)
               /\ sw.ents[i].size = Swap(nl.ents[i].size)
               /\ sw.ents[i].body = Swap(nl.ents[i].body)
               /\ \A j \in 1..Len(nl.ents) : j # i => sw.ents[j] = nl.ents[j]
               /\ \A j \in 1..Len(nl.ents) : sw.ents[j].id = nl.ents[j].id
<1> DEFINE x == [nl.ents[i] EXCEPT !.size = Swap(@), !.body = Swap(@)]
<1>1. nl.ents \in Seq(Entries) /\ nl.ents[i] \in Entries
  BY ListFields
<1>2. x \in Entries /\ x.id = nl.ents[i].id
      /\ x.size = Swap(nl.ents[i].size) /\ x.body = Swap(nl.ents[i].body)
  BY <1>1 DEF Entries, Swap, Orders
<1>3. SwapEntry(nl, i) = [nl EXCEPT !.ents = [@ EXCEPT ![i] = x]]
  BY <1>1 DEF SwapEntry, Lists, Entries
<1>4. [nl.ents EXCEPT ![i] = x] \in Seq(Entries)
  BY <1>1, <1>2
<1>5. SwapEntry(nl, i).ents = [nl.ents EXCEPT ![i] = x]
      /\ SwapEntry(nl, i).n = nl.n /\ SwapEntry(nl, i).ord = nl.ord
      /\ SwapEntry(nl, i) \in Lists
  BY <1>3, <1>4 DEF Lists, Entries
<1> QED BY <1>1, <1>2, <1>4, <1>5

LEMMA ListOfFacts ==
    ASSUME NEW ids \in Seq(Ids), NEW o \in Orders
    PROVE  /\ ListOf(ids, o) \in Lists
           /\ ListOf(ids, o).n = Len(ids)
           /\ ListOf(ids, o).ord = o
           /\ Len(ListOf(ids, o).ents) = Len(ids)
           /\ InOrder(ListOf(ids, o), o)
           /\ IdsOf(ListOf(ids, o)) = ids
<1> DEFINE ents == [i \in 1..Len(ids) |-> Entry(ids[i], o)]
<1>1. \A i \in 1..Len(ids) : Entry(ids[i], o) \in Entries
  BY DEF Entry, Entries
<1>2. ents \in Seq(Entries) /\ Len(ents) = Len(ids)
  BY <1>1
<1>3. \A j \in 1..Len(ids) : ents[j].size = o /\ ents[j].body = o /\ ents[j].id = ids[j]
  BY DEF Entry
<1>4. ListOf(ids, o).ents = ents /\ ListOf(ids, o).n = Len(ids) /\ ListOf(ids, o).ord = o
  BY DEF ListOf
<1>5. ListOf(ids, o) \in Lists
  BY <1>2 DEF ListOf, Lists, Entries
<1> HIDE DEF ents
<1>6. IdsOf(ListOf(ids, o)) = ids
  BY <1>2, <1>3, <1>4 DEF IdsOf
<1> QED BY <1>2, <1>3, <1>4, <1>5, <1>6 DEF InOrder

LEMMA AppendFacts ==
    ASSUME NEW S, NEW s \in Seq(S), NEW x \in S
    PROVE  /\ Append(s, x) \in Seq(S)
           /\ Len(Append(s, x)) = Len(s) + 1
           /\ Append(s, x)[Len(s) + 1] = x
           /\ \A j \in 1..Len(s) : Append(s, x)[j] = s[j]
           /\ SubSeq(s, 1, Len(s)) = s
OBVIOUS

\* The list grows by one entry behind the last.
LEMMA ExtendedFacts ==
    ASSUME NEW nl \in Lists, NEW x \in Entries
    PROVE  LET new == Extended(nl, Len(nl.ents), x)
           IN  /\ new \in Lists
               /\ new.n = nl.n + 1 /\ new.ord = nl.ord
               /\ new.ents = Append(nl.ents, x)
               /\ Len(new.ents) = Len(nl.ents) + 1
               /\ new.ents[Len(nl.ents) + 1] = x
               /\ \A j \in 1..Len(nl.ents) : new.ents[j] = nl.ents[j]
<1>1. nl.ents \in Seq(Entries)
  BY ListFields
<1>2. SubSeq(nl.ents, 1, Len(nl.ents)) = nl.ents
  BY <1>1, AppendFacts
<1>3. /\ Append(nl.ents, x) \in Seq(Entries)
      /\ Len(Append(nl.ents, x)) = Len(nl.ents) + 1
      /\ Append(nl.ents, x)[Len(nl.ents) + 1] = x
      /\ \A j \in 1..Len(nl.ents) : Append(nl.ents, x)[j] = nl.ents[j]
  BY <1>1, AppendFacts
<1>4. Extended(nl, Len(nl.ents), x)
        = [n |-> nl.n + 1, ord |-> nl.ord, ents |-> Append(nl.ents, x)]
  BY <1>2 DEF Extended
<1>5. nl.n + 1 \in Nat /\ nl.ord \in Orders
  BY ListFields
<1>6. Extended(nl, Len(nl.ents), x) \in Lists
  BY <1>3, <1>4, <1>5 DEF Lists, Entries
<1> QED BY <1>3, <1>4, <1>6
-----------------------------------------------------------------------------
(* Initial states *)

LEMMA InvInit == Init => IInv
<1> SUFFICES ASSUME Init PROVE IInv
  OBVIOUS
<1>1. <<Local>> \in Seq(Ids) /\ << >> \in Seq(Ids) /\ host \in Orders
  BY ListWireAssumption DEF Init
<1>2. list \in Lists /\ InOrder(list, host) /\ Len(list.ents) = 1
  BY <1>1, ListOfFacts DEF Init
<1>3. msg \in Lists /\ sent \in Lists
  BY <1>1, ListOfFacts DEF Init, Nothing, Orders
<1>4. ptrs \in Seq(Nat)
  BY DEF Init
<1>5. TypeOK
  BY <1>1, <1>2, <1>3, <1>4 DEF Init, TypeOK
<1>6. list.ents # << >>
  BY <1>2
<1> QED
  BY <1>2, <1>5, <1>6 DEF Init, IInv, NativeAtRest, SentInWireOrder, NoWildPointer,
       Sending, Hearing
-----------------------------------------------------------------------------
(* Steps *)

LEMMA BeginSendKeeps == IInv /\ BeginSend => IInv'
<1> SUFFICES ASSUME IInv, BeginSend PROVE IInv'
  OBVIOUS
<1>1. list \in Lists /\ msg \in Lists
  BY DEF IInv, TypeOK
<1>2. list.n \in Nat /\ msg.n \in Nat /\ Len(list.ents) \in Nat /\ Len(msg.ents) \in Nat
  BY <1>1, ListFields
<1>3. TypeOK' /\ (list.ents # << >>)'
  BY <1>1, <1>2
  DEF BeginSend, IInv, TypeOK, NativeAtRest, SentInWireOrder, NoWildPointer, Sending
<1>4. NativeAtRest' /\ SentInWireOrder'
  BY <1>1, <1>2
  DEF BeginSend, IInv, TypeOK, NativeAtRest, SentInWireOrder, NoWildPointer, Sending
<1>5. NoWildPointer'
  BY <1>1, <1>2
  DEF BeginSend, IInv, TypeOK, NativeAtRest, SentInWireOrder, NoWildPointer, InOrder
<1>6. Sending' /\ Hearing'
  BY <1>1, <1>2
  DEF BeginSend, IInv, TypeOK, NativeAtRest, Sending, Hearing, AllCollected, Orders
<1> QED
  BY <1>3, <1>4, <1>5, <1>6 DEF IInv

LEMMA CollectKeeps == IInv /\ Collect => IInv'
<1> SUFFICES ASSUME IInv, Collect PROVE IInv'
  OBVIOUS
<1>1. list \in Lists /\ msg \in Lists
  BY DEF IInv, TypeOK
<1>2. list.n \in Nat /\ msg.n \in Nat /\ Len(list.ents) \in Nat /\ Len(msg.ents) \in Nat
  BY <1>1, ListFields
<1>a. e \in Nat /\ NextEntry(list, e) \in Nat
  BY DEF IInv, TypeOK, Collect, Sending, InOrder, AtEntry, NextEntry
<1>b. ptrs' \in Seq(Nat) /\ e' \in Nat
  <2>1. ptrs \in Seq(Nat) /\ ptrs' = Append(ptrs, e) /\ e' = NextEntry(list, e)
    BY DEF IInv, TypeOK, Collect
  <2> QED BY <1>a, <2>1, AppendFacts
<1>3. TypeOK' /\ (list.ents # << >>)'
  <2>1. UNCHANGED <<host, pc, list, msg, k, last, sent>>
    BY DEF Collect
  <2> QED BY <1>b, <2>1 DEF IInv, TypeOK
<1>4. NativeAtRest' /\ SentInWireOrder'
  BY <1>1, <1>2
  DEF Collect, IInv, TypeOK, NativeAtRest, SentInWireOrder, NoWildPointer, Sending
<1>6. NoWildPointer' /\ Sending' /\ Hearing'
  <2>1. pc = "collect" /\ pc' = "collect" /\ list' = list /\ msg' = msg /\ host' = host
    BY DEF Collect
  <2>2. Hearing'
    BY <2>1 DEF Hearing
  <2>3. /\ host = "little" /\ InOrder(list, host) /\ e \in 1..(list.n + 1)
        /\ AllCollected(e - 1) /\ e <= list.n
    BY <2>1 DEF IInv, Sending, Collect, AtEntry
  <2>4. NextEntry(list, e) = e + 1 /\ e' = e + 1 /\ ptrs' = Append(ptrs, e)
    BY <1>2, <2>3 DEF Collect, NextEntry, InOrder
  <2>5. AllCollected(e - 1)'
    <3>1. ptrs \in Seq(Nat) /\ Len(ptrs) = e - 1 /\ \A j \in 1..(e - 1) : ptrs[j] = j
      BY <2>3 DEF AllCollected, IInv, TypeOK
    <3>2. Len(ptrs') = e /\ ptrs'[e] = e /\ \A j \in 1..(e - 1) : ptrs'[j] = ptrs[j]
      BY <1>a, <2>4, <3>1, AppendFacts
    <3>3. \A j \in 1..e : ptrs'[j] = j
      BY <1>a, <3>1, <3>2
    <3> QED BY <1>a, <2>4, <3>2, <3>3 DEF AllCollected
  <2>6. e' \in 1..(list.n + 1)
    BY <1>2, <2>3, <2>4
  <2>7. InOrder(list, host)' /\ (host = "little")' /\ (e \in 1..(list.n + 1))'
    BY <2>1, <2>3, <2>6 DEF InOrder
  <2>8. NoWildPointer'
    BY <2>1, <2>7 DEF NoWildPointer, InOrder
  <2> QED BY <2>1, <2>2, <2>5, <2>7, <2>8 DEF Sending
<1> QED
  BY <1>3, <1>4, <1>6 DEF IInv

LEMMA CollectedKeeps == IInv /\ Collected => IInv'
<1> SUFFICES ASSUME IInv, Collected PROVE IInv'
  OBVIOUS
<1>1. list \in Lists /\ msg \in Lists
  BY DEF IInv, TypeOK
<1>2. list.n \in Nat /\ msg.n \in Nat /\ Len(list.ents) \in Nat /\ Len(msg.ents) \in Nat
  BY <1>1, ListFields
<1>3. TypeOK' /\ (list.ents # << >>)'
  BY <1>1, <1>2
  DEF Collected, IInv, TypeOK, NativeAtRest, SentInWireOrder, NoWildPointer, Sending
<1>4. NativeAtRest' /\ SentInWireOrder'
  BY <1>1, <1>2
  DEF Collected, IInv, TypeOK, NativeAtRest, SentInWireOrder, NoWildPointer, Sending
<1>5. NoWildPointer'
  BY <1>1, <1>2
  DEF Collected, IInv, TypeOK, NativeAtRest, SentInWireOrder, NoWildPointer, Sending
<1>6. Sending' /\ Hearing'
  BY <1>1, <1>2 DEF Collected, IInv, Sending, Hearing, InOrder, Halfway, AllCollected, AtEnd
<1> QED
  BY <1>3, <1>4, <1>5, <1>6 DEF IInv

LEMMA HeaderToBEKeeps == IInv /\ HeaderToBE => IInv'
<1> SUFFICES ASSUME IInv, HeaderToBE PROVE IInv'
  OBVIOUS
<1>1. list \in Lists /\ msg \in Lists
  BY DEF IInv, TypeOK
<1>2. list.n \in Nat /\ msg.n \in Nat /\ Len(list.ents) \in Nat /\ Len(msg.ents) \in Nat
  BY <1>1, ListFields
<1>3. TypeOK' /\ (list.ents # << >>)'
  BY <1>1, <1>2, SwapHeaderFacts
  DEF HeaderToBE, IInv, TypeOK, NativeAtRest, SentInWireOrder, NoWildPointer, Sending
<1>4. NativeAtRest' /\ SentInWireOrder'
  BY <1>1, <1>2, SwapHeaderFacts
  DEF HeaderToBE, IInv, TypeOK, NativeAtRest, SentInWireOrder, NoWildPointer, Sending
<1>5. NoWildPointer'
  BY <1>1, <1>2, SwapHeaderFacts
  DEF HeaderToBE, IInv, TypeOK, NativeAtRest, SentInWireOrder, NoWildPointer, Sending
<1>6. Sending' /\ Hearing'
  BY <1>1, <1>2, SwapHeaderFacts
  DEF HeaderToBE, IInv, Sending, Hearing, InOrder, Halfway, AllCollected, Swap
<1> QED
  BY <1>3, <1>4, <1>5, <1>6 DEF IInv

LEMMA CopyKeeps == IInv /\ Copy => IInv'
<1> SUFFICES ASSUME IInv, Copy PROVE IInv'
  OBVIOUS
<1>1. list \in Lists /\ msg \in Lists
  BY DEF IInv, TypeOK
<1>2. list.n \in Nat /\ msg.n \in Nat /\ Len(list.ents) \in Nat /\ Len(msg.ents) \in Nat
  BY <1>1, ListFields
<1>3. TypeOK' /\ (list.ents # << >>)'
  BY <1>1, <1>2, SwapHeaderFacts
  DEF Copy, IInv, TypeOK, NativeAtRest, SentInWireOrder, NoWildPointer, Sending
<1>4. NativeAtRest' /\ SentInWireOrder'
  BY <1>1, <1>2, SwapHeaderFacts
  DEF Copy, IInv, TypeOK, NativeAtRest, SentInWireOrder, NoWildPointer, Sending
<1>5. NoWildPointer'
  BY <1>1, <1>2, SwapHeaderFacts
  DEF Copy, IInv, TypeOK, NoWildPointer, Sending, InOrder, Swap, Orders
<1>6. Sending' /\ Hearing'
  BY <1>1, <1>2, SwapHeaderFacts
  DEF Copy, IInv, TypeOK, Sending, Hearing, InOrder, Halfway, Swap, Orders, IdsOf
<1> QED
  BY <1>3, <1>4, <1>5, <1>6 DEF IInv

LEMMA OverrunKeeps == IInv /\ Overrun => IInv'
<1> SUFFICES ASSUME IInv, Overrun PROVE IInv'
  OBVIOUS
<1>1. list \in Lists /\ msg \in Lists
  BY DEF IInv, TypeOK
<1>2. list.n \in Nat /\ msg.n \in Nat /\ Len(list.ents) \in Nat /\ Len(msg.ents) \in Nat
  BY <1>1, ListFields
<1>3. TypeOK' /\ (list.ents # << >>)'
  BY <1>1, <1>2
  DEF Overrun, IInv, TypeOK, NativeAtRest, SentInWireOrder, NoWildPointer, Sending
<1>4. NativeAtRest' /\ SentInWireOrder'
  BY <1>1, <1>2
  DEF Overrun, IInv, TypeOK, NativeAtRest, SentInWireOrder, NoWildPointer, Sending
<1>5. NoWildPointer'
  BY <1>1, <1>2
  DEF Overrun, IInv, TypeOK, NativeAtRest, SentInWireOrder, NoWildPointer, Sending
<1>6. Sending' /\ Hearing'
  BY <1>1, <1>2 DEF Overrun, IInv, TypeOK, NativeAtRest, SentInWireOrder, Sending, Hearing
<1> QED
  BY <1>3, <1>4, <1>5, <1>6 DEF IInv

LEMMA RestoredKeeps == IInv /\ Restored => IInv'
<1> SUFFICES ASSUME IInv, Restored PROVE IInv'
  OBVIOUS
<1>1. list \in Lists /\ msg \in Lists
  BY DEF IInv, TypeOK
<1>2. list.n \in Nat /\ msg.n \in Nat /\ Len(list.ents) \in Nat /\ Len(msg.ents) \in Nat
  BY <1>1, ListFields
<1>3. TypeOK' /\ (list.ents # << >>)'
  BY <1>1, <1>2
  DEF Restored, IInv, TypeOK, NativeAtRest, SentInWireOrder, NoWildPointer, Sending
<1>4. NativeAtRest' /\ SentInWireOrder'
  BY <1>1, <1>2
  DEF Restored, IInv, NativeAtRest, SentInWireOrder, Sending, InOrder, Halfway, AtEnd
<1>5. NoWildPointer'
  BY <1>1, <1>2
  DEF Restored, IInv, TypeOK, NativeAtRest, SentInWireOrder, NoWildPointer, Sending
<1>6. Sending' /\ Hearing'
  BY <1>1, <1>2 DEF Restored, IInv, TypeOK, NativeAtRest, SentInWireOrder, Sending, Hearing
<1> QED
  BY <1>3, <1>4, <1>5, <1>6 DEF IInv

LEMMA SendKeeps == IInv /\ Send => IInv'
<1> SUFFICES ASSUME IInv, Send PROVE IInv'
  OBVIOUS
<1>1. list \in Lists /\ msg \in Lists
  BY DEF IInv, TypeOK
<1>2. list.n \in Nat /\ msg.n \in Nat /\ Len(list.ents) \in Nat /\ Len(msg.ents) \in Nat
  BY <1>1, ListFields
<1>3. TypeOK' /\ (list.ents # << >>)'
  BY <1>1, <1>2
  DEF Send, IInv, TypeOK, NativeAtRest, SentInWireOrder, NoWildPointer, Sending
<1>4. NativeAtRest' /\ SentInWireOrder'
  BY <1>1, <1>2
  DEF Send, IInv, TypeOK, NativeAtRest, SentInWireOrder, NoWildPointer, Sending
<1>5. NoWildPointer'
  BY <1>1, <1>2
  DEF Send, IInv, TypeOK, NativeAtRest, SentInWireOrder, NoWildPointer, Sending
<1>6. Sending' /\ Hearing'
  BY <1>1, <1>2 DEF Send, IInv, TypeOK, NativeAtRest, SentInWireOrder, Sending, Hearing
<1> QED
  BY <1>3, <1>4, <1>5, <1>6 DEF IInv

LEMMA AllNativeKeeps == IInv /\ AllNative => IInv'
<1> SUFFICES ASSUME IInv, AllNative PROVE IInv'
  OBVIOUS
<1>1. list \in Lists /\ msg \in Lists
  BY DEF IInv, TypeOK
<1>2. list.n \in Nat /\ msg.n \in Nat /\ Len(list.ents) \in Nat /\ Len(msg.ents) \in Nat
  BY <1>1, ListFields
<1>3. TypeOK' /\ (list.ents # << >>)'
  BY <1>1, <1>2
  DEF AllNative, IInv, TypeOK, NativeAtRest, SentInWireOrder, NoWildPointer, Sending
<1>4. NativeAtRest' /\ SentInWireOrder'
  BY <1>1, <1>2
  DEF AllNative, IInv, TypeOK, NativeAtRest, SentInWireOrder, NoWildPointer, Sending
<1>5. NoWildPointer'
  BY <1>1, <1>2
  DEF AllNative, IInv, TypeOK, NativeAtRest, SentInWireOrder, NoWildPointer, Sending
<1>6. Sending' /\ Hearing'
  BY <1>1, <1>2 DEF AllNative, IInv, Sending, Hearing, InOrder, Halfway, NotAmong, AtEnd
<1> QED
  BY <1>3, <1>4, <1>5, <1>6 DEF IInv

LEMMA MaybeAddEntryKeeps == IInv /\ MaybeAddEntry => IInv'
<1> SUFFICES ASSUME IInv, MaybeAddEntry PROVE IInv'
  OBVIOUS
<1>1. list \in Lists /\ msg \in Lists
  BY DEF IInv, TypeOK
<1>2. list.n \in Nat /\ msg.n \in Nat /\ Len(list.ents) \in Nat /\ Len(msg.ents) \in Nat
  BY <1>1, ListFields
<1>3. TypeOK' /\ (list.ents # << >>)'
  BY <1>1, <1>2
  DEF MaybeAddEntry, IInv, TypeOK, NativeAtRest, SentInWireOrder, NoWildPointer, Sending
<1>4. NativeAtRest' /\ SentInWireOrder'
  BY <1>1, <1>2
  DEF MaybeAddEntry, IInv, TypeOK, NativeAtRest, SentInWireOrder, NoWildPointer, Sending
<1>5. NoWildPointer'
  BY <1>1, <1>2
  DEF MaybeAddEntry, IInv, TypeOK, NativeAtRest, NoWildPointer, InOrder, AtEntry
<1>6. Sending' /\ Hearing'
  BY <1>1, <1>2 DEF MaybeAddEntry, IInv, TypeOK, Sending, Hearing, NotAmong, AtEntry
<1> QED
  BY <1>3, <1>4, <1>5, <1>6 DEF IInv

LEMMA MergedKeeps == IInv /\ Merged => IInv'
<1> SUFFICES ASSUME IInv, Merged PROVE IInv'
  OBVIOUS
<1>1. list \in Lists /\ msg \in Lists
  BY DEF IInv, TypeOK
<1>2. list.n \in Nat /\ msg.n \in Nat /\ Len(list.ents) \in Nat /\ Len(msg.ents) \in Nat
  BY <1>1, ListFields
<1>3. TypeOK' /\ (list.ents # << >>)'
  BY <1>1, <1>2
  DEF Merged, IInv, TypeOK, NativeAtRest, SentInWireOrder, NoWildPointer, Sending
<1>4. NativeAtRest' /\ SentInWireOrder'
  BY <1>1, <1>2
  DEF Merged, IInv, TypeOK, NativeAtRest, SentInWireOrder, NoWildPointer, Sending
<1>5. NoWildPointer'
  BY <1>1, <1>2
  DEF Merged, IInv, TypeOK, NativeAtRest, SentInWireOrder, NoWildPointer, Sending
<1>6. Sending' /\ Hearing'
  BY <1>1, <1>2 DEF Merged, IInv, TypeOK, NativeAtRest, SentInWireOrder, Sending, Hearing
<1> QED
  BY <1>3, <1>4, <1>5, <1>6 DEF IInv

LEMMA KnownKeeps == IInv /\ Known => IInv'
<1> SUFFICES ASSUME IInv, Known PROVE IInv'
  OBVIOUS
<1>1. list \in Lists /\ msg \in Lists
  BY DEF IInv, TypeOK
<1>2. list.n \in Nat /\ msg.n \in Nat /\ Len(list.ents) \in Nat /\ Len(msg.ents) \in Nat
  BY <1>1, ListFields
<1>3. e' = e + 1 /\ e \in 1..msg.n /\ pc = "search" /\ pc' = "merge"
  <2>1. InOrder(msg, host) /\ e \in 1..(msg.n + 1) /\ e <= msg.n
    BY DEF Known, IInv, Hearing
  <2> QED BY <1>2, <2>1 DEF Known, InOrder, NextEntry
<1>4. TypeOK' /\ (list.ents # << >>)'
  BY <1>2, <1>3 DEF Known, IInv, TypeOK
<1>5. NativeAtRest' /\ SentInWireOrder'
  BY <1>3 DEF Known, IInv, NativeAtRest, SentInWireOrder, InOrder
<1>6. NoWildPointer'
  BY <1>2, <1>3 DEF Known, IInv, NoWildPointer, Hearing, InOrder
<1>7. Sending'
  BY <1>3 DEF Sending
<1>8. Hearing'
  BY <1>2, <1>3 DEF Known, IInv, Hearing, InOrder
<1> QED
  BY <1>4, <1>5, <1>6, <1>7, <1>8 DEF IInv

LEMMA SearchOnKeeps == IInv /\ SearchOn => IInv'
<1> SUFFICES ASSUME IInv, SearchOn PROVE IInv'
  OBVIOUS
<1>1. list \in Lists /\ msg \in Lists
  BY DEF IInv, TypeOK
<1>2. list.n \in Nat /\ msg.n \in Nat /\ Len(list.ents) \in Nat /\ Len(msg.ents) \in Nat
  BY <1>1, ListFields
<1>3. TypeOK' /\ (list.ents # << >>)'
  BY <1>1, <1>2
  DEF SearchOn, IInv, TypeOK, NativeAtRest, NoWildPointer, InOrder, AtEntry, NextEntry
<1>4. NativeAtRest' /\ SentInWireOrder'
  BY <1>1, <1>2
  DEF SearchOn, IInv, TypeOK, NativeAtRest, SentInWireOrder, NoWildPointer, Sending
<1>5. NoWildPointer'
  BY <1>1, <1>2 DEF SearchOn, IInv, NativeAtRest, NoWildPointer, InOrder, AtEntry, NextEntry
<1>6. InOrder(list, host) /\ InOrder(msg, host) /\ k \in 1..list.n /\ e \in 1..msg.n
  BY <1>2 DEF SearchOn, IInv, NativeAtRest, NoWildPointer, Hearing, AtEntry
<1>7. list.ents[k].id # msg.ents[e].id
  BY <1>6 DEF SearchOn, SameUuid, InOrder
<1>8. k' = k + 1
  BY <1>6 DEF SearchOn, NextEntry, InOrder
<1>9. NotAmong(k - 1)
  BY DEF SearchOn, IInv, Hearing
<1>10. NotAmong(k - 1)'
  BY <1>2, <1>6, <1>7, <1>8, <1>9 DEF NotAmong, SearchOn
<1>11. Sending' /\ Hearing'
  BY <1>2, <1>6, <1>8, <1>10 DEF SearchOn, Sending, Hearing, InOrder
<1> QED
  BY <1>3, <1>4, <1>5, <1>11 DEF IInv

LEMMA NotKnownKeeps == IInv /\ NotKnown => IInv'
<1> SUFFICES ASSUME IInv, NotKnown PROVE IInv'
  OBVIOUS
<1>1. list \in Lists /\ msg \in Lists
  BY DEF IInv, TypeOK
<1>2. list.n \in Nat /\ msg.n \in Nat /\ Len(list.ents) \in Nat /\ Len(msg.ents) \in Nat
  BY <1>1, ListFields
<1>3. TypeOK' /\ (list.ents # << >>)'
  BY <1>1, <1>2
  DEF NotKnown, IInv, TypeOK, NativeAtRest, SentInWireOrder, NoWildPointer, Sending
<1>4. NativeAtRest' /\ SentInWireOrder'
  BY <1>1, <1>2
  DEF NotKnown, IInv, TypeOK, NativeAtRest, SentInWireOrder, NoWildPointer, Sending
<1>5. NoWildPointer'
  BY <1>1, <1>2
  DEF NotKnown, IInv, TypeOK, NativeAtRest, SentInWireOrder, NoWildPointer, Sending
<1>6. Sending' /\ Hearing'
  BY <1>1, <1>2 DEF NotKnown, IInv, Sending, Hearing, Halfway, NotAmong, AtEnd
<1> QED
  BY <1>3, <1>4, <1>5, <1>6 DEF IInv

LEMMA FindLastKeeps == IInv /\ FindLast => IInv'
<1> SUFFICES ASSUME IInv, FindLast PROVE IInv'
  OBVIOUS
<1>1. list \in Lists /\ msg \in Lists
  BY DEF IInv, TypeOK
<1>2. list.n \in Nat /\ msg.n \in Nat /\ Len(list.ents) \in Nat /\ Len(msg.ents) \in Nat
  BY <1>1, ListFields
<1>3. /\ k \in 1..list.n
      /\ k' = k + 1 /\ last' = k
      /\ pc = "last" /\ pc' = "last"
  BY <1>2 DEF FindLast, IInv, NativeAtRest, Hearing, InOrder, AtEntry, NextEntry
<1>4. TypeOK' /\ (list.ents # << >>)'
  BY <1>2, <1>3 DEF FindLast, IInv, TypeOK
<1>5. NativeAtRest' /\ SentInWireOrder'
  BY <1>3 DEF FindLast, IInv, NativeAtRest, SentInWireOrder, InOrder
<1>6. NoWildPointer'
  BY <1>2, <1>3 DEF FindLast, IInv, NoWildPointer
<1>7. Sending'
  BY <1>3 DEF Sending
<1>8. NotAmong(list.n)'
  BY <1>3 DEF FindLast, IInv, Hearing, NotAmong
<1>9. Hearing'
  BY <1>2, <1>3, <1>8 DEF FindLast, IInv, Hearing, InOrder
<1> QED
  BY <1>4, <1>5, <1>6, <1>7, <1>9 DEF IInv

LEMMA EntryToBEKeeps == IInv /\ EntryToBE => IInv'
<1> SUFFICES ASSUME IInv, EntryToBE PROVE IInv'
  OBVIOUS
<1>1. list \in Lists /\ msg \in Lists
  BY DEF IInv, TypeOK
<1>2. list.n \in Nat /\ msg.n \in Nat /\ Len(list.ents) \in Nat /\ Len(msg.ents) \in Nat
  BY <1>1, ListFields
<1>3. host = "little" /\ e \in 1..Len(list.ents) /\ list' = SwapEntry(list, e)
      /\ host' = "little" /\ pc' = "convert" /\ e' = e + 1 /\ ptrs' = ptrs
  BY <1>2 DEF EntryToBE, IInv, Sending, Halfway, AllCollected, TypeOK
<1>4. Halfway(list, e, "wire", "little") /\ AllCollected(list.n)
  BY DEF EntryToBE, IInv, Sending
<1>5. list'.n = list.n /\ list'.ord = list.ord /\ Len(list'.ents) = Len(list.ents)
      /\ list'.ents[e].size = "wire" /\ list'.ents[e].body = "wire"
      /\ \A j \in 1..Len(list.ents) : j # e => list'.ents[j] = list.ents[j]
  BY <1>1, <1>3, <1>4, SwapEntryFacts DEF Halfway, Swap
<1>6. Halfway(list, e, "wire", "little")'
  BY <1>2, <1>3, <1>4, <1>5 DEF Halfway
<1>7. AllCollected(list.n)'
  BY <1>3, <1>4, <1>5 DEF AllCollected
<1>8. TypeOK'
  BY <1>1, <1>2, SwapEntryFacts
  DEF EntryToBE, IInv, TypeOK, NativeAtRest, Sending, Halfway, AllCollected
<1>9. (list.ents # << >>)'
  BY <1>1, <1>2, SwapEntryFacts
  DEF EntryToBE, IInv, TypeOK, NativeAtRest, Sending, Halfway, AllCollected
<1>10. NativeAtRest'
  BY <1>1, <1>2, SwapEntryFacts
  DEF EntryToBE, IInv, TypeOK, NativeAtRest, SentInWireOrder, NoWildPointer, Sending
<1>11. SentInWireOrder'
  BY <1>1, <1>2, SwapEntryFacts
  DEF EntryToBE, IInv, TypeOK, NativeAtRest, SentInWireOrder, NoWildPointer, Sending
<1>12. NoWildPointer'
  BY <1>1, <1>2, SwapEntryFacts
  DEF EntryToBE, IInv, TypeOK, NativeAtRest, SentInWireOrder, NoWildPointer, Sending
<1>13. Sending'
  BY <1>3, <1>6, <1>7
  DEF EntryToBE, IInv, TypeOK, NativeAtRest, SentInWireOrder, NoWildPointer, Sending
<1>14. Hearing'
  BY <1>1, <1>2, SwapEntryFacts
  DEF EntryToBE, IInv, TypeOK, NativeAtRest, SentInWireOrder, NoWildPointer, Hearing
<1> QED
  BY <1>8, <1>9, <1>10, <1>11, <1>12, <1>13, <1>14 DEF IInv

LEMMA RestoreKeeps == IInv /\ Restore => IInv'
<1> SUFFICES ASSUME IInv, Restore PROVE IInv'
  OBVIOUS
<1>1. list \in Lists /\ msg \in Lists
  BY DEF IInv, TypeOK
<1>2. list.n \in Nat /\ msg.n \in Nat /\ Len(list.ents) \in Nat /\ Len(msg.ents) \in Nat
  BY <1>1, ListFields
<1>3. host = "little" /\ e \in 1..Len(list.ents) /\ list' = SwapEntry(list, e)
      /\ host' = "little" /\ pc' = "restore" /\ e' = NextEntry(list', e)
  BY <1>2 DEF Restore, AtEntry, IInv, Sending, Hearing, Halfway, TypeOK
<1>4. Halfway(list, e, "little", "wire")
  BY DEF Restore, IInv, Sending, Hearing
<1>5. list'.n = list.n /\ list'.ord = list.ord /\ Len(list'.ents) = Len(list.ents)
      /\ list'.ents[e].size = "little" /\ list'.ents[e].body = "little"
      /\ \A j \in 1..Len(list.ents) : j # e => list'.ents[j] = list.ents[j]
  BY <1>1, <1>3, <1>4, SwapEntryFacts DEF Halfway, Swap
<1>6. \A j \in 1..Len(list.ents) : list'.ents[j].id = list.ents[j].id
  BY <1>1, <1>3, SwapEntryFacts
<1>7. e' = e + 1
  BY <1>3, <1>5 DEF NextEntry
<1>8. Halfway(list, e, "little", "wire")'
  BY <1>2, <1>3, <1>4, <1>5, <1>7 DEF Halfway
<1>9. IdsOf(list') = IdsOf(list)
  BY <1>5, <1>6 DEF IdsOf
<1>10. TypeOK'
  BY <1>1, <1>2, <1>3, SwapEntryFacts
  DEF Restore, IInv, TypeOK, NativeAtRest, SentInWireOrder, NextEntry, Wild
<1>11. (list.ents # << >>)'
  BY <1>1, <1>2, <1>3, SwapEntryFacts
  DEF Restore, IInv, TypeOK, NativeAtRest, SentInWireOrder, NoWildPointer, Sending
<1>12. NativeAtRest'
  BY <1>1, <1>2, <1>3, SwapEntryFacts
  DEF Restore, IInv, TypeOK, NativeAtRest, SentInWireOrder, NoWildPointer, Sending
<1>13. SentInWireOrder'
  BY <1>1, <1>2, <1>3, SwapEntryFacts
  DEF Restore, IInv, TypeOK, NativeAtRest, SentInWireOrder, NoWildPointer, Sending
<1>14. NoWildPointer'
  BY <1>3, <1>8
  DEF Restore, IInv, TypeOK, NativeAtRest, SentInWireOrder, NoWildPointer, Halfway
<1>15. Sending'
  BY <1>2, <1>3, <1>8, <1>9
  DEF Restore, IInv, TypeOK, NativeAtRest, SentInWireOrder, NoWildPointer, Sending
<1>16. Hearing'
  BY <1>1, <1>2, <1>3, SwapEntryFacts
  DEF Restore, IInv, TypeOK, NativeAtRest, SentInWireOrder, NoWildPointer, Hearing
<1> QED
  BY <1>10, <1>11, <1>12, <1>13, <1>14, <1>15, <1>16 DEF IInv

LEMMA ToNativeKeeps == IInv /\ ToNative => IInv'
<1> SUFFICES ASSUME IInv, ToNative PROVE IInv'
  OBVIOUS
<1>1. list \in Lists /\ msg \in Lists
  BY DEF IInv, TypeOK
<1>2. list.n \in Nat /\ msg.n \in Nat /\ Len(list.ents) \in Nat /\ Len(msg.ents) \in Nat
  BY <1>1, ListFields
<1>3. host = "little" /\ e \in 1..Len(msg.ents) /\ msg' = SwapEntry(msg, e)
      /\ host' = "little" /\ pc' = "arrived" /\ e' = NextEntry(msg', e)
  BY <1>2 DEF ToNative, AtEntry, IInv, Sending, Hearing, Halfway, TypeOK
<1>4. Halfway(msg, e, "little", "wire")
  BY DEF ToNative, IInv, Sending, Hearing
<1>5. msg'.n = msg.n /\ msg'.ord = msg.ord /\ Len(msg'.ents) = Len(msg.ents)
      /\ msg'.ents[e].size = "little" /\ msg'.ents[e].body = "little"
      /\ \A j \in 1..Len(msg.ents) : j # e => msg'.ents[j] = msg.ents[j]
  BY <1>1, <1>3, <1>4, SwapEntryFacts DEF Halfway, Swap
<1>6. \A j \in 1..Len(msg.ents) : msg'.ents[j].id = msg.ents[j].id
  BY <1>1, <1>3, SwapEntryFacts
<1>7. e' = e + 1
  BY <1>3, <1>5 DEF NextEntry
<1>8. Halfway(msg, e, "little", "wire")'
  BY <1>2, <1>3, <1>4, <1>5, <1>7 DEF Halfway
<1>9. IdsOf(msg') = IdsOf(msg)
  BY <1>5, <1>6 DEF IdsOf
<1>10. TypeOK'
  BY <1>1, <1>2, <1>3, SwapEntryFacts
  DEF ToNative, IInv, TypeOK, NativeAtRest, SentInWireOrder, NextEntry, Wild
<1>11. (list.ents # << >>)'
  BY <1>1, <1>2, <1>3, SwapEntryFacts
  DEF ToNative, IInv, TypeOK, NativeAtRest, SentInWireOrder, NoWildPointer, Sending
<1>12. NativeAtRest'
  BY <1>1, <1>2, <1>3, SwapEntryFacts
  DEF ToNative, IInv, TypeOK, NativeAtRest, SentInWireOrder, NoWildPointer, Sending
<1>13. SentInWireOrder'
  BY <1>1, <1>2, <1>3, SwapEntryFacts
  DEF ToNative, IInv, TypeOK, NativeAtRest, SentInWireOrder, NoWildPointer, Sending
<1>14. NoWildPointer'
  BY <1>3, <1>8
  DEF ToNative, IInv, TypeOK, NativeAtRest, SentInWireOrder, NoWildPointer, Halfway
<1>15. Sending'
  BY <1>1, <1>2, <1>3, SwapEntryFacts
  DEF ToNative, IInv, TypeOK, NativeAtRest, SentInWireOrder, NoWildPointer, Sending
<1>16. Hearing'
  BY <1>3, <1>8
  DEF ToNative, IInv, TypeOK, NativeAtRest, SentInWireOrder, NoWildPointer, Hearing
<1> QED
  BY <1>10, <1>11, <1>12, <1>13, <1>14, <1>15, <1>16 DEF IInv

LEMMA AddEntryKeeps == IInv /\ AddEntry => IInv'
<1> SUFFICES ASSUME IInv, AddEntry PROVE IInv'
  OBVIOUS
<1>1. list \in Lists /\ msg \in Lists
  BY DEF IInv, TypeOK
<1>2. list.n \in Nat /\ msg.n \in Nat /\ Len(list.ents) \in Nat /\ Len(msg.ents) \in Nat
  BY <1>1, ListFields
<1>3. InOrder(list, host) /\ InOrder(msg, host) /\ e \in 1..msg.n
  BY DEF AddEntry, IInv, NativeAtRest, Hearing, NoWildPointer
<1>4. k = Len(list.ents) + 1 /\ list.ents # << >>
  BY <1>2, <1>3 DEF AddEntry, IInv, NoWildPointer, AtEnd, InOrder
<1>5. list.ents \in Seq(Entries)
  BY <1>1, ListFields
<1>6. last = Len(list.ents)
  BY <1>2, <1>4, <1>5 DEF AddEntry, IInv, Hearing
<1>7. e \in 1..Len(msg.ents) /\ msg.ents[e] \in Entries
  BY <1>1, <1>3, ListFields DEF InOrder
<1>8. /\ list' \in Lists
      /\ list'.n = list.n + 1 /\ list'.ord = list.ord
      /\ Len(list'.ents) = Len(list.ents) + 1
      /\ list'.ents[Len(list.ents) + 1] = msg.ents[e]
      /\ \A j \in 1..Len(list.ents) : list'.ents[j] = list.ents[j]
  BY <1>1, <1>6, <1>7, ExtendedFacts DEF AddEntry
<1>9. InOrder(list, host)'
  BY <1>2, <1>3, <1>7, <1>8 DEF InOrder, AddEntry
<1>a. NextEntry(msg, e) \in Nat
  BY <1>3, <1>7 DEF InOrder, NextEntry
<1>10. TypeOK'
  BY <1>8, <1>a DEF AddEntry, IInv, TypeOK
<1>11. (list.ents # << >>)'
  BY <1>2, <1>8
  DEF AddEntry, IInv, TypeOK, NativeAtRest, SentInWireOrder, NoWildPointer, Sending
<1>12. NativeAtRest'
  BY <1>9 DEF AddEntry, IInv, TypeOK, NativeAtRest, SentInWireOrder, NoWildPointer, Sending
<1>13. SentInWireOrder'
  BY <1>1, <1>2, <1>3, <1>7
  DEF AddEntry, IInv, TypeOK, NativeAtRest, SentInWireOrder, NoWildPointer, Sending
<1>14. NoWildPointer'
  BY <1>1, <1>2, <1>3, <1>7
  DEF AddEntry, IInv, TypeOK, NativeAtRest, NoWildPointer, InOrder, NextEntry
<1>15. Sending'
  BY <1>1, <1>2, <1>3, <1>7
  DEF AddEntry, IInv, TypeOK, NativeAtRest, SentInWireOrder, NoWildPointer, Sending
<1>16. Hearing'
  BY <1>1, <1>2, <1>3, <1>7
  DEF AddEntry, IInv, TypeOK, NativeAtRest, Hearing, InOrder, NextEntry
<1> QED
  BY <1>10, <1>11, <1>12, <1>13, <1>14, <1>15, <1>16 DEF IInv

LEMMA ReceiveKeeps ==
    ASSUME NEW ids \in Incoming, IInv, Receive(ids)
    PROVE  IInv'
<1>1. ids \in Seq(Ids) /\ ids # << >> /\ Len(ids) \in Nat /\ Len(ids) >= 1
  BY ListWireAssumption
<1> DEFINE wire == ListOf(ids, "wire")
<1>2. wire \in Lists /\ InOrder(wire, "wire") /\ wire.n = Len(ids)
  BY <1>1, ListOfFacts DEF Orders
<1> HIDE DEF wire
<1>3. /\ msg' \in Lists /\ msg'.n = Len(ids) /\ msg'.ents = wire.ents
      /\ msg'.ord = host
  <2>1. host \in Orders
    BY DEF IInv, TypeOK
  <2>2. msg' = IF host = "wire" THEN wire ELSE SwapHeader(wire)
    BY DEF Receive, wire
  <2> QED BY <1>2, <2>1, <2>2, SwapHeaderFacts DEF InOrder, Orders, Swap
<1>4. TypeOK'
  BY <1>3 DEF Receive, IInv, TypeOK
<1>5. host = "wire" => InOrder(msg, host)'
  BY <1>2, <1>3 DEF Receive, InOrder
<1>6. pc' = IF host = "wire" THEN "merge" ELSE "arrived"
  BY DEF Receive
<1>7. list' = list /\ host' = host /\ e' = 1
  BY DEF Receive
<1>8. e' = 1
  BY DEF Receive
<1>9. wire.n = Len(wire.ents)
      /\ \A j \in 1..Len(wire.ents) : wire.ents[j].size = "wire" /\ wire.ents[j].body = "wire"
  BY <1>2 DEF InOrder
<1>10. host # "wire" => host' = "little" /\ Halfway(msg, e, "little", "wire")'
  <2> SUFFICES ASSUME host # "wire" PROVE host' = "little" /\ Halfway(msg, e, "little", "wire")'
    OBVIOUS
  <2>1. host' = "little" /\ msg'.ord = host'
    BY <1>3, <1>7 DEF IInv, TypeOK, Orders
  <2>2. msg'.n = Len(msg'.ents) /\ e' \in 1..(msg'.n + 1)
    BY <1>1, <1>2, <1>3, <1>8, <1>9
  <2>3. \A j \in 1..Len(msg'.ents) :
          ~ (j < e') /\ msg'.ents[j].size = "wire" /\ msg'.ents[j].body = "wire"
    BY <1>1, <1>2, <1>3, <1>8, <1>9
  <2> QED BY <2>1, <2>2, <2>3 DEF Halfway
<1>11. NativeAtRest' /\ (list.ents # << >>)'
  BY <1>7 DEF Receive, IInv, NativeAtRest, InOrder
<1>12. msg'.n = Len(msg'.ents)
  BY <1>2, <1>3 DEF InOrder
<1> QED
  BY <1>1, <1>3, <1>4, <1>5, <1>10, <1>6, <1>7, <1>11, <1>12
  DEF IInv, SentInWireOrder, NoWildPointer, Sending, Hearing

LEMMA InvStep == IInv /\ [Next]_vars => IInv'
<1> SUFFICES ASSUME IInv, [Next]_vars PROVE IInv'
  OBVIOUS
<1>1. CASE BeginSend
  BY <1>1, BeginSendKeeps
<1>2. CASE \E ids \in Incoming : Receive(ids)
  BY <1>2, ReceiveKeeps
<1>3. CASE Handle
  BY <1>3, CollectKeeps, CollectedKeeps, EntryToBEKeeps, HeaderToBEKeeps, CopyKeeps,
     OverrunKeeps, RestoreKeeps, RestoredKeeps, SendKeeps, ToNativeKeeps, AllNativeKeeps,
     MaybeAddEntryKeeps, MergedKeeps, KnownKeeps, SearchOnKeeps, NotKnownKeeps,
     FindLastKeeps, AddEntryKeeps DEF Handle
<1>4. CASE UNCHANGED vars
  BY <1>4
  DEF vars, IInv, TypeOK, NativeAtRest, SentInWireOrder, NoWildPointer, Sending, Hearing,
      Halfway, AllCollected, NotAmong
<1> QED BY <1>1, <1>2, <1>3, <1>4 DEF Next

THEOREM Invariant == Spec => []IInv
BY InvInit, InvStep, PTL DEF Spec

\* Whatever is announced and heard, in whatever order, between two calls the
\* list is whole and in the host's byte order (node.c, nodeType.h).
THEOREM NativeAtRestCorrect == Spec => []NativeAtRest
<1>1. IInv => NativeAtRest
  BY DEF IInv
<1> QED BY <1>1, Invariant, PTL

\* Every host sends its list in the order of the wire (NODE_ListToBE).
THEOREM SentInWireOrderCorrect == Spec => []SentInWireOrder
<1>1. IInv => SentInWireOrder
  BY DEF IInv
<1> QED BY <1>1, Invariant, PTL

\* No loop of node.c follows a pointer that is neither an entry nor the end.
THEOREM NoWildPointerCorrect == Spec => []NoWildPointer
<1>1. IInv => NoWildPointer
  BY DEF IInv
<1> QED BY <1>1, Invariant, PTL
-----------------------------------------------------------------------------
(* Refinement *)

LEMMA IdsFacts ==
    ASSUME NEW nl \in Lists
    PROVE  /\ IdsOf(nl) \in Seq(Ids)
           /\ Len(IdsOf(nl)) = Len(nl.ents)
           /\ \A j \in 1..Len(nl.ents) : IdsOf(nl)[j] = nl.ents[j].id
BY ListFields DEF IdsOf

\* Lists of the same nodes.
LEMMA SameIds ==
    ASSUME NEW nl \in Lists, NEW ml \in Lists, Len(ml.ents) = Len(nl.ents),
           \A j \in 1..Len(nl.ents) : ml.ents[j].id = nl.ents[j].id
    PROVE  IdsOf(ml) = IdsOf(nl)
BY DEF IdsOf

LEMMA SwapIds ==
    ASSUME NEW nl \in Lists, NEW i \in 1..Len(nl.ents)
    PROVE  IdsOf(SwapEntry(nl, i)) = IdsOf(nl)
BY SwapEntryFacts, SameIds

\* What is still pending loses its head when e moves on.
LEMMA RestFacts ==
    ASSUME NEW s \in Seq(Ids), NEW i \in 1..Len(s)
    PROVE  /\ SubSeq(s, i, Len(s)) # << >>
           /\ Head(SubSeq(s, i, Len(s))) = s[i]
           /\ Tail(SubSeq(s, i, Len(s))) = SubSeq(s, i + 1, Len(s))
<1>1. Len(s) \in i..Len(s)
  OBVIOUS
<1>2. SubSeq(s, i, Len(s)) = <<s[i]>> \o SubSeq(s, i + 1, Len(s))
  BY <1>1, SubSeqRecursiveFirst
<1>3. SubSeq(s, i, Len(s)) # << >>
  <2>1. \A j \in i..Len(s) : s[j] \in Ids
    OBVIOUS
  <2>2. Len(SubSeq(s, i, Len(s))) = Len(s) - i + 1
    BY <2>1, SubSeqProperties
  <2> QED BY <2>2
<1> QED BY <1>1, <1>3, HeadTailOfSubSeq

LEMMA NoRest ==
    ASSUME NEW s \in Seq(Ids)
    PROVE  SubSeq(s, Len(s) + 1, Len(s)) = << >> /\ SubSeq(s, 1, Len(s)) = s
OBVIOUS

Unseen ==
    /\ IdsOf(list)' = IdsOf(list)
    /\ Pending' = Pending
    /\ Understood(sent)' = Understood(sent)

LEMMA RefineInit == Init => G!GInit
<1> SUFFICES ASSUME Init PROVE G!GInit
  OBVIOUS
<1>1. <<Local>> \in Seq(Ids) /\ << >> \in Seq(Ids) /\ host \in Orders /\ "wire" \in Orders
  BY ListWireAssumption DEF Init, Orders
<1>2. IdsOf(list) = <<Local>>
  BY <1>1, ListOfFacts DEF Init
<1>3. IdsOf(sent) = << >>
  BY <1>1, ListOfFacts DEF Init, Nothing
<1> QED BY <1>2, <1>3 DEF Init, G!GInit, Pending, Understood

\* Conversions of the list.
LEMMA ConvertRefines ==
    ASSUME IInv, IInv', EntryToBE \/ HeaderToBE \/ Copy \/ Restore
    PROVE  Unseen
<1>1. list \in Lists /\ list' \in Lists
  BY DEF IInv, TypeOK
<1>2. sent' = sent /\ Pending' = << >> /\ Pending = << >>
  BY DEF EntryToBE, HeaderToBE, Copy, Restore, Pending
<1>3. Understood(sent)' = Understood(sent)
  BY <1>2 DEF Understood, InOrder, IdsOf
<1>4. IdsOf(list)' = IdsOf(list)
  <2>1. CASE EntryToBE
    <3>1. ptrs[e] \in 1..Len(list.ents)
      BY <1>1, <2>1, ListFields DEF EntryToBE, IInv, Sending, Halfway, AllCollected, TypeOK
    <3> QED BY <1>1, <2>1, <3>1, SwapIds DEF EntryToBE
  <2>2. CASE Restore
    <3>1. e \in 1..Len(list.ents)
      BY <1>1, <2>2, ListFields DEF Restore, IInv, Sending, Halfway, AtEntry
    <3> QED BY <1>1, <2>2, <3>1, SwapIds DEF Restore
  <2>3. CASE HeaderToBE \/ Copy
    BY <1>1, <2>3, SwapHeaderFacts DEF HeaderToBE, Copy, IdsOf
  <2> QED BY <2>1, <2>2, <2>3
<1> QED BY <1>2, <1>3, <1>4 DEF Unseen

\* The other steps between two calls' effects.
LEMMA QuietRefines ==
    ASSUME IInv,
           \/ BeginSend \/ Collect \/ Collected \/ Overrun \/ Restored
           \/ MaybeAddEntry \/ SearchOn \/ NotKnown \/ FindLast \/ UNCHANGED vars
    PROVE  Unseen
<1>1. list' = list /\ sent' = sent /\ msg' = msg
  BY DEF BeginSend, Collect, Collected, Overrun, Restored, MaybeAddEntry, SearchOn,
     NotKnown, FindLast, vars
<1>2. Pending' = Pending
  BY <1>1
  DEF BeginSend, Collect, Collected, Overrun, Restored, MaybeAddEntry, SearchOn, NotKnown,
      FindLast, vars, Pending
<1> QED BY <1>1, <1>2 DEF Unseen, Understood, InOrder, IdsOf

LEMMA HearingQuiet ==
    ASSUME IInv, IInv', ToNative \/ AllNative \/ Merged
    PROVE  Unseen
<1>1. list' = list /\ sent' = sent /\ msg \in Lists /\ msg' \in Lists
  BY DEF ToNative, AllNative, Merged, IInv, TypeOK
<1>2. Pending' = Pending
  <2>1. CASE ToNative
    <3>1. e \in 1..Len(msg.ents)
      BY <1>1, <2>1, ListFields DEF ToNative, IInv, Hearing, Halfway, AtEntry
    <3>2. IdsOf(msg)' = IdsOf(msg)
      BY <1>1, <2>1, <3>1, SwapIds DEF ToNative
    <3> QED BY <2>1, <3>2 DEF ToNative, Pending
  <2>2. CASE AllNative
    <3>1. msg' = msg /\ e' = 1 /\ msg.n = Len(msg.ents) /\ pc = "arrived" /\ pc' = "merge"
      BY <2>2 DEF AllNative, IInv, Hearing, Halfway
    <3>2. SubSeq(IdsOf(msg), 1, msg.n) = IdsOf(msg)
      BY <1>1, <3>1, IdsFacts, NoRest
    <3> QED BY <3>1, <3>2 DEF Pending, IdsOf
  <2>3. CASE Merged
    <3>1. e = Len(msg.ents) + 1 /\ msg.n = Len(msg.ents) /\ pc = "merge" /\ pc' = "idle"
      BY <1>1, <2>3, ListFields DEF Merged, IInv, Hearing, AtEnd, InOrder
    <3>2. SubSeq(IdsOf(msg), e, msg.n) = << >>
      BY <1>1, <3>1, IdsFacts, NoRest
    <3> QED BY <3>1, <3>2 DEF Pending
  <2> QED BY <2>1, <2>2, <2>3
<1> QED BY <1>1, <1>2 DEF Unseen, Understood, InOrder, IdsOf

LEMMA SendRefines ==
    ASSUME IInv, Send
    PROVE  G!Announce
<1>1. list' = list /\ sent' = msg /\ Pending = << >> /\ Pending' = << >>
  BY DEF Send, Pending
<1>2. InOrder(msg, "wire") /\ IdsOf(msg) = IdsOf(list)
  BY DEF Send, IInv, SentInWireOrder
<1>3. Understood(sent)' = IdsOf(list)
  BY <1>1, <1>2 DEF Understood, InOrder, IdsOf
<1> QED BY <1>1, <1>3 DEF G!Announce, IdsOf

LEMMA ReceiveRefines ==
    ASSUME NEW ids \in Incoming, IInv, IInv', Receive(ids)
    PROVE  G!Hear
<1>1. ids \in Seq(Ids) /\ list' = list /\ sent' = sent /\ e' = 1
  BY ListWireAssumption DEF Receive
<1> DEFINE wire == ListOf(ids, "wire")
<1>2. wire \in Lists /\ wire.n = Len(ids) /\ IdsOf(wire) = ids
  BY <1>1, ListOfFacts DEF Orders
<1>3. msg' = IF host = "wire" THEN wire ELSE SwapHeader(wire)
  BY DEF Receive
<1> HIDE DEF wire
<1>4. msg'.n = Len(ids) /\ IdsOf(msg') = ids
  BY <1>2, <1>3, SwapHeaderFacts DEF IdsOf
<1>5. SubSeq(ids, 1, Len(ids)) = ids
  BY <1>1, NoRest
<1>6. Pending = << >> /\ Pending' = ids
  BY <1>1, <1>4, <1>5 DEF Receive, Pending
<1> QED BY <1>1, <1>6 DEF G!Hear, Understood, InOrder, IdsOf

\* An entry of the message has been dealt with: either it was listed already,
\* or the list has one more.
LEMMA TakeRefines ==
    ASSUME IInv, IInv', Known \/ AddEntry
    PROVE  G!Take
<1>1. list \in Lists /\ msg \in Lists /\ list' \in Lists /\ msg' = msg /\ sent' = sent
  BY DEF Known, AddEntry, IInv, TypeOK
<1>2. InOrder(list, host) /\ InOrder(msg, host) /\ e \in 1..Len(msg.ents)
      /\ pc \in {"search", "last"} /\ pc' = "merge"
  BY DEF Known, AddEntry, IInv, NativeAtRest, Hearing, NoWildPointer, InOrder
<1>3. e' = e + 1
  BY <1>2 DEF Known, AddEntry, NextEntry, InOrder
<1>4. IdsOf(msg) \in Seq(Ids) /\ Len(IdsOf(msg)) = msg.n /\ IdsOf(msg)[e] = msg.ents[e].id
      /\ e \in 1..Len(IdsOf(msg))
  BY <1>1, <1>2, IdsFacts DEF InOrder
<1>5. /\ Pending = SubSeq(IdsOf(msg), e, msg.n) /\ Pending' = SubSeq(IdsOf(msg), e + 1, msg.n)
  BY <1>1, <1>2, <1>3 DEF Pending, IdsOf
<1>6. Pending # << >> /\ Head(Pending) = msg.ents[e].id /\ Pending' = Tail(Pending)
  BY <1>4, <1>5, RestFacts
<1>7. Len(IdsOf(list)) = Len(list.ents)
      /\ \A j \in 1..Len(list.ents) : IdsOf(list)[j] = list.ents[j].id
  BY <1>1, IdsFacts
<1>8. CASE Known
  <2>1. list' = list /\ k \in 1..Len(list.ents) /\ list.ents[k].id = msg.ents[e].id
    BY <1>1, <1>2, <1>8, ListFields DEF Known, AtEntry, SameUuid, InOrder, IInv, NoWildPointer
  <2>2. \E j \in 1..Len(IdsOf(list)) : IdsOf(list)[j] = Head(Pending)
    BY <1>6, <1>7, <2>1
  <2> QED BY <1>1, <1>6, <2>1, <2>2 DEF G!Take, Understood, InOrder, IdsOf
<1>9. CASE AddEntry
  <2>1. ~ \E j \in 1..Len(IdsOf(list)) : IdsOf(list)[j] = Head(Pending)
    BY <1>2, <1>6, <1>7, <1>9 DEF AddEntry, IInv, Hearing, NotAmong, InOrder
  <2>2. last = Len(list.ents)
    BY <1>1, <1>2, <1>9, ListFields DEF AddEntry, IInv, Hearing, NoWildPointer, AtEnd, InOrder
  <2>3. msg.ents[e] \in Entries
    BY <1>1, <1>2, ListFields
  <2>4. list' = Extended(list, Len(list.ents), msg.ents[e])
    BY <1>9, <2>2 DEF AddEntry
  <2>5. Len(list'.ents) = Len(list.ents) + 1 /\ list'.ents[Len(list.ents) + 1] = msg.ents[e]
        /\ \A j \in 1..Len(list.ents) : list'.ents[j] = list.ents[j]
    BY <1>1, <2>3, <2>4, ExtendedFacts
  <2>6. IdsOf(list') = Append(IdsOf(list), Head(Pending))
    BY <1>1, <1>6, <1>7, <2>5, IdsFacts, ListFields DEF IdsOf
  <2> QED BY <1>1, <1>6, <2>1, <2>6 DEF G!Take, Understood, InOrder, IdsOf
<1> QED BY <1>8, <1>9

LEMMA RefineStep == IInv /\ IInv' /\ [Next]_vars => [G!GNext]_(G!gvars)
<1> SUFFICES ASSUME IInv, IInv', [Next]_vars PROVE [G!GNext]_(G!gvars)
  OBVIOUS
<1>1. Unseen => UNCHANGED G!gvars
  BY DEF Unseen, G!gvars
<1> QED BY <1>1, ConvertRefines, QuietRefines, HearingQuiet, SendRefines, ReceiveRefines,
        TakeRefines DEF Next, Handle, G!GNext

\* One device's list, with the positions of its loops and its conversions,
\* implements GossipList (NODE_CheckForNewNodes, NODE_ListToBE, NET_HandleBcast).
THEOREM ImplementsCorrect == Spec => ImplementsGossipList
BY RefineInit, RefineStep, InvInit, InvStep, PTL DEF Spec, ImplementsGossipList, G!GSpec
-----------------------------------------------------------------------------
(* No node is listed twice *)

\* No device is listed twice, however often and by whomever it is announced,
\* and whichever of NODE_MaybeAddEntry's comparisons and conversions come first.
ListedOnce ==
    \A i, j \in 1..Len(list.ents) : list.ents[i].id = list.ents[j].id => i = j

LEMMA ListedOnceInit == Init => ListedOnce
<1> SUFFICES ASSUME Init PROVE ListedOnce
  OBVIOUS
<1>1. <<Local>> \in Seq(Ids) /\ host \in Orders /\ Len(<<Local>>) = 1
  BY ListWireAssumption DEF Init
<1>2. Len(list.ents) = 1
  BY <1>1, ListOfFacts DEF Init
<1> QED BY <1>2 DEF ListedOnce

\* The nodes of the list decide.
LEMMA OnceByIds ==
    ASSUME list \in Lists
    PROVE  ListedOnce <=> \A i, j \in 1..Len(IdsOf(list)) :
                              IdsOf(list)[i] = IdsOf(list)[j] => i = j
BY IdsFacts DEF ListedOnce

LEMMA OnceByIdsNext ==
    ASSUME list' \in Lists
    PROVE  ListedOnce' <=> \A i, j \in 1..Len(IdsOf(list')) :
                              IdsOf(list')[i] = IdsOf(list')[j] => i = j
<1>1. /\ Len(IdsOf(list')) = Len(list'.ents)
      /\ \A j \in 1..Len(list'.ents) : IdsOf(list')[j] = list'.ents[j].id
  BY IdsFacts
<1> QED BY <1>1 DEF ListedOnce

LEMMA ListedOnceStep == IInv /\ IInv' /\ ListedOnce /\ [Next]_vars => ListedOnce'
<1> SUFFICES ASSUME IInv, IInv', ListedOnce, [Next]_vars PROVE ListedOnce'
  OBVIOUS
<1> DEFINE l == IdsOf(list)
           Once(s) == \A i, j \in 1..Len(s) : s[i] = s[j] => i = j
<1>1. list \in Lists /\ list' \in Lists /\ l \in Seq(Ids) /\ l' = IdsOf(list')
  BY IdsFacts DEF IInv, TypeOK, IdsOf
<1>2. Once(l)
  BY <1>1, OnceByIds
<1>3. [G!GNext]_(G!gvars)
  BY RefineStep
<1>4. l' = l \/ G!Take
  BY <1>3 DEF G!GNext, G!Hear, G!Announce, G!gvars
<1>5. CASE l' = l
  BY <1>1, <1>2, <1>5, OnceByIdsNext
<1>6. CASE G!Take
  <2>1. l' = l \/ (l' = Append(l, Head(Pending)) /\ \A j \in 1..Len(l) : l[j] # Head(Pending))
    BY <1>6 DEF G!Take
  <2>2. CASE l' = Append(l, Head(Pending)) /\ \A j \in 1..Len(l) : l[j] # Head(Pending)
    <3>1. Len(l') = Len(l) + 1 /\ l'[Len(l) + 1] = Head(Pending)
          /\ \A j \in 1..Len(l) : l'[j] = l[j]
      BY <1>1, <2>2
    <3>2. Len(l) \in Nat
      BY <1>1
    <3> HIDE DEF l
    <3>3. \A i, j \in 1..Len(l') : l'[i] = l'[j] => i = j
      <4> SUFFICES ASSUME NEW i \in 1..(Len(l) + 1), NEW j \in 1..(Len(l) + 1), l'[i] = l'[j]
                   PROVE  i = j
        BY <3>1
      <4>1. CASE i \in 1..Len(l) /\ j \in 1..Len(l)
        BY <1>2, <3>1, <4>1
      <4>2. CASE i = Len(l) + 1 /\ j \in 1..Len(l)
        BY <2>2, <3>1, <4>2
      <4>3. CASE j = Len(l) + 1 /\ i \in 1..Len(l)
        BY <2>2, <3>1, <4>3
      <4> QED BY <3>2, <4>1, <4>2, <4>3
    <3> QED BY <1>1, <3>3, OnceByIdsNext
  <2> QED BY <1>5, <2>1, <2>2
<1> QED BY <1>4, <1>5, <1>6

\* No node is listed twice (NODE_MaybeAddEntry).
THEOREM ListedOnceCorrect == Spec => []ListedOnce
BY ListedOnceInit, ListedOnceStep, Invariant, PTL DEF Spec
-----------------------------------------------------------------------------
(* Every handler ends *)

\* As many nodes, and entries of a packet, as 64 KB (CONFIG_NET_MAX_PKT_KB by
\* default) hold of entries of 32 bytes, less than the smallest entry has.
HandlerBound == IsFiniteSet(Ids) /\ Cardinality(Ids) <= 2048 /\ PktEntries <= 2048

Fits == pc \in {"arrived", "merge", "search", "last"} => msg.n <= PktEntries

BInv == IInv /\ ListedOnce /\ Fits

LEMMA FitsStep == IInv /\ IInv' /\ Fits /\ [Next]_vars => Fits'
<1> SUFFICES ASSUME IInv, IInv', Fits, [Next]_vars PROVE Fits'
  OBVIOUS
<1>1. ASSUME NEW ids \in Incoming, Receive(ids) PROVE Fits'
  <2>1. ids \in Seq(Ids) /\ Len(ids) <= PktEntries
    BY <1>1, ListWireAssumption DEF Receive
  <2> DEFINE wire == ListOf(ids, "wire")
  <2>2. wire \in Lists /\ wire.n = Len(ids)
    BY <2>1, ListOfFacts DEF Orders
  <2>3. msg' = IF host = "wire" THEN wire ELSE SwapHeader(wire)
    BY <1>1 DEF Receive
  <2> HIDE DEF wire
  <2>4. msg'.n = Len(ids)
    BY <2>2, <2>3, SwapHeaderFacts
  <2> QED BY <2>1, <2>4 DEF Fits
<1>2. CASE ToNative
  <2>1. msg \in Lists /\ e \in 1..Len(msg.ents)
    BY <1>2, ListFields DEF ToNative, IInv, TypeOK, Hearing, Halfway, AtEntry
  <2>2. msg'.n = msg.n
    BY <1>2, <2>1, SwapEntryFacts DEF ToNative
  <2> QED BY <1>2, <2>2 DEF ToNative, Fits
<1>3. CASE BeginSend \/ Collect \/ Collected \/ EntryToBE \/ HeaderToBE
           \/ Copy \/ Overrun \/ Restore \/ Restored \/ Send
  BY <1>3 DEF BeginSend, Collect, Collected, EntryToBE, HeaderToBE, Copy, Overrun, Restore,
              Restored, Send, Fits
<1>4. CASE AllNative \/ MaybeAddEntry \/ Merged \/ Known \/ SearchOn \/ NotKnown \/ FindLast \/ AddEntry
  BY <1>4 DEF AllNative, MaybeAddEntry, Merged, Known, SearchOn, NotKnown, FindLast, AddEntry, Fits
<1>5. CASE UNCHANGED vars
  BY <1>5 DEF vars, Fits
<1> QED BY <1>1, <1>2, <1>3, <1>4, <1>5 DEF Next, Handle

LEMMA BInvariant == Spec => []BInv
<1>1. Init => Fits
  BY DEF Init, Fits
<1> QED BY <1>1, FitsStep, Invariant, ListedOnceCorrect, PTL DEF Spec, BInv

\* A list without duplicates is no longer than there are nodes.
LEMMA ListShort ==
    ASSUME HandlerBound, BInv
    PROVE  Len(list.ents) \in Nat /\ Len(list.ents) <= 2048
<1>1. list \in Lists /\ list.ents # << >>
  BY DEF BInv, IInv, TypeOK
<1>2. list.ents \in Seq(Entries) /\ Len(list.ents) \in Nat
      /\ \A j \in 1..Len(list.ents) : list.ents[j].id \in Ids
  BY <1>1, ListFields
<1> DEFINE f == [j \in 1..Len(list.ents) |-> list.ents[j].id]
<1>4. f \in Injection(1..Len(list.ents), Ids)
  <2>1. f \in [1..Len(list.ents) -> Ids]
    BY <1>2
  <2>2. \A i, j \in 1..Len(list.ents) : f[i] = f[j] => i = j
    BY DEF BInv, ListedOnce
  <2> QED BY <2>1, <2>2 DEF Injection, IsInjective
<1>5. Cardinality(1..Len(list.ents)) <= Cardinality(Ids)
  BY <1>4, FS_Injection DEF HandlerBound
<1>6. Cardinality(1..Len(list.ents)) = Len(list.ents)
  BY <1>2, FS_Interval
<1>7. Cardinality(Ids) \in Nat
  BY FS_CardinalityType DEF HandlerBound
<1> QED BY <1>2, <1>5, <1>6, <1>7 DEF HandlerBound

\* For entry i of m, and those behind it.
Later(m, i) == (m + 1 - i) * 4099

LEMMA LaterFacts ==
    ASSUME NEW m \in Nat, m <= 2048, NEW i \in 1..(m + 1)
    PROVE  /\ Later(m, i) \in Nat /\ Later(m, i) <= 8394752
           /\ i <= m => Later(m, i) = Later(m, i + 1) + 4099
<1>1. (m + 1 - i) \in Nat /\ m + 1 - i <= 2048 /\ m + 1 - (i + 1) = (m + 1 - i) - 1
  OBVIOUS
<1>2. \A x \in Nat : x <= 2048 => x * 4099 \in Nat /\ x * 4099 <= 8394752 /\ x * 4099 = (x - 1) * 4099 + 4099
  BY SMT
<1> QED BY <1>1, <1>2, SMT DEF Later

\* The steps still to come before the handler is at rest, at most: 4099 for
\* each entry of a message, two for each entry of the list and three.
Rank ==
    CASE pc = "send"    -> 1
      [] pc = "restore" -> (list.n + 1 - e) + 2
      [] pc = "copy"    -> list.n + 3
      [] pc = "convert" -> (list.n + 1 - e) + list.n + 4
      [] pc = "collect" -> (list.n + 1 - e) + 2 * list.n + 5
      [] pc = "merge"   -> Later(msg.n, e) + 1
      [] pc = "arrived" -> (msg.n + 1 - e) + Later(msg.n, 1) + 2
      [] pc = "search"  -> Later(msg.n, e + 1) + (list.n + 1 - k) + list.n + 3
      [] pc = "last"    -> Later(msg.n, e + 1) + (list.n + 1 - k) + 2
      [] OTHER          -> 0

Top == 16777216

\* What the rank is made of.
LEMMA RankParts ==
    ASSUME HandlerBound, BInv
    PROVE  /\ list.n \in Nat /\ msg.n \in Nat /\ e \in Nat /\ k \in Nat
           /\ pc # "overrun" => list.n <= 2048 /\ list.n = Len(list.ents)
           /\ pc \in {"restore", "convert", "collect"} => e \in 1..(list.n + 1)
           /\ pc \in {"arrived", "merge"} => e \in 1..(msg.n + 1)
           /\ pc \in {"search", "last"} => e \in 1..msg.n /\ k \in 1..(list.n + 1)
           /\ pc \in {"arrived", "merge", "search", "last"} => msg.n <= 2048
<1>1. list \in Lists /\ msg \in Lists /\ e \in Nat /\ k \in Nat /\ PktEntries \in Nat
  BY ListWireAssumption DEF BInv, IInv, TypeOK
<1>2. list.n \in Nat /\ msg.n \in Nat
  BY <1>1, ListFields
<1>3. pc # "overrun" => list.n = Len(list.ents)
  BY DEF BInv, IInv, TypeOK, NativeAtRest, Sending, InOrder, Halfway
<1>4. Len(list.ents) \in Nat /\ Len(list.ents) <= 2048
  BY ListShort
<1>5. pc \in {"restore", "convert", "collect"} => e \in 1..(list.n + 1)
  BY DEF BInv, IInv, Sending, Halfway
<1>6. /\ pc \in {"arrived", "merge"} => e \in 1..(msg.n + 1)
      /\ pc \in {"search", "last"} => e \in 1..msg.n /\ k \in 1..(list.n + 1)
  BY DEF BInv, IInv, NoWildPointer
<1>7. pc \in {"arrived", "merge", "search", "last"} => msg.n <= 2048
  BY <1>1, <1>2 DEF BInv, Fits, HandlerBound
<1> QED BY <1>1, <1>2, <1>3, <1>4, <1>5, <1>6, <1>7

LEMMA TopFacts == Top \in Nat /\ Top >= 8400000
BY SMT DEF Top

LEMMA LaterHere ==
    ASSUME HandlerBound, BInv, pc \in {"arrived", "merge", "search", "last"}
    PROVE  /\ Later(msg.n, 1) \in Nat /\ Later(msg.n, 1) <= 8394752
           /\ pc \in {"arrived", "merge"} => Later(msg.n, e) \in Nat /\ Later(msg.n, e) <= 8394752
           /\ e <= msg.n => /\ Later(msg.n, e) = Later(msg.n, e + 1) + 4099
                            /\ Later(msg.n, e + 1) \in Nat /\ Later(msg.n, e + 1) <= 8394752
<1>1. msg.n \in Nat /\ msg.n <= 2048 /\ e \in 1..(msg.n + 1) /\ 1 \in 1..(msg.n + 1)
  BY RankParts
<1>2. e <= msg.n => e + 1 \in 1..(msg.n + 1)
  BY <1>1
<1> QED BY <1>1, <1>2, LaterFacts, SMT

LEMMA RankType ==
    HandlerBound => (BInv => Rank \in Nat /\ Rank <= Top /\ (AtRest <=> Rank = 0))
<1> SUFFICES ASSUME HandlerBound, BInv PROVE Rank \in Nat /\ Rank <= Top /\ (AtRest <=> Rank = 0)
  OBVIOUS
<1>1. pc \in {"idle", "collect", "convert", "copy", "restore", "send",
              "arrived", "merge", "search", "last", "overrun"}
  BY DEF BInv, IInv, TypeOK
<1>2. CASE AtRest
  <2>1. Rank = 0
    BY <1>2 DEF AtRest, Rank
  <2> QED BY <1>2, <2>1, TopFacts
<1>3. ASSUME pc \in {"send", "restore", "copy", "convert", "collect"}
      PROVE  Rank \in Nat /\ Rank <= Top /\ Rank # 0
  <2>1. /\ list.n \in Nat /\ list.n <= 2048
        /\ pc \in {"restore", "convert", "collect"} => e \in 1..(list.n + 1)
    BY <1>3, RankParts
  <2>2. CASE pc = "send"
    BY <2>1, <2>2, TopFacts, SMT DEF Rank
  <2>3. CASE pc = "restore"
    <3>1. Rank = (list.n + 1 - e) + 2
      BY <2>3 DEF Rank
    <3> QED BY <2>1, <2>3, <3>1, TopFacts, SMT
  <2>4. CASE pc = "copy"
    <3>1. Rank = list.n + 3
      BY <2>4 DEF Rank
    <3> QED BY <2>1, <2>4, <3>1, TopFacts, SMT
  <2>5. CASE pc = "convert"
    <3>1. Rank = (list.n + 1 - e) + list.n + 4
      BY <2>5 DEF Rank
    <3> QED BY <2>1, <2>5, <3>1, TopFacts, SMT
  <2>6. CASE pc = "collect"
    <3>1. Rank = (list.n + 1 - e) + 2 * list.n + 5
      BY <2>6 DEF Rank
    <3> QED BY <2>1, <2>6, <3>1, TopFacts, SMT
  <2> QED BY <1>3, <2>2, <2>3, <2>4, <2>5, <2>6
<1>4. ASSUME pc \in {"merge", "arrived", "search", "last"}
      PROVE  Rank \in Nat /\ Rank <= Top /\ Rank # 0
  <2>1. /\ list.n \in Nat /\ list.n <= 2048 /\ msg.n \in Nat /\ msg.n <= 2048
        /\ pc \in {"arrived", "merge"} => e \in 1..(msg.n + 1)
        /\ pc \in {"search", "last"} => e <= msg.n /\ k \in 1..(list.n + 1)
    BY <1>4, RankParts
  <2>2. CASE pc = "merge"
    <3>1. Later(msg.n, e) \in Nat /\ Later(msg.n, e) <= 8394752 /\ Rank = Later(msg.n, e) + 1
      BY <2>2, LaterHere, SMT DEF Rank
    <3> QED BY <3>1, TopFacts, SMT
  <2>3. CASE pc = "arrived"
    <3>1. Later(msg.n, 1) \in Nat /\ Later(msg.n, 1) <= 8394752
          /\ Rank = (msg.n + 1 - e) + Later(msg.n, 1) + 2
      BY <2>3, LaterHere, SMT DEF Rank
    <3> QED BY <2>1, <2>3, <3>1, TopFacts, SMT
  <2>4. CASE pc \in {"search", "last"}
    <3>1. Later(msg.n, e + 1) \in Nat /\ Later(msg.n, e + 1) <= 8394752
      BY <2>1, <2>4, LaterHere, SMT
    <3>2. Rank \in {Later(msg.n, e + 1) + (list.n + 1 - k) + list.n + 3,
                   Later(msg.n, e + 1) + (list.n + 1 - k) + 2}
      BY <2>4 DEF Rank
    <3> QED BY <2>1, <2>4, <3>1, <3>2, TopFacts, SMT
  <2> QED BY <1>4, <2>2, <2>3, <2>4
<1> QED BY <1>1, <1>2, <1>3, <1>4 DEF AtRest

LEMMA RankTypeNext ==
    HandlerBound => (BInv' => Rank' \in Nat)
<1>1. HandlerBound /\ BInv => Rank \in Nat
  BY RankType
<1>2. HandlerBound' <=> HandlerBound
  BY DEF HandlerBound
<1>3. (HandlerBound /\ BInv => Rank \in Nat)'
  BY <1>1, PTL
<1> QED BY <1>2, <1>3

\* A step of the loops that announce the list.
LEMMA SendingFalls ==
    ASSUME HandlerBound, BInv,
           \/ Collect \/ Collected \/ EntryToBE \/ HeaderToBE
           \/ Copy \/ Overrun \/ Restore \/ Restored \/ Send
    PROVE  Rank' < Rank
<1>1. list \in Lists
  BY DEF BInv, IInv, TypeOK
<1>2. CASE Collect
  <2>a. pc = "collect" /\ e <= list.n /\ Sending
    BY <1>2 DEF Collect, AtEntry, BInv, IInv
  <2>b. InOrder(list, host) /\ e \in Nat /\ e \in 1..(list.n + 1) /\ list.n \in Nat
    BY <2>a, RankParts DEF Sending
  <2>c. e \in 1..Len(list.ents) /\ list.ents[e].size = host
    BY <2>a, <2>b DEF InOrder
  <2>1. list' = list /\ pc = "collect" /\ pc' = "collect" /\ e' = e + 1 /\ e <= list.n
    BY <1>2, <2>a, <2>c DEF Collect, NextEntry
  <2> QED BY <2>1, RankParts DEF Rank
<1>3. CASE Collected
  <2>1. list' = list /\ pc = "collect" /\ pc' = "convert" /\ e' = 1 /\ e > list.n
    BY <1>3 DEF Collected, AtEnd
  <2> QED BY <2>1, RankParts DEF Rank
<1>4. CASE EntryToBE
  <2>1. Len(ptrs) = list.n /\ \A j \in 1..list.n : ptrs[j] = j
    BY <1>4 DEF EntryToBE, BInv, IInv, Sending, AllCollected
  <2>2. ptrs[e] \in 1..Len(list.ents) /\ e <= list.n
    BY <1>4, <2>1, RankParts DEF EntryToBE
  <2>3. list'.n = list.n
    BY <1>1, <1>4, <2>2, SwapEntryFacts DEF EntryToBE
  <2>4. pc = "convert" /\ pc' = "convert" /\ e' = e + 1
    BY <1>4 DEF EntryToBE
  <2> QED BY <2>2, <2>3, <2>4, RankParts DEF Rank
<1>5. CASE HeaderToBE
  <2>1. list'.n = list.n /\ pc = "convert" /\ pc' = "copy"
    BY <1>1, <1>5, SwapHeaderFacts DEF HeaderToBE
  <2> QED BY <2>1, RankParts DEF Rank
<1>6. CASE Copy
  <2>1. list'.n = list.n /\ pc = "copy" /\ e' = 1 /\ pc' \in {"send", "restore"}
    BY <1>1, <1>6, SwapHeaderFacts DEF Copy
  <2>2. list.n \in Nat /\ Rank = list.n + 3 /\ Rank' \in {1, (list.n + 1 - 1) + 2}
    BY <2>1, RankParts DEF Rank
  <2> QED BY <2>2
<1>7. CASE Overrun
  <2>1. pc \in {"collect", "copy"} /\ pc' = "overrun"
    BY <1>7 DEF Overrun
  <2> QED BY <2>1, RankParts DEF Rank
<1>8. CASE Restore
  <2>1. e \in 1..Len(list.ents) /\ e <= list.n
    BY <1>8, RankParts DEF Restore, AtEntry
  <2>2. list'.n = list.n /\ Len(list'.ents) = Len(list.ents)
        /\ list'.ents[e].size = Swap(list.ents[e].size)
    BY <1>1, <1>8, <2>1, SwapEntryFacts DEF Restore
  <2>3. list.ents[e].size = "wire" /\ host = "little"
    BY <1>8, <2>1 DEF Restore, BInv, IInv, Sending, Halfway
  <2>4. e' = e + 1 /\ pc = "restore" /\ pc' = "restore"
    BY <1>8, <2>1, <2>2, <2>3 DEF Restore, NextEntry, Swap
  <2> QED BY <2>1, <2>2, <2>4, RankParts DEF Rank
<1>9. CASE Restored
  <2>1. pc = "restore" /\ pc' = "send"
    BY <1>9 DEF Restored
  <2> QED BY <2>1, RankParts DEF Rank
<1>10. CASE Send
  <2>1. pc = "send" /\ pc' = "idle"
    BY <1>10 DEF Send
  <2> QED BY <2>1 DEF Rank
<1> QED BY <1>2, <1>3, <1>4, <1>5, <1>6, <1>7, <1>8, <1>9, <1>10

\* A step of the loops that take a message.
LEMMA HearingFalls ==
    ASSUME HandlerBound, BInv,
           \/ ToNative \/ AllNative \/ MaybeAddEntry \/ Merged \/ Known
           \/ SearchOn \/ NotKnown \/ FindLast \/ AddEntry
    PROVE  Rank' < Rank
<1>1. list \in Lists /\ msg \in Lists
  BY DEF BInv, IInv, TypeOK
<1>2. CASE ToNative
  <2>1. e \in 1..Len(msg.ents) /\ e <= msg.n
    BY <1>2, RankParts DEF ToNative, AtEntry, BInv, IInv, Hearing, Halfway
  <2>2. msg'.n = msg.n /\ Len(msg'.ents) = Len(msg.ents)
        /\ msg'.ents[e].size = Swap(msg.ents[e].size)
    BY <1>1, <1>2, <2>1, SwapEntryFacts DEF ToNative
  <2>3. msg.ents[e].size = "wire" /\ host = "little"
    BY <1>2, <2>1 DEF ToNative, BInv, IInv, Hearing, Halfway
  <2>4. e' = e + 1 /\ pc = "arrived" /\ pc' = "arrived"
    BY <1>2, <2>1, <2>2, <2>3 DEF ToNative, NextEntry, Swap
  <2>5. msg.n \in Nat /\ Later(msg.n, 1) \in Nat
    BY <2>4, RankParts, LaterHere
  <2>6. /\ Rank = (msg.n + 1 - e) + Later(msg.n, 1) + 2
        /\ Rank' = (msg.n + 1 - (e + 1)) + Later(msg.n, 1) + 2
    BY <2>2, <2>4 DEF Rank
  <2> QED BY <2>1, <2>5, <2>6, SMT
<1>3. CASE AllNative
  <2>1. msg' = msg /\ pc = "arrived" /\ pc' = "merge" /\ e' = 1 /\ e > msg.n
    BY <1>3 DEF AllNative, AtEnd
  <2> QED BY <2>1, RankParts, LaterHere, SMT DEF Rank
<1>4. CASE MaybeAddEntry
  <2>1. msg' = msg /\ list' = list /\ e' = e /\ k' = 1 /\ pc = "merge" /\ pc' = "search" /\ e <= msg.n
    BY <1>4 DEF MaybeAddEntry, AtEntry
  <2>2. Rank = Later(msg.n, e) + 1 /\ Rank' = Later(msg.n, e + 1) + (list.n + 1 - 1) + list.n + 3
    BY <2>1, SMT DEF Rank
  <2>3. Later(msg.n, e) = Later(msg.n, e + 1) + 4099 /\ Later(msg.n, e + 1) \in Nat
    BY <2>1, LaterHere
  <2>4. list.n \in Nat /\ list.n <= 2048
    BY <2>1, RankParts
  <2> QED BY <2>2, <2>3, <2>4, SMT
<1>5. CASE Merged
  <2>1. pc = "merge" /\ pc' = "idle"
    BY <1>5 DEF Merged
  <2> QED BY <2>1, RankParts, LaterHere, SMT DEF Rank
<1>6. CASE Known \/ AddEntry
  <2>1. InOrder(msg, host) /\ pc \in {"search", "last"}
    BY <1>6 DEF Known, AddEntry, BInv, IInv, Hearing
  <2>2. e' = e + 1 /\ msg' = msg /\ pc' = "merge"
    BY <1>6, <2>1, RankParts DEF Known, AddEntry, NextEntry, InOrder
  <2>3. /\ Rank' = Later(msg.n, e + 1) + 1
        /\ Rank \in {Later(msg.n, e + 1) + (list.n + 1 - k) + list.n + 3,
                     Later(msg.n, e + 1) + (list.n + 1 - k) + 2}
    BY <2>1, <2>2, SMT DEF Rank
  <2>4. list.n \in Nat /\ k \in 1..(list.n + 1) /\ Later(msg.n, e + 1) \in Nat
    BY <2>1, RankParts, LaterHere
  <2> QED BY <2>3, <2>4, SMT
<1>7. CASE SearchOn \/ FindLast
  <2>1. InOrder(list, host) /\ pc \in {"search", "last"} /\ k <= list.n
    BY <1>7 DEF SearchOn, FindLast, BInv, IInv, NativeAtRest, AtEntry
  <2>2. k' = k + 1 /\ msg' = msg /\ list' = list /\ e' = e /\ pc' = pc
    BY <1>7, <2>1, RankParts DEF SearchOn, FindLast, NextEntry, InOrder
  <2>3. list.n \in Nat /\ k \in 1..(list.n + 1) /\ Later(msg.n, e + 1) \in Nat
    BY <2>1, RankParts, LaterHere
  <2>4. CASE pc = "search"
    BY <2>2, <2>3, <2>4, SMT DEF Rank
  <2>5. CASE pc = "last"
    BY <2>2, <2>3, <2>5, SMT DEF Rank
  <2> QED BY <2>1, <2>4, <2>5
<1>8. CASE NotKnown
  <2>1. k' = 1 /\ msg' = msg /\ list' = list /\ e' = e /\ pc = "search" /\ pc' = "last" /\ k > list.n
    BY <1>8 DEF NotKnown, AtEnd
  <2>2. list.n \in Nat /\ k \in 1..(list.n + 1) /\ Later(msg.n, e + 1) \in Nat
    BY <2>1, RankParts, LaterHere
  <2>3. /\ Rank = Later(msg.n, e + 1) + (list.n + 1 - k) + list.n + 3
        /\ Rank' = Later(msg.n, e + 1) + (list.n + 1 - 1) + 2
    BY <2>1 DEF Rank
  <2> QED BY <2>1, <2>2, <2>3, SMT
<1> QED BY <1>2, <1>3, <1>4, <1>5, <1>6, <1>7, <1>8

LEMMA RankFalls ==
    ASSUME HandlerBound, BInv, Handle
    PROVE  Rank' < Rank
BY SendingFalls, HearingFalls DEF Handle

\* Again and again the rank is at most i.
Nears(i) == []<>(Rank <= i)

LEMMA Nearer ==
    ASSUME NEW i \in Nat
    PROVE  HandlerBound => (LiveSpec => (Nears(i + 1) => Nears(i)))
<1> SUFFICES ASSUME HandlerBound PROVE LiveSpec => (Nears(i + 1) => Nears(i))
  OBVIOUS
<1>1. BInv /\ BInv' /\ Rank <= i + 1 /\ <<Handle>>_vars => (Rank <= i)'
  <2> SUFFICES ASSUME BInv, BInv', Rank <= i + 1, Handle PROVE Rank' <= i
    OBVIOUS
  <2>1. Rank' < Rank /\ Rank \in Nat /\ Rank' \in Nat
    BY RankFalls, RankType, RankTypeNext
  <2> QED BY <2>1
<1>2. BInv /\ BInv' /\ Rank <= i + 1 /\ [Next]_vars => (Rank <= i + 1)' \/ Rank <= i
  <2> SUFFICES ASSUME BInv, BInv', Rank <= i + 1, [Next]_vars, ~ (Rank <= i)
               PROVE  Rank' <= i + 1
    OBVIOUS
  <2>1. CASE Handle
    <3>1. Rank' < Rank /\ Rank \in Nat /\ Rank' \in Nat
      BY <2>1, RankFalls, RankType, RankTypeNext
    <3> QED BY <3>1
  <2>2. CASE UNCHANGED vars
    <3>1. Rank' = Rank
      BY <2>2 DEF vars, Rank
    <3> QED BY <3>1
  <2>3. CASE BeginSend \/ \E ids \in Incoming : Receive(ids)
    <3>1. pc = "idle"
      BY <2>3 DEF BeginSend, Receive
    <3>2. Rank = 0
      BY <3>1 DEF Rank
    <3> QED BY <3>2
  <2> QED BY <2>1, <2>2, <2>3 DEF Next
<1>3. BInv /\ AtRest => Rank <= i
  BY RankType
<1> QED BY <1>1, <1>2, <1>3, BInvariant, PTL DEF LiveSpec, Spec, Nears

LEMMA Nearer4 ==
    ASSUME NEW i \in Nat
    PROVE  HandlerBound => (LiveSpec => (Nears(i + 4) => Nears(i)))
<1>1. /\ i + 1 \in Nat /\ i + 2 \in Nat /\ i + 3 \in Nat
      /\ (i + 1) + 1 = i + 2 /\ (i + 2) + 1 = i + 3 /\ (i + 3) + 1 = i + 4
  BY SMT
<1> QED BY <1>1, Nearer, SMT

LEMMA Nearer16 ==
    ASSUME NEW i \in Nat
    PROVE  HandlerBound => (LiveSpec => (Nears(i + 16) => Nears(i)))
<1>1. /\ i + 4 \in Nat /\ i + 8 \in Nat /\ i + 12 \in Nat
      /\ (i + 4) + 4 = i + 8 /\ (i + 8) + 4 = i + 12 /\ (i + 12) + 4 = i + 16
  BY SMT
<1> QED BY <1>1, Nearer4, SMT

LEMMA Nearer64 ==
    ASSUME NEW i \in Nat
    PROVE  HandlerBound => (LiveSpec => (Nears(i + 64) => Nears(i)))
<1>1. /\ i + 16 \in Nat /\ i + 32 \in Nat /\ i + 48 \in Nat
      /\ (i + 16) + 16 = i + 32 /\ (i + 32) + 16 = i + 48 /\ (i + 48) + 16 = i + 64
  BY SMT
<1> QED BY <1>1, Nearer16, SMT

LEMMA Nearer256 ==
    ASSUME NEW i \in Nat
    PROVE  HandlerBound => (LiveSpec => (Nears(i + 256) => Nears(i)))
<1>1. /\ i + 64 \in Nat /\ i + 128 \in Nat /\ i + 192 \in Nat
      /\ (i + 64) + 64 = i + 128 /\ (i + 128) + 64 = i + 192 /\ (i + 192) + 64 = i + 256
  BY SMT
<1> QED BY <1>1, Nearer64, SMT

LEMMA Nearer1024 ==
    ASSUME NEW i \in Nat
    PROVE  HandlerBound => (LiveSpec => (Nears(i + 1024) => Nears(i)))
<1>1. /\ i + 256 \in Nat /\ i + 512 \in Nat /\ i + 768 \in Nat
      /\ (i + 256) + 256 = i + 512 /\ (i + 512) + 256 = i + 768 /\ (i + 768) + 256 = i + 1024
  BY SMT
<1> QED BY <1>1, Nearer256, SMT

LEMMA Nearer4096 ==
    ASSUME NEW i \in Nat
    PROVE  HandlerBound => (LiveSpec => (Nears(i + 4096) => Nears(i)))
<1>1. /\ i + 1024 \in Nat /\ i + 2048 \in Nat /\ i + 3072 \in Nat
      /\ (i + 1024) + 1024 = i + 2048 /\ (i + 2048) + 1024 = i + 3072 /\ (i + 3072) + 1024 = i + 4096
  BY SMT
<1> QED BY <1>1, Nearer1024, SMT

LEMMA Nearer16384 ==
    ASSUME NEW i \in Nat
    PROVE  HandlerBound => (LiveSpec => (Nears(i + 16384) => Nears(i)))
<1>1. /\ i + 4096 \in Nat /\ i + 8192 \in Nat /\ i + 12288 \in Nat
      /\ (i + 4096) + 4096 = i + 8192 /\ (i + 8192) + 4096 = i + 12288 /\ (i + 12288) + 4096 = i + 16384
  BY SMT
<1> QED BY <1>1, Nearer4096, SMT

LEMMA Nearer65536 ==
    ASSUME NEW i \in Nat
    PROVE  HandlerBound => (LiveSpec => (Nears(i + 65536) => Nears(i)))
<1>1. /\ i + 16384 \in Nat /\ i + 32768 \in Nat /\ i + 49152 \in Nat
      /\ (i + 16384) + 16384 = i + 32768 /\ (i + 32768) + 16384 = i + 49152 /\ (i + 49152) + 16384 = i + 65536
  BY SMT
<1> QED BY <1>1, Nearer16384, SMT

LEMMA Nearer262144 ==
    ASSUME NEW i \in Nat
    PROVE  HandlerBound => (LiveSpec => (Nears(i + 262144) => Nears(i)))
<1>1. /\ i + 65536 \in Nat /\ i + 131072 \in Nat /\ i + 196608 \in Nat
      /\ (i + 65536) + 65536 = i + 131072 /\ (i + 131072) + 65536 = i + 196608 /\ (i + 196608) + 65536 = i + 262144
  BY SMT
<1> QED BY <1>1, Nearer65536, SMT

LEMMA Nearer1048576 ==
    ASSUME NEW i \in Nat
    PROVE  HandlerBound => (LiveSpec => (Nears(i + 1048576) => Nears(i)))
<1>1. /\ i + 262144 \in Nat /\ i + 524288 \in Nat /\ i + 786432 \in Nat
      /\ (i + 262144) + 262144 = i + 524288 /\ (i + 524288) + 262144 = i + 786432 /\ (i + 786432) + 262144 = i + 1048576
  BY SMT
<1> QED BY <1>1, Nearer262144, SMT

LEMMA Nearer4194304 ==
    ASSUME NEW i \in Nat
    PROVE  HandlerBound => (LiveSpec => (Nears(i + 4194304) => Nears(i)))
<1>1. /\ i + 1048576 \in Nat /\ i + 2097152 \in Nat /\ i + 3145728 \in Nat
      /\ (i + 1048576) + 1048576 = i + 2097152 /\ (i + 2097152) + 1048576 = i + 3145728 /\ (i + 3145728) + 1048576 = i + 4194304
  BY SMT
<1> QED BY <1>1, Nearer1048576, SMT

LEMMA Nearer16777216 ==
    ASSUME NEW i \in Nat
    PROVE  HandlerBound => (LiveSpec => (Nears(i + 16777216) => Nears(i)))
<1>1. /\ i + 4194304 \in Nat /\ i + 8388608 \in Nat /\ i + 12582912 \in Nat
      /\ (i + 4194304) + 4194304 = i + 8388608 /\ (i + 8388608) + 4194304 = i + 12582912 /\ (i + 12582912) + 4194304 = i + 16777216
  BY SMT
<1> QED BY <1>1, Nearer4194304, SMT

\* Every announcement, and every message, is done with.
THEOREM HandlerEndsCorrect == HandlerBound => (LiveSpec => HandlerEnds)
<1> SUFFICES ASSUME HandlerBound PROVE LiveSpec => HandlerEnds
  OBVIOUS
<1>1. BInv => Rank <= Top
  BY RankType
<1>2. 0 \in Nat /\ 0 + 16777216 = Top
  BY SMT DEF Top
<1>3. LiveSpec => (Nears(Top) => Nears(0))
  BY <1>2, Nearer16777216, SMT
<1>4. BInv /\ Rank <= 0 => AtRest
  BY RankType
<1> QED BY <1>1, <1>3, <1>4, BInvariant, PTL DEF LiveSpec, Nears, HandlerEnds
=============================================================================
