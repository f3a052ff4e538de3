-------------------------- MODULE EntryLayoutProofs --------------------------
(***************************************************************************)
(* For strings of any length and addresses of any width: the fields of an  *)
(* entry are found where NODE_Init wrote them, wherever the entry is       *)
(* copied to, and its integers are aligned.  The key is that ALIGN4 and    *)
(* ALIGN8, parentheses or not, make the layout of an entry at an address   *)
(* aligned to 8 independent of that address (LayoutIsRelative).            *)
(***************************************************************************)
EXTENDS EntryLayout, TLAPS

-----------------------------------------------------------------------------
(* The macros *)

\* Quotient and remainder.
LEMMA DivMod ==
    ASSUME NEW y \in Int, NEW m \in Nat, m > 0
    PROVE  y \div m \in Int /\ y % m \in Int /\ y = m * (y \div m) + (y % m)
  OBVIOUS

\* A range of addresses that is a multiple of 8 is not seen by % 4 and % 8.
LEMMA WrapUnseen ==
    ASSUME NEW y \in Int
    PROVE  (y % WordMod) % 8 = y % 8 /\ (y % WordMod) % 4 = y % 4
<1> DEFINE w == WordMod \div 8
           q == y \div WordMod
<1>1. w \in Nat /\ WordMod = 8 * w /\ WordMod \in Nat /\ WordMod > 0
  BY LayoutAssumption
<1>2. q \in Int /\ y % WordMod \in Int /\ y = WordMod * q + (y % WordMod)
  BY <1>1, DivMod
<1>3. q * w \in Int /\ WordMod * q = 8 * (q * w)
  <2> HIDE DEF w, q
  <2> QED BY <1>1, <1>2
<1>4. y = 8 * (q * w) + (y % WordMod)
  BY <1>2, <1>3
<1> HIDE DEF w, q
<1>5. PICK t \in Int : y = 8 * t + (y % WordMod)
  BY <1>3, <1>4
<1>6. PICK r \in Int : r = y % WordMod /\ y = 8 * t + r
  BY <1>2, <1>5
<1>7. r % 8 = y % 8 /\ r % 4 = y % 4
  BY <1>6
<1> QED BY <1>6, <1>7

\* ALIGN4 and ALIGN8 add what the parentheses would have them add.
LEMMA PadIsPad ==
    ASSUME NEW a \in Nat, NEW b \in Nat
    PROVE  /\ Pad4(a, b) \in 0..3 /\ (a + b + Pad4(a, b)) % 4 = 0
           /\ Pad8(a, b) \in 0..7 /\ (a + b + Pad8(a, b)) % 8 = 0
<1>1. Pad4(a, b) = (4 - (a + (b % 4))) % 4
  BY WrapUnseen DEF Pad4
<1>2. Pad8(a, b) = (8 - (a + (b % 8))) % 8
  BY WrapUnseen DEF Pad8
<1>3. Pad4(a, b) \in 0..3 /\ (a + b + Pad4(a, b)) % 4 = 0
  BY <1>1
<1>4. Pad8(a, b) \in 0..7 /\ (a + b + Pad8(a, b)) % 8 = 0
  BY <1>2
<1> QED BY <1>3, <1>4

\* They add the same at addresses a multiple of 8 apart.
LEMMA PadIsRelative ==
    ASSUME NEW x \in Nat, x % 8 = 0, NEW a \in Nat, NEW b \in Nat
    PROVE  /\ Pad4(a, b) \in Nat /\ Pad4(x + a, b) = Pad4(a, b)
           /\ Pad8(a, b) \in Nat /\ Pad8(x + a, b) = Pad8(a, b)
<1>1. /\ Pad4(x + a, b) = (4 - (x + a + (b % 4))) % 4
      /\ Pad4(a, b) = (4 - (a + (b % 4))) % 4
  BY WrapUnseen DEF Pad4
<1>2. /\ Pad8(x + a, b) = (8 - (x + a + (b % 8))) % 8
      /\ Pad8(a, b) = (8 - (a + (b % 8))) % 8
  BY WrapUnseen DEF Pad8
<1>3. Pad4(a, b) \in 0..3 /\ Pad8(a, b) \in 0..7
  BY PadIsPad
<1> QED BY <1>1, <1>2, <1>3
-----------------------------------------------------------------------------
(* The layout *)

\* From an address aligned to 8, an entry is laid out as it is from 0.
LEMMA LayoutIsRelative ==
    ASSUME NEW x \in Nat, x % 8 = 0, NEW l \in [Strings -> Nat]
    PROVE  /\ \A f \in Fields : Layout(0, l)[f] \in Nat /\ Layout(x, l)[f] = x + Layout(0, l)[f]
           /\ Layout(0, l).uuid % 8 = 0 /\ Layout(0, l).cap % 4 = 0
<1> DEFINE n == 4 + l["name"]
           i == n + 1 + Pad4(n, 1)
           v == i + Pad8(i, 0) + 16 + l["ver"]
<1>1. l["name"] \in Nat /\ l["ver"] \in Nat
  BY DEF Strings
<1>2. n \in Nat /\ 0 \in Nat /\ 1 \in Nat
  BY <1>1
<1> HIDE DEF n
<1>3. Pad4(n, 1) \in Nat /\ Pad4(x + n, 1) = Pad4(n, 1)
  BY <1>2, PadIsRelative
<1>4. i \in Nat
  BY <1>2, <1>3
<1> HIDE DEF i
<1>5. Pad8(i, 0) \in Nat /\ Pad8(x + i, 0) = Pad8(i, 0)
  BY <1>2, <1>4, PadIsRelative
<1>6. v \in Nat
  BY <1>1, <1>4, <1>5
<1> HIDE DEF v
<1>7. Pad4(v, 1) \in Nat /\ Pad4(x + v, 1) = Pad4(v, 1)
  BY <1>2, <1>6, PadIsRelative
<1>8. ASSUME NEW y \in {0, x}
      PROVE  /\ Layout(y, l).uuid = y + i + Pad8(i, 0)
             /\ Layout(y, l).ver = y + i + Pad8(i, 0) + 16
             /\ Layout(y, l).cap = y + v + 1 + Pad4(v, 1)
  <2>1. /\ y \in Nat
        /\ y + 4 + l["name"] = y + n /\ Pad4(y + n, 1) = Pad4(n, 1)
    BY <1>1, <1>2, <1>3 DEF n
  <2>2. After(y + 4, l["name"]) + Pad4(y + 4 + l["name"], 1) = y + i
    BY <1>1, <1>2, <1>3, <2>1 DEF After, i, n
  <2>3. 4 * NumIp = 0 /\ y + i + 4 * NumIp = y + i /\ Pad8(y + i, 0) = Pad8(i, 0)
    BY <1>4, <1>5, <2>1 DEF NumIp
  <2>4. Layout(y, l).ver = y + i + Pad8(i, 0) + 16
    BY <2>2, <2>3 DEF Layout
  <2>5. Layout(y, l).uuid = y + i + Pad8(i, 0)
    BY <2>2, <2>3 DEF Layout
  <2>6. y + i + Pad8(i, 0) + 16 + l["ver"] = y + v
    BY <1>1, <1>4, <1>5, <2>1 DEF v
  <2>7. Layout(y, l).cap = After(Layout(y, l).ver, l["ver"]) + Pad4(Layout(y, l).ver + l["ver"], 1)
    BY DEF Layout
  <2>8. Pad4(y + v, 1) = Pad4(v, 1)
    BY <1>6, <1>7, <2>1
  <2> QED BY <1>1, <1>4, <1>5, <1>6, <1>7, <2>1, <2>4, <2>5, <2>6, <2>7, <2>8 DEF After
<1>9. \A s \in Strings : l[s] \in Nat
  OBVIOUS
<1>10. ASSUME NEW y \in {0, x}
       PROVE  /\ Layout(y, l).size = y /\ Layout(y, l).numIp = y + 2
              /\ Layout(y, l).distance = y + 3 /\ Layout(y, l).name = y + 4
              /\ Layout(y, l).memSz = Layout(y, l).cap + 4
              /\ Layout(y, l).devname = Layout(y, l).memSz + 4
              /\ Layout(y, l).os = Layout(y, l).devname + l["devname"] + 1
              /\ Layout(y, l).arch = Layout(y, l).os + l["os"] + 1
              /\ Layout(y, l).cpu = Layout(y, l).arch + l["arch"] + 1
              /\ Layout(y, l).gpu = Layout(y, l).cpu + l["cpu"] + 1
  BY DEF Layout, After
<1> DEFINE A(f) == Layout(x, l)[f]
           B(f) == Layout(0, l)[f]
<1>11. \A f \in {"size", "numIp", "distance", "name"} : A(f) = x + B(f)
  BY <1>10
<1>12. \A f \in {"size", "numIp", "distance", "name"} : B(f) \in Nat
  BY <1>10
<1>13. B("cap") \in Nat /\ A("cap") = x + B("cap")
  BY <1>6, <1>7, <1>8
<1>14. /\ B("uuid") \in Nat /\ A("uuid") = x + B("uuid")
       /\ B("ver") \in Nat /\ A("ver") = x + B("ver")
  BY <1>4, <1>5, <1>8
<1>15. /\ B("memSz") \in Nat /\ A("memSz") = x + B("memSz")
       /\ B("devname") \in Nat /\ A("devname") = x + B("devname")
       /\ B("os") \in Nat /\ A("os") = x + B("os")
  BY <1>9, <1>10, <1>13 DEF Strings
<1>16. /\ B("arch") \in Nat /\ A("arch") = x + B("arch")
       /\ B("cpu") \in Nat /\ A("cpu") = x + B("cpu")
       /\ B("gpu") \in Nat /\ A("gpu") = x + B("gpu")
  BY <1>9, <1>10, <1>15 DEF Strings
<1>17. \A f \in Fields : B(f) \in Nat /\ A(f) = x + B(f)
  BY <1>11, <1>12, <1>13, <1>14, <1>15, <1>16 DEF Fields, Strings, Others
<1>18. (i + 0 + Pad8(i, 0)) % 8 = 0 /\ (v + 1 + Pad4(v, 1)) % 4 = 0
  BY <1>2, <1>4, <1>6, PadIsPad
<1>19. B("uuid") % 8 = 0 /\ B("cap") % 4 = 0
  BY <1>4, <1>5, <1>6, <1>7, <1>8, <1>18
<1> QED BY <1>17, <1>19

LEMMA CalcSizeFits ==
    ASSUME NEW x \in Nat, x % 8 = 0, NEW l \in [Strings -> Nat]
    PROVE  CalcSize(x, l) \in 0..(SizeMod - 1)
<1>1. Layout(x, l).gpu \in Nat /\ l["gpu"] \in Nat
  BY LayoutIsRelative DEF Fields, Strings
<1>2. After(Layout(x, l).gpu, l["gpu"]) \in Nat
  BY <1>1 DEF After
<1> DEFINE end == After(Layout(x, l).gpu, l["gpu"])
           pad == ((8 - (end - (x % 8))) % WordMod) % 8
<1>3. end \in Int /\ pad \in Int
  <2>1. end \in Int /\ 8 - (end - (x % 8)) \in Int
    BY <1>2
  <2> HIDE DEF end
  <2>2. (8 - (end - (x % 8))) % WordMod \in Int
    BY <2>1, DivMod, LayoutAssumption
  <2> QED BY <2>1, <2>2
<1>4. CalcSize(x, l) = ((end - x) + pad) % SizeMod
  BY DEF CalcSize
<1> HIDE DEF end, pad
<1> QED BY <1>3, <1>4, LayoutAssumption

\* The place of a field depends only on strings NODE_Init writes before it.
LEMMA LayoutIgnoresLater ==
    ASSUME NEW x \in Nat, NEW l \in [Strings -> Nat], NEW m \in [Strings -> Nat],
           NEW i \in 1..Len(WriteOrder), NEW j \in 1..i,
           \A s \in Strings : s # WriteOrder[i] => m[s] = l[s]
    PROVE  Layout(x, m)[WriteOrder[j]] = Layout(x, l)[WriteOrder[j]]
<1>1. Len(WriteOrder) = 13
  BY DEF WriteOrder
<1>2. /\ WriteOrder[1] = "numIp" /\ WriteOrder[2] = "distance" /\ WriteOrder[3] = "name"
      /\ WriteOrder[4] = "uuid" /\ WriteOrder[5] = "ver" /\ WriteOrder[6] = "cap"
      /\ WriteOrder[7] = "memSz" /\ WriteOrder[8] = "devname" /\ WriteOrder[9] = "os"
      /\ WriteOrder[10] = "arch" /\ WriteOrder[11] = "cpu" /\ WriteOrder[12] = "gpu"
      /\ WriteOrder[13] = "size"
  BY DEF WriteOrder
<1>3. CASE j \in {1, 2, 3, 13}
  <2>1. /\ Layout(x, m).numIp = x + 2 /\ Layout(x, l).numIp = x + 2
        /\ Layout(x, m).distance = x + 3 /\ Layout(x, l).distance = x + 3
        /\ Layout(x, m).name = x + 4 /\ Layout(x, l).name = x + 4
        /\ Layout(x, m).size = x /\ Layout(x, l).size = x
    BY DEF Layout
  <2>2. WriteOrder[j] \in {"numIp", "distance", "name", "size"}
    BY <1>2, <1>3
  <2>3. \A f \in {"numIp", "distance", "name", "size"} : Layout(x, m)[f] = Layout(x, l)[f]
    BY <2>1
  <2> QED BY <2>2, <2>3
<1>4. CASE j \in {4, 5}
  <2>1. m["name"] = l["name"]
    BY <1>1, <1>2, <1>4 DEF Strings
  <2>2. Layout(x, m).uuid = Layout(x, l).uuid /\ Layout(x, m).ver = Layout(x, l).ver
    BY <2>1 DEF Layout
  <2> QED BY <1>2, <1>4, <2>2
<1>5. CASE j \in {6, 7, 8}
  <2>1. m["name"] = l["name"] /\ m["ver"] = l["ver"]
    BY <1>1, <1>2, <1>5 DEF Strings
  <2>a. /\ Layout(x, m).cap = Layout(x, l).cap
        /\ Layout(x, m).memSz = Layout(x, l).memSz
        /\ Layout(x, m).devname = Layout(x, l).devname
    BY <2>1 DEF Layout
  <2>2. \A f \in {"cap", "memSz", "devname"} : Layout(x, m)[f] = Layout(x, l)[f]
    BY <2>a
  <2>3. WriteOrder[j] \in {"cap", "memSz", "devname"}
    BY <1>2, <1>5
  <2> QED BY <2>2, <2>3
<1>6. CASE j \in 9..12
  <2>1. m["name"] = l["name"] /\ m["ver"] = l["ver"] /\ m["devname"] = l["devname"]
    BY <1>1, <1>2, <1>6 DEF Strings
  <2>2. Layout(x, m).os = Layout(x, l).os
    BY <2>1 DEF Layout
  <2>3. /\ j >= 10 => m["os"] = l["os"]
        /\ j >= 11 => m["arch"] = l["arch"]
        /\ j >= 12 => m["cpu"] = l["cpu"]
    BY <1>1, <1>2, <1>6 DEF Strings
  <2>4. \A k \in {l, m} :
            /\ Layout(x, k).arch = After(Layout(x, k).os, k["os"])
            /\ Layout(x, k).cpu = After(Layout(x, k).arch, k["arch"])
            /\ Layout(x, k).gpu = After(Layout(x, k).cpu, k["cpu"])
    <3> TAKE k \in {l, m}
    <3>1. Layout(x, k).arch = After(Layout(x, k).os, k["os"])
      BY DEF Layout
    <3>2. Layout(x, k).cpu = After(Layout(x, k).arch, k["arch"])
      BY DEF Layout
    <3>3. Layout(x, k).gpu = After(Layout(x, k).cpu, k["cpu"])
      BY DEF Layout
    <3> QED BY <3>1, <3>2, <3>3
  <2>5. CASE j = 9
    BY <1>2, <2>2, <2>5
  <2>6. CASE j = 10
    BY <1>2, <2>2, <2>3, <2>4, <2>6
  <2>7. CASE j = 11
    BY <1>2, <2>2, <2>3, <2>4, <2>7
  <2>8. CASE j = 12
    BY <1>2, <2>2, <2>3, <2>4, <2>8
  <2> QED BY <1>6, <2>5, <2>6, <2>7, <2>8
<1> QED BY <1>1, <1>3, <1>4, <1>5, <1>6
-----------------------------------------------------------------------------
(* The invariant *)

LEMMA OrderLen == Len(WriteOrder) = 13
  BY DEF WriteOrder

LEMMA InitIInv == Init => IInv
<1> SUFFICES ASSUME Init PROVE IInv
  OBVIOUS
<1>1. PICK a \in Mallocs : e = a + ListHeader
  BY DEF Init
<1>2. e \in Nat /\ e % 8 = 0
  BY <1>1, LayoutAssumption DEF ListHeader
<1>3. at = << >> /\ DOMAIN at = {} /\ next = 1
  BY DEF Init
<1>4. Written = {}
  BY <1>3 DEF Written
<1>5. TypeOK
  BY <1>2, <1>3, OrderLen, LayoutAssumption DEF Init, TypeOK
<1> QED BY <1>2, <1>3, <1>4, <1>5 DEF IInv, FoundWhereWritten

\* Place puts one more field where it is found, whatever is then stored there.
LEMMA PlaceKeeps ==
    ASSUME IInv, NEW f \in Fields, Place(f), e' = e, len' \in [Strings -> Nat],
           \A s \in Strings : s # f => len'[s] = len[s]
    PROVE  /\ next' \in 1..(Len(WriteOrder) + 1)
           /\ DOMAIN at' \subseteq Fields
           /\ \A g \in DOMAIN at' : at'[g] \in Nat
           /\ (DOMAIN at = Written)'
           /\ FoundWhereWritten'
<1>1. next \in 1..13 /\ next' = next + 1 /\ WriteOrder[next] = f
  <2>1. next \in 1..(Len(WriteOrder) + 1)
    BY DEF IInv, TypeOK
  <2>2. ~ (next > Len(WriteOrder)) /\ next' = next + 1 /\ WriteOrder[next] = f
    BY DEF Place, Done
  <2> QED BY <2>1, <2>2, OrderLen
<1>2. Written' = Written \cup {f}
  BY <1>1 DEF Written
<1>3. DOMAIN at' = Written \cup {f}
  BY DEF Place, IInv
<1>4. /\ e \in Nat /\ e % 8 = 0 /\ len \in [Strings -> Nat]
      /\ DOMAIN at = Written /\ Written \subseteq Fields
  BY DEF IInv, TypeOK
<1>5. \A g \in DOMAIN at' : at'[g] = Layout(e, len)[g] - e
  BY <1>3 DEF Place, IInv, FoundWhereWritten
<1>6. \A g \in Fields : Layout(e, len)[g] - e \in Nat
  BY <1>4, LayoutIsRelative
<1>7. \A g \in DOMAIN at' : Layout(e, len')[g] = Layout(e, len)[g]
  <2> SUFFICES ASSUME NEW g \in DOMAIN at' PROVE Layout(e, len')[g] = Layout(e, len)[g]
    OBVIOUS
  <2>1. PICK j \in 1..next : g = WriteOrder[j]
    BY <1>1, <1>3 DEF Written
  <2> QED BY <1>1, OrderLen, <1>4, <2>1, LayoutIgnoresLater
<1>8. next' \in 1..(Len(WriteOrder) + 1)
  BY <1>1, OrderLen
<1>9. DOMAIN at' \subseteq Fields /\ (DOMAIN at = Written)'
  BY <1>2, <1>3, <1>4
<1>10. \A g \in DOMAIN at' : at'[g] \in Nat
  BY <1>5, <1>6, <1>9
<1>11. FoundWhereWritten'
  BY <1>5, <1>7 DEF FoundWhereWritten
<1> QED BY <1>8, <1>9, <1>10, <1>11

LEMMA CopyKeeps ==
    ASSUME IInv, NEW a \in Mallocs, NEW h \in {ListHeader, PacketHeader}, NEW b \in Before,
           Copy(a, h, b)
    PROVE  IInv'
<1>1. e' = a + h + b /\ a \in Nat /\ b \in Nat /\ a % 8 = 0 /\ b % 8 = 0 /\ h \in {8, 32}
  BY LayoutAssumption DEF Copy, ListHeader, PacketHeader
<1>2. e' \in Nat /\ e' % 8 = 0
  BY <1>1
<1>3. e \in Nat /\ e % 8 = 0 /\ len \in [Strings -> Nat] /\ DOMAIN at \subseteq Fields
  BY DEF IInv, TypeOK
<1>4. \A g \in Fields : Layout(e', len)[g] - e' = Layout(e, len)[g] - e
  <2> SUFFICES ASSUME NEW g \in Fields PROVE Layout(e', len)[g] - e' = Layout(e, len)[g] - e
    OBVIOUS
  <2>1. Layout(0, len)[g] \in Nat
    BY <1>3, LayoutIsRelative
  <2>2. Layout(e, len)[g] = e + Layout(0, len)[g]
    BY <1>3, LayoutIsRelative
  <2>3. Layout(e', len)[g] = e' + Layout(0, len)[g]
    BY <1>2, <1>3, LayoutIsRelative
  <2> QED BY <1>2, <1>3, <2>1, <2>2, <2>3
<1>5. FoundWhereWritten'
  BY <1>3, <1>4 DEF Copy, IInv, FoundWhereWritten
<1>6. TypeOK'
  <2>1. UNCHANGED <<len, next, at, size>>
    BY DEF Copy
  <2> QED BY <1>2, <2>1 DEF IInv, TypeOK
<1> QED BY <1>2, <1>5, <1>6 DEF Copy, IInv, Written

LEMMA StepIInv == IInv /\ [Next]_vars => IInv'
<1> SUFFICES ASSUME IInv, [Next]_vars PROVE IInv'
  OBVIOUS
<1>1. ASSUME NEW f \in Strings, NEW l \in LengthsOf(f), WriteString(f, l) PROVE IInv'
  <2>1. l \in Nat
    BY LayoutAssumption DEF LengthsOf
  <2>2. len' \in [Strings -> Nat] /\ \A s \in Strings : s # f => len'[s] = len[s]
    BY <1>1, <2>1 DEF WriteString, IInv, TypeOK
  <2>3. f \in Fields /\ Place(f) /\ e' = e /\ size' = size
    BY <1>1 DEF WriteString, Fields
  <2> QED BY <2>2, <2>3, PlaceKeeps DEF IInv, TypeOK
<1>2. ASSUME NEW f \in Others, WriteOther(f) PROVE IInv'
  <2>1. f \in Fields /\ Place(f) /\ e' = e /\ len' = len
    BY <1>2 DEF WriteOther, Fields
  <2>2. len \in [Strings -> Nat] /\ \A s \in Strings : s # f => len'[s] = len[s]
    BY <2>1 DEF IInv, TypeOK
  <2>3. size' \in 0..(SizeMod - 1)
    <3>1. CalcSize(e, len) \in 0..(SizeMod - 1)
      BY <2>2, CalcSizeFits DEF IInv, TypeOK
    <3> QED BY <1>2, <3>1 DEF WriteOther, IInv, TypeOK
  <2> QED BY <2>1, <2>2, <2>3, PlaceKeeps DEF IInv, TypeOK
<1>3. ASSUME NEW a \in Mallocs, NEW b \in Before,
             Copy(a, ListHeader, b) \/ Copy(a, PacketHeader, b)
      PROVE  IInv'
  BY <1>3, CopyKeeps
<1>4. CASE UNCHANGED vars
  BY <1>4 DEF vars, IInv, TypeOK, FoundWhereWritten, Written
<1> QED BY <1>1, <1>2, <1>3, <1>4 DEF Next

\* Whatever the strings and wherever the entry is copied, every field is found
\* at the place where NODE_Init wrote it.
THEOREM FoundWhereWrittenCorrect == Spec => []FoundWhereWritten
<1>1. IInv => FoundWhereWritten
  BY DEF IInv
<1> QED BY <1>1, InitIInv, StepIInv, PTL DEF Spec

\* Whatever the strings and wherever the entry is, its integers are aligned.
THEOREM IntegersAlignedCorrect == Spec => []IntegersAligned
<1>1. IInv => IntegersAligned
  <2> SUFFICES ASSUME IInv PROVE IntegersAligned
    OBVIOUS
  <2>1. e \in Nat /\ e % 8 = 0 /\ len \in [Strings -> Nat]
    BY DEF IInv, TypeOK
  <2>2. /\ Layout(0, len).uuid \in Nat /\ Layout(0, len).uuid % 8 = 0
        /\ Layout(0, len).cap \in Nat /\ Layout(0, len).cap % 4 = 0
        /\ Layout(e, len).uuid = e + Layout(0, len).uuid
        /\ Layout(e, len).cap = e + Layout(0, len).cap
    BY <2>1, LayoutIsRelative DEF Fields, Strings, Others
  <2>3. Layout(e, len).memSz = Layout(e, len).cap + 4
    BY DEF Layout
  <2>4. /\ Layout(e, len).uuid % 8 = 0
        /\ Layout(e, len).cap % 4 = 0
        /\ Layout(e, len).memSz % 4 = 0
    BY <2>1, <2>2, <2>3
  <2> QED BY <2>4 DEF IntegersAligned
<1> QED BY <1>1, InitIInv, StepIInv, PTL DEF Spec
-----------------------------------------------------------------------------
(* FieldsApart.  Each field ends before the next in memory begins (InOrder),*)
(* and so before all after it.                                              *)

\* What is needed to keep a field of width w(f) at p(f) from the others.
LEMMA ChainIsApart ==
    ASSUME NEW p \in [Fields -> Nat], NEW w \in [Fields -> Nat], NEW end \in Nat,
           p["size"] + w["size"] <= p["numIp"], p["numIp"] + w["numIp"] <= p["distance"],
           p["distance"] + w["distance"] <= p["name"], p["name"] + w["name"] <= p["uuid"],
           p["uuid"] + w["uuid"] <= p["ver"], p["ver"] + w["ver"] <= p["cap"],
           p["cap"] + w["cap"] <= p["memSz"], p["memSz"] + w["memSz"] <= p["devname"],
           p["devname"] + w["devname"] <= p["os"], p["os"] + w["os"] <= p["arch"],
           p["arch"] + w["arch"] <= p["cpu"], p["cpu"] + w["cpu"] <= p["gpu"],
           p["gpu"] + w["gpu"] <= end
    PROVE  /\ \A f, g \in Fields : f # g => p[f] + w[f] <= p[g] \/ p[g] + w[g] <= p[f]
           /\ \A f \in Fields : p[f] + w[f] <= end
<1>1. \A f \in Fields : p[f] \in Nat /\ w[f] \in Nat
  OBVIOUS
<1> DEFINE Low == {"size", "numIp", "distance", "name", "uuid", "ver"}
           High == {"cap", "memSz", "devname", "os", "arch", "cpu", "gpu"}
<1>2. Fields = Low \cup High
  BY DEF Fields, Strings, Others
<1>3. \A f \in Low : p[f] + w[f] <= p["cap"]
  BY <1>1, <1>2
<1>4. \A f \in High : p["cap"] <= p[f]
  BY <1>1, <1>2
<1>5. \A f, g \in Low : f # g => p[f] + w[f] <= p[g] \/ p[g] + w[g] <= p[f]
  BY <1>1, <1>2
<1>6. \A f, g \in High : f # g => p[f] + w[f] <= p[g] \/ p[g] + w[g] <= p[f]
  BY <1>1, <1>2
<1>7. \A f \in Low, g \in High : p[f] + w[f] <= p[g]
  BY <1>1, <1>2, <1>3, <1>4
<1>8. \A f \in High : p[f] + w[f] <= end
  BY <1>1, <1>2
<1>9. \A f \in Low : p[f] + w[f] <= end
  <2>1. p["cap"] <= end
    BY <1>1, <1>2
  <2> QED BY <1>1, <1>2, <1>3, <2>1
<1> HIDE DEF Low, High
<1> QED BY <1>2, <1>5, <1>6, <1>7, <1>8, <1>9

\* Up to here an entry at x is filled.
End(x, l) == After(Layout(x, l).gpu, l["gpu"])

\* The fields in the order of their addresses.
InOrder(l) ==
    LET x == Layout(0, l)
    IN  /\ x.size = 0 /\ x.numIp = 2 /\ x.distance = 3 /\ x.name = 4
        /\ x.name + l["name"] + 1 <= x.uuid /\ x.uuid + 16 = x.ver
        /\ x.ver + l["ver"] + 1 <= x.cap /\ x.cap + 4 = x.memSz /\ x.memSz + 4 = x.devname
        /\ x.devname + l["devname"] + 1 = x.os /\ x.os + l["os"] + 1 = x.arch
        /\ x.arch + l["arch"] + 1 = x.cpu /\ x.cpu + l["cpu"] + 1 = x.gpu
        /\ x.gpu + l["gpu"] + 1 = End(0, l)

\* ... and how far they reach: three paddings of at most 3, 7 and 3 bytes.
LEMMA LayoutInOrder ==
    ASSUME NEW l \in [Strings -> Nat]
    PROVE  /\ InOrder(l)
           /\ Layout(0, l).uuid <= l["name"] + 15
           /\ Layout(0, l).cap <= Layout(0, l).ver + l["ver"] + 4
<1> DEFINE n == 4 + l["name"]
           i == n + 1 + Pad4(n, 1)
           u == i + Pad8(i, 0)
           v == u + 16 + l["ver"]
<1>1. \A s \in Strings : l[s] \in Nat
  OBVIOUS
<1>2. l["name"] \in Nat /\ l["ver"] \in Nat /\ n \in Nat /\ 0 \in Nat /\ 1 \in Nat
  BY <1>1 DEF Strings
<1>3. Layout(0, l).uuid = u /\ Layout(0, l).ver = u + 16
      /\ Layout(0, l).cap = v + 1 + Pad4(v, 1)
  <2>1. 0 + 4 = 4 /\ After(4, l["name"]) = n + 1 /\ 4 * NumIp = 0
    BY <1>2 DEF After, NumIp
  <2>2. Layout(0, l).uuid = After(4, l["name"]) + Pad4(4 + l["name"], 1) + 0
                              + Pad8(After(4, l["name"]) + Pad4(4 + l["name"], 1), 0)
    BY <2>1 DEF Layout
  <2>3. Pad4(n, 1) \in Nat
    <3> HIDE DEF n
    <3>1. Pad4(n, 1) \in 0..3
      BY <1>2, PadIsPad
    <3> QED BY <3>1
  <2>4. i \in Nat /\ After(4, l["name"]) + Pad4(4 + l["name"], 1) = i
    BY <1>2, <2>1, <2>3
  <2>5. Layout(0, l).uuid = u
    <3>1. Layout(0, l).uuid = i + 0 + Pad8(i, 0)
      BY <2>2, <2>4
    <3> HIDE DEF i
    <3> QED BY <2>4, <3>1
  <2>6. Layout(0, l).ver = Layout(0, l).uuid + 16
    BY DEF Layout
  <2>7. Layout(0, l).cap = After(Layout(0, l).ver, l["ver"]) + Pad4(Layout(0, l).ver + l["ver"], 1)
    BY DEF Layout
  <2> HIDE DEF n, i, u
  <2>8. Layout(0, l).ver + l["ver"] = v
    BY <2>5, <2>6
  <2>9. u \in Nat
    <3>1. Pad8(i, 0) \in 0..7
      BY <1>2, <2>4, PadIsPad
    <3> QED BY <2>4, <3>1 DEF u
  <2>10. After(Layout(0, l).ver, l["ver"]) = v + 1
    BY <1>2, <2>5, <2>6, <2>9 DEF After
  <2> QED BY <2>5, <2>6, <2>7, <2>8, <2>10
<1> HIDE DEF n
<1>4. Pad4(n, 1) \in 0..3 /\ i \in Nat
  <2>1. Pad4(n, 1) \in 0..3
    BY <1>2, PadIsPad
  <2> QED BY <1>2, <2>1
<1> HIDE DEF i
<1>5. Pad8(i, 0) \in 0..7 /\ u \in Nat
  <2>1. Pad8(i, 0) \in 0..7
    BY <1>2, <1>4, PadIsPad
  <2> QED BY <1>4, <2>1
<1> HIDE DEF u
<1>6. v \in Nat
  BY <1>2, <1>5
<1> HIDE DEF v
<1>7. Pad4(v, 1) \in 0..3
  BY <1>2, <1>6, PadIsPad
<1>8. u <= l["name"] + 15 /\ 4 + l["name"] + 1 <= u
  BY <1>2, <1>4, <1>5 DEF n, i, u
<1>9. v + 1 + Pad4(v, 1) <= (u + 16) + l["ver"] + 4 /\ (u + 16) + l["ver"] + 1 <= v + 1 + Pad4(v, 1)
  BY <1>2, <1>5, <1>7 DEF v
<1>10. /\ Layout(0, l).size = 0 /\ Layout(0, l).numIp = 0 + 2 /\ Layout(0, l).distance = 0 + 3
       /\ Layout(0, l).name = 0 + 4
  BY DEF Layout
<1>11. /\ Layout(0, l).memSz = Layout(0, l).cap + 4
       /\ Layout(0, l).devname = Layout(0, l).memSz + 4
       /\ Layout(0, l).os = Layout(0, l).devname + l["devname"] + 1
       /\ Layout(0, l).arch = Layout(0, l).os + l["os"] + 1
       /\ Layout(0, l).cpu = Layout(0, l).arch + l["arch"] + 1
       /\ Layout(0, l).gpu = Layout(0, l).cpu + l["cpu"] + 1
  BY DEF Layout, After
<1>12. Layout(0, l).gpu + l["gpu"] + 1 = End(0, l)
  BY DEF End, After
<1> QED BY <1>3, <1>8, <1>9, <1>10, <1>11, <1>12 DEF InOrder

\* The size does not depend on where the entry is.
LEMMA SizeMoves ==
    ASSUME NEW x \in Nat, x % 8 = 0, NEW l \in [Strings -> Nat]
    PROVE  /\ End(0, l) \in Nat
           /\ CalcSize(x, l) = (End(0, l) + ((8 - End(0, l)) % 8)) % SizeMod
<1>1. /\ l["gpu"] \in Nat /\ Layout(0, l).gpu \in Nat
      /\ Layout(x, l).gpu = x + Layout(0, l).gpu
  BY LayoutIsRelative DEF Fields, Strings
<1>2. End(0, l) \in Nat /\ End(x, l) = x + End(0, l)
  BY <1>1 DEF End, After
<1>3. CalcSize(x, l) = ((End(x, l) - x) + (((8 - (End(x, l) - (x % 8))) % WordMod) % 8)) % SizeMod
  BY DEF CalcSize, End
<1>4. /\ End(x, l) - x = End(0, l) /\ End(x, l) - (x % 8) = x + End(0, l)
      /\ 8 - (x + End(0, l)) \in Int
  BY <1>2
<1>5. ((8 - (x + End(0, l))) % WordMod) % 8 = (8 - (x + End(0, l))) % 8
  BY <1>4, WrapUnseen
<1>6. (8 - (x + End(0, l))) % 8 = (8 - End(0, l)) % 8
  BY <1>2
<1> QED BY <1>2, <1>3, <1>4, <1>5, <1>6

\* Where it fits in 16 bits, it holds all of the entry.
LEMMA SizeIsPadded ==
    ASSUME NEW x \in Nat, x % 8 = 0, NEW l \in [Strings -> Nat], End(0, l) + 7 < SizeMod
    PROVE  CalcSize(x, l) >= End(0, l) /\ CalcSize(x, l) % 8 = 0
<1> DEFINE end == End(0, l)
           pad == (8 - end) % 8
<1>1. end \in Nat /\ CalcSize(x, l) = (end + pad) % SizeMod
  BY SizeMoves
<1>2. SizeMod \in Nat /\ end + 7 < SizeMod
  BY LayoutAssumption
<1> HIDE DEF end
<1>3. pad \in 0..7 /\ (end + pad) % 8 = 0
  BY <1>1
<1> HIDE DEF pad
<1>4. (end + pad) % SizeMod = end + pad
  BY <1>1, <1>2, <1>3
<1> QED BY <1>1, <1>3, <1>4 DEF end

\* The strings are no longer than m, but for the version, and a finished entry
\* holds its size.
Sized(m) ==
    /\ len["ver"] <= 7 /\ \A s \in Strings \ {"ver"} : len[s] <= m
    /\ Done => size = CalcSize(e, len)

LEMMA SizedStep ==
    ASSUME NEW m \in Nat, \A l \in Lengths : l <= m, IInv, IInv', Sized(m), [Next]_vars
    PROVE  Sized(m)'
<1>1. e \in Nat /\ e % 8 = 0 /\ len \in [Strings -> Nat] /\ next \in 1..14
  BY OrderLen DEF IInv, TypeOK
<1>2. ASSUME NEW f \in Strings, NEW l \in LengthsOf(f), WriteString(f, l) PROVE Sized(m)'
  <2>1. \A s \in Strings : len'[s] = IF s = f THEN l ELSE len[s]
    BY <1>1, <1>2 DEF WriteString
  <2>2. (f = "ver" => l = 7) /\ (f # "ver" => l <= m)
    BY DEF LengthsOf
  <2>3. len'["ver"] <= 7 /\ \A s \in Strings \ {"ver"} : len'[s] <= m
    <3>1. "ver" \in Strings
      BY DEF Strings
    <3> QED BY <2>1, <2>2, <3>1 DEF Sized
  <2>4. ~ Done'
    <3>1. WriteOrder[13] = "size" /\ "size" \notin Strings
      BY DEF WriteOrder, Strings
    <3>2. WriteOrder[next] = f /\ next' = next + 1 /\ ~ Done
      BY <1>2 DEF WriteString, Place
    <3>3. next # 13 /\ next <= 13
      BY <1>1, <3>1, <3>2, OrderLen DEF Done
    <3> QED BY <1>1, <3>2, <3>3, OrderLen DEF Done
  <2> QED BY <2>3, <2>4 DEF Sized
<1>3. ASSUME NEW f \in Others, WriteOther(f) PROVE Sized(m)'
  <2>1. UNCHANGED <<e, len>> /\ Place(f) /\ size' = (IF f = "size" THEN CalcSize(e, len) ELSE size)
    BY <1>3 DEF WriteOther
  <2>2. Done' => f = "size"
    <3>1. WriteOrder[next] = f /\ next' = next + 1 /\ ~ Done
      BY <2>1 DEF Place
    <3>2. Done' => next = 13
      BY <1>1, <3>1, OrderLen DEF Done
    <3>3. WriteOrder[13] = "size"
      BY DEF WriteOrder
    <3> QED BY <3>1, <3>2, <3>3
  <2> QED BY <2>1, <2>2 DEF Sized
<1>4. ASSUME NEW a, NEW h, NEW b, Copy(a, h, b) PROVE Sized(m)'
  <2>1. Done /\ UNCHANGED <<len, next, size>>
    BY <1>4 DEF Copy
  <2>2. e' \in Nat /\ e' % 8 = 0
    BY DEF IInv, TypeOK
  <2>3. CalcSize(e', len) = CalcSize(e, len)
    BY <1>1, <2>2, SizeMoves
  <2> QED BY <2>1, <2>3 DEF Sized, Done
<1>5. CASE UNCHANGED vars
  BY <1>5 DEF vars, Sized, Done
<1> QED BY <1>2, <1>3, <1>4, <1>5 DEF Next

LEMMA SizedApart ==
    ASSUME NEW m \in Nat, 6 * m + 62 < SizeMod, IInv, Sized(m)
    PROVE  FieldsApart
<1> SUFFICES ASSUME Done PROVE FieldsApart
  BY DEF FieldsApart
<1>1. /\ e \in Nat /\ e % 8 = 0 /\ len \in [Strings -> Nat] /\ next = 14
      /\ \A s \in Strings : len[s] \in Nat
  BY OrderLen DEF IInv, TypeOK, Done
<1>2. DOMAIN at = Fields
  <2>1. \A f \in Fields : \E i \in 1..13 : WriteOrder[i] = f
    BY DEF WriteOrder, Fields, Strings, Others
  <2> QED BY <1>1, <2>1 DEF IInv, Written, TypeOK
<1>3. \A f \in Fields : at[f] = Layout(0, len)[f] /\ at[f] \in Nat
  <2> SUFFICES ASSUME NEW f \in Fields PROVE at[f] = Layout(0, len)[f] /\ at[f] \in Nat
    OBVIOUS
  <2>1. Layout(0, len)[f] \in Nat /\ Layout(e, len)[f] = e + Layout(0, len)[f]
    BY <1>1, LayoutIsRelative
  <2>2. at[f] = Layout(e, len)[f] - e
    BY <1>2 DEF IInv, FoundWhereWritten
  <2> QED BY <1>1, <2>1, <2>2
<1> DEFINE p == [f \in Fields |-> at[f]]
           w == [f \in Fields |-> Width(f)]
           end == End(0, len)
<1>4. /\ p \in [Fields -> Nat] /\ w \in [Fields -> Nat]
      /\ \A f \in Fields : p[f] = Layout(0, len)[f] /\ w[f] = Width(f)
  <2>1. \A f \in Fields : Width(f) \in Nat
    BY <1>1 DEF Width
  <2> QED BY <1>3, <2>1
<1>5. /\ \A s \in Strings : Width(s) = len[s] + 1
      /\ Width("uuid") = 16 /\ Width("cap") = 4 /\ Width("memSz") = 4 /\ Width("size") = 2
      /\ Width("numIp") = 1 /\ Width("distance") = 1
  BY DEF Width, Strings
<1>6. InOrder(len) /\ Layout(0, len).uuid <= len["name"] + 15
      /\ Layout(0, len).cap <= Layout(0, len).ver + len["ver"] + 4
  BY <1>1, LayoutInOrder
<1>7. \A f \in Fields : Layout(0, len)[f] \in Nat
  BY <1>1, LayoutIsRelative
<1>8. end \in Nat /\ end + 7 <= 6 * m + 62
  <2>1. /\ len["name"] \in Nat /\ len["ver"] \in Nat /\ len["devname"] \in Nat /\ len["os"] \in Nat
        /\ len["arch"] \in Nat /\ len["cpu"] \in Nat /\ len["gpu"] \in Nat
        /\ len["name"] <= m /\ len["ver"] <= 7 /\ len["devname"] <= m /\ len["os"] <= m
        /\ len["arch"] <= m /\ len["cpu"] <= m /\ len["gpu"] <= m
    BY <1>1 DEF Sized, Strings
  <2>2. /\ Layout(0, len).uuid \in Nat /\ Layout(0, len).cap \in Nat /\ Layout(0, len).ver \in Nat
    BY <1>7 DEF Fields, Strings, Others
  <2> QED BY <1>6, <2>1, <2>2 DEF InOrder
<1>9. /\ \A f, g \in Fields : f # g => p[f] + w[f] <= p[g] \/ p[g] + w[g] <= p[f]
      /\ \A f \in Fields : p[f] + w[f] <= end
  <2> HIDE DEF p, w, end
  <2>1. /\ "size" \in Fields /\ "numIp" \in Fields /\ "distance" \in Fields /\ "name" \in Fields
        /\ "uuid" \in Fields /\ "ver" \in Fields /\ "cap" \in Fields /\ "memSz" \in Fields
        /\ "devname" \in Fields /\ "os" \in Fields /\ "arch" \in Fields /\ "cpu" \in Fields
        /\ "gpu" \in Fields
        /\ {"name", "ver", "devname", "os", "arch", "cpu", "gpu"} \subseteq Strings
    BY DEF Fields, Strings, Others
  <2>2. /\ p["size"] = 0 /\ p["numIp"] = 2 /\ p["distance"] = 3 /\ p["name"] = 4
        /\ w["size"] = 2 /\ w["numIp"] = 1 /\ w["distance"] = 1
    BY <1>4, <1>5, <1>6, <2>1 DEF InOrder
  <2>3. /\ p["name"] + w["name"] <= p["uuid"] /\ p["uuid"] + w["uuid"] <= p["ver"]
        /\ p["ver"] + w["ver"] <= p["cap"] /\ p["cap"] + w["cap"] <= p["memSz"]
        /\ p["memSz"] + w["memSz"] <= p["devname"]
    BY <1>1, <1>4, <1>5, <1>6, <1>7, <2>1 DEF InOrder
  <2>4. /\ p["devname"] + w["devname"] <= p["os"] /\ p["os"] + w["os"] <= p["arch"]
        /\ p["arch"] + w["arch"] <= p["cpu"] /\ p["cpu"] + w["cpu"] <= p["gpu"]
        /\ p["gpu"] + w["gpu"] <= end
    BY <1>1, <1>4, <1>5, <1>6, <1>7, <2>1 DEF InOrder, end
  <2> QED BY <1>4, <1>8, <2>2, <2>3, <2>4, ChainIsApart
<1>10. size >= end /\ size % 8 = 0 /\ size \in Nat
  <2>1. size = CalcSize(e, len) /\ size \in Nat
    BY LayoutAssumption DEF Sized, IInv, TypeOK
  <2>2. end + 7 < SizeMod
    <3> HIDE DEF end
    <3> QED BY <1>8, LayoutAssumption
  <2> QED BY <1>1, <2>1, <2>2, SizeIsPadded
<1>11. \A f \in Fields : at[f] = p[f] /\ Width(f) = w[f] /\ p[f] \in Nat /\ w[f] \in Nat
  BY <1>4
<1> HIDE DEF p, w, end
<1>12. \A f \in Fields : at[f] + Width(f) <= size
  BY <1>8, <1>9, <1>10, <1>11
<1> QED BY <1>9, <1>10, <1>11, <1>12 DEF FieldsApart

\* Whatever strings whose entry fits in 16 bits and wherever it is copied: its
\* fields do not overlap, it ends within its size, and the next one is aligned.
THEOREM FieldsApartCorrect == StringsFit => (Spec => []FieldsApart)
<1> SUFFICES ASSUME StringsFit PROVE Spec => []FieldsApart
  OBVIOUS
<1>1. PICK m \in Nat : (\A l \in Lengths : l <= m) /\ 6 * m + 62 < SizeMod
  BY DEF StringsFit
<1>2. Init => Sized(m)
  <2> SUFFICES ASSUME Init PROVE Sized(m)
    OBVIOUS
  <2>1. len = [s \in Strings |-> 0] /\ next = 1 /\ "ver" \in Strings
    BY DEF Init, Strings
  <2>2. \A s \in Strings : len[s] = 0
    BY <2>1
  <2> QED BY <2>1, <2>2, OrderLen DEF Sized, Done
<1>3. IInv /\ IInv' /\ Sized(m) /\ [Next]_vars => Sized(m)'
  BY <1>1, SizedStep
<1>4. IInv /\ Sized(m) => FieldsApart
  BY <1>1, SizedApart
<1> QED BY <1>2, <1>3, <1>4, InitIInv, StepIInv, PTL DEF Spec
=============================================================================
