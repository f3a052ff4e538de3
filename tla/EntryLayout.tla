----------------------------- MODULE EntryLayout -----------------------------
(***************************************************************************)
(* The layout of a node entry (include/evrnet/node.h): an entry has no     *)
(* struct, each field is found from the absolute address of the one before *)
(* it, with padding.  NODE_Init (app/node.c) writes the local entry field  *)
(* by field, finding each with what it has written so far; from then on    *)
(* the entry is copied as a whole, into packets and into other lists.      *)
(*                                                                         *)
(* Of a string only its length counts.  Addresses are uintptr_t.           *)
(***************************************************************************)
EXTENDS Integers, Sequences

CONSTANTS
    WordMod,   \* the range of uintptr_t
    SizeMod,   \* the range of uint16_t
    Lengths,   \* bound: the lengths of the strings in PLAT_Info and of the name
    Mallocs,   \* bound: the addresses malloc() returns, aligned to 8
    Before     \* bound: the bytes of the entries in front of this one

ASSUME LayoutAssumption ==
    /\ WordMod \in Nat \ {0} /\ WordMod % 8 = 0
    /\ SizeMod \in Nat \ {0}
    /\ Lengths \subseteq Nat
    /\ Mallocs \subseteq Nat /\ \A a \in Mallocs : a % 8 = 0
    /\ Before \subseteq Nat /\ \A b \in Before : b % 8 = 0

Strings == {"name", "ver", "devname", "os", "arch", "cpu", "gpu"}

Others == {"numIp", "distance", "uuid", "cap", "memSz", "size"}

Fields == Strings \cup Others

VARIABLES
    e,      \* the address of the entry
    len,    \* strlen() of each string, as the memory is now
    next,   \* the position in WriteOrder of the field to write next
    at,     \* at[f]: where field f was written, from the start of the entry
    size    \* what ENTRY_SIZE(e) holds

vars == <<e, len, next, at, size>>

-----------------------------------------------------------------------------
(* The macros *)

\* Mutants: the padding is not cut to what is needed, or cut wrongly.
Pad4Short(a, b) == ((4 - (a + (b % 4))) % WordMod) % 3
Pad8Uncut(a, b) == 8 - (a + (b % 8))

\* What ALIGN4(a + b) and ALIGN8(a + b) add: x has no parentheses there, and %
\* applies to b alone.  The subtraction wraps.
Pad4(a, b) == ((4 - (a + (b % 4))) % WordMod) % 4
Pad8(a, b) == ((8 - (a + (b % 8))) % WordMod) % 8

\* NODE_Init and all others set ENTRY_NUM_IP to 0.
NumIp == 0

\* Mutant: the string is taken to end without its '\0'.
AfterUnterminated(x, l) == x + l

After(x, l) == x + l + 1

\* Where the accessors find the fields of an entry at x with strings of
\* lengths l.
Layout(x, l) ==
    LET name == x + 4
        ips == After(name, l["name"]) + Pad4(name + l["name"], 1)
        uuid == ips + 4 * NumIp + Pad8(ips, 4 * NumIp)
        ver == uuid + 16
        cap == After(ver, l["ver"]) + Pad4(ver + l["ver"], 1)
        memSz == cap + 4
        devname == memSz + 4
        os == After(devname, l["devname"])
        arch == After(os, l["os"])
        cpu == After(arch, l["arch"])
    IN  [size |-> x, numIp |-> x + 2, distance |-> x + 3, name |-> name, uuid |-> uuid,
         ver |-> ver, cap |-> cap, memSz |-> memSz, devname |-> devname, os |-> os,
         arch |-> arch, cpu |-> cpu, gpu |-> After(cpu, l["cpu"])]

\* Mutant: no padding at the end.
SizeUnpadded(x, l) == After(Layout(x, l).gpu, l["gpu"]) - x

\* ENTRY_CALC_SIZE: of (end - e) the % takes e alone.
CalcSize(x, l) ==
    LET end == After(Layout(x, l).gpu, l["gpu"])
    IN  ((end - x) + (((8 - (end - (x % 8))) % WordMod) % 8)) % SizeMod

-----------------------------------------------------------------------------
(* NODE_Init, and the copies *)

\* Mutant: the UUID is written before the name.
UuidFirst ==
    <<"numIp", "distance", "uuid", "name", "ver", "cap", "memSz",
      "devname", "os", "arch", "cpu", "gpu", "size">>

WriteOrder ==
    <<"numIp", "distance", "name", "uuid", "ver", "cap", "memSz",
      "devname", "os", "arch", "cpu", "gpu", "size">>

\* An entry begins behind the list's header, or behind that of a packet.
ListHeader == 8
PacketHeader == 32

\* NODE_Init allocates the list and clears it.
Init ==
    /\ \E a \in Mallocs : e = a + ListHeader
    /\ len = [s \in Strings |-> 0]
    /\ next = 1
    /\ at = << >>
    /\ size = 0

Done == next > Len(WriteOrder)

\* The version is "somever"; all other strings come from PLAT_Info and
\* NODE_LocalName.
LengthsOf(f) == IF f = "ver" THEN {7} ELSE Lengths

\* The next field is f, and is written where its accessor finds it.
Place(f) ==
    /\ ~ Done
    /\ WriteOrder[next] = f
    /\ at' = [g \in DOMAIN at \cup {f} |-> IF g = f THEN Layout(e, len)[f] - e ELSE at[g]]
    /\ next' = next + 1

WriteString(f, l) ==
    /\ Place(f)
    /\ len' = [len EXCEPT ![f] = l]
    /\ UNCHANGED <<e, size>>

WriteOther(f) ==
    /\ Place(f)
    /\ size' = IF f = "size" THEN CalcSize(e, len) ELSE size
    /\ UNCHANGED <<e, len>>

\* realloc() of the list, memcpy() into a packet, or memcpy() from one behind
\* the entries another device has.
Copy(a, header, before) ==
    /\ Done
    /\ e' = a + header + before
    /\ UNCHANGED <<len, next, at, size>>

Next ==
    \/ \E f \in Strings : \E l \in LengthsOf(f) : WriteString(f, l)
    \/ \E f \in Others : WriteOther(f)
    \/ \E a \in Mallocs, before \in Before :
         Copy(a, ListHeader, before) \/ Copy(a, PacketHeader, before)

Spec == Init /\ [][Next]_vars
-----------------------------------------------------------------------------
(* Properties *)

\* Every variable keeps its type.
TypeOK ==
    /\ e \in Nat
    /\ len \in [Strings -> Nat]
    /\ next \in 1..(Len(WriteOrder) + 1)
    /\ DOMAIN at \subseteq Fields
    /\ \A f \in DOMAIN at : at[f] \in Nat
    /\ size \in 0..(SizeMod - 1)

\* A field once written is found again: neither the fields that NODE_Init
\* writes after it nor a copy to another address move it, though its address
\* is computed anew each time.
FoundWhereWritten == \A f \in DOMAIN at : Layout(e, len)[f] - e = at[f]

Width(f) ==
    CASE f \in Strings -> len[f] + 1
      [] f = "uuid" -> 16
      [] f \in {"cap", "memSz"} -> 4
      [] f = "size" -> 2
      [] OTHER -> 1

\* A finished entry's fields do not overlap, end within its size, and the next
\* entry begins where its fields can be aligned too.
FieldsApart ==
    Done =>
        /\ \A f, g \in Fields : f # g => at[f] + Width(f) <= at[g] \/ at[g] + Width(g) <= at[f]
        /\ \A f \in Fields : at[f] + Width(f) <= size
        /\ size % 8 = 0

\* Wherever the entry is, its integers are aligned as their types want it,
\* which some of the CPUs this runs on insist on.
IntegersAligned ==
    LET x == Layout(e, len) IN x.uuid % 8 = 0 /\ x.cap % 4 = 0 /\ x.memSz % 4 = 0

-----------------------------------------------------------------------------
(* The inductive invariant *)

\* What NODE_Init has written so far.
Written == {WriteOrder[i] : i \in 1..(next - 1)}

IInv ==
    /\ TypeOK
    /\ e % 8 = 0
    /\ DOMAIN at = Written
    /\ FoundWhereWritten

\* The strings are short enough for the size to fit in its 16 bits: with a
\* SizeMod of 2^16 each may have 10912 bytes.
StringsFit == \E m \in Nat : (\A l \in Lengths : l <= m) /\ 6 * m + 62 < SizeMod
=============================================================================
