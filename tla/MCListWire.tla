----------------------------- MODULE MCListWire -----------------------------
(* One device, on either kind of host, that hears every list the others may *)
(* announce: lists without duplicates.                                      *)
EXTENDS ListWire

CONSTANTS a, b, c, d

Distinct(s) == \A i, j \in 1..Len(s) : s[i] = s[j] => i = j

ListsUpTo(m) ==
    {s \in UNION {[1..n -> Ids] : n \in 1..m} : Distinct(s)}

ShortLists == ListsUpTo(3)
=============================================================================
