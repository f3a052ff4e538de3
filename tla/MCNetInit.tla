------------------------------ MODULE MCNetInit ------------------------------
(* All lists of up to MaxList interfaces. *)
EXTENDS NetInit

CONSTANT MaxList  \* bound: the length of getifaddrs()'s list

SmallLists == UNION {[1..k -> Kinds] : k \in 0..MaxList}

AllBuilds == [multi : BOOLEAN, mcast : BOOLEAN]

AllCalls == SetupCalls \cup {"getifaddrs", "getnameinfo"}
=============================================================================
