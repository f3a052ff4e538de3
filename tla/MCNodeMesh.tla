----------------------------- MODULE MCNodeMesh -----------------------------
(* Small meshes for NodeMesh. *)
EXTENDS NodeMesh, TLC

CONSTANTS a, b, c,   \* devices
          w1, w2     \* networks

\* a - b - c: b is on both networks, a gateway between a and c.
LineIfaces == (a :> <<w1>>) @@ (b :> <<w1, w2>>) @@ (c :> <<w2>>)

OwnUuid == [n \in Nodes |-> n]

Once == [n \in Nodes |-> 1]
BTwice == [n \in Nodes |-> IF n = b THEN 2 ELSE 1]

DoubleIfaces == (a :> <<w1, w2>>) @@ (b :> <<w1>>)
=============================================================================
