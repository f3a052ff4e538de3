---------------------------- MODULE MCMeshHistory ----------------------------
(* The small meshes of MCNodeMesh, with the history of MeshHistory. *)
EXTENDS MCNodeMesh, MeshHistory
=============================================================================
