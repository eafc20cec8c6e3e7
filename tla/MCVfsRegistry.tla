--------------------------- MODULE MCVfsRegistry ---------------------------
(* Instances of VfsRegistry.  Connections, and databases, are alike.       *)
EXTENDS VfsRegistry, TLC
ConnectionSymmetry == Permutations(Connections)
=============================================================================
