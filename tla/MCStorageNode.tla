--------------------------- MODULE MCStorageNode ---------------------------
(* TLC instances of StorageNode.                                           *)
EXTENDS StorageNode, TLC

Symmetry == Permutations(Call)
=============================================================================
