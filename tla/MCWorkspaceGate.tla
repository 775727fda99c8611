--------------------------- MODULE MCWorkspaceGate ---------------------------
(* An instance of WorkspaceGate for TLC: one task with one operation and   *)
(* two concurrent writers in a workspace of two files.                      *)
EXTENDS WorkspaceGate, TLC

CONSTANTS t1, w1, w2

Symmetry == Permutations(Writers)
=============================================================================
