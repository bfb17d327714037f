------------------------- MODULE MCModuleLifecycle -------------------------
(***************************************************************************)
(* Two users, two major numbers, and enough blocks for a buffer of         *)
(* two entries to be overwritten.                                          *)
(***************************************************************************)
EXTENDS ModuleLifecycle, TLC

CONSTANTS u1, u2, m1, m2, b1, b2, b3, b4, b5

\* Users and blocks are only compared.
UsersAndBlocks == Permutations({u1, u2}) \cup Permutations({b1, b2, b3, b4, b5})
=============================================================================
