--------------------------- MODULE MCSystemCalls ---------------------------
(***************************************************************************)
(* Instances of SystemCalls: one child from elsewhere, ids for two more,   *)
(* and descriptors for a few calls.                                        *)
(***************************************************************************)
EXTENDS SystemCalls

CONSTANTS p1, p2, p3
=============================================================================
