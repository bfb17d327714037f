------------------------- MODULE MCThreadingExample -------------------------
(***************************************************************************)
(* Three threads that share two mutexes with their caller.                 *)
(***************************************************************************)
EXTENDS ThreadingExample

CONSTANTS t1, t2, t3, m1, m2
=============================================================================
