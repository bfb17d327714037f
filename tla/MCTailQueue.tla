---------------------------- MODULE MCTailQueue ----------------------------
(***************************************************************************)
(* Two queues that exchange four elements.                                 *)
(***************************************************************************)
EXTENDS TailQueue

CONSTANTS h1, h2, e1, e2, e3, e4
=============================================================================
