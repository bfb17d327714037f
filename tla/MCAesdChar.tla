----------------------------- MODULE MCAesdChar -----------------------------
(***************************************************************************)
(* Instances of AesdChar for TLC.                                          *)
(***************************************************************************)
EXTENDS AesdChar, MCDriverInputs
=============================================================================
