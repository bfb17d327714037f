------------------------- MODULE MCAesdCharHistory --------------------------
(***************************************************************************)
(* Instances of AesdCharHistory for TLC.                                   *)
(***************************************************************************)
EXTENDS AesdCharHistory, MCDriverInputs

\* The two processes are alike, each with the file it uses.
Swap == {(p1 :> p1) @@ (p2 :> p2) @@ (f1 :> f1) @@ (f2 :> f2),
         (p1 :> p2) @@ (p2 :> p1) @@ (f1 :> f2) @@ (f2 :> f1)}
=============================================================================
