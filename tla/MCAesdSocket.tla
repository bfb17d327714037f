---------------------------- MODULE MCAesdSocket ----------------------------
(***************************************************************************)
(* Instances of AesdSocket for TLC.                                        *)
(***************************************************************************)
EXTENDS AesdSocket

CONSTANTS c1, c2, a, b, t, nl

MCBytes == {a, b, t, nl}
MCStamp == <<t, nl>>

\* Two packets, and one packet with the beginning of another.
TwoClients == (c1 :> <<a, nl, a, a, nl>>) @@ (c2 :> <<b, nl, b>>)
\* One packet each.
SinglePackets == (c1 :> <<nl>>) @@ (c2 :> <<nl>>)
=============================================================================
