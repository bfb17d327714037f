-------------------------- MODULE MCServerStartup --------------------------
(***************************************************************************)
(* Three servers.                                                          *)
(***************************************************************************)
EXTENDS ServerStartup

CONSTANTS s1, s2, s3
=============================================================================
