-------------------------- MODULE MCCircularBuffer --------------------------
(***************************************************************************)
(* CircularBuffer with the capacity of the code and entries of different   *)
(* sizes and bytes, so that a misplaced byte or offset shows.              *)
(***************************************************************************)
EXTENDS CircularBuffer

MCEntries == {<<"a">>, <<"b", "c">>}
=============================================================================
