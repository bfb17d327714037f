--------------------------- MODULE MCDriverServer ---------------------------
(***************************************************************************)
(* Instances of DriverServer for TLC.                                      *)
(***************************************************************************)
EXTENDS DriverServer, TLC

CONSTANTS c1, c2, a, b, nl, s, r

MCBytes == {a, b, nl, s, r}

SeekTo(cmd, offset) == [write_cmd |-> cmd, write_cmd_offset |-> offset]

\* s leads into the second command, if there is one by then; r to one that the
\* device never has.
Requests == (s :> SeekTo(1, 1)) @@ (r :> SeekTo(9, 0))

\* A client that writes and then seeks; one that writes, sends a request that
\* fails, and goes on.
Streams == (c1 :> <<a, a, nl, s, nl>>) @@ (c2 :> <<b, nl, r, nl, b, nl>>)

\* What EveryLineStored is about.
ASSUME LinesCanBeFollowed == TextsDiffer /\ OwnLines /\ RoomForAll
=============================================================================
