--------------------------- MODULE MCDriverInputs ---------------------------
(***************************************************************************)
(* The processes, files and arguments of system calls that the instances   *)
(* of the driver's modules are checked with.                               *)
(***************************************************************************)
EXTENDS Integers, Sequences

CONSTANTS p1, p2, f1, f2, a, nl

MCBytes == {a, nl}

\* Two processes with a file each; two that share one file (fork, threads).
PrivateFiles == {<<p1, f1>>, <<p2, f2>>}
OneProcess   == {<<p1, f1>>}
SharedFile   == {<<p1, f1>>, <<p2, f1>>}

\* A whole command and the beginning of one; a whole one and nothing at all.
LinePayloads == {<<a, nl>>, <<a>>}
LineOrNothing == {<<a, nl>>, << >>}

Seek(off, whence) == [off |-> off, whence |-> whence]
SeekTo(cmd, offset) == [write_cmd |-> cmd, write_cmd_offset |-> offset]

\* Forward (and, at the end of the positions, past it), to the last byte, and
\* with an unknown whence.
SomeSeeks == {Seek(1, 1), Seek(-1, 2), Seek(0, 3)}
Rewind    == {Seek(0, 0)}
NoSeeks   == {}

\* Into the second command, to the end of the first, and to one that cannot
\* be there.
SomeSeekTos == {SeekTo(1, 1), SeekTo(0, 2), SeekTo(2, 0)}
OneSeekTo   == {SeekTo(1, 0)}
NoSeekTos   == {}
=============================================================================
