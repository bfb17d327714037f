---------------------------- MODULE RecentWrites ----------------------------
(***************************************************************************)
(* What the circular buffer of the aesdchar driver promises: it remembers  *)
(* the last Capacity write commands, oldest first, and nothing else        *)
(* (aesd-char-driver/main.c:131, "save most recent 10 write commands").    *)
(* Neither indices nor slots appear here; CircularBuffer and AesdChar are  *)
(* shown to implement this specification.                                  *)
(***************************************************************************)
EXTENDS Naturals, Sequences

CONSTANTS
  Capacity,   \* how many commands are remembered
  Entries     \* the commands that may be written

VARIABLE recent   \* the remembered commands, oldest first

\* The last Capacity elements of s.
Newest(s) ==
  IF Len(s) <= Capacity THEN s ELSE SubSeq(s, Len(s) - Capacity + 1, Len(s))

TypeOK == recent \in Seq(Entries)

Init == recent = << >>

\* The newest command after the step is the one that was written.
Remember ==
  LET e == recent'[Len(recent')]
  IN  /\ recent' # << >>
      /\ e \in Entries
      /\ recent' = Newest(Append(recent, e))

Forget == recent' = << >>

Next == Forget \/ Remember

Spec == Init /\ [][Next]_recent
=============================================================================
