------------------------- MODULE CircularBufferViews -------------------------
(***************************************************************************)
(* What the proofs say of a buffer value: the views of it, and the facts   *)
(* about it, in which CircularBufferProofs states what the functions of    *)
(* aesd-circular-buffer.c do, and AesdCharProofs uses it.                  *)
(***************************************************************************)
EXTENDS CircularBufferOps, SequencesExt

\* The newest Capacity elements of s.
Latest(s) ==
  IF Len(s) <= Capacity THEN s ELSE SubSeq(s, Len(s) - Capacity + 1, Len(s))

\* Every slot, in the order in which the rounds of the search visit them.
InOrder(b) == [j \in 1 .. Capacity |-> b.entry[SlotAfter(b, j - 1)]]

\* What the first i rounds have passed.
Passed(b, i) == FlattenSeq(SubSeq(InOrder(b), 1, i))

(***************************************************************************)
(* Every entry is in the contents at the sum of the sizes before it.       *)
(***************************************************************************)
EntriesInPlace(B, b) ==
  LET flat  == FlattenSeq(Contents(b))
      bytes == BytesBefore(b)
      n     == ValidEntries(b)
  IN  /\ Contents(b) \in Seq(Seq(B)) /\ flat \in Seq(B)
      /\ n \in 0 .. Capacity /\ Len(Contents(b)) = n
      /\ bytes[0] = 0 /\ bytes[n] = Len(flat)
      /\ \A i \in 0 .. n : /\ bytes[i] \in 0 .. Len(flat)
                            /\ bytes[i] = Len(FlattenSeq(SubSeq(Contents(b), 1, i)))
      /\ \A i \in 0 .. n - 1 :
           LET entry == b.entry[SlotAfter(b, i)]
           IN  /\ entry \in Seq(B) /\ bytes[i + 1] = bytes[i] + Len(entry)
               /\ \A k \in 1 .. Len(entry) : flat[bytes[i] + k] = entry[k]

(***************************************************************************)
(* The search for off returns the entry that has that byte, and its place  *)
(* in it; NULL from the end of the contents on.                            *)
(***************************************************************************)
FindsTheByte(B, b, off) ==
  LET flat  == FlattenSeq(Contents(b))
      found == aesd_circular_buffer_find_entry_offset_for_fpos(b, off)
  IN  /\ flat \in Seq(B)
      /\ off >= Len(flat) => found = NoEntry
      /\ off < Len(flat) =>
           \E i \in 0 .. ValidEntries(b) - 1 :
             LET start == BytesBefore(b)[i]
                 entry == b.entry[SlotAfter(b, i)]
             IN  /\ found = [slot |-> SlotAfter(b, i), offset |-> off - start]
                 /\ entry \in Seq(B)
                 /\ start \in Nat /\ start <= off /\ off < start + Len(entry)
                 /\ start + Len(entry) <= Len(flat)
                 /\ \A k \in 1 .. Len(entry) : flat[start + k] = entry[k]
=============================================================================
