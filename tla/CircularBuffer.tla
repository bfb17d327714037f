--------------------------- MODULE CircularBuffer ---------------------------
(***************************************************************************)
(* One struct aesd_circular_buffer and the calls that change it            *)
(* (aesd-char-driver/aesd-circular-buffer.c).  The functions do no locking *)
(* ("Any necessary locking must be performed by caller"), so a call is one *)
(* step; AesdChar models the caller.                                       *)
(***************************************************************************)
EXTENDS CircularBufferOps, SequencesExt

CONSTANT Entries   \* the entries add_entry is called with: byte sequences

ASSUME EntriesAreSequences == \A e \in Entries : e \in Seq(Range(e))

VARIABLE buffer

TypeOK == buffer \in Buffers(Entries)

Init == buffer = aesd_circular_buffer_init

AddEntry(e) == buffer' = aesd_circular_buffer_add_entry(buffer, e)

Reinitialise == buffer' = aesd_circular_buffer_init

Next == Reinitialise \/ \E e \in Entries : AddEntry(e)

Spec == Init /\ [][Next]_buffer

-----------------------------------------------------------------------------
(***************************************************************************)
(* The shape that ValidEntries, the search and aesd_ioctl silently rely    *)
(* on: in_offs = out_offs means full or empty as `full` says, and a slot   *)
(* outside the stored range is zero, so it contributes no bytes.           *)
(***************************************************************************)
RingShape == WellFormed(buffer)

(***************************************************************************)
(* The search returns the very byte that the comment at                    *)
(* aesd-circular-buffer.c:24 names: the zero-based char_offset of "all     *)
(* buffer strings concatenated end to end", and NULL past the last byte.   *)
(***************************************************************************)
FindAgreesWithConcatenation ==
  LET flat == FlattenSeq(Contents(buffer))
  IN  \A off \in 0 .. Len(flat) + 1 :
        LET found == aesd_circular_buffer_find_entry_offset_for_fpos(buffer, off)
        IN  IF off >= Len(flat) THEN found = NoEntry
            ELSE /\ found # NoEntry
                 /\ found.offset + 1 \in DOMAIN buffer.entry[found.slot]
                 /\ buffer.entry[found.slot][found.offset + 1] = flat[off + 1]

(***************************************************************************)
(* The buffer implements "remember the last Capacity writes": whatever the *)
(* wrapped indices do, adding appends at the young end and drops only the  *)
(* oldest entry, and only when Capacity entries are stored.                *)
(***************************************************************************)
History == INSTANCE RecentWrites WITH recent <- Contents(buffer)

ImplementsRecentWrites == History!Spec
=============================================================================
