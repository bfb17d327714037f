------------------------- MODULE CircularBufferOps -------------------------
(***************************************************************************)
(* The functions of aesd-char-driver/aesd-circular-buffer.c as operators   *)
(* on a buffer value                                                       *)
(*                                                                         *)
(*   [entry : [Slots -> byte sequences], in_offs, out_offs : Slots,        *)
(*    full : BOOLEAN]                                                      *)
(*                                                                         *)
(* A struct aesd_buffer_entry is the sequence of the bytes its buffptr     *)
(* points at: its size is the length of the sequence, and the zeroed       *)
(* struct (buffptr NULL, size 0) is the empty sequence.                    *)
(***************************************************************************)
EXTENDS Integers, Sequences, FiniteSetsExt

CONSTANT Capacity   \* AESDCHAR_MAX_WRITE_OPERATIONS_SUPPORTED, 10 in the code

\* in_offs and out_offs are of type uint8_t, so they index at most 256 slots.
ASSUME CapacityAssumption == Capacity \in 1 .. 256

Slots == 0 .. Capacity - 1

ZeroSlot == << >>

\* The index arithmetic shared by every function: one slot further, wrapping.
NextSlot(i) == (i + 1) % Capacity

Buffers(Entries) ==
  [entry : [Slots -> Entries \cup {ZeroSlot}],
   in_offs : Slots, out_offs : Slots, full : BOOLEAN]

\* memset(buffer, 0, sizeof(struct aesd_circular_buffer))
aesd_circular_buffer_init ==
  [entry |-> [i \in Slots |-> ZeroSlot],
   in_offs |-> 0, out_offs |-> 0, full |-> FALSE]

\* Mutant: a full buffer overwrites its oldest entry but out_offs stays put.
add_entry_keeping_out_offs(buffer, add_entry) ==
  LET in == NextSlot(buffer.in_offs)
  IN  [entry    |-> [buffer.entry EXCEPT ![buffer.in_offs] = add_entry],
       in_offs  |-> in,
       out_offs |-> buffer.out_offs,
       full     |-> buffer.full \/ in = buffer.out_offs]

\* The new entry goes to in_offs; when the buffer was full that is the slot of
\* the oldest entry, and out_offs moves on to the next oldest.
aesd_circular_buffer_add_entry(buffer, add_entry) ==
  LET out == IF buffer.full THEN NextSlot(buffer.out_offs) ELSE buffer.out_offs
      in  == NextSlot(buffer.in_offs)
  IN  [entry    |-> [buffer.entry EXCEPT ![buffer.in_offs] = add_entry],
       in_offs  |-> in,
       out_offs |-> out,
       full     |-> buffer.full \/ in = out]

\* "get valid entries in the buffer"
ValidEntries(buffer) ==
  IF buffer.full THEN Capacity
  ELSE IF buffer.in_offs >= buffer.out_offs
       THEN buffer.in_offs - buffer.out_offs
       ELSE (Capacity - buffer.out_offs) + buffer.in_offs

\* The slot idx refers to after i rounds of a loop that starts at out_offs.
SlotAfter(buffer, i) == (buffer.out_offs + i) % Capacity

\* bytes_searched at the start of round i of the search (and total_bytes of
\* the loop over seekto.write_cmd entries in aesd_ioctl, main.c:297-301).
BytesBefore(buffer) ==
  LET bytes[i \in 0 .. Capacity] ==
        IF i = 0 THEN 0
        ELSE bytes[i - 1] + Len(buffer.entry[SlotAfter(buffer, i - 1)])
  IN  bytes

\* The NULL result of the search.
NoEntry == [slot |-> -1, offset |-> 0]

\* Mutant: an offset one past an entry's last byte still counts as in it.
find_entry_past_the_end(buffer, char_offset) ==
  LET bytes == BytesBefore(buffer)
      hits  == {i \in 0 .. ValidEntries(buffer) - 1 : char_offset <= bytes[i + 1]}
  IN  IF hits = {} THEN NoEntry
      ELSE [slot   |-> SlotAfter(buffer, Min(hits)),
            offset |-> char_offset - bytes[Min(hits)]]

\* The first round whose entry reaches beyond char_offset decides the result.
aesd_circular_buffer_find_entry_offset_for_fpos(buffer, char_offset) ==
  LET bytes == BytesBefore(buffer)
      hits  == {i \in 0 .. ValidEntries(buffer) - 1 : char_offset < bytes[i + 1]}
  IN  IF hits = {} THEN NoEntry
      ELSE [slot   |-> SlotAfter(buffer, Min(hits)),
            offset |-> char_offset - bytes[Min(hits)]]

-----------------------------------------------------------------------------
(***************************************************************************)
(* The abstraction used by the properties.                                 *)
(***************************************************************************)

\* The stored entries, oldest first.
Contents(buffer) ==
  [i \in 1 .. ValidEntries(buffer) |-> buffer.entry[SlotAfter(buffer, i - 1)]]

\* A buffer that the three functions can have produced.  Entries are never
\* taken out, so out_offs leaves slot 0 only once the buffer has filled up,
\* and the slots never written are still zero.
WellFormed(buffer) ==
  /\ buffer.full => buffer.in_offs = buffer.out_offs
  /\ ~buffer.full =>
       /\ buffer.out_offs = 0
       /\ \A i \in Slots : i >= buffer.in_offs => buffer.entry[i] = ZeroSlot
=============================================================================
