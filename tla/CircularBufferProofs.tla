------------------------ MODULE CircularBufferProofs ------------------------
(***************************************************************************)
(* What the functions of aesd-circular-buffer.c do to a buffer value, and  *)
(* then, for every capacity and every set of entries: the buffer keeps its *)
(* shape, the search finds the byte that an offset into the contents       *)
(* names, and the buffer implements RecentWrites.  The proofs about the    *)
(* state machines that use the buffer rest on InitShape, AddEntryFields,   *)
(* AddEntryShape and AddEntryRemembers.                                    *)
(***************************************************************************)
EXTENDS CircularBuffer, CircularBufferViews, DataLemmas

(***************************************************************************)
(* The wrap-around index arithmetic without the modulus.                   *)
(***************************************************************************)
LEMMA WrapOnce ==
  ASSUME NEW i \in 0 .. 2 * Capacity - 1
  PROVE  i % Capacity = IF i < Capacity THEN i ELSE i - Capacity
  BY CapacityAssumption

LEMMA NextSlotWraps ==
  ASSUME NEW i \in Slots
  PROVE  /\ NextSlot(i) \in Slots
         /\ NextSlot(i) = IF i + 1 = Capacity THEN 0 ELSE i + 1
  BY CapacityAssumption, WrapOnce DEF NextSlot, Slots

LEMMA SumWraps ==
  ASSUME NEW o \in Slots, NEW i \in 0 .. Capacity - 1
  PROVE  (o + i) % Capacity = IF o + i < Capacity THEN o + i ELSE o + i - Capacity
  BY CapacityAssumption DEF Slots

LEMMA SlotAfterWraps ==
  ASSUME NEW b, b.out_offs \in Slots, NEW i \in 0 .. Capacity - 1
  PROVE  /\ SlotAfter(b, i) \in Slots
         /\ SlotAfter(b, i) = IF b.out_offs + i < Capacity
                              THEN b.out_offs + i
                              ELSE b.out_offs + i - Capacity
<1>1. SlotAfter(b, i) = IF b.out_offs + i < Capacity THEN b.out_offs + i
                        ELSE b.out_offs + i - Capacity
  BY SumWraps DEF SlotAfter
<1>2. SlotAfter(b, i) \in Slots
  BY <1>1, CapacityAssumption DEF Slots
<1>3. QED
  BY <1>1, <1>2

(***************************************************************************)
(* aesd_circular_buffer_init yields an empty, well-formed buffer.          *)
(***************************************************************************)
LEMMA InitShape ==
  ASSUME NEW E
  PROVE  /\ aesd_circular_buffer_init \in Buffers(E)
         /\ WellFormed(aesd_circular_buffer_init)
         /\ Contents(aesd_circular_buffer_init) = << >>
<1> DEFINE b == aesd_circular_buffer_init
<1>1. b \in Buffers(E) /\ WellFormed(b)
  BY CapacityAssumption
     DEF aesd_circular_buffer_init, Buffers, WellFormed, Slots
<1>2. ValidEntries(b) = 0
  BY CapacityAssumption DEF aesd_circular_buffer_init, ValidEntries
<1>3. Contents(b) = << >>
  BY <1>2 DEF Contents
<1>4. QED
  BY <1>1, <1>3

(***************************************************************************)
(* What aesd_circular_buffer_add_entry does to the fields of a             *)
(* well-formed buffer.                                                     *)
(***************************************************************************)
LEMMA AddEntryFields ==
  ASSUME NEW E, NEW e \in E, NEW b \in Buffers(E), WellFormed(b)
  PROVE  LET c == aesd_circular_buffer_add_entry(b, e)
         IN  /\ c \in Buffers(E)
             /\ c.entry = [b.entry EXCEPT ![b.in_offs] = e]
             /\ c.in_offs = NextSlot(b.in_offs)
             /\ c.out_offs = IF b.full THEN NextSlot(b.out_offs) ELSE 0
             /\ c.full <=> (b.full \/ b.in_offs = Capacity - 1)
<1> DEFINE c == aesd_circular_buffer_add_entry(b, e)
<1>1. /\ b.entry \in [Slots -> E \cup {ZeroSlot}]
      /\ b.in_offs \in Slots /\ b.out_offs \in Slots /\ b.full \in BOOLEAN
  BY DEF Buffers
<1>2. /\ NextSlot(b.in_offs) \in Slots
      /\ NextSlot(b.in_offs) = IF b.in_offs + 1 = Capacity THEN 0 ELSE b.in_offs + 1
      /\ NextSlot(b.out_offs) \in Slots
  BY <1>1, NextSlotWraps
<1>3. ~b.full => b.out_offs = 0
  BY DEF WellFormed
<1>4. /\ c.entry = [b.entry EXCEPT ![b.in_offs] = e]
      /\ c.in_offs = NextSlot(b.in_offs)
  BY DEF aesd_circular_buffer_add_entry
<1>5. c.out_offs = IF b.full THEN NextSlot(b.out_offs) ELSE 0
  BY <1>3 DEF aesd_circular_buffer_add_entry
<1>6. c.full <=> (b.full \/ NextSlot(b.in_offs) = 0)
  BY <1>3 DEF aesd_circular_buffer_add_entry
<1>7. NextSlot(b.in_offs) = 0 <=> b.in_offs = Capacity - 1
  BY <1>1, <1>2, CapacityAssumption DEF Slots
<1>8. c \in Buffers(E)
  BY <1>1, <1>2 DEF aesd_circular_buffer_add_entry, Buffers
<1>9. QED
  BY <1>4, <1>5, <1>6, <1>7, <1>8

(***************************************************************************)
(* aesd_circular_buffer_add_entry keeps a buffer well-formed.              *)
(***************************************************************************)
LEMMA AddEntryShape ==
  ASSUME NEW E, NEW e \in E, NEW b \in Buffers(E), WellFormed(b)
  PROVE  WellFormed(aesd_circular_buffer_add_entry(b, e))
<1> DEFINE c == aesd_circular_buffer_add_entry(b, e)
<1>1. /\ b.entry \in [Slots -> E \cup {ZeroSlot}]
      /\ b.in_offs \in Slots /\ b.out_offs \in Slots /\ b.full \in BOOLEAN
  BY DEF Buffers
<1>2. /\ c.entry = [b.entry EXCEPT ![b.in_offs] = e]
      /\ c.in_offs = NextSlot(b.in_offs)
      /\ c.out_offs = IF b.full THEN NextSlot(b.out_offs) ELSE 0
      /\ c.full <=> (b.full \/ b.in_offs = Capacity - 1)
  BY AddEntryFields
<1> HIDE DEF c
<1>3. c.in_offs = IF b.in_offs + 1 = Capacity THEN 0 ELSE b.in_offs + 1
  BY <1>1, <1>2, NextSlotWraps
<1>4. ASSUME b.full PROVE WellFormed(c)
  <2>1. b.in_offs = b.out_offs
    BY <1>4 DEF WellFormed
  <2>2. QED
    BY <1>2, <1>4, <2>1 DEF WellFormed
<1>5. ASSUME ~b.full PROVE WellFormed(c)
  <2>1. c.out_offs = 0 /\ (c.full <=> b.in_offs = Capacity - 1)
    BY <1>2, <1>5
  <2>2. c.full => c.in_offs = c.out_offs
    BY <1>1, <1>3, <2>1, CapacityAssumption DEF Slots
  <2>3. ASSUME ~c.full, NEW i \in Slots, i >= c.in_offs
        PROVE  c.entry[i] = ZeroSlot
    <3>1. i >= b.in_offs /\ i # b.in_offs
      BY <1>1, <1>3, <2>1, <2>3, CapacityAssumption DEF Slots
    <3>2. c.entry[i] = b.entry[i]
      BY <1>1, <1>2, <3>1
    <3>3. QED
      BY <1>5, <3>1, <3>2 DEF WellFormed
  <2>4. QED
    BY <2>1, <2>2, <2>3 DEF WellFormed
<1>6. QED
  BY <1>1, <1>4, <1>5 DEF c

(***************************************************************************)
(* Contents as a sequence: its length, and its elements by slot.           *)
(***************************************************************************)
LEMMA ContentsIsSeq ==
  ASSUME NEW E, NEW b \in Buffers(E), WellFormed(b)
  PROVE  /\ ValidEntries(b) = IF b.full THEN Capacity ELSE b.in_offs
         /\ ValidEntries(b) \in 0 .. Capacity
         /\ Contents(b) \in Seq(E \cup {ZeroSlot})
         /\ Len(Contents(b)) = ValidEntries(b)
         /\ \A i \in 1 .. ValidEntries(b) :
              Contents(b)[i] = b.entry[SlotAfter(b, i - 1)]
<1>1. /\ b.entry \in [Slots -> E \cup {ZeroSlot}]
      /\ b.in_offs \in Slots /\ b.out_offs \in Slots /\ b.full \in BOOLEAN
  BY DEF Buffers
<1>2. ValidEntries(b) = IF b.full THEN Capacity ELSE b.in_offs
  BY <1>1, CapacityAssumption DEF ValidEntries, WellFormed, Slots
<1>3. ValidEntries(b) \in 0 .. Capacity
  <2>1. \A i \in Slots : i \in 0 .. Capacity
    BY CapacityAssumption DEF Slots
  <2>2. Capacity \in 0 .. Capacity
    BY CapacityAssumption
  <2>3. QED
    BY <1>1, <1>2, <2>1, <2>2, Zenon
<1>4. ASSUME NEW i \in 1 .. ValidEntries(b)
      PROVE  b.entry[SlotAfter(b, i - 1)] \in E \cup {ZeroSlot}
  <2>1. i - 1 \in 0 .. Capacity - 1
    BY <1>3, CapacityAssumption
  <2>2. SlotAfter(b, i - 1) \in Slots
    BY <1>1, <2>1, SlotAfterWraps
  <2>3. QED
    BY <1>1, <2>2
<1>5. /\ Contents(b) \in Seq(E \cup {ZeroSlot})
      /\ Len(Contents(b)) = ValidEntries(b)
  BY <1>3, <1>4 DEF Contents
<1>6. \A i \in 1 .. ValidEntries(b) :
        Contents(b)[i] = b.entry[SlotAfter(b, i - 1)]
  BY DEF Contents
<1>7. QED
  BY <1>2, <1>3, <1>5, <1>6

(***************************************************************************)
(* The heart of the refinement: aesd_circular_buffer_add_entry appends to  *)
(* the contents and keeps the newest Capacity entries of the result.       *)
(***************************************************************************)
LEMMA AddEntryRemembers ==
  ASSUME NEW E, NEW e \in E, NEW b \in Buffers(E), WellFormed(b)
  PROVE  Contents(aesd_circular_buffer_add_entry(b, e))
           = Latest(Append(Contents(b), e))
<1> DEFINE c == aesd_circular_buffer_add_entry(b, e)
           S == E \cup {ZeroSlot}
           long == Append(Contents(b), e)
<1>1. /\ b.entry \in [Slots -> S]
      /\ b.in_offs \in Slots /\ b.out_offs \in Slots /\ b.full \in BOOLEAN
  BY DEF Buffers
<1>2. /\ c.entry = [b.entry EXCEPT ![b.in_offs] = e]
      /\ c.in_offs = NextSlot(b.in_offs)
      /\ c.out_offs = IF b.full THEN NextSlot(b.out_offs) ELSE 0
      /\ c.full <=> (b.full \/ b.in_offs = Capacity - 1)
      /\ c \in Buffers(E)
  BY AddEntryFields
<1>3. WellFormed(c)
  BY AddEntryShape
<1> HIDE DEF c
<1>4. /\ c.out_offs \in Slots
      /\ c.in_offs = IF b.in_offs + 1 = Capacity THEN 0 ELSE b.in_offs + 1
      /\ \A i \in Slots : c.entry[i] = IF i = b.in_offs THEN e ELSE b.entry[i]
  BY <1>1, <1>2, NextSlotWraps DEF Buffers
<1>5. /\ ValidEntries(b) = IF b.full THEN Capacity ELSE b.in_offs
      /\ Contents(b) \in Seq(S) /\ Len(Contents(b)) = ValidEntries(b)
      /\ \A i \in 1 .. ValidEntries(b) :
           Contents(b)[i] = b.entry[SlotAfter(b, i - 1)]
  BY ContentsIsSeq
<1>6. /\ ValidEntries(c) = IF c.full THEN Capacity ELSE c.in_offs
      /\ Contents(c) \in Seq(S) /\ Len(Contents(c)) = ValidEntries(c)
      /\ \A i \in 1 .. ValidEntries(c) :
           Contents(c)[i] = c.entry[SlotAfter(c, i - 1)]
  BY <1>2, <1>3, ContentsIsSeq
<1> HIDE DEF S
<1>7. /\ long \in Seq(S) /\ Len(long) = ValidEntries(b) + 1
      /\ long[ValidEntries(b) + 1] = e
      /\ \A i \in 1 .. ValidEntries(b) : long[i] = b.entry[SlotAfter(b, i - 1)]
  <2>1. e \in S
    BY DEF S
  <2>2. QED
    BY <1>5, <2>1
<1> HIDE DEF long
<1>8. ASSUME ~b.full PROVE Contents(c) = Latest(long)
  <2>1. /\ b.out_offs = 0 /\ c.out_offs = 0
        /\ ValidEntries(b) = b.in_offs
        /\ ValidEntries(c) = b.in_offs + 1
    BY <1>1, <1>2, <1>4, <1>5, <1>6, <1>8, CapacityAssumption DEF WellFormed, Slots
  <2>2. ASSUME NEW i \in 0 .. Capacity - 1
        PROVE  SlotAfter(b, i) = i /\ SlotAfter(c, i) = i
    <3>1. i + 0 = i /\ 0 + i = i /\ i < Capacity
      BY CapacityAssumption
    <3>2. SlotAfter(b, i) = i
      BY <1>1, <2>1, <3>1, SlotAfterWraps
    <3>3. SlotAfter(c, i) = i
      BY <1>4, <2>1, <3>1, SlotAfterWraps
    <3>4. QED
      BY <3>2, <3>3
  <2>3. ASSUME NEW i \in 1 .. b.in_offs + 1
        PROVE  Contents(c)[i] = long[i]
    <3>1. i - 1 \in 0 .. Capacity - 1 /\ i - 1 \in Slots
      BY <1>1, CapacityAssumption DEF Slots
    <3>2. Contents(c)[i] = c.entry[i - 1]
      BY <1>6, <2>1, <2>2, <3>1
    <3>3. CASE i = b.in_offs + 1
      BY <1>1, <1>4, <1>7, <2>1, <3>1, <3>2, <3>3 DEF Slots
    <3>4. CASE i # b.in_offs + 1
      <4>1. i \in 1 .. ValidEntries(b) /\ i - 1 # b.in_offs
        BY <1>1, <2>1, <3>4 DEF Slots
      <4>2. long[i] = b.entry[i - 1]
        BY <1>7, <2>2, <3>1, <4>1
      <4>3. QED
        BY <1>4, <3>1, <3>2, <4>1, <4>2
    <3>5. QED
      BY <3>3, <3>4
  <2>4. Contents(c) = long
    <3>1. Len(Contents(c)) = Len(long) /\ Len(long) = b.in_offs + 1
      BY <1>6, <1>7, <2>1
    <3>2. QED
      BY <1>6, <1>7, <2>3, <3>1
  <2>5. Len(long) <= Capacity
    BY <1>1, <1>7, <2>1, CapacityAssumption DEF Slots
  <2>6. QED
    BY <2>4, <2>5 DEF Latest
<1>9. ASSUME b.full PROVE Contents(c) = Latest(long)
  <2>1. /\ b.in_offs = b.out_offs /\ c.full
        /\ ValidEntries(b) = Capacity /\ ValidEntries(c) = Capacity
        /\ c.out_offs = IF b.out_offs + 1 = Capacity THEN 0 ELSE b.out_offs + 1
    BY <1>1, <1>2, <1>5, <1>6, <1>9, NextSlotWraps DEF WellFormed
  <2>2. ASSUME NEW i \in 1 .. Capacity
        PROVE  Contents(c)[i] = long[i + 1]
    <3>1. i - 1 \in 0 .. Capacity - 1
      BY CapacityAssumption
    <3>2. /\ SlotAfter(c, i - 1) \in Slots
          /\ SlotAfter(c, i - 1) = IF c.out_offs + (i - 1) < Capacity
                                   THEN c.out_offs + (i - 1)
                                   ELSE c.out_offs + (i - 1) - Capacity
      BY <1>4, <3>1, SlotAfterWraps
    <3>3. CASE i = Capacity
      <4>1. SlotAfter(c, i - 1) = b.in_offs
        BY <1>1, <2>1, <3>2, <3>3, CapacityAssumption DEF Slots
      <4>2. QED
        BY <1>1, <1>4, <1>6, <1>7, <2>1, <3>3, <4>1, CapacityAssumption
    <3>4. CASE i < Capacity
      <4>1. i \in 0 .. Capacity - 1
        BY <3>4, CapacityAssumption
      <4>2. SlotAfter(b, i) = IF b.out_offs + i < Capacity
                              THEN b.out_offs + i ELSE b.out_offs + i - Capacity
        BY <1>1, <4>1, SlotAfterWraps
      <4>3. SlotAfter(c, i - 1) = SlotAfter(b, i) /\ SlotAfter(b, i) # b.in_offs
        <5>1. CASE b.out_offs + 1 = Capacity
          BY <1>1, <2>1, <3>2, <3>4, <4>2, <5>1, CapacityAssumption DEF Slots
        <5>2. CASE b.out_offs + 1 # Capacity
          BY <1>1, <2>1, <3>2, <3>4, <4>2, <5>2, CapacityAssumption DEF Slots
        <5>3. QED
          BY <5>1, <5>2
      <4>4. Contents(c)[i] = b.entry[SlotAfter(b, i)]
        BY <1>4, <1>6, <2>1, <3>2, <4>3
      <4>5. i + 1 \in 1 .. ValidEntries(b) /\ (i + 1) - 1 = i
        BY <2>1, <3>4, CapacityAssumption
      <4>6. long[i + 1] = b.entry[SlotAfter(b, i)]
        BY <1>7, <4>5
      <4>7. QED
        BY <4>4, <4>6
    <3>5. QED
      BY <3>3, <3>4, CapacityAssumption
  <2>3. Contents(c) = SubSeq(long, 2, Capacity + 1)
    BY <1>6, <1>7, <2>1, <2>2, CapacityAssumption
  <2>4. QED
    BY <1>7, <2>1, <2>3, CapacityAssumption DEF Latest
<1>10. QED
  BY <1>1, <1>8, <1>9 DEF c, long

(***************************************************************************)
(* The newest of the remembered elements is the one just added.            *)
(***************************************************************************)
LEMMA NewestEndsWithNewElement ==
  ASSUME NEW S, NEW s \in Seq(S), NEW e \in S
  PROVE  LET n == Latest(Append(s, e))
         IN  n # << >> /\ n[Len(n)] = e
<1> DEFINE long == Append(s, e)
           n    == Latest(long)
<1>1. /\ long \in Seq(S) /\ Len(long) = Len(s) + 1 /\ long[Len(long)] = e
      /\ Len(s) \in Nat
  OBVIOUS
<1>2. ASSUME Len(long) <= Capacity
      PROVE  n # << >> /\ n[Len(n)] = e
  <2>1. n = long
    BY <1>2 DEF Latest
  <2>2. QED
    BY <1>1, <2>1
<1>3. ASSUME ~(Len(long) <= Capacity)
      PROVE  n # << >> /\ n[Len(n)] = e
  <2>1. n = SubSeq(long, Len(long) - Capacity + 1, Len(long))
    BY <1>3 DEF Latest
  <2> HIDE DEF long, n
  <2>2. Len(long) - Capacity + 1 \in 1 .. Len(long) /\ Len(long) \in Nat
    BY <1>1, <1>3, CapacityAssumption
  <2>3. Len(n) = Capacity
    BY <1>1, <2>1, <2>2, CapacityAssumption
  <2>4. n[Capacity] = long[Len(long)]
    BY <1>1, <2>1, <2>2, CapacityAssumption
  <2>5. n # << >>
    BY <2>3, CapacityAssumption
  <2>6. QED
    BY <1>1, <2>3, <2>4, <2>5
<1>4. QED
  BY <1>2, <1>3

-----------------------------------------------------------------------------
(***************************************************************************)
(* The search.  Its running sum of entry sizes is the length of what the   *)
(* entries passed so far hold, byte by byte.                               *)
(***************************************************************************)
LEMMA InOrderIsSeq ==
  ASSUME NEW B, NEW E, E \subseteq Seq(B), NEW b \in Buffers(E)
  PROVE  InOrder(b) \in Seq(Seq(B)) /\ Len(InOrder(b)) = Capacity
<1>1. b.entry \in [Slots -> E \cup {ZeroSlot}] /\ b.out_offs \in Slots
  BY DEF Buffers
<1>2. ZeroSlot \in Seq(B)
  BY DEF ZeroSlot
<1>3. ASSUME NEW j \in 1 .. Capacity PROVE b.entry[SlotAfter(b, j - 1)] \in Seq(B)
  <2>1. j - 1 \in 0 .. Capacity - 1
    BY CapacityAssumption
  <2>2. SlotAfter(b, j - 1) \in Slots
    BY <1>1, <2>1, SlotAfterWraps
  <2>3. QED
    BY <1>1, <1>2, <2>2
<1> DEFINE T == Seq(B)
<1>4. \A j \in 1 .. Capacity : b.entry[SlotAfter(b, j - 1)] \in T
  BY <1>3
<1> HIDE DEF T
<1>5. InOrder(b) \in Seq(T) /\ Len(InOrder(b)) = Capacity
  BY <1>4, CapacityAssumption DEF InOrder
<1>6. QED
  BY <1>5 DEF T

LEMMA PassedIsBytes ==
  ASSUME NEW B, NEW E, E \subseteq Seq(B), NEW b \in Buffers(E), NEW i \in 0 .. Capacity
  PROVE  Passed(b, i) \in Seq(B)
<1> DEFINE s     == InOrder(b)
           front == SubSeq(s, 1, i)
           T     == Seq(B)
<1>1. s \in Seq(T) /\ Len(s) = Capacity
  BY InOrderIsSeq
<1> HIDE DEF s, T
<1>2. front \in Seq(T)
  BY <1>1, CapacityAssumption
<1> HIDE DEF front
<1>3. << >> \in Seq(B)
  OBVIOUS
<1>4. FlattenSeq(front) \in Seq(B)
  BY <1>2, <1>3, FlattenAppend DEF T
<1>5. QED
  BY <1>4 DEF Passed, front, s

\* bytes_searched is the length of what has been passed.
LEMMA BytesBeforeIs ==
  ASSUME NEW B, NEW E, E \subseteq Seq(B), NEW b \in Buffers(E)
  PROVE  \A i \in 0 .. Capacity : BytesBefore(b)[i] = Len(Passed(b, i))
<1> DEFINE s      == InOrder(b)
           sum(f) == f = [i \in 0 .. Capacity |->
                            IF i = 0 THEN 0 ELSE f[i - 1] + Len(b.entry[SlotAfter(b, i - 1)])]
           bytes  == BytesBefore(b)
<1>1. s \in Seq(Seq(B)) /\ Len(s) = Capacity
  BY InOrderIsSeq
<1>2. ASSUME NEW f PROVE sum(f) <=> Sums(s, f)
  <2>1. ASSUME NEW i \in 0 .. Capacity
        PROVE  (IF i = 0 THEN 0 ELSE f[i - 1] + Len(b.entry[SlotAfter(b, i - 1)]))
                 = (IF i = 0 THEN 0 ELSE f[i - 1] + Len(s[i]))
    <3>1. i # 0 => i \in 1 .. Capacity
      BY CapacityAssumption
    <3>2. QED
      BY <3>1 DEF InOrder
  <2> HIDE DEF s
  <2>2. QED
    BY <1>1, <2>1 DEF Sums
<1>3. bytes = CHOOSE f : sum(f)
  BY DEF BytesBefore
<1> HIDE DEF s, sum, bytes
<1>4. \E f : sum(f)
  BY <1>1, <1>2, SumsAreLengths
<1>5. Sums(s, bytes)
  BY <1>2, <1>3, <1>4
<1>6. \A i \in 0 .. Len(s) : bytes[i] = Len(FlattenSeq(SubSeq(s, 1, i)))
  BY <1>1, <1>5, SumsAreLengths
<1>7. QED
  BY <1>1, <1>6 DEF Passed, s, bytes

(***************************************************************************)
(* In a well-formed buffer what the first ValidEntries rounds pass is the  *)
(* contents; an entry's bytes start at the sum before it.                  *)
(***************************************************************************)
LEMMA EntryBytes ==
  ASSUME NEW B, NEW E, E \subseteq Seq(B), NEW b \in Buffers(E), WellFormed(b)
  PROVE  EntriesInPlace(B, b)
<1> DEFINE s     == Contents(b)
           flat  == FlattenSeq(s)
           bytes == BytesBefore(b)
           n     == ValidEntries(b)
<1>1. /\ n \in 0 .. Capacity /\ Len(s) = n
      /\ \A i \in 1 .. n : s[i] = b.entry[SlotAfter(b, i - 1)]
      /\ s \in Seq(E \cup {ZeroSlot})
  BY ContentsIsSeq
<1>2. s \in Seq(Seq(B))
  <2> DEFINE T == Seq(B)
  <2>4. ZeroSlot \in T
    BY DEF ZeroSlot
  <2>1. E \cup {ZeroSlot} \subseteq T
    BY <2>4, Zenon
  <2> HIDE DEF T, s
  <2>2. s \in Seq(T)
    BY <1>1, <2>1
  <2>3. QED
    BY <2>2 DEF T
<1>3. flat \in Seq(B)
  <2>1. << >> \in Seq(B)
    OBVIOUS
  <2> HIDE DEF s
  <2>2. QED
    BY <1>2, <2>1, FlattenAppend
<1>4. ASSUME NEW i \in 0 .. n PROVE Passed(b, i) = FlattenSeq(SubSeq(s, 1, i))
  <2> DEFINE long == InOrder(b)
             T    == Seq(B)
  <2>1. /\ long \in Seq(T) /\ Len(long) = Capacity
        /\ \A j \in 1 .. Capacity : long[j] = b.entry[SlotAfter(b, j - 1)]
    BY InOrderIsSeq DEF InOrder
  <2>2. s \in Seq(T)
    BY <1>2
  <2> HIDE DEF s, long, T, n
  <2>3. \A j \in 1 .. i : s[j] = long[j]
    BY <1>1, <2>1
  <2>4. SubSeq(long, 1, i) = SubSeq(s, 1, i)
    <3>1. i \in Nat /\ i <= Len(s) /\ i <= Len(long)
      BY <1>1, <2>1
    <3>2. QED
      BY <2>1, <2>2, <2>3, <3>1, SameStart
  <2>5. QED
    BY <2>4 DEF Passed, long
<1>5. ASSUME NEW i \in 0 .. n PROVE bytes[i] = Len(FlattenSeq(SubSeq(s, 1, i)))
  <2>1. i \in 0 .. Capacity
    <3>1. n \in 0 .. Capacity
      BY <1>1
    <3> HIDE DEF n
    <3>2. QED
      BY <3>1, CapacityAssumption
  <2>2. bytes[i] = Len(Passed(b, i))
    BY <2>1, BytesBeforeIs
  <2>3. QED
    BY <1>4, <2>2
<1> HIDE DEF s, bytes, n
<1>6. bytes[0] = 0 /\ bytes[n] = Len(flat)
  <2>1. SubSeq(s, 1, 0) = << >> /\ SubSeq(s, 1, n) = s /\ 0 \in 0 .. n /\ n \in 0 .. n
    BY <1>1, <1>2
  <2>2. bytes[0] = Len(FlattenSeq(<< >>)) /\ bytes[n] = Len(FlattenSeq(s))
    BY <1>5, <2>1
  <2>3. Len(FlattenSeq(<< >>)) = 0
    BY FlattenEmpty
  <2>4. QED
    BY <2>2, <2>3
<1>7. ASSUME NEW i \in 0 .. n - 1
      PROVE  /\ s[i + 1] \in Seq(B) /\ bytes[i] \in Nat
             /\ bytes[i + 1] = bytes[i] + Len(s[i + 1])
             /\ bytes[i + 1] <= Len(flat)
             /\ \A k \in 1 .. Len(s[i + 1]) : flat[bytes[i] + k] = s[i + 1][k]
  <2> DEFINE j == i + 1
  <2>1. j \in 1 .. Len(s) /\ j - 1 = i /\ j - 1 \in 0 .. n /\ j \in 0 .. n
    BY <1>1
  <2> HIDE DEF j
  <2>2. LET start == Len(FlattenSeq(SubSeq(s, 1, j - 1)))
            end   == Len(FlattenSeq(SubSeq(s, 1, j)))
        IN  /\ start \in Nat /\ Len(s[j]) \in Nat /\ end = start + Len(s[j])
            /\ end <= Len(FlattenSeq(s))
            /\ \A k \in 1 .. Len(s[j]) : FlattenSeq(s)[start + k] = s[j][k]
    BY <1>2, <2>1, FlattenPieces
  <2>3. bytes[j - 1] = Len(FlattenSeq(SubSeq(s, 1, j - 1)))
        /\ bytes[j] = Len(FlattenSeq(SubSeq(s, 1, j)))
    BY <1>5, <2>1
  <2>4. s[j] \in Seq(B)
    BY <1>2, <2>1
  <2>5. /\ s[j] \in Seq(B) /\ bytes[j - 1] \in Nat
        /\ bytes[j] = bytes[j - 1] + Len(s[j]) /\ bytes[j] <= Len(flat)
        /\ \A k \in 1 .. Len(s[j]) : flat[bytes[j - 1] + k] = s[j][k]
    BY <2>2, <2>3, <2>4
  <2> HIDE DEF flat
  <2>6. QED
    BY <2>1, <2>5 DEF j
<1>8. ASSUME NEW i \in 0 .. n PROVE bytes[i] \in 0 .. Len(flat)
  <2>1. Len(flat) \in Nat
    BY <1>3
  <2>2. CASE i = 0
    BY <1>6, <2>1, <2>2
  <2>3. CASE i # 0
    <3>1. i - 1 \in 0 .. n - 1 /\ (i - 1) + 1 = i
      BY <1>1, <2>3
    <3>2. /\ bytes[i - 1] \in Nat /\ Len(s[i]) \in Nat
          /\ bytes[i] = bytes[i - 1] + Len(s[i]) /\ bytes[i] <= Len(flat)
      <4>1. s[i] \in Seq(B)
        BY <1>7, <3>1
      <4>2. Len(s[i]) \in Nat
        BY <4>1
      <4>3. QED
        BY <1>7, <3>1, <4>2
    <3>3. QED
      BY <2>1, <3>2
  <2>4. QED
    BY <2>2, <2>3
<1>9. ASSUME NEW i \in 0 .. n - 1 PROVE s[i + 1] = b.entry[SlotAfter(b, i)]
  <2>1. i + 1 \in 1 .. n /\ (i + 1) - 1 = i
    BY <1>1
  <2>2. QED
    BY <1>1, <2>1
<1> HIDE DEF flat
<1>10. ASSUME NEW i \in 0 .. n - 1
       PROVE  LET entry == b.entry[SlotAfter(b, i)]
              IN  /\ entry \in Seq(B) /\ bytes[i + 1] = bytes[i] + Len(entry)
                  /\ \A k \in 1 .. Len(entry) : flat[bytes[i] + k] = entry[k]
  BY <1>7, <1>9
<1>11. QED
  BY <1>1, <1>2, <1>3, <1>5, <1>6, <1>8, <1>10 DEF flat, s, bytes, n, EntriesInPlace

(***************************************************************************)
(* aesd_circular_buffer_find_entry_offset_for_fpos returns NULL from the   *)
(* end of the contents on, and below it an entry and an offset in it.      *)
(***************************************************************************)
LEMMA FindIs ==
  ASSUME NEW B, NEW E, E \subseteq Seq(B), NEW b \in Buffers(E), WellFormed(b),
         NEW off \in Nat
  PROVE  FindsTheByte(B, b, off)
<1> DEFINE flat     == FlattenSeq(Contents(b))
           bytes    == BytesBefore(b)
           n        == ValidEntries(b)
           found    == aesd_circular_buffer_find_entry_offset_for_fpos(b, off)
           entry(i) == b.entry[SlotAfter(b, i)]
           hits     == {i \in 0 .. n - 1 : off < bytes[i + 1]}
<1>1. /\ flat \in Seq(B) /\ n \in 0 .. Capacity
      /\ bytes[0] = 0 /\ bytes[n] = Len(flat)
      /\ \A i \in 0 .. n : bytes[i] \in 0 .. Len(flat)
      /\ \A i \in 0 .. n - 1 :
           /\ entry(i) \in Seq(B) /\ bytes[i + 1] = bytes[i] + Len(entry(i))
           /\ \A k \in 1 .. Len(entry(i)) : flat[bytes[i] + k] = entry(i)[k]
  <2>1. EntriesInPlace(B, b)
    BY EntryBytes
  <2>2. QED
    BY <2>1 DEF EntriesInPlace
<1>2. found = IF hits = {} THEN NoEntry
              ELSE [slot |-> SlotAfter(b, Min(hits)), offset |-> off - bytes[Min(hits)]]
  BY DEF aesd_circular_buffer_find_entry_offset_for_fpos
<1> HIDE DEF flat, bytes, n, found, entry
<1>3. Len(flat) \in Nat /\ n \in Nat
  BY <1>1
<1>4. ASSUME off >= Len(flat) PROVE found = NoEntry
  <2>1. ASSUME NEW i \in 0 .. n - 1 PROVE ~(off < bytes[i + 1])
    <3>1. i + 1 \in 0 .. n
      BY <1>3
    <3>2. bytes[i + 1] \in 0 .. Len(flat)
      BY <1>1, <3>1
    <3>3. QED
      BY <1>3, <1>4, <3>2
  <2>2. hits = {}
    BY <2>1
  <2>3. QED
    BY <1>2, <2>2
<1>5. ASSUME off < Len(flat)
      PROVE  \E i \in 0 .. n - 1 :
               /\ found = [slot |-> SlotAfter(b, i), offset |-> off - bytes[i]]
               /\ entry(i) \in Seq(B)
               /\ bytes[i] \in Nat /\ bytes[i] <= off /\ off < bytes[i] + Len(entry(i))
               /\ bytes[i] + Len(entry(i)) <= Len(flat)
               /\ \A k \in 1 .. Len(entry(i)) : flat[bytes[i] + k] = entry(i)[k]
  <2>1. n - 1 \in hits
    <3>1. n # 0
      BY <1>1, <1>3, <1>5
    <3>2. n - 1 \in 0 .. n - 1 /\ (n - 1) + 1 = n
      BY <1>3, <3>1
    <3>3. QED
      BY <1>1, <1>5, <3>2
  <2> DEFINE m == Min(hits)
  <2>2. m \in hits /\ \A i \in hits : m <= i
    <3>1. hits \subseteq Nat /\ hits # {}
      BY <2>1
    <3> HIDE DEF hits
    <3>2. QED
      BY <3>1, MinOfNaturals
  <2>3. found = [slot |-> SlotAfter(b, m), offset |-> off - bytes[m]]
    BY <1>2, <2>1
  <2> HIDE DEF m
  <2>4. m \in 0 .. n - 1 /\ off < bytes[m + 1]
    BY <2>2
  <2>5. bytes[m] <= off
    <3>1. CASE m = 0
      BY <1>1, <3>1
    <3>2. CASE m # 0
      <4>1. m - 1 \in 0 .. n - 1 /\ (m - 1) + 1 = m /\ ~(m <= m - 1)
        BY <1>3, <2>4, <3>2
      <4>2. m - 1 \notin hits
        BY <2>2, <4>1
      <4>3. ~(off < bytes[m])
        BY <4>1, <4>2
      <4>4. bytes[m] \in 0 .. Len(flat)
        <5>1. m \in 0 .. n
          BY <1>3, <2>4
        <5>2. QED
          BY <1>1, <5>1
      <4>5. QED
        BY <4>3, <4>4, <1>3
    <3>3. QED
      BY <3>1, <3>2
  <2>6. /\ bytes[m] \in 0 .. Len(flat) /\ bytes[m + 1] \in 0 .. Len(flat)
        /\ bytes[m + 1] = bytes[m] + Len(entry(m)) /\ entry(m) \in Seq(B)
    <3>1. m \in 0 .. n /\ m + 1 \in 0 .. n
      BY <1>3, <2>4
    <3>2. QED
      BY <1>1, <2>4, <3>1
  <2>7. \A k \in 1 .. Len(entry(m)) : flat[bytes[m] + k] = entry(m)[k]
    BY <1>1, <2>4
  <2>8. /\ bytes[m] \in Nat /\ off < bytes[m] + Len(entry(m))
        /\ bytes[m] + Len(entry(m)) <= Len(flat)
    BY <1>3, <2>4, <2>6
  <2>9. QED
    BY <2>3, <2>4, <2>5, <2>6, <2>7, <2>8
<1>6. QED
  BY <1>1, <1>4, <1>5 DEF flat, bytes, n, found, entry, FindsTheByte

-----------------------------------------------------------------------------
(***************************************************************************)
(* Every reachable buffer is well-typed and has the shape that the search, *)
(* aesd_llseek and aesd_ioctl rely on.                                     *)
(***************************************************************************)
THEOREM ShapeHolds == Spec => [](TypeOK /\ RingShape)
<1>1. Init => TypeOK /\ RingShape
  BY InitShape DEF Init, TypeOK, RingShape
<1>2. TypeOK /\ RingShape /\ [Next]_buffer => (TypeOK /\ RingShape)'
  <2> SUFFICES ASSUME TypeOK, RingShape, [Next]_buffer
               PROVE  (TypeOK /\ RingShape)'
    OBVIOUS
  <2>1. CASE Reinitialise
    BY <2>1, InitShape DEF Reinitialise, TypeOK, RingShape
  <2>2. ASSUME NEW e \in Entries, AddEntry(e)
        PROVE  (TypeOK /\ RingShape)'
    <3>1. /\ buffer \in Buffers(Entries) /\ WellFormed(buffer)
          /\ buffer' = aesd_circular_buffer_add_entry(buffer, e)
      BY <2>2 DEF AddEntry, TypeOK, RingShape
    <3>2. /\ aesd_circular_buffer_add_entry(buffer, e) \in Buffers(Entries)
          /\ WellFormed(aesd_circular_buffer_add_entry(buffer, e))
      BY <3>1, AddEntryFields, AddEntryShape
    <3>3. QED
      BY <3>1, <3>2 DEF TypeOK, RingShape
  <2>3. CASE UNCHANGED buffer
    BY <2>3 DEF TypeOK, RingShape
  <2>4. QED
    BY <2>1, <2>2, <2>3 DEF Next
<1>3. QED
  BY <1>1, <1>2, PTL DEF Spec

(***************************************************************************)
(* The search returns the entry and the offset in it of the very byte that *)
(* char_offset names in all entries "concatenated end to end", wherever    *)
(* the ring begins, and NULL exactly from the end of the contents on.      *)
(***************************************************************************)
THEOREM FindsEveryByte == Spec => []FindAgreesWithConcatenation
<1>1. TypeOK /\ RingShape => FindAgreesWithConcatenation
  <2> SUFFICES ASSUME TypeOK, RingShape PROVE FindAgreesWithConcatenation
    OBVIOUS
  <2> DEFINE B    == UNION {Range(e) : e \in Entries}
             flat == FlattenSeq(Contents(buffer))
             find(off) == aesd_circular_buffer_find_entry_offset_for_fpos(buffer, off)
  <2>1. Entries \subseteq Seq(B)
    <3> SUFFICES ASSUME NEW e \in Entries PROVE e \in Seq(B)
      OBVIOUS
    <3>1. e \in Seq(Range(e)) /\ Range(e) \subseteq B
      BY EntriesAreSequences
    <3> HIDE DEF B
    <3>2. QED
      BY <3>1
  <2>2. buffer \in Buffers(Entries) /\ WellFormed(buffer)
    BY DEF TypeOK, RingShape
  <2> HIDE DEF B
  <2>3. ASSUME NEW off \in Nat PROVE FindsTheByte(B, buffer, off)
    BY <2>1, <2>2, FindIs
  <2>4. Len(flat) \in Nat
    <3>1. FindsTheByte(B, buffer, 0)
      BY <2>3
    <3>2. flat \in Seq(B)
      BY <3>1 DEF FindsTheByte
    <3> HIDE DEF flat
    <3>3. QED
      BY <3>2
  <2>5. ASSUME NEW off \in Nat
        PROVE  IF off >= Len(flat) THEN find(off) = NoEntry
               ELSE /\ find(off) # NoEntry
                    /\ find(off).offset + 1 \in DOMAIN buffer.entry[find(off).slot]
                    /\ buffer.entry[find(off).slot][find(off).offset + 1] = flat[off + 1]
    <3> DEFINE found == find(off)
    <3>1. FindsTheByte(B, buffer, off)
      BY <2>3
    <3>2. off >= Len(flat) => found = NoEntry
      BY <3>1 DEF FindsTheByte
    <3>3. ASSUME off < Len(flat)
          PROVE  /\ found # NoEntry
                 /\ found.offset + 1 \in DOMAIN buffer.entry[found.slot]
                 /\ buffer.entry[found.slot][found.offset + 1] = flat[off + 1]
      <4> DEFINE start(i) == BytesBefore(buffer)[i]
                 entry(i) == buffer.entry[SlotAfter(buffer, i)]
      <4>1. PICK i \in 0 .. ValidEntries(buffer) - 1 :
              /\ found = [slot |-> SlotAfter(buffer, i), offset |-> off - start(i)]
              /\ entry(i) \in Seq(B)
              /\ start(i) \in Nat /\ start(i) <= off /\ off < start(i) + Len(entry(i))
              /\ \A k \in 1 .. Len(entry(i)) : flat[start(i) + k] = entry(i)[k]
        BY <3>1, <3>3 DEF FindsTheByte
      <4> DEFINE k == (off - start(i)) + 1
      <4>2. SlotAfter(buffer, i) \in Slots
        <5>1. ValidEntries(buffer) \in 0 .. Capacity
          BY <2>2, ContentsIsSeq
        <5>2. i \in 0 .. Capacity - 1 /\ buffer.out_offs \in Slots
          BY <2>2, <5>1, CapacityAssumption DEF Buffers
        <5>3. QED
          BY <5>2, SlotAfterWraps
      <4> HIDE DEF flat, found, start
      <4>3. k \in 1 .. Len(entry(i)) /\ start(i) + k = off + 1
        BY <4>1
      <4>4. found.slot = SlotAfter(buffer, i) /\ found.offset + 1 = k
        BY <4>1
      <4>5. found # NoEntry
        BY <4>2, <4>4 DEF NoEntry, Slots
      <4>6. DOMAIN entry(i) = 1 .. Len(entry(i))
        BY <4>1
      <4> HIDE DEF k
      <4>7. buffer.entry[found.slot] = entry(i)
        BY <4>4
      <4> HIDE DEF entry
      <4>8. flat[off + 1] = entry(i)[k]
        BY <4>1, <4>3
      <4>9. QED
        BY <4>3, <4>4, <4>5, <4>6, <4>7, <4>8
    <3> HIDE DEF flat, find
    <3>4. off >= Len(flat) \/ off < Len(flat)
      BY <2>4
    <3>5. QED
      BY <3>2, <3>3, <3>4
  <2> HIDE DEF flat, find
  <2>6. \A off \in 0 .. Len(flat) + 1 : off \in Nat
    OBVIOUS
  <2>7. QED
    BY <2>5, <2>6 DEF FindAgreesWithConcatenation, flat, find
<1>2. QED
  BY <1>1, ShapeHolds, PTL

(***************************************************************************)
(* The buffer implements RecentWrites, for every capacity that fits the    *)
(* uint8_t indices and every set of entries: no sequence of calls can lose *)
(* an entry that is not the oldest, reorder two, or drop one too early.    *)
(***************************************************************************)
THEOREM BufferRemembers == Spec => ImplementsRecentWrites
<1>1. Init => History!Init
  BY InitShape DEF Init, History!Init
<1>2. TypeOK /\ RingShape /\ [Next]_buffer => [History!Next]_(Contents(buffer))
  <2> SUFFICES ASSUME TypeOK, RingShape, [Next]_buffer
               PROVE  History!Next \/ UNCHANGED Contents(buffer)
    OBVIOUS
  <2>1. CASE Reinitialise
    <3>1. Contents(buffer)' = << >>
      BY <2>1, InitShape DEF Reinitialise
    <3>2. QED
      BY <3>1 DEF History!Next, History!Forget
  <2>2. ASSUME NEW e \in Entries, AddEntry(e)
        PROVE  History!Next
    <3>1. Contents(buffer)' = Latest(Append(Contents(buffer), e))
      BY <2>2, AddEntryRemembers DEF AddEntry, TypeOK, RingShape
    <3>2. Contents(buffer) \in Seq(Entries \cup {ZeroSlot})
      BY ContentsIsSeq DEF TypeOK, RingShape
    <3>3. /\ Contents(buffer)' # << >>
          /\ Contents(buffer)'[Len(Contents(buffer)')] = e
      BY <3>1, <3>2, NewestEndsWithNewElement
    <3>4. QED
      BY <3>1, <3>3 DEF History!Next, History!Remember, History!Newest, Latest
  <2>3. CASE UNCHANGED buffer
    BY <2>3
  <2>4. QED
    BY <2>1, <2>2, <2>3 DEF Next
<1>3. QED
  BY <1>1, <1>2, ShapeHolds, PTL DEF Spec, ImplementsRecentWrites, History!Spec
=============================================================================
