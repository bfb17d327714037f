--------------------------- MODULE AesdCharProofs ---------------------------
(***************************************************************************)
(* For every set of processes, files, payloads and arguments, with and     *)
(* without allocation failures: the lock is held by exactly the handler    *)
(* that works under it, the ring keeps its shape, the driver implements    *)
(* RecentWrites, positions are never negative, and reads and seeks agree   *)
(* on where a byte is.  Then, with the history: no byte that was written   *)
(* is lost as long as no allocation fails, and files are read in order.    *)
(***************************************************************************)
EXTENDS AesdCharHistory, CircularBufferViews, DataLemmas

(***************************************************************************)
(* What is proved of the functions of aesd-circular-buffer.c in a module   *)
(* of their own.  Those lemmas are about any buffer value: what stands     *)
(* here for the buffer and the entries of that module plays no part.       *)
(***************************************************************************)
Ring == INSTANCE CircularBufferProofs WITH Entries <- {}, buffer <- circ_buffer

LEMMA RingMeets == Ring!CapacityAssumption /\ Ring!EntriesAreSequences
  BY CapacityAssumption DEF Ring!CapacityAssumption, Ring!EntriesAreSequences

\* CircularBufferOps and CircularBufferViews are the same modules there.
LEMMA SameValues ==
  /\ Ring!Slots = Slots /\ Ring!ZeroSlot = ZeroSlot
  /\ \A i : Ring!NextSlot(i) = NextSlot(i)
  /\ \A b, i : Ring!SlotAfter(b, i) = SlotAfter(b, i)
  /\ \A s : Ring!Latest(s) = Latest(s)
<1>1. Ring!Slots = Slots /\ Ring!ZeroSlot = ZeroSlot
  BY DEF Ring!Slots, Slots, Ring!ZeroSlot, ZeroSlot
<1>2. /\ \A i : Ring!NextSlot(i) = NextSlot(i)
      /\ \A b, i : Ring!SlotAfter(b, i) = SlotAfter(b, i)
  BY DEF Ring!NextSlot, NextSlot, Ring!SlotAfter, SlotAfter
<1>3. \A s : Ring!Latest(s) = Latest(s)
  BY DEF Ring!Latest, Latest
<1>4. QED
  BY <1>1, <1>2, <1>3

LEMMA SameBuffers ==
  /\ \A E : Ring!Buffers(E) = Buffers(E)
  /\ Ring!aesd_circular_buffer_init = aesd_circular_buffer_init
  /\ \A b : Ring!WellFormed(b) <=> WellFormed(b)
<1>1. \A E : Ring!Buffers(E) = Buffers(E)
  BY DEF Ring!Buffers, Buffers, Ring!Slots, Slots, Ring!ZeroSlot, ZeroSlot
<1>2. Ring!aesd_circular_buffer_init = aesd_circular_buffer_init
  BY DEF Ring!aesd_circular_buffer_init, aesd_circular_buffer_init,
         Ring!Slots, Slots, Ring!ZeroSlot, ZeroSlot
<1>3. \A b : Ring!WellFormed(b) <=> WellFormed(b)
  BY DEF Ring!WellFormed, WellFormed, Ring!Slots, Slots, Ring!ZeroSlot, ZeroSlot
<1>4. QED
  BY <1>1, <1>2, <1>3

LEMMA SameCalls ==
  ASSUME NEW b
  PROVE  /\ \A e : Ring!aesd_circular_buffer_add_entry(b, e)
                    = aesd_circular_buffer_add_entry(b, e)
         /\ Ring!ValidEntries(b) = ValidEntries(b)
         /\ Ring!Contents(b) = Contents(b)
         /\ Ring!BytesBefore(b) = BytesBefore(b)
         /\ \A i : Ring!Passed(b, i) = Passed(b, i)
<1>1. \A e : Ring!aesd_circular_buffer_add_entry(b, e)
               = aesd_circular_buffer_add_entry(b, e)
  BY DEF Ring!aesd_circular_buffer_add_entry, aesd_circular_buffer_add_entry,
         Ring!NextSlot, NextSlot
<1>2. Ring!ValidEntries(b) = ValidEntries(b) /\ Ring!Contents(b) = Contents(b)
  BY DEF Ring!Contents, Contents, Ring!ValidEntries, ValidEntries,
         Ring!SlotAfter, SlotAfter
<1>3. Ring!BytesBefore(b) = BytesBefore(b)
  BY DEF Ring!BytesBefore, BytesBefore, Ring!SlotAfter, SlotAfter
<1>4. \A i : Ring!Passed(b, i) = Passed(b, i)
  BY DEF Ring!Passed, Passed, Ring!InOrder, InOrder, Ring!SlotAfter, SlotAfter,
         Ring!FlattenSeq, FlattenSeq
<1>5. QED
  BY <1>1, <1>2, <1>3, <1>4

LEMMA SameSearch ==
  ASSUME NEW B, NEW b
  PROVE  /\ Ring!EntriesInPlace(B, b) <=> EntriesInPlace(B, b)
         /\ \A off : Ring!FindsTheByte(B, b, off) <=> FindsTheByte(B, b, off)
<1>1. Ring!EntriesInPlace(B, b) <=> EntriesInPlace(B, b)
  BY DEF Ring!EntriesInPlace, EntriesInPlace, Ring!Contents, Contents,
         Ring!ValidEntries, ValidEntries, Ring!BytesBefore, BytesBefore,
         Ring!SlotAfter, SlotAfter, Ring!FlattenSeq, FlattenSeq
<1>2. ASSUME NEW off
      PROVE  Ring!FindsTheByte(B, b, off) <=> FindsTheByte(B, b, off)
  BY DEF Ring!FindsTheByte, FindsTheByte, Ring!Contents, Contents,
         Ring!ValidEntries, ValidEntries, Ring!BytesBefore, BytesBefore,
         Ring!SlotAfter, SlotAfter, Ring!FlattenSeq, FlattenSeq,
         Ring!NoEntry, NoEntry, Ring!Min, Min,
         Ring!aesd_circular_buffer_find_entry_offset_for_fpos,
         aesd_circular_buffer_find_entry_offset_for_fpos
<1>3. QED
  BY <1>1, <1>2

(***************************************************************************)
(* The lemmas about the ring that the driver's proofs use.                 *)
(***************************************************************************)
LEMMA WrapOnce ==
  ASSUME NEW i \in 0 .. 2 * Capacity - 1
  PROVE  i % Capacity = IF i < Capacity THEN i ELSE i - Capacity
  BY RingMeets, Ring!WrapOnce

LEMMA NextSlotWraps ==
  ASSUME NEW i \in Slots
  PROVE  /\ NextSlot(i) \in Slots
         /\ NextSlot(i) = IF i + 1 = Capacity THEN 0 ELSE i + 1
  BY RingMeets, SameValues, Ring!NextSlotWraps

LEMMA SlotAfterWraps ==
  ASSUME NEW b, b.out_offs \in Slots, NEW i \in 0 .. Capacity - 1
  PROVE  /\ SlotAfter(b, i) \in Slots
         /\ SlotAfter(b, i) = IF b.out_offs + i < Capacity
                              THEN b.out_offs + i
                              ELSE b.out_offs + i - Capacity
  BY RingMeets, SameValues, Ring!SlotAfterWraps

LEMMA InitShape ==
  ASSUME NEW E
  PROVE  /\ aesd_circular_buffer_init \in Buffers(E)
         /\ WellFormed(aesd_circular_buffer_init)
         /\ Contents(aesd_circular_buffer_init) = << >>
  BY RingMeets, SameBuffers, SameCalls, Ring!InitShape

LEMMA AddEntryFields ==
  ASSUME NEW E, NEW e \in E, NEW b \in Buffers(E), WellFormed(b)
  PROVE  LET c == aesd_circular_buffer_add_entry(b, e)
         IN  /\ c \in Buffers(E)
             /\ c.entry = [b.entry EXCEPT ![b.in_offs] = e]
             /\ c.in_offs = NextSlot(b.in_offs)
             /\ c.out_offs = IF b.full THEN NextSlot(b.out_offs) ELSE 0
             /\ c.full <=> (b.full \/ b.in_offs = Capacity - 1)
<1> DEFINE c == Ring!aesd_circular_buffer_add_entry(b, e)
<1>1. b \in Ring!Buffers(E) /\ Ring!WellFormed(b)
  BY SameBuffers
<1>2. /\ c \in Ring!Buffers(E)
      /\ c.entry = [b.entry EXCEPT ![b.in_offs] = e]
      /\ c.in_offs = Ring!NextSlot(b.in_offs)
      /\ c.out_offs = IF b.full THEN Ring!NextSlot(b.out_offs) ELSE 0
      /\ c.full <=> (b.full \/ b.in_offs = Capacity - 1)
  BY <1>1, RingMeets, Ring!AddEntryFields
<1>3. c = aesd_circular_buffer_add_entry(b, e)
  BY SameCalls
<1> HIDE DEF c
<1>4. QED
  BY <1>2, <1>3, SameValues, SameBuffers

LEMMA AddEntryShape ==
  ASSUME NEW E, NEW e \in E, NEW b \in Buffers(E), WellFormed(b)
  PROVE  WellFormed(aesd_circular_buffer_add_entry(b, e))
  BY RingMeets, SameBuffers, SameCalls, Ring!AddEntryShape

LEMMA ContentsIsSeq ==
  ASSUME NEW E, NEW b \in Buffers(E), WellFormed(b)
  PROVE  /\ ValidEntries(b) = IF b.full THEN Capacity ELSE b.in_offs
         /\ ValidEntries(b) \in 0 .. Capacity
         /\ Contents(b) \in Seq(E \cup {ZeroSlot})
         /\ Len(Contents(b)) = ValidEntries(b)
         /\ \A i \in 1 .. ValidEntries(b) :
              Contents(b)[i] = b.entry[SlotAfter(b, i - 1)]
<1>1. b \in Ring!Buffers(E) /\ Ring!WellFormed(b)
  BY SameBuffers
<1>2. /\ Ring!ValidEntries(b) = IF b.full THEN Capacity ELSE b.in_offs
      /\ Ring!ValidEntries(b) \in 0 .. Capacity
      /\ Ring!Contents(b) \in Seq(E \cup {Ring!ZeroSlot})
      /\ Len(Ring!Contents(b)) = Ring!ValidEntries(b)
      /\ \A i \in 1 .. Ring!ValidEntries(b) :
           Ring!Contents(b)[i] = b.entry[Ring!SlotAfter(b, i - 1)]
  BY <1>1, RingMeets, Ring!ContentsIsSeq
<1>3. Ring!ValidEntries(b) = ValidEntries(b) /\ Ring!Contents(b) = Contents(b)
  BY SameCalls
<1>4. QED
  BY <1>2, <1>3, SameValues

LEMMA AddEntryRemembers ==
  ASSUME NEW E, NEW e \in E, NEW b \in Buffers(E), WellFormed(b)
  PROVE  Contents(aesd_circular_buffer_add_entry(b, e))
           = Latest(Append(Contents(b), e))
<1>1. b \in Ring!Buffers(E) /\ Ring!WellFormed(b)
  BY SameBuffers
<1>2. Ring!Contents(Ring!aesd_circular_buffer_add_entry(b, e))
        = Ring!Latest(Append(Ring!Contents(b), e))
  BY <1>1, RingMeets, Ring!AddEntryRemembers
<1>3. QED
  BY <1>2, SameValues, SameCalls

LEMMA NewestEndsWithNewElement ==
  ASSUME NEW S, NEW s \in Seq(S), NEW e \in S
  PROVE  LET n == Latest(Append(s, e))
         IN  n # << >> /\ n[Len(n)] = e
  BY RingMeets, SameValues, Ring!NewestEndsWithNewElement

LEMMA PassedIsBytes ==
  ASSUME NEW B, NEW E, E \subseteq Seq(B), NEW b \in Buffers(E), NEW i \in 0 .. Capacity
  PROVE  Passed(b, i) \in Seq(B)
  BY RingMeets, SameBuffers, SameCalls, Ring!PassedIsBytes

LEMMA BytesBeforeIs ==
  ASSUME NEW B, NEW E, E \subseteq Seq(B), NEW b \in Buffers(E)
  PROVE  \A i \in 0 .. Capacity : BytesBefore(b)[i] = Len(Passed(b, i))
  BY RingMeets, SameBuffers, SameCalls, Ring!BytesBeforeIs

LEMMA EntryBytes ==
  ASSUME NEW B, NEW E, E \subseteq Seq(B), NEW b \in Buffers(E), WellFormed(b)
  PROVE  EntriesInPlace(B, b)
<1>1. b \in Ring!Buffers(E) /\ Ring!WellFormed(b)
  BY SameBuffers
<1>2. QED
  BY <1>1, RingMeets, SameSearch, Ring!EntryBytes

LEMMA FindIs ==
  ASSUME NEW B, NEW E, E \subseteq Seq(B), NEW b \in Buffers(E), WellFormed(b),
         NEW off \in Nat
  PROVE  FindsTheByte(B, b, off)
<1>1. b \in Ring!Buffers(E) /\ Ring!WellFormed(b)
  BY SameBuffers
<1>2. QED
  BY <1>1, RingMeets, SameSearch, Ring!FindIs

-----------------------------------------------------------------------------
(***************************************************************************)
(* The part of the invariant about calls.  A process in the kernel keeps   *)
(* its file open: without that, Reload could clear a lock that is held.    *)
(***************************************************************************)
CallOK(p) ==
  pc[p] # "user" => /\ call[p].file \in opened
                    /\ call[p].op = "write" => call[p].buf \in Payloads

ControlOK ==
  /\ lock \in Procs \cup {Free}
  /\ pc \in [Procs -> Pcs]
  /\ call = [p \in Procs |-> call[p]]
  /\ LockDiscipline
  /\ \A p \in Procs : CallOK(p)

(***************************************************************************)
(* The part about the device.                                              *)
(***************************************************************************)
DeviceOK ==
  /\ circ_buffer \in Buffers(Commands)
  /\ working_entry \in Seq(Bytes) \cup {NULL}
  /\ working_size \in Nat
  /\ RingShape

-----------------------------------------------------------------------------
(***************************************************************************)
(* The ways in which a step changes lock, pc and call.                     *)
(***************************************************************************)
LEMMA ControlInit == Init => ControlOK
  BY DriverAssumption
     DEF Init, ControlOK, LockDiscipline, CallOK, Pcs, NoCall

LEMMA ControlEnter ==
  ASSUME ControlOK, NEW p \in Procs, NEW c, EnterCall(p, c),
         c.op = "write" => c.buf \in Payloads
  PROVE  ControlOK'
  BY DEF ControlOK, LockDiscipline, CallOK, EnterCall, Pcs

LEMMA ControlLock ==
  ASSUME ControlOK, NEW p \in Procs, mutex_lock(p)
  PROVE  ControlOK'
  BY DriverAssumption DEF ControlOK, LockDiscipline, CallOK, mutex_lock, Pcs, dev

LEMMA ControlLeave ==
  ASSUME ControlOK, NEW p \in Procs, pc[p] \in {"enter", "return"}, GoBack(p),
         UNCHANGED <<lock, opened>>
  PROVE  ControlOK'
  BY DEF ControlOK, LockDiscipline, CallOK, GoBack, Pcs

LEMMA ControlUnlock ==
  ASSUME ControlOK, NEW p \in Procs, pc[p] \in {"locked", "store"}, GoBack(p),
         lock' = Free, UNCHANGED opened
  PROVE  ControlOK'
  BY DriverAssumption DEF ControlOK, LockDiscipline, CallOK, GoBack, Pcs

LEMMA ControlReturn ==
  ASSUME ControlOK, NEW p \in Procs, pc[p] = "locked", NEW c, UnlockAndReturn(p, c),
         c.file = call[p].file, c.op = "write" => c.buf \in Payloads
  PROVE  ControlOK'
  BY DriverAssumption DEF ControlOK, LockDiscipline, CallOK, UnlockAndReturn, Pcs

LEMMA ControlSame ==
  ASSUME ControlOK, UNCHANGED <<lock, pc, call, opened>>
  PROVE  ControlOK'
  BY DEF ControlOK, LockDiscipline, CallOK
-----------------------------------------------------------------------------
(***************************************************************************)
(* Every step keeps the control part: one lemma for the kernel's and the   *)
(* lock's steps, one for the handlers.                                     *)
(***************************************************************************)
LEMMA ControlKernelSteps ==
  ASSUME ControlOK, NEW p \in Procs,
         Enter(p) \/ mutex_lock(p) \/ Interrupted(p) \/ RefuseSeekTo(p)
           \/ StorePosition(p)
  PROVE  ControlOK'
<1>1. CASE EnterRead(p)
  <2>1. PICK f \in Files, n \in Counts : EnterCall(p, ReadCall(f, n, f_pos[f], << >>))
    BY <1>1 DEF EnterRead
  <2>2. ReadCall(f, n, f_pos[f], << >>).op # "write"
    BY DEF ReadCall
  <2>3. QED
    BY <2>1, <2>2, ControlEnter
<1>2. CASE EnterWrite(p)
  <2>1. PICK f \in Files, d \in Payloads :
          EnterCall(p, [op |-> "write", file |-> f, buf |-> d, pos |-> f_pos[f]])
    BY <1>2 DEF EnterWrite
  <2>2. QED
    BY <2>1, ControlEnter
<1>3. CASE EnterLlseek(p)
  <2>1. PICK f \in Files, a \in Seeks : EnterCall(p, SeekCall(f, a, 0))
    BY <1>3 DEF EnterLlseek
  <2>2. SeekCall(f, a, 0).op # "write"
    BY DEF SeekCall
  <2>3. QED
    BY <2>1, <2>2, ControlEnter
<1>4. CASE EnterIoctl(p)
  <2>1. PICK f \in Files, a \in SeekTos :
          EnterCall(p, [op |-> "ioctl", file |-> f, arg |-> a])
    BY <1>4 DEF EnterIoctl
  <2>2. QED
    BY <2>1, ControlEnter
<1>5. CASE mutex_lock(p)
  BY <1>5, ControlLock
<1>6. CASE Interrupted(p)
  BY <1>6, ControlLeave DEF Interrupted
<1>7. CASE RefuseSeekTo(p)
  BY <1>7, ControlLeave DEF RefuseSeekTo
<1>8. CASE StorePosition(p)
  BY <1>8, ControlLeave DEF StorePosition, GoBack
<1>9. QED
  BY <1>1, <1>2, <1>3, <1>4, <1>5, <1>6, <1>7, <1>8 DEF Enter

LEMMA ControlFail ==
  ASSUME ControlOK, NEW p \in Procs, pc[p] = "locked", FailAndUnlock(p)
  PROVE  ControlOK'
  BY ControlUnlock DEF FailAndUnlock

\* A read or write that returns with the call it was made with.
LEMMA ControlReturnSame ==
  ASSUME ControlOK, NEW p \in Procs, pc[p] = "locked", UnlockAndReturn(p, call[p])
  PROVE  ControlOK'
<1>1. call[p].op = "write" => call[p].buf \in Payloads
  BY DEF ControlOK, CallOK
<1>2. QED
  BY <1>1, ControlReturn

LEMMA ControlHandlers ==
  ASSUME ControlOK, NEW p \in Procs,
         aesd_read(p) \/ aesd_write(p) \/ aesd_llseek(p) \/ StoreNewPos(p)
           \/ aesd_ioctl(p)
  PROVE  ControlOK'
<1>1. CASE aesd_read(p)
  <2>1. pc[p] = "locked"
    BY <1>1 DEF aesd_read, Locked
  <2>2. CASE FailAndUnlock(p)
    BY <2>1, <2>2, ControlFail
  <2>3. CASE UnlockAndReturn(p, call[p])
    BY <2>1, <2>3, ControlReturnSame
  <2>4. ASSUME NEW n, NEW data,
               UnlockAndReturn(p, ReadCall(call[p].file, call[p].count, n, data))
        PROVE  ControlOK'
    <3>1. /\ ReadCall(call[p].file, call[p].count, n, data).file = call[p].file
          /\ ReadCall(call[p].file, call[p].count, n, data).op # "write"
      BY DEF ReadCall
    <3>2. QED
      BY <2>1, <2>4, <3>1, ControlReturn
  <2>5. QED
    BY <1>1, <2>2, <2>3, <2>4 DEF aesd_read
<1>2. CASE aesd_write(p)
  <2>1. pc[p] = "locked"
    BY <1>2 DEF aesd_write, Locked
  <2>2. FailAndUnlock(p) \/ UnlockAndReturn(p, call[p])
    BY <1>2 DEF aesd_write, Written, RefuseData, LoseWorkingEntry, StoreCommand, KeepButFail,
                KeepForLater
  <2>3. QED
    BY <2>1, <2>2, ControlFail, ControlReturnSame
<1>3. CASE aesd_llseek(p)
  <2>1. pc[p] = "locked"
    BY <1>3 DEF aesd_llseek, Locked
  <2>2. CASE FailAndUnlock(p)
    BY <2>1, <2>2, ControlFail
  <2>3. ASSUME pc' = [pc EXCEPT ![p] = "store"],
               call' = [call EXCEPT ![p] = SeekCall(@.file, @.arg, NewPos(p))],
               UNCHANGED <<lock, opened>>
        PROVE  ControlOK'
    <3>1. ASSUME NEW n
          PROVE  /\ SeekCall(call[p].file, call[p].arg, n).file = call[p].file
                 /\ SeekCall(call[p].file, call[p].arg, n).op # "write"
      BY DEF SeekCall
    <3>2. /\ call'[p].file = call[p].file /\ call'[p].op # "write"
          /\ \A q \in Procs : q # p => call'[q] = call[q]
          /\ call' = [q \in Procs |-> call'[q]]
      BY <2>3, <3>1 DEF ControlOK
    <3>3. QED
      BY <2>1, <2>3, <3>2 DEF ControlOK, LockDiscipline, CallOK, Pcs
  <2>4. QED
    BY <1>3, <2>2, <2>3 DEF aesd_llseek
<1>4. CASE StoreNewPos(p)
  BY <1>4, ControlUnlock DEF StoreNewPos
<1>5. CASE aesd_ioctl(p)
  <2>1. pc[p] = "locked" /\ GoBack(p) /\ lock' = Free /\ UNCHANGED opened
    BY <1>5 DEF aesd_ioctl, Locked, FailAndUnlock
  <2>2. QED
    BY <2>1, ControlUnlock
<1>6. QED
  BY <1>1, <1>2, <1>3, <1>4, <1>5

LEMMA ControlStep == ControlOK /\ [Next]_vars => ControlOK'
<1> SUFFICES ASSUME ControlOK, [Next]_vars PROVE ControlOK'
  OBVIOUS
<1>1. CASE Reload
  BY <1>1, DriverAssumption DEF Reload, ControlOK, LockDiscipline, CallOK, Pcs
<1>2. ASSUME NEW f \in Files, aesd_open(f) PROVE ControlOK'
  BY <1>2 DEF aesd_open, ControlOK, LockDiscipline, CallOK
<1>3. ASSUME NEW f \in Files, aesd_release(f) PROVE ControlOK'
  BY <1>3 DEF aesd_release, InUse, ControlOK, LockDiscipline, CallOK
<1>4. ASSUME NEW p \in Procs, Enter(p) \/ mutex_lock(p) \/ Interrupted(p) \/ Work(p)
      PROVE  ControlOK'
  BY <1>4, ControlKernelSteps, ControlHandlers DEF Work
<1>5. CASE UNCHANGED vars
  BY <1>5, ControlSame DEF vars
<1>6. QED
  BY <1>1, <1>2, <1>3, <1>4, <1>5 DEF Next

(***************************************************************************)
(* Every return path of the handlers releases the lock, and none releases  *)
(* a lock that another handler holds.                                      *)
(***************************************************************************)
THEOREM LockIsDisciplined == Spec => []LockDiscipline
<1>1. Spec => []ControlOK
  BY ControlInit, ControlStep, PTL DEF Spec
<1>2. ControlOK => LockDiscipline
  BY DEF ControlOK
<1>3. QED
  BY <1>1, <1>2, PTL
-----------------------------------------------------------------------------
(***************************************************************************)
(* What a write can do to the device: the bytes it works on are bytes, and *)
(* what it stores is one command.                                          *)
(***************************************************************************)
LEMMA GrownIsBytes ==
  ASSUME DeviceOK, NEW old \in OldBytes, NEW buf \in Payloads
  PROVE  old \o buf \in Seq(Bytes)
<1>1. old \in Seq(Bytes)
  <2>1. CASE working_entry = NULL
    <3>1. old \in [1 .. working_size -> Bytes] /\ working_size \in Nat
      BY <2>1 DEF OldBytes, DeviceOK
    <3>2. QED
      BY <3>1
  <2>2. CASE working_entry # NULL
    BY <2>2 DEF OldBytes, DeviceOK
  <2>3. QED
    BY <2>1, <2>2
<1>2. buf \in Seq(Bytes)
  BY DriverAssumption
<1>3. QED
  BY <1>1, <1>2

LEMMA EntryIsCommand ==
  ASSUME NEW grown \in Seq(Bytes), \E i \in DOMAIN grown : grown[i] = Newline
  PROVE  /\ SubSeq(grown, 1, entry_size(grown)) \in Commands
         /\ leftover(grown) \in Seq(Bytes)
<1> DEFINE newlines == {i \in DOMAIN grown : grown[i] = Newline}
           size     == entry_size(grown)
           cmd      == SubSeq(grown, 1, size)
<1>1. newlines \subseteq Nat /\ newlines # {} /\ DOMAIN grown = 1 .. Len(grown)
  OBVIOUS
<1>2. size \in newlines /\ \A i \in newlines : size <= i
  BY <1>1, MinOfNaturals DEF entry_size
<1>3. leftover(grown) \in Seq(Bytes)
  BY <1>1, <1>2 DEF leftover
<1> HIDE DEF size
<1>4. size \in 1 .. Len(grown) /\ grown[size] = Newline
  BY <1>1, <1>2
<1>5. \A i \in 1 .. size - 1 : grown[i] # Newline
  BY <1>1, <1>2, <1>4
<1>6. /\ cmd \in Seq(Bytes) /\ Len(cmd) = size /\ DOMAIN cmd = 1 .. size
      /\ \A i \in 1 .. size : cmd[i] = grown[i]
  BY <1>1, <1>4
<1>7. cmd # << >>
  BY <1>4, <1>6
<1> HIDE DEF cmd
<1>8. \A i \in DOMAIN cmd : cmd[i] = Newline <=> i = Len(cmd)
  BY <1>4, <1>5, <1>6
<1>9. cmd \in Commands
  BY <1>6, <1>7, <1>8 DEF Commands
<1>10. QED
  BY <1>3, <1>9 DEF cmd, size

(***************************************************************************)
(* The only ways in which a step changes the ring.                         *)
(***************************************************************************)
WriteStep ==
  \/ UNCHANGED circ_buffer
  \/ \E e \in Commands : circ_buffer' = aesd_circular_buffer_add_entry(circ_buffer, e)

BufferStep == WriteStep \/ circ_buffer' = aesd_circular_buffer_init

WorkingOK == working_entry \in Seq(Bytes) \cup {NULL} /\ working_size \in Nat

LEMMA DeviceWrite ==
  ASSUME ControlOK, DeviceOK, NEW p \in Procs, aesd_write(p)
  PROVE  WriteStep /\ WorkingOK'
<1>1. call[p].buf \in Payloads
  BY DEF aesd_write, Locked, ControlOK, CallOK
<1>2. CASE UNCHANGED dev
  BY <1>2 DEF dev, WriteStep, WorkingOK, DeviceOK
<1>3. CASE LoseWorkingEntry(p)
  BY <1>3 DEF LoseWorkingEntry, WriteStep, WorkingOK, DeviceOK
<1>4. ASSUME NEW old \in OldBytes, NEW grown, grown = old \o call[p].buf,
             KeepForLater(p, grown) \/ KeepButFail(p, grown)
      PROVE  WriteStep /\ WorkingOK'
  <2>1. grown \in Seq(Bytes)
    BY <1>1, <1>4, GrownIsBytes
  <2>2. Len(grown) \in Nat
    BY <2>1
  <2>3. QED
    BY <1>4, <2>1, <2>2 DEF KeepForLater, KeepButFail, SetWorking, WriteStep, WorkingOK
<1>5. ASSUME NEW old \in OldBytes, NEW grown, grown = old \o call[p].buf,
             \E i \in DOMAIN grown : grown[i] = Newline, StoreCommand(p, grown)
      PROVE  WriteStep /\ WorkingOK'
  <2>1. grown \in Seq(Bytes)
    BY <1>1, <1>5, GrownIsBytes
  <2>2. /\ SubSeq(grown, 1, entry_size(grown)) \in Commands
        /\ leftover(grown) \in Seq(Bytes)
    BY <1>5, <2>1, EntryIsCommand
  <2>3. Len(leftover(grown)) \in Nat
    BY <2>2
  <2>4. QED
    BY <1>5, <2>2, <2>3 DEF StoreCommand, SetWorking, WriteStep, WorkingOK
<1>6. QED
  BY <1>2, <1>3, <1>4, <1>5 DEF aesd_write, RefuseData

LEMMA DeviceUntouched ==
  ASSUME [Next]_vars
  PROVE  Reload \/ UNCHANGED dev \/ \E p \in Procs : aesd_write(p)
<1>1. ASSUME NEW p \in Procs, Enter(p) PROVE UNCHANGED dev
  BY <1>1 DEF Enter, EnterRead, EnterWrite, EnterLlseek, EnterIoctl, EnterCall
<1>2. ASSUME NEW p \in Procs, mutex_lock(p) \/ Interrupted(p) PROVE UNCHANGED dev
  BY <1>2 DEF mutex_lock, Interrupted
<1>3. ASSUME NEW p \in Procs, Work(p), ~aesd_write(p) PROVE UNCHANGED dev
  BY <1>3 DEF Work, RefuseSeekTo, aesd_read, aesd_llseek, StoreNewPos, aesd_ioctl,
              StorePosition
<1>4. ASSUME NEW f \in Files, aesd_open(f) \/ aesd_release(f) PROVE UNCHANGED dev
  BY <1>4 DEF aesd_open, aesd_release
<1>5. CASE UNCHANGED vars
  BY <1>5 DEF vars, dev
<1>6. QED
  BY <1>1, <1>2, <1>3, <1>4, <1>5 DEF Next

LEMMA DeviceSteps ==
  ASSUME ControlOK, DeviceOK, [Next]_vars
  PROVE  BufferStep /\ WorkingOK'
<1>1. CASE UNCHANGED dev
  BY <1>1 DEF dev, WriteStep, BufferStep, WorkingOK, DeviceOK
<1>2. CASE Reload
  BY <1>2 DEF Reload, BufferStep, WorkingOK
<1>3. QED
  BY <1>1, <1>2, DeviceUntouched, DeviceWrite DEF BufferStep

LEMMA DeviceInit == Init => DeviceOK
  BY InitShape DEF Init, DeviceOK, RingShape

LEMMA DeviceStep == ControlOK /\ DeviceOK /\ [Next]_vars => DeviceOK'
<1> SUFFICES ASSUME ControlOK, DeviceOK, [Next]_vars PROVE DeviceOK'
  OBVIOUS
<1>1. BufferStep /\ WorkingOK'
  BY DeviceSteps
<1>2. CASE UNCHANGED circ_buffer
  BY <1>1, <1>2 DEF DeviceOK, RingShape, WorkingOK
<1>3. CASE circ_buffer' = aesd_circular_buffer_init
  BY <1>1, <1>3, InitShape DEF DeviceOK, RingShape, WorkingOK
<1>4. ASSUME NEW e \in Commands,
             circ_buffer' = aesd_circular_buffer_add_entry(circ_buffer, e)
      PROVE  DeviceOK'
  BY <1>1, <1>4, AddEntryFields, AddEntryShape DEF DeviceOK, RingShape, WorkingOK
<1>5. QED
  BY <1>1, <1>2, <1>3, <1>4 DEF BufferStep, WriteStep

LEMMA ControlAndDevice == Spec => [](ControlOK /\ DeviceOK)
<1>1. Init => ControlOK /\ DeviceOK
  BY ControlInit, DeviceInit
<1>2. ControlOK /\ DeviceOK /\ [Next]_vars => (ControlOK /\ DeviceOK)'
  BY ControlStep, DeviceStep
<1>3. QED
  BY <1>1, <1>2, PTL DEF Spec

(***************************************************************************)
(* The ring keeps its shape behind the driver: nothing but a write that    *)
(* completes a command, and a reload of the module, changes it.            *)
(***************************************************************************)
THEOREM RingKeepsItsShape == Spec => []RingShape
<1>1. DeviceOK => RingShape
  BY DEF DeviceOK
<1>2. QED
  BY ControlAndDevice, <1>1, PTL

(***************************************************************************)
(* The driver implements RecentWrites, for any number of processes and     *)
(* files and whatever they write, also when allocations fail: no           *)
(* interleaving of calls loses a command that is not the oldest of a full  *)
(* device, reorders two, or stores one that does not end at its first      *)
(* newline.                                                                *)
(***************************************************************************)
THEOREM DriverRemembers == Spec => ImplementsRecentWrites
<1>1. Init => History!Init
  BY InitShape DEF Init, History!Init
<1>2. ControlOK /\ DeviceOK /\ [Next]_vars => [History!Next]_(Contents(circ_buffer))
  <2> SUFFICES ASSUME ControlOK, DeviceOK, [Next]_vars
               PROVE  History!Next \/ UNCHANGED Contents(circ_buffer)
    OBVIOUS
  <2>1. CASE UNCHANGED circ_buffer
    BY <2>1
  <2>2. CASE circ_buffer' = aesd_circular_buffer_init
    <3>1. Contents(circ_buffer)' = << >>
      BY <2>2, InitShape
    <3>2. QED
      BY <3>1 DEF History!Next, History!Forget
  <2>3. ASSUME NEW e \in Commands,
               circ_buffer' = aesd_circular_buffer_add_entry(circ_buffer, e)
        PROVE  History!Next
    <3>1. Contents(circ_buffer)' = Latest(Append(Contents(circ_buffer), e))
      BY <2>3, AddEntryRemembers DEF DeviceOK, RingShape
    <3>2. Contents(circ_buffer) \in Seq(Commands \cup {ZeroSlot})
      BY ContentsIsSeq DEF DeviceOK, RingShape
    <3>3. /\ Contents(circ_buffer)' # << >>
          /\ Contents(circ_buffer)'[Len(Contents(circ_buffer)')] = e
      BY <3>1, <3>2, NewestEndsWithNewElement
    <3>4. QED
      BY <3>1, <3>3 DEF History!Next, History!Remember, History!Newest, Latest
  <2>4. QED
    BY <2>1, <2>2, <2>3, DeviceSteps DEF BufferStep, WriteStep
<1>3. QED
  BY <1>1, <1>2, ControlAndDevice, PTL DEF Spec, ImplementsRecentWrites, History!Spec
-----------------------------------------------------------------------------
(***************************************************************************)
(* The bytes that wait for their newline.  Nothing waits in fresh memory.  *)
(***************************************************************************)
PendingOK ==
  /\ working_entry = NULL => working_size = 0
  /\ PendingHasNoNewline

\* Every write has at most one newline, and that at its end.
OneCommandPerWrite ==
  \A d \in Payloads : \A i \in DOMAIN d : d[i] = Newline => i = Len(d)

LEMMA PendingStore ==
  ASSUME NEW old \in Seq(Bytes), \A i \in DOMAIN old : old[i] # Newline,
         NEW buf \in Seq(Bytes), \A i \in DOMAIN buf : buf[i] = Newline => i = Len(buf),
         \E i \in DOMAIN (old \o buf) : (old \o buf)[i] = Newline
  PROVE  leftover(old \o buf) = << >>
<1> DEFINE grown    == old \o buf
           newlines == {i \in DOMAIN grown : grown[i] = Newline}
<1>1. /\ grown \in Seq(Bytes) /\ Len(grown) = Len(old) + Len(buf)
      /\ DOMAIN grown = 1 .. Len(grown) /\ Len(old) \in Nat /\ Len(buf) \in Nat
  OBVIOUS
<1>2. ASSUME NEW i \in DOMAIN grown, grown[i] = Newline
      PROVE  i = Len(grown)
  <2>1. CASE i <= Len(old)
    BY <1>1, <1>2, <2>1
  <2>2. CASE i > Len(old)
    <3>1. i - Len(old) \in DOMAIN buf /\ buf[i - Len(old)] = Newline
      BY <1>1, <1>2, <2>2
    <3>2. i - Len(old) = Len(buf)
      BY <3>1
    <3>3. QED
      BY <1>1, <3>2
  <2>3. QED
    BY <1>1, <2>1, <2>2
<1>3. entry_size(grown) = Len(grown)
  <2>1. newlines \subseteq Nat /\ newlines # {}
    BY <1>1
  <2>2. entry_size(grown) \in newlines
    BY <2>1, MinOfNaturals DEF entry_size
  <2>3. QED
    BY <1>2, <2>2
<1> HIDE DEF grown
<1>4. leftover(grown) = << >>
  BY <1>1, <1>3 DEF leftover
<1>5. QED
  BY <1>4 DEF grown

LEMMA PendingWrite ==
  ASSUME ~AllocMayFail, OneCommandPerWrite, ControlOK, DeviceOK, PendingOK,
         NEW p \in Procs, aesd_write(p)
  PROVE  PendingOK'
<1>1. call[p].buf \in Payloads
  BY DEF aesd_write, Locked, ControlOK, CallOK
<1>2. /\ call[p].buf \in Seq(Bytes)
      /\ \A i \in DOMAIN call[p].buf : call[p].buf[i] = Newline => i = Len(call[p].buf)
  BY <1>1, DriverAssumption DEF OneCommandPerWrite
<1>3. CASE UNCHANGED dev
  BY <1>3 DEF dev, PendingOK, PendingHasNoNewline
<1>4. ASSUME NEW bytes \in Seq(Bytes), SetWorking(bytes),
             \A i \in DOMAIN bytes : bytes[i] # Newline
      PROVE  PendingOK'
  BY <1>4, DriverAssumption DEF SetWorking, PendingOK, PendingHasNoNewline
<1>5. ASSUME NEW old \in OldBytes
      PROVE  /\ old \in Seq(Bytes)
             /\ \A i \in DOMAIN old : old[i] # Newline
  <2>1. CASE working_entry = NULL
    <3>1. old \in [1 .. 0 -> Bytes]
      BY <2>1 DEF OldBytes, PendingOK
    <3>2. QED
      BY <3>1
  <2>2. CASE working_entry # NULL
    BY <2>2 DEF OldBytes, PendingOK, PendingHasNoNewline, DeviceOK
  <2>3. QED
    BY <2>1, <2>2
<1>6. ASSUME NEW old \in OldBytes, NEW grown, grown = old \o call[p].buf,
             \E i \in DOMAIN grown : grown[i] = Newline, StoreCommand(p, grown)
      PROVE  PendingOK'
  <2>1. leftover(grown) = << >>
    BY <1>2, <1>5, <1>6, PendingStore
  <2>2. leftover(grown) \in Seq(Bytes)
    BY <2>1
  <2>3. \A i \in DOMAIN leftover(grown) : leftover(grown)[i] # Newline
    BY <2>1
  <2>4. QED
    BY <1>4, <1>6, <2>2, <2>3 DEF StoreCommand
<1>7. ASSUME NEW old \in OldBytes, NEW grown, grown = old \o call[p].buf,
             ~(\E i \in DOMAIN grown : grown[i] = Newline), KeepForLater(p, grown)
      PROVE  PendingOK'
  <2>1. grown \in Seq(Bytes)
    BY <1>2, <1>5, <1>7
  <2>2. QED
    BY <1>4, <1>7, <2>1 DEF KeepForLater
<1>8. QED
  BY <1>3, <1>6, <1>7 DEF aesd_write, RefuseData, LoseWorkingEntry, KeepButFail

LEMMA PendingStep ==
  ASSUME ~AllocMayFail, OneCommandPerWrite, ControlOK, DeviceOK, PendingOK, [Next]_vars
  PROVE  PendingOK'
<1>1. CASE UNCHANGED dev
  BY <1>1 DEF dev, PendingOK, PendingHasNoNewline
<1>2. CASE Reload
  BY <1>2 DEF Reload, PendingOK, PendingHasNoNewline
<1>3. ASSUME NEW p \in Procs, aesd_write(p) PROVE PendingOK'
  BY <1>3, PendingWrite
<1>4. Reload \/ UNCHANGED dev \/ \E p \in Procs : aesd_write(p)
  BY DeviceUntouched
<1>5. QED
  BY <1>1, <1>2, <1>3, <1>4

(***************************************************************************)
(* As long as a write brings at most one newline, at its end, and no       *)
(* allocation fails, what is waiting in working_entry is an unfinished     *)
(* command.  Both assumptions are needed: the first for the reason that    *)
(* LoseWorkingEntry and KeepButFail show, the second because aesd_write    *)
(* takes one command at most out of what it is given.                      *)
(***************************************************************************)
THEOREM PendingIsUnfinished ==
  ASSUME ~AllocMayFail, OneCommandPerWrite
  PROVE  Spec => []PendingHasNoNewline
<1>1. Init => PendingOK
  BY DEF Init, PendingOK, PendingHasNoNewline
<1>2. PendingOK /\ ControlOK /\ DeviceOK /\ [Next]_vars => PendingOK'
  BY PendingStep
<1>3. PendingOK => PendingHasNoNewline
  BY DEF PendingOK
<1>4. QED
  BY <1>1, <1>2, <1>3, ControlAndDevice, PTL DEF Spec
-----------------------------------------------------------------------------
(***************************************************************************)
(* What aesd_llseek adds up is the length of the contents: a full ring     *)
(* read from slot 0 holds the same bytes as one read from out_offs.        *)
(***************************************************************************)
\* The entries its loops visit.
Summed == [i \in 1 .. Len(SummedSlots) |-> circ_buffer.entry[SummedSlots[i]]]

CommandsAreBytes == Commands \subseteq Seq(Bytes)

LEMMA CommandsBytes == CommandsAreBytes
  BY DEF CommandsAreBytes, Commands

LEMMA SummedIsSeq ==
  ASSUME DeviceOK
  PROVE  /\ Len(SummedSlots) = ValidEntries(circ_buffer)
         /\ Summed \in Seq(Seq(Bytes)) /\ Len(Summed) = ValidEntries(circ_buffer)
         /\ \A i \in 1 .. ValidEntries(circ_buffer) :
              Summed[i] = IF circ_buffer.full THEN circ_buffer.entry[i - 1]
                          ELSE circ_buffer.entry[SlotAfter(circ_buffer, i - 1)]
<1> DEFINE b == circ_buffer
           n == ValidEntries(b)
           T == Seq(Bytes)
<1>1. /\ b \in Buffers(Commands) /\ WellFormed(b)
      /\ b.entry \in [Slots -> Commands \cup {ZeroSlot}]
      /\ b.in_offs \in Slots /\ b.out_offs \in Slots /\ b.full \in BOOLEAN
  BY DEF DeviceOK, RingShape, Buffers
<1>2. n = (IF b.full THEN Capacity ELSE b.in_offs) /\ n \in 0 .. Capacity
  BY <1>1, ContentsIsSeq
<1>3. ~b.full => (b.in_offs - b.out_offs) % Capacity = b.in_offs
  <2>1. b.in_offs \in 0 .. 2 * Capacity - 1 /\ b.in_offs < Capacity
    <3>1. PICK i : i = b.in_offs /\ i \in 0 .. Capacity - 1
      BY <1>1 DEF Slots
    <3>2. Capacity \in Nat
      BY CapacityAssumption
    <3>3. i \in 0 .. 2 * Capacity - 1 /\ i < Capacity
      BY <3>1, <3>2
    <3>4. QED
      BY <3>1, <3>3
  <2>2. ~b.full => b.in_offs - b.out_offs = b.in_offs
    BY <1>1, <2>1 DEF WellFormed
  <2>3. b.in_offs % Capacity = b.in_offs
    BY <2>1, WrapOnce
  <2>4. QED
    BY <2>2, <2>3, Zenon
<1>4. ASSUME NEW i \in 1 .. n
      PROVE  i - 1 \in Slots /\ SlotAfter(b, i - 1) \in Slots
  <2>1. i - 1 \in 0 .. Capacity - 1
    <3> HIDE DEF n
    <3>1. QED
      BY <1>2, CapacityAssumption
  <2>2. QED
    BY <1>1, <2>1, SlotAfterWraps DEF Slots
<1>5. \A x \in Slots : b.entry[x] \in T
  <2>1. ZeroSlot \in T
    BY DEF ZeroSlot
  <2>2. Commands \subseteq T
    BY CommandsBytes DEF CommandsAreBytes
  <2> HIDE DEF T
  <2>3. QED
    BY <1>1, <2>1, <2>2
<1> HIDE DEF n, T
<1>6. /\ Len(SummedSlots) = n
      /\ \A i \in 1 .. n : SummedSlots[i] = IF b.full THEN i - 1 ELSE SlotAfter(b, i - 1)
  <2>1. CASE b.full
    BY <1>2, <2>1, CapacityAssumption DEF SummedSlots
  <2>2. CASE ~b.full
    <3>1. SummedSlots = [i \in 1 .. b.in_offs |-> SlotAfter(b, i - 1)]
      BY <1>3, <2>2 DEF SummedSlots
    <3>2. n = b.in_offs /\ n \in Nat
      BY <1>2, <2>2
    <3>3. QED
      BY <2>2, <3>1, <3>2
  <2>3. QED
    BY <2>1, <2>2
<1>7. ASSUME NEW i \in 1 .. n
      PROVE  /\ b.entry[SummedSlots[i]] \in T
             /\ b.entry[SummedSlots[i]] = IF b.full THEN b.entry[i - 1]
                                          ELSE b.entry[SlotAfter(b, i - 1)]
  BY <1>4, <1>5, <1>6
<1>8. Summed = [i \in 1 .. n |-> b.entry[SummedSlots[i]]]
  BY <1>6 DEF Summed
<1>9. n \in Nat
  BY <1>2
<1>10. Summed \in Seq(T) /\ Len(Summed) = n
  BY <1>7, <1>8, <1>9
<1>11. \A i \in 1 .. n : Summed[i] = b.entry[SummedSlots[i]]
  BY <1>8
<1>12. QED
  BY <1>6, <1>7, <1>10, <1>11 DEF n, T

LEMMA TotalIsSummed ==
  ASSUME DeviceOK
  PROVE  total_size = Len(FlattenSeq(Summed))
<1> DEFINE n      == Len(SummedSlots)
           sum(f) == f = [i \in 0 .. n |->
                            IF i = 0 THEN 0
                            ELSE f[i - 1] + Len(circ_buffer.entry[SummedSlots[i]])]
           total  == CHOOSE f : sum(f)
<1>1. /\ Summed \in Seq(Seq(Bytes)) /\ Len(Summed) = n /\ n \in Nat
      /\ \A i \in 1 .. n : Summed[i] = circ_buffer.entry[SummedSlots[i]]
  <2>1. Summed \in Seq(Seq(Bytes)) /\ Len(Summed) = n
    BY SummedIsSeq
  <2>2. Len(Summed) \in Nat
    BY <2>1
  <2>3. QED
    BY <2>1, <2>2 DEF Summed
<1>2. total_size = total[n]
  BY DEF total_size
<1>3. ASSUME NEW f PROVE sum(f) <=> Sums(Summed, f)
  <2>1. ASSUME NEW i \in 0 .. n
        PROVE  (IF i = 0 THEN 0 ELSE f[i - 1] + Len(circ_buffer.entry[SummedSlots[i]]))
                 = (IF i = 0 THEN 0 ELSE f[i - 1] + Len(Summed[i]))
    <3> HIDE DEF n
    <3>1. i # 0 => i \in 1 .. n
      BY <1>1
    <3>2. QED
      BY <1>1, <3>1
  <2>2. QED
    BY <1>1, <2>1 DEF Sums
<1> HIDE DEF n, sum
<1>4. \E f : sum(f)
  BY <1>1, <1>3, SumsAreLengths
<1>5. Sums(Summed, total)
  BY <1>3, <1>4
<1> HIDE DEF total
<1>6. \A i \in 0 .. Len(Summed) : total[i] = Len(FlattenSeq(SubSeq(Summed, 1, i)))
  BY <1>1, <1>5, SumsAreLengths
<1>7. SubSeq(Summed, 1, n) = Summed /\ n \in 0 .. Len(Summed)
  BY <1>1
<1>8. QED
  BY <1>1, <1>2, <1>6, <1>7, Zenon

\* The lengths of what is before and behind out_offs add up either way.
LEMMA RotatedLength ==
  ASSUME NEW B, NEW s \in Seq(Seq(B)), NEW k \in 0 .. Len(s)
  PROVE  Len(FlattenSeq(s))
           = Len(FlattenSeq(SubSeq(s, k + 1, Len(s)) \o SubSeq(s, 1, k)))
<1> DEFINE x == SubSeq(s, 1, k)
           y == SubSeq(s, k + 1, Len(s))
           T == Seq(B)
<1>1. x \in Seq(T) /\ y \in Seq(T)
  OBVIOUS
<1>2. s = x \o y
  <2>1. s \in Seq(T) /\ Len(s) \in 0 .. Len(s) /\ k \in 0 .. Len(s) /\ SubSeq(s, 1, Len(s)) = s
    OBVIOUS
  <2> HIDE DEF T
  <2>2. SubSeq(s, 1, Len(s)) = SubSeq(s, 1, k) \o SubSeq(s, k + 1, Len(s))
    BY <2>1, SplitAt
  <2>3. QED
    BY <2>1, <2>2
<1> HIDE DEF x, y
<1>3. FlattenSeq(x) \in Seq(B) /\ FlattenSeq(y) \in Seq(B)
  <2>1. << >> \in Seq(B)
    OBVIOUS
  <2>2. QED
    BY <1>1, <2>1, FlattenAppend
<1>4. /\ FlattenSeq(x \o y) = FlattenSeq(x) \o FlattenSeq(y)
      /\ FlattenSeq(y \o x) = FlattenSeq(y) \o FlattenSeq(x)
  BY <1>1, FlattenConcat
<1> DEFINE u == FlattenSeq(x)
           v == FlattenSeq(y)
<1> HIDE DEF u, v
<1>5. /\ Len(u \o v) = Len(u) + Len(v) /\ Len(v \o u) = Len(v) + Len(u)
      /\ Len(u) \in Nat /\ Len(v) \in Nat
  BY <1>3, ConcatElements DEF u, v
<1>6. Len(u) + Len(v) = Len(v) + Len(u)
  BY <1>5
<1>7. Len(FlattenSeq(x \o y)) = Len(FlattenSeq(y \o x))
  BY <1>4, <1>5, <1>6, Zenon DEF u, v
<1>8. QED
  BY <1>2, <1>7, Zenon DEF x, y

LEMMA TotalSizeIs ==
  ASSUME DeviceOK
  PROVE  total_size = Len(Flat)
<1> DEFINE b == circ_buffer
           n == ValidEntries(b)
           s == Summed
           c == Contents(b)
           o == b.out_offs
           T == Seq(Bytes)
<1>1. /\ b \in Buffers(Commands) /\ WellFormed(b) /\ Commands \subseteq Seq(Bytes)
      /\ o \in Slots /\ b.full \in BOOLEAN
  BY CommandsBytes DEF DeviceOK, RingShape, Buffers, CommandsAreBytes
<1>2. /\ n = (IF b.full THEN Capacity ELSE b.in_offs) /\ n \in 0 .. Capacity
      /\ Len(c) = n
      /\ \A i \in 1 .. n : c[i] = b.entry[SlotAfter(b, i - 1)]
  BY <1>1, ContentsIsSeq
<1>3. c \in Seq(T)
  <2>1. EntriesInPlace(Bytes, b)
    BY <1>1, EntryBytes
  <2>2. QED
    BY <2>1 DEF EntriesInPlace
<1>4. /\ s \in Seq(T) /\ Len(s) = n
      /\ \A i \in 1 .. n : s[i] = IF b.full THEN b.entry[i - 1] ELSE b.entry[SlotAfter(b, i - 1)]
  BY SummedIsSeq
<1> HIDE DEF T, s, c, n
<1>5. CASE ~b.full
  <2>1. \A i \in 1 .. n : c[i] = s[i]
    BY <1>2, <1>4, <1>5
  <2>2. c = s
    BY <1>2, <1>3, <1>4, <2>1, SeqEqual
  <2>3. QED
    BY <2>2, TotalIsSummed DEF Flat, c, s
<1>6. CASE b.full
  <2> DEFINE x == SubSeq(s, 1, o)
             y == SubSeq(s, o + 1, Len(s))
  <2>1. n = Capacity /\ o \in 0 .. Capacity - 1 /\ Capacity \in Nat
    BY <1>1, <1>2, <1>6, CapacityAssumption DEF Slots
  <2> HIDE DEF o
  <2>2. /\ x \in Seq(T) /\ Len(x) = o /\ \A i \in 1 .. o : x[i] = s[i]
        /\ y \in Seq(T) /\ Len(y) = Capacity - o
        /\ \A i \in 1 .. Capacity - o : y[i] = s[o + i]
    BY <1>4, <2>1
  <2> HIDE DEF x, y
  <2>3. /\ y \o x \in Seq(T) /\ Len(y \o x) = Len(y) + Len(x)
        /\ \A i \in 1 .. Len(y) : (y \o x)[i] = y[i]
        /\ \A i \in 1 .. Len(x) : (y \o x)[Len(y) + i] = x[i]
    <3>1. x \in Seq(T) /\ y \in Seq(T)
      BY <2>2
    <3>2. QED
      BY <3>1, ConcatElements
  <2> DEFINE yx == y \o x
  <2> HIDE DEF yx
  <2>4. /\ yx \in Seq(T) /\ Len(yx) = Capacity
        /\ \A i \in 1 .. Capacity - o : yx[i] = y[i]
        /\ \A i \in 1 .. o : yx[(Capacity - o) + i] = x[i]
    <3>1. (Capacity - o) + o = Capacity
      BY <2>1
    <3>2. QED
      BY <2>2, <2>3, <3>1 DEF yx
  <2>5. ASSUME NEW i \in 1 .. Capacity PROVE c[i] = yx[i]
    <3>1. i - 1 \in 0 .. Capacity - 1
      BY <2>1
    <3>2. SlotAfter(b, i - 1) = IF o + (i - 1) < Capacity THEN o + (i - 1)
                                ELSE o + (i - 1) - Capacity
      BY <1>1, <3>1, SlotAfterWraps DEF o
    <3>3. c[i] = b.entry[SlotAfter(b, i - 1)]
      BY <1>2, <2>1
    <3>4. CASE i <= Capacity - o
      <4>1. /\ SlotAfter(b, i - 1) = (o + i) - 1 /\ o + i \in 1 .. n
            /\ i \in 1 .. Capacity - o
        BY <2>1, <3>2, <3>4
      <4>2. s[o + i] = b.entry[(o + i) - 1]
        BY <1>4, <1>6, <4>1
      <4>3. QED
        BY <2>2, <2>4, <3>3, <4>1, <4>2
    <3>5. CASE i > Capacity - o
      <4> DEFINE k == i - (Capacity - o)
      <4>1. /\ k \in 1 .. o /\ (Capacity - o) + k = i /\ k \in 1 .. n
            /\ SlotAfter(b, i - 1) = k - 1
        BY <2>1, <3>2, <3>5
      <4> HIDE DEF k
      <4>2. s[k] = b.entry[k - 1]
        BY <1>4, <1>6, <4>1
      <4>3. QED
        BY <2>2, <2>4, <3>3, <4>1, <4>2
    <3>6. QED
      BY <2>1, <3>4, <3>5
  <2>6. c = yx
    BY <1>2, <1>3, <2>1, <2>4, <2>5, SeqEqual
  <2>7. o \in 0 .. Len(s) /\ s \in Seq(Seq(Bytes))
    BY <1>4, <2>1 DEF T
  <2>8. Len(FlattenSeq(s)) = Len(FlattenSeq(yx))
    BY <2>7, RotatedLength DEF yx, x, y
  <2>9. QED
    BY <2>6, <2>8, TotalIsSummed DEF Flat, c, s
<1>7. QED
  BY <1>1, <1>5, <1>6
-----------------------------------------------------------------------------
(***************************************************************************)
(* What aesd_read copies out of the one entry that the search finds.       *)
(***************************************************************************)
Found(pos) == aesd_circular_buffer_find_entry_offset_for_fpos(circ_buffer, pos)

CopiedSize(pos, count) ==
  Min({Len(circ_buffer.entry[Found(pos).slot]) - Found(pos).offset, count})

Copied(pos, count) ==
  SubSeq(circ_buffer.entry[Found(pos).slot],
         Found(pos).offset + 1, Found(pos).offset + CopiedSize(pos, count))

LEMMA FlatIsBytes ==
  ASSUME DeviceOK
  PROVE  Flat \in Seq(Bytes) /\ Len(Flat) \in Nat
<1>1. EntriesInPlace(Bytes, circ_buffer)
  BY CommandsBytes, EntryBytes DEF DeviceOK, RingShape, CommandsAreBytes
<1>2. Flat \in Seq(Bytes)
  BY <1>1 DEF EntriesInPlace, Flat
<1>3. QED
  BY <1>2

\* A slice of an entry is a slice of the contents.
LEMMA SameSlice ==
  ASSUME NEW B, NEW flat \in Seq(B), NEW entry \in Seq(B), NEW start \in Nat,
         start + Len(entry) <= Len(flat),
         \A k \in 1 .. Len(entry) : flat[start + k] = entry[k],
         NEW i \in Nat, NEW n \in Nat, i + n <= Len(entry)
  PROVE  /\ SubSeq(entry, i + 1, i + n) \in Seq(B)
         /\ Len(SubSeq(entry, i + 1, i + n)) = n
         /\ SubSeq(entry, i + 1, i + n) = SubSeq(flat, (start + i) + 1, (start + i) + n)
<1> DEFINE x == SubSeq(entry, i + 1, i + n)
           y == SubSeq(flat, (start + i) + 1, (start + i) + n)
<1>1. Len(entry) \in Nat /\ Len(flat) \in Nat
  OBVIOUS
<1>2. /\ x \in Seq(B) /\ Len(x) = n
      /\ \A k \in 1 .. n : x[k] = entry[i + k]
  BY <1>1
<1>3. /\ y \in Seq(B) /\ Len(y) = n
      /\ \A k \in 1 .. n : y[k] = flat[(start + i) + k]
  <2>1. (start + i) + n <= Len(flat) /\ start + i \in Nat
    BY <1>1
  <2>2. QED
    BY <1>1, <2>1
<1>4. ASSUME NEW k \in 1 .. n PROVE x[k] = y[k]
  <2>1. i + k \in 1 .. Len(entry) /\ (start + i) + k = start + (i + k)
    BY <1>1
  <2>2. flat[start + (i + k)] = entry[i + k]
    BY <2>1
  <2> HIDE DEF x, y
  <2>3. QED
    BY <1>2, <1>3, <2>1, <2>2
<1> HIDE DEF x, y
<1>5. x = y
  BY <1>2, <1>3, <1>4, SeqEqual
<1>6. QED
  BY <1>2, <1>5 DEF x, y

LEMMA ReadIs ==
  ASSUME DeviceOK, NEW pos \in Nat, NEW count \in Nat
  PROVE  /\ Found(pos) = NoEntry <=> pos >= Len(Flat)
         /\ Found(pos) # NoEntry =>
              /\ CopiedSize(pos, count) \in 0 .. count
              /\ CopiedSize(pos, count) = 0 => count = 0
              /\ Copied(pos, count) \in Seq(Bytes)
              /\ Len(Copied(pos, count)) = CopiedSize(pos, count)
              /\ Copied(pos, count) = SubSeq(Flat, pos + 1, pos + CopiedSize(pos, count))
              /\ pos + CopiedSize(pos, count) <= Len(Flat)
<1> DEFINE b        == circ_buffer
           start(i) == BytesBefore(b)[i]
           entry(i) == b.entry[SlotAfter(b, i)]
<1>1. /\ b \in Buffers(Commands) /\ WellFormed(b) /\ Commands \subseteq Seq(Bytes)
      /\ b.out_offs \in Slots
  BY CommandsBytes DEF DeviceOK, RingShape, CommandsAreBytes, Buffers
<1>2. FindsTheByte(Bytes, b, pos)
  BY <1>1, FindIs
<1>3. Len(Flat) \in Nat /\ Flat \in Seq(Bytes)
  BY FlatIsBytes
<1>4. pos >= Len(Flat) => Found(pos) = NoEntry
  BY <1>2 DEF FindsTheByte, Found, Flat
<1>5. ASSUME pos < Len(Flat)
      PROVE  /\ Found(pos) # NoEntry
             /\ CopiedSize(pos, count) \in 0 .. count
             /\ CopiedSize(pos, count) = 0 => count = 0
             /\ Copied(pos, count) \in Seq(Bytes)
             /\ Len(Copied(pos, count)) = CopiedSize(pos, count)
             /\ Copied(pos, count) = SubSeq(Flat, pos + 1, pos + CopiedSize(pos, count))
             /\ pos + CopiedSize(pos, count) <= Len(Flat)
  <2>1. PICK i \in 0 .. ValidEntries(b) - 1 :
          /\ Found(pos) = [slot |-> SlotAfter(b, i), offset |-> pos - start(i)]
          /\ entry(i) \in Seq(Bytes)
          /\ start(i) \in Nat /\ start(i) <= pos /\ pos < start(i) + Len(entry(i))
          /\ start(i) + Len(entry(i)) <= Len(Flat)
          /\ \A k \in 1 .. Len(entry(i)) : Flat[start(i) + k] = entry(i)[k]
    BY <1>2, <1>5 DEF FindsTheByte, Found, Flat
  <2> DEFINE st   == start(i)
             en   == entry(i)
             off  == pos - st
             size == CopiedSize(pos, count)
  <2>2. SlotAfter(b, i) \in Slots
    <3>1. ValidEntries(b) \in 0 .. Capacity
      BY <1>1, ContentsIsSeq
    <3>2. i \in 0 .. Capacity - 1
      BY <3>1, CapacityAssumption
    <3>3. QED
      BY <1>1, <3>2, SlotAfterWraps
  <2>3. Found(pos) # NoEntry
    <3>1. Found(pos).slot = SlotAfter(b, i)
      BY <2>1
    <3>2. QED
      BY <2>2, <3>1 DEF NoEntry, Slots
  <2>4. b.entry[Found(pos).slot] = en /\ Found(pos).offset = off
    BY <2>1
  <2>5. size = Min({Len(en) - off, count})
    BY <2>4 DEF CopiedSize
  <2>6. /\ en \in Seq(Bytes) /\ st \in Nat /\ st + Len(en) <= Len(Flat)
        /\ st <= pos /\ pos < st + Len(en)
        /\ \A k \in 1 .. Len(en) : Flat[st + k] = en[k]
    BY <2>1
  <2>7. Copied(pos, count) = SubSeq(en, off + 1, off + size)
    BY <2>4 DEF Copied
  <2> HIDE DEF st, en, size
  <2>8. Len(en) \in Nat /\ off \in Nat /\ Len(en) - off \in Nat \ {0} /\ st + off = pos
    BY <2>6
  <2>9. size \in {Len(en) - off, count} /\ size <= Len(en) - off /\ size <= count
    <3> DEFINE two == {Len(en) - off, count}
    <3>1. two \subseteq Nat /\ two # {}
      BY <2>8
    <3>2. Len(en) - off \in two /\ count \in two
      OBVIOUS
    <3> HIDE DEF two, off
    <3>3. Min(two) \in two /\ \A x \in two : Min(two) <= x
      BY <3>1, MinOfNaturals
    <3>4. QED
      BY <2>5, <3>2, <3>3 DEF two
  <2> HIDE DEF off
  <2>10. size \in 0 .. count /\ (size = 0 => count = 0) /\ off + size <= Len(en) /\ size \in Nat
    BY <2>8, <2>9
  <2>11. /\ SubSeq(en, off + 1, off + size) \in Seq(Bytes)
         /\ Len(SubSeq(en, off + 1, off + size)) = size
         /\ SubSeq(en, off + 1, off + size) = SubSeq(Flat, (st + off) + 1, (st + off) + size)
    <3>1. /\ Flat \in Seq(Bytes) /\ en \in Seq(Bytes) /\ st \in Nat /\ off \in Nat
          /\ size \in Nat /\ st + Len(en) <= Len(Flat) /\ off + size <= Len(en)
          /\ \A k \in 1 .. Len(en) : Flat[st + k] = en[k]
      BY <1>3, <2>6, <2>8, <2>10
    <3>2. QED
      BY <3>1, SameSlice
  <2>12. pos + size <= Len(Flat)
    BY <1>3, <2>6, <2>8, <2>10
  <2>13. QED
    BY <2>3, <2>7, <2>8, <2>10, <2>11, <2>12 DEF size
<1>6. QED
  BY <1>3, <1>4, <1>5
-----------------------------------------------------------------------------
(***************************************************************************)
(* The part of the invariant about arguments and positions: which calls    *)
(* get how far, and with what.                                             *)
(***************************************************************************)
Shape(c, s) ==
  s # "user" =>
    /\ c \in Calls
    /\ s = "store" => c.op = "llseek"
    /\ s = "return" => c.op \in {"read", "write"}
    /\ s \in {"enter", "locked"} /\ c.op = "read" => c.data = << >>
    /\ s = "locked" /\ c.op = "ioctl" => c.arg.write_cmd < Capacity

PlacesOK ==
  /\ opened \subseteq Files
  /\ f_pos \in [Files -> Nat]
  /\ call \in [Procs -> Calls \cup {NoCall}]
  /\ \A p \in Procs : Shape(call[p], pc[p])

\* What the calls of each kind have.
LEMMA CallFields ==
  ASSUME NEW c \in Calls
  PROVE  /\ c.file \in Files /\ c.op \in {"read", "write", "llseek", "ioctl"}
         /\ c.op = "read" => /\ c.count \in Nat /\ c.pos \in Nat /\ c.count \in Counts
                             /\ c.data \in Seq(Bytes)
         /\ c.op = "write" => c.pos \in Nat /\ c.buf \in Payloads
         /\ c.op = "llseek" => c.arg \in Seeks /\ c.newpos \in Nat
         /\ c.op = "ioctl" => /\ c.arg \in SeekTos
                              /\ c.arg.write_cmd \in Nat /\ c.arg.write_cmd_offset \in Nat
<1>1. CASE c \in ReadCalls
  BY <1>1, DriverAssumption DEF ReadCalls, Positions
<1>2. CASE c \in WriteCalls
  BY <1>2 DEF WriteCalls, Positions
<1>3. CASE c \in SeekCalls
  BY <1>3 DEF SeekCalls, Positions
<1>4. CASE c \in IoctlCalls
  <2>1. c.arg \in SeekTos /\ c.op = "ioctl" /\ c.file \in Files
    BY <1>4 DEF IoctlCalls
  <2>2. c.arg.write_cmd \in Nat /\ c.arg.write_cmd_offset \in Nat
    BY <2>1, DriverAssumption
  <2>3. QED
    BY <2>1, <2>2
<1>5. QED
  BY <1>1, <1>2, <1>3, <1>4 DEF Calls

LEMMA PlacesInit == Init => PlacesOK
  BY DEF Init, PlacesOK, Shape

\* A process goes from one step of a call to another.
LEMMA PlacesMove ==
  ASSUME PlacesOK, ControlOK, NEW p \in Procs, NEW c \in Calls \cup {NoCall}, NEW s,
         Shape(c, s), call' = [call EXCEPT ![p] = c], pc' = [pc EXCEPT ![p] = s],
         opened' \subseteq Files, f_pos' \in [Files -> Nat]
  PROVE  PlacesOK'
<1>1. /\ call' \in [Procs -> Calls \cup {NoCall}] /\ call'[p] = c
      /\ \A q \in Procs : q # p => call'[q] = call[q]
  BY DEF PlacesOK
<1>2. pc'[p] = s /\ \A q \in Procs : q # p => pc'[q] = pc[q]
  BY DEF ControlOK
<1>3. ASSUME NEW q \in Procs PROVE Shape(call'[q], pc'[q])
  BY <1>1, <1>2 DEF PlacesOK
<1>4. QED
  BY <1>1, <1>3 DEF PlacesOK

LEMMA PlacesBack ==
  ASSUME PlacesOK, ControlOK, NEW p \in Procs, GoBack(p),
         opened' \subseteq Files, f_pos' \in [Files -> Nat]
  PROVE  PlacesOK'
<1>1. NoCall \in Calls \cup {NoCall} /\ Shape(NoCall, "user")
  BY DEF Shape
<1>2. QED
  BY <1>1, PlacesMove DEF GoBack

LEMMA PlacesSame ==
  ASSUME PlacesOK, UNCHANGED <<pc, call>>,
         opened' \subseteq Files, f_pos' \in [Files -> Nat]
  PROVE  PlacesOK'
  BY DEF PlacesOK

LEMMA PlacesEnter ==
  ASSUME PlacesOK, ControlOK, NEW p \in Procs, NEW c \in Calls, EnterCall(p, c),
         c.op = "read" => c.data = << >>
  PROVE  PlacesOK'
<1>1. Shape(c, "enter")
  BY DEF Shape
<1>2. QED
  BY <1>1, PlacesMove DEF EnterCall, PlacesOK

\* The kernel's and the lock's steps.
LEMMA PlacesKernelSteps ==
  ASSUME PlacesOK, ControlOK, NEW p \in Procs,
         Enter(p) \/ mutex_lock(p) \/ Interrupted(p) \/ RefuseSeekTo(p)
           \/ StorePosition(p)
  PROVE  PlacesOK'
<1>0. \A f \in Files : f_pos[f] \in Positions
  BY DEF PlacesOK, Positions
<1>1. CASE EnterRead(p)
  <2>1. PICK f \in Files, n \in Counts : EnterCall(p, ReadCall(f, n, f_pos[f], << >>))
    BY <1>1 DEF EnterRead
  <2> DEFINE c == ReadCall(f, n, f_pos[f], << >>)
  <2>2. c \in ReadCalls /\ c.data = << >>
    BY <1>0 DEF ReadCalls, ReadCall
  <2> HIDE DEF c
  <2>3. c \in Calls
    BY <2>2 DEF Calls
  <2>4. EnterCall(p, c)
    BY <2>1 DEF c
  <2>5. QED
    BY <2>2, <2>3, <2>4, PlacesEnter
<1>2. CASE EnterWrite(p)
  <2>1. PICK f \in Files, d \in Payloads :
          EnterCall(p, [op |-> "write", file |-> f, buf |-> d, pos |-> f_pos[f]])
    BY <1>2 DEF EnterWrite
  <2> DEFINE c == [op |-> "write", file |-> f, buf |-> d, pos |-> f_pos[f]]
  <2>2. c \in WriteCalls /\ c.op # "read"
    BY <1>0 DEF WriteCalls
  <2> HIDE DEF c
  <2>3. c \in Calls
    BY <2>2 DEF Calls
  <2>4. EnterCall(p, c)
    BY <2>1 DEF c
  <2>5. QED
    BY <2>2, <2>3, <2>4, PlacesEnter
<1>3. CASE EnterLlseek(p)
  <2>1. PICK f \in Files, a \in Seeks : EnterCall(p, SeekCall(f, a, 0))
    BY <1>3 DEF EnterLlseek
  <2> DEFINE c == SeekCall(f, a, 0)
  <2>2. c \in SeekCalls /\ c.op # "read"
    BY DEF SeekCalls, SeekCall, Positions
  <2> HIDE DEF c
  <2>3. c \in Calls
    BY <2>2 DEF Calls
  <2>4. EnterCall(p, c)
    BY <2>1 DEF c
  <2>5. QED
    BY <2>2, <2>3, <2>4, PlacesEnter
<1>4. CASE EnterIoctl(p)
  <2>1. PICK f \in Files, a \in SeekTos :
          EnterCall(p, [op |-> "ioctl", file |-> f, arg |-> a])
    BY <1>4 DEF EnterIoctl
  <2> DEFINE c == [op |-> "ioctl", file |-> f, arg |-> a]
  <2>2. c \in IoctlCalls /\ c.op # "read"
    BY DEF IoctlCalls
  <2> HIDE DEF c
  <2>3. c \in Calls
    BY <2>2 DEF Calls
  <2>4. EnterCall(p, c)
    BY <2>1 DEF c
  <2>5. QED
    BY <2>2, <2>3, <2>4, PlacesEnter
<1>5. CASE mutex_lock(p)
  <2> DEFINE c == call[p]
  <2>1. /\ pc[p] = "enter" /\ pc' = [pc EXCEPT ![p] = "locked"]
        /\ UNCHANGED <<opened, f_pos, call>>
        /\ ~(c.op = "ioctl" /\ c.arg.write_cmd >= Capacity)
    BY <1>5 DEF mutex_lock, OutOfRange
  <2>2. c \in Calls /\ Shape(c, "enter") /\ call' = [call EXCEPT ![p] = c]
    BY <2>1 DEF PlacesOK, Shape
  <2> HIDE DEF c
  <2>3. c.op = "ioctl" => c.arg.write_cmd \in Nat
    BY <2>2, CallFields
  <2>4. Shape(c, "locked")
    <3>1. c.op = "ioctl" => c.arg.write_cmd < Capacity
      BY <2>1, <2>3, CapacityAssumption
    <3>2. c \in Calls /\ (c.op = "read" => c.data = << >>)
      BY <2>2 DEF Shape
    <3>3. QED
      BY <3>1, <3>2 DEF Shape
  <2>5. QED
    BY <2>1, <2>2, <2>4, PlacesMove DEF PlacesOK
<1>6. CASE Interrupted(p)
  BY <1>6, PlacesBack DEF Interrupted, PlacesOK
<1>7. CASE RefuseSeekTo(p)
  BY <1>7, PlacesBack DEF RefuseSeekTo, PlacesOK
<1>8. CASE StorePosition(p)
  <2>1. /\ pc[p] = "return" /\ f_pos' = [f_pos EXCEPT ![call[p].file] = call[p].pos]
        /\ GoBack(p) /\ UNCHANGED opened
    BY <1>8 DEF StorePosition, GoBack
  <2>2. call[p] \in Calls /\ call[p].op \in {"read", "write"}
    BY <2>1 DEF PlacesOK, Shape
  <2>3. call[p].pos \in Nat
    BY <2>2, CallFields
  <2>4. f_pos' \in [Files -> Nat]
    BY <2>1, <2>3 DEF PlacesOK
  <2>5. QED
    BY <2>1, <2>4, PlacesBack DEF PlacesOK
<1>9. QED
  BY <1>1, <1>2, <1>3, <1>4, <1>5, <1>6, <1>7, <1>8 DEF Enter

LEMMA PlacesFail ==
  ASSUME PlacesOK, ControlOK, NEW p \in Procs, FailAndUnlock(p)
  PROVE  PlacesOK'
  BY PlacesBack DEF FailAndUnlock, PlacesOK

LEMMA PlacesReturn ==
  ASSUME PlacesOK, ControlOK, NEW p \in Procs, NEW c \in Calls, UnlockAndReturn(p, c),
         c.op \in {"read", "write"}
  PROVE  PlacesOK'
<1>1. Shape(c, "return")
  BY DEF Shape
<1>2. QED
  BY <1>1, PlacesMove DEF UnlockAndReturn, PlacesOK

\* What a call has when its handler has the lock.
LEMMA LockedCall ==
  ASSUME PlacesOK, NEW p \in Procs, NEW op, Locked(p, op)
  PROVE  call[p] \in Calls /\ call[p].op = op /\ pc[p] = "locked" /\ Shape(call[p], "locked")
  BY DEF PlacesOK, Shape, Locked
-----------------------------------------------------------------------------
(***************************************************************************)
(* aesd_read, in one of its three ways.                                    *)
(***************************************************************************)
AtEnd(p) == UnlockAndReturn(p, call[p])

CopiesSome(p) ==
  LET c == call[p]
  IN  UnlockAndReturn(p, ReadCall(c.file, c.count, c.pos + CopiedSize(c.pos, c.count),
                                  Copied(c.pos, c.count)))

LEMMA ReadWays ==
  ASSUME PlacesOK, ControlOK, DeviceOK, NEW p \in Procs, aesd_read(p)
  PROVE  /\ call[p] \in Calls /\ call[p].op = "read" /\ call[p].data = << >>
         /\ call[p].pos \in Nat /\ call[p].count \in Nat
         /\ \/ Found(call[p].pos) = NoEntry /\ AtEnd(p)
            \/ FailAndUnlock(p)
            \/ Found(call[p].pos) # NoEntry /\ CopiesSome(p)
<1>1. Locked(p, "read")
  BY DEF aesd_read
<1>2. call[p] \in Calls /\ call[p].op = "read" /\ call[p].data = << >>
  BY <1>1, LockedCall DEF Shape
<1>3. call[p].pos \in Nat /\ call[p].count \in Nat
  BY <1>2, CallFields
<1>4. \/ Found(call[p].pos) = NoEntry /\ AtEnd(p)
      \/ FailAndUnlock(p)
      \/ Found(call[p].pos) # NoEntry /\ CopiesSome(p)
  BY DEF aesd_read, Found, AtEnd, CopiesSome, Copied, CopiedSize
<1>5. QED
  BY <1>2, <1>3, <1>4

LEMMA PlacesRead ==
  ASSUME PlacesOK, ControlOK, DeviceOK, NEW p \in Procs, aesd_read(p)
  PROVE  PlacesOK'
<1> DEFINE c == call[p]
           d == ReadCall(c.file, c.count, c.pos + CopiedSize(c.pos, c.count),
                         Copied(c.pos, c.count))
<1>1. /\ c \in Calls /\ c.op = "read" /\ c.pos \in Nat /\ c.count \in Nat
      /\ \/ AtEnd(p)
         \/ FailAndUnlock(p)
         \/ Found(c.pos) # NoEntry /\ CopiesSome(p)
  BY ReadWays
<1>2. CASE AtEnd(p)
  BY <1>1, <1>2, PlacesReturn DEF AtEnd
<1>3. CASE FailAndUnlock(p)
  BY <1>3, PlacesFail
<1>4. CASE Found(c.pos) # NoEntry /\ CopiesSome(p)
  <2>1. CopiedSize(c.pos, c.count) \in Nat /\ Copied(c.pos, c.count) \in Seq(Bytes)
    <3> HIDE DEF c
    <3>1. c.pos \in Nat /\ c.count \in Nat /\ Found(c.pos) # NoEntry
      BY <1>1, <1>4
    <3>2. /\ CopiedSize(c.pos, c.count) \in 0 .. c.count
          /\ Copied(c.pos, c.count) \in Seq(Bytes)
      BY <3>1, ReadIs
    <3>3. QED
      BY <3>1, <3>2
  <2>2. c.file \in Files /\ c.count \in Counts
    BY <1>1, CallFields
  <2>3. d \in ReadCalls /\ d.op = "read"
    BY <1>1, <2>1, <2>2 DEF ReadCall, ReadCalls, Positions
  <2>4. UnlockAndReturn(p, d)
    BY <1>4 DEF CopiesSome
  <2> HIDE DEF d
  <2>5. d \in Calls
    BY <2>3 DEF Calls
  <2>6. QED
    BY <2>3, <2>4, <2>5, PlacesReturn
<1>5. QED
  BY <1>1, <1>2, <1>3, <1>4

LEMMA PlacesWrite ==
  ASSUME PlacesOK, ControlOK, NEW p \in Procs, aesd_write(p)
  PROVE  PlacesOK'
<1>1. call[p] \in Calls /\ call[p].op = "write"
  BY LockedCall DEF aesd_write
<1>2. FailAndUnlock(p) \/ UnlockAndReturn(p, call[p])
  BY DEF aesd_write, Written, RefuseData, LoseWorkingEntry, StoreCommand, KeepButFail,
         KeepForLater
<1>3. QED
  BY <1>1, <1>2, PlacesFail, PlacesReturn

LEMMA PlacesIoctl ==
  ASSUME PlacesOK, ControlOK, DeviceOK, NEW p \in Procs, aesd_ioctl(p)
  PROVE  PlacesOK'
<1>1. /\ call[p] \in Calls /\ call[p].op = "ioctl" /\ call[p].arg.write_cmd < Capacity
  BY LockedCall DEF aesd_ioctl, Shape
<1>2. call[p].arg.write_cmd \in Nat /\ call[p].arg.write_cmd_offset \in Nat
  BY <1>1, CallFields
<1>3. SoughtPosition(p) \in Nat
  <2> DEFINE i == call[p].arg.write_cmd
  <2>1. i \in 0 .. Capacity
    BY <1>1, <1>2, CapacityAssumption
  <2> HIDE DEF i
  <2>2. BytesBefore(circ_buffer)[i] = Len(Passed(circ_buffer, i))
    BY <2>1, BytesBeforeIs, CommandsBytes DEF DeviceOK, CommandsAreBytes
  <2>3. Passed(circ_buffer, i) \in Seq(Bytes)
    BY <2>1, PassedIsBytes, CommandsBytes DEF DeviceOK, CommandsAreBytes
  <2>4. Len(Passed(circ_buffer, i)) \in Nat
    BY <2>3
  <2>5. QED
    BY <1>2, <2>2, <2>4 DEF SoughtPosition, i
<1>4. GoBack(p) /\ UNCHANGED opened
  BY DEF aesd_ioctl, FailAndUnlock
<1>5. f_pos' \in [Files -> Nat]
  <2>1. \/ UNCHANGED f_pos
        \/ f_pos' = [f_pos EXCEPT ![call[p].file] = SoughtPosition(p)]
    BY DEF aesd_ioctl, FailAndUnlock
  <2>2. QED
    BY <1>3, <2>1 DEF PlacesOK
<1>6. QED
  BY <1>4, <1>5, PlacesBack DEF PlacesOK

\* A position is not negative when it gets as far as the file.
LEMMA NewPosIs ==
  ASSUME PlacesOK, DeviceOK, NEW p \in Procs, Locked(p, "llseek")
  PROVE  /\ NewPos(p) \in Int
         /\ call[p].arg.off \in -PosLimit .. PosLimit - 1
         /\ call[p].arg.whence = 2 => NewPos(p) = Wrapped(Len(Flat) + call[p].arg.off)
<1>1. call[p] \in Calls /\ call[p].op = "llseek"
  BY LockedCall
<1> DEFINE arg == call[p].arg
<1>2. call[p].file \in Files /\ arg \in Seeks
  BY <1>1, CallFields
<1>3. arg.off \in -PosLimit .. PosLimit - 1 /\ PosLimit \in Nat \ {0}
  BY <1>2, DriverAssumption
<1>4. f_pos[call[p].file] \in Nat
  BY <1>2 DEF PlacesOK
<1>5. total_size = Len(Flat) /\ Len(Flat) \in Nat
  BY TotalSizeIs, FlatIsBytes
<1>6. ASSUME NEW x \in Int PROVE Wrapped(x) \in Int
  <2>1. x + PosLimit \in Int /\ 2 * PosLimit \in Nat \ {0}
    BY <1>3
  <2>2. (x + PosLimit) % (2 * PosLimit) \in Int
    BY <2>1
  <2>3. QED
    BY <1>3, <2>2 DEF Wrapped
<1>7. Wrapped(f_pos[call[p].file] + arg.off) \in Int /\ Wrapped(total_size + arg.off) \in Int
  <2>1. f_pos[call[p].file] + arg.off \in Int /\ total_size + arg.off \in Int
    BY <1>3, <1>4, <1>5
  <2>2. QED
    BY <1>6, <2>1
<1>8. arg.off \in Int
  BY <1>3
<1>9. NewPos(p) \in Int
  BY <1>7, <1>8 DEF NewPos
<1>10. arg.whence = 2 => NewPos(p) = Wrapped(Len(Flat) + arg.off)
  BY <1>5 DEF NewPos
<1>11. QED
  BY <1>3, <1>9, <1>10

LEMMA PlacesLlseek ==
  ASSUME PlacesOK, ControlOK, DeviceOK, NEW p \in Procs, aesd_llseek(p)
  PROVE  PlacesOK'
<1>1. Locked(p, "llseek")
  BY DEF aesd_llseek
<1>2. call[p] \in Calls /\ call[p].op = "llseek" /\ NewPos(p) \in Int
  BY <1>1, LockedCall, NewPosIs
<1>3. CASE NewPos(p) < 0
  BY <1>3, PlacesFail DEF aesd_llseek
<1>4. CASE ~(NewPos(p) < 0)
  <2> DEFINE c == SeekCall(call[p].file, call[p].arg, NewPos(p))
  <2>1. /\ pc' = [pc EXCEPT ![p] = "store"] /\ call' = [call EXCEPT ![p] = c]
        /\ UNCHANGED <<opened, f_pos>>
    BY <1>4 DEF aesd_llseek
  <2>2. NewPos(p) \in Nat
    BY <1>2, <1>4
  <2>3. call[p].file \in Files /\ call[p].arg \in Seeks
    BY <1>2, CallFields
  <2>4. c \in SeekCalls /\ c.op = "llseek"
    BY <2>2, <2>3 DEF SeekCall, SeekCalls, Positions
  <2> HIDE DEF c
  <2>5. c \in Calls /\ Shape(c, "store")
    BY <2>4 DEF Calls, Shape
  <2>6. QED
    BY <2>1, <2>5, PlacesMove DEF PlacesOK
<1>5. QED
  BY <1>3, <1>4

LEMMA PlacesStoreNewPos ==
  ASSUME PlacesOK, ControlOK, NEW p \in Procs, StoreNewPos(p)
  PROVE  PlacesOK'
<1>1. call[p] \in Calls /\ call[p].op = "llseek"
  BY DEF StoreNewPos, PlacesOK, Shape
<1>2. call[p].newpos \in Nat
  BY <1>1, CallFields
<1>3. f_pos' \in [Files -> Nat]
  BY <1>2 DEF StoreNewPos, PlacesOK
<1>4. QED
  BY <1>3, PlacesBack DEF StoreNewPos, PlacesOK

LEMMA PlacesStep == PlacesOK /\ ControlOK /\ DeviceOK /\ [Next]_vars => PlacesOK'
<1> SUFFICES ASSUME PlacesOK, ControlOK, DeviceOK, [Next]_vars PROVE PlacesOK'
  OBVIOUS
<1>1. CASE Reload
  BY <1>1, PlacesSame DEF Reload, PlacesOK
<1>2. ASSUME NEW f \in Files, aesd_open(f) \/ aesd_release(f) PROVE PlacesOK'
  BY <1>2, PlacesSame DEF aesd_open, aesd_release, PlacesOK
<1>3. ASSUME NEW p \in Procs, Enter(p) \/ mutex_lock(p) \/ Interrupted(p) \/ Work(p)
      PROVE  PlacesOK'
  BY <1>3, PlacesKernelSteps, PlacesRead, PlacesWrite, PlacesLlseek, PlacesStoreNewPos,
     PlacesIoctl DEF Work
<1>4. CASE UNCHANGED vars
  BY <1>4, PlacesSame DEF vars, PlacesOK
<1>5. QED
  BY <1>1, <1>2, <1>3, <1>4 DEF Next

DriverInv == ControlOK /\ DeviceOK /\ PlacesOK

LEMMA DriverInvariant == Spec => []DriverInv
<1>1. Init => PlacesOK
  BY PlacesInit
<1>2. PlacesOK /\ ControlOK /\ DeviceOK /\ [Next]_vars => PlacesOK'
  BY PlacesStep
<1>3. ControlOK /\ DeviceOK /\ PlacesOK <=> DriverInv
  BY DEF DriverInv
<1>4. QED
  BY <1>1, <1>2, <1>3, ControlAndDevice, PTL DEF Spec

(***************************************************************************)
(* Type correctness: above all, no position is ever negative, whatever is  *)
(* added up to it and wherever it wraps.                                   *)
(***************************************************************************)
THEOREM DriverTypes == Spec => []TypeOK
<1>1. DriverInv => TypeOK
  BY DEF DriverInv, ControlOK, DeviceOK, PlacesOK, TypeOK, Positions
<1>2. QED
  BY <1>1, DriverInvariant, PTL
-----------------------------------------------------------------------------
(***************************************************************************)
(* Only its own handler takes a process on that holds the lock.            *)
(***************************************************************************)
LEMMA WhoGoesOn ==
  ASSUME ControlOK, PlacesOK, [Next]_vars, NEW p \in Procs, pc[p] = "locked", pc'[p] # "locked"
  PROVE  /\ call[p].op = "read" => aesd_read(p)
         /\ call[p].op = "llseek" => aesd_llseek(p)
         /\ call[p].op = "ioctl" => aesd_ioctl(p)
<1>1. ASSUME NEW q \in Procs, NEW s, pc' = [pc EXCEPT ![q] = s] PROVE q = p
  BY <1>1 DEF ControlOK
<1>2. ASSUME NEW q \in Procs, Enter(q) \/ mutex_lock(q) \/ Interrupted(q) \/ Work(q)
      PROVE  q = p
  <2>1. \E s : pc' = [pc EXCEPT ![q] = s]
    <3>1. CASE Enter(q)
      BY <3>1 DEF Enter, EnterRead, EnterWrite, EnterLlseek, EnterIoctl, EnterCall
    <3>2. CASE mutex_lock(q) \/ Interrupted(q)
      BY <3>2 DEF mutex_lock, Interrupted, GoBack
    <3>3. CASE Work(q)
      BY <3>3 DEF Work, RefuseSeekTo, aesd_read, aesd_write, aesd_llseek, StoreNewPos,
                  aesd_ioctl, StorePosition, RefuseData, LoseWorkingEntry, KeepForLater,
                  KeepButFail, StoreCommand, FailAndUnlock, UnlockAndReturn, GoBack
    <3>4. QED
      BY <1>2, <3>1, <3>2, <3>3
  <2>2. QED
    BY <1>1, <2>1
<1>3. ASSUME UNCHANGED pc PROVE FALSE
  BY <1>3
<1>4. Enter(p) \/ mutex_lock(p) \/ Interrupted(p) \/ Work(p)
  BY <1>2, <1>3 DEF Next, vars, Reload, aesd_open, aesd_release
<1>5. ~Enter(p)
  BY DEF Enter, EnterRead, EnterWrite, EnterLlseek, EnterIoctl, EnterCall
<1>6. ~mutex_lock(p) /\ ~Interrupted(p) /\ ~RefuseSeekTo(p) /\ ~StoreNewPos(p) /\ ~StorePosition(p)
  BY DEF mutex_lock, Interrupted, RefuseSeekTo, StoreNewPos, StorePosition
<1>7. aesd_read(p) \/ aesd_write(p) \/ aesd_llseek(p) \/ aesd_ioctl(p)
  BY <1>4, <1>5, <1>6 DEF Work
<1>8. /\ aesd_read(p) => call[p].op = "read"
      /\ aesd_write(p) => call[p].op = "write"
      /\ aesd_llseek(p) => call[p].op = "llseek"
      /\ aesd_ioctl(p) => call[p].op = "ioctl"
  BY DEF aesd_read, aesd_write, aesd_llseek, aesd_ioctl, Locked
<1>9. QED
  BY <1>7, <1>8

LEMMA ReadStep ==
  ASSUME DriverInv, [Next]_vars, NEW p \in Procs, Locked(p, "read"), pc'[p] = "return"
  PROVE  ReadCopiesWhatIsThere(p)
<1> DEFINE c    == call[p]
           d    == call'[p]
           size == CopiedSize(c.pos, c.count)
<1>0. ControlOK /\ DeviceOK /\ PlacesOK
  BY DEF DriverInv
<1>1. aesd_read(p)
  BY <1>0, WhoGoesOn DEF Locked
<1>2. /\ c.data = << >> /\ c.pos \in Nat /\ c.count \in Nat
      /\ \/ Found(c.pos) = NoEntry /\ AtEnd(p)
         \/ FailAndUnlock(p)
         \/ Found(c.pos) # NoEntry /\ CopiesSome(p)
  BY <1>0, <1>1, ReadWays
<1>3. Flat \in Seq(Bytes) /\ Len(Flat) \in Nat
  BY <1>0, FlatIsBytes
<1>4. ~FailAndUnlock(p)
  BY <1>0 DEF FailAndUnlock, GoBack, ControlOK
<1>5. CASE Found(c.pos) = NoEntry /\ AtEnd(p)
  <2>1. d = c
    BY <1>0, <1>5 DEF AtEnd, UnlockAndReturn, PlacesOK
  <2> HIDE DEF c, d
  <2>2. c.pos >= Len(Flat)
    BY <1>0, <1>2, <1>5, ReadIs
  <2>3. SubSeq(Flat, c.pos + 1, c.pos) = << >> /\ Len(<< >>) = 0 /\ 0 \in 0 .. c.count
    BY <1>2, <1>3
  <2>4. d.data = << >> /\ d.pos = c.pos
    BY <1>2, <2>1
  <2>5. d.data = SubSeq(Flat, c.pos + 1, d.pos) /\ Len(d.data) \in 0 .. c.count
    BY <2>3, <2>4, Zenon
  <2>6. QED
    BY <2>2, <2>5 DEF ReadCopiesWhatIsThere, c, d
<1>6. CASE Found(c.pos) # NoEntry /\ CopiesSome(p)
  <2>1. d = ReadCall(c.file, c.count, c.pos + size, Copied(c.pos, c.count))
    BY <1>0, <1>6 DEF CopiesSome, UnlockAndReturn, PlacesOK
  <2>2. d.data = Copied(c.pos, c.count) /\ d.pos = c.pos + size
    BY <2>1 DEF ReadCall
  <2> HIDE DEF c, d
  <2>3. /\ size \in 0 .. c.count /\ (size = 0 => c.count = 0)
        /\ Copied(c.pos, c.count) \in Seq(Bytes)
        /\ Len(Copied(c.pos, c.count)) = size
        /\ Copied(c.pos, c.count) = SubSeq(Flat, c.pos + 1, c.pos + size)
    BY <1>0, <1>2, <1>6, ReadIs
  <2> HIDE DEF size
  <2>4. d.data = SubSeq(Flat, c.pos + 1, d.pos) /\ Len(d.data) = size
    BY <2>2, <2>3
  <2>5. d.data = << >> => size = 0
    <3>1. Len(<< >>) = 0
      OBVIOUS
    <3>2. QED
      BY <2>4, <3>1
  <2>6. QED
    BY <2>3, <2>4, <2>5 DEF ReadCopiesWhatIsThere, c, d
<1>7. QED
  BY <1>2, <1>4, <1>5, <1>6

(***************************************************************************)
(* Every read that succeeds delivers exactly the bytes from its position   *)
(* on: wherever in the ring they are, however many processes write in      *)
(* between, and whatever count it asks for.                                *)
(***************************************************************************)
THEOREM ReadsAreExact == Spec => ReadsDeliver
<1>1. DriverInv /\ [Next]_vars
        => [\A p \in Procs : Locked(p, "read") /\ pc'[p] = "return"
                               => ReadCopiesWhatIsThere(p)]_vars
  BY ReadStep
<1>2. QED
  BY <1>1, DriverInvariant, PTL DEF Spec, ReadsDeliver
-----------------------------------------------------------------------------
(***************************************************************************)
(* AESDCHAR_IOCSEEKTO: where the command asked for is, and what the slots  *)
(* behind the last one hold.                                               *)
(***************************************************************************)
LEMMA SoughtIs ==
  ASSUME DeviceOK, PlacesOK, NEW p \in Procs, aesd_ioctl(p)
  PROVE  LET cmd      == call[p].arg.write_cmd
             commands == Contents(circ_buffer)
             before   == FlattenSeq(SubSeq(commands, 1, cmd))
         IN  /\ cmd \in Nat /\ call[p].arg.write_cmd_offset \in Nat
             /\ cmd < Len(commands) =>
                  /\ Sought(p) = commands[cmd + 1] /\ Len(Sought(p)) \in Nat
                  /\ BytesBefore(circ_buffer)[cmd] = Len(before) /\ Len(before) \in Nat
                  /\ Len(before) + Len(Sought(p)) <= Len(Flat)
             /\ ~(cmd < Len(commands)) => Len(Sought(p)) = 0
<1> DEFINE b   == circ_buffer
           n   == ValidEntries(b)
           cmd == call[p].arg.write_cmd
           commands == Contents(b)
           before   == FlattenSeq(SubSeq(commands, 1, cmd))
<1>1. call[p] \in Calls /\ call[p].op = "ioctl" /\ cmd < Capacity
  BY LockedCall DEF aesd_ioctl, Shape
<1>2. cmd \in Nat /\ call[p].arg.write_cmd_offset \in Nat
  BY <1>1, CallFields
<1>3. /\ b \in Buffers(Commands) /\ WellFormed(b) /\ Commands \subseteq Seq(Bytes)
      /\ b.out_offs \in Slots /\ b.in_offs \in Slots
  BY CommandsBytes DEF DeviceOK, RingShape, CommandsAreBytes, Buffers
<1>4. /\ n = (IF b.full THEN Capacity ELSE b.in_offs) /\ n \in 0 .. Capacity
      /\ Len(commands) = n
      /\ \A i \in 1 .. n : commands[i] = b.entry[SlotAfter(b, i - 1)]
  BY <1>3, ContentsIsSeq
<1>5. EntriesInPlace(Bytes, b)
  BY <1>3, EntryBytes
<1>6. Sought(p) = b.entry[SlotAfter(b, cmd)]
  BY DEF Sought
<1>7. ASSUME cmd < n
      PROVE  /\ Sought(p) = commands[cmd + 1] /\ Len(Sought(p)) \in Nat
             /\ BytesBefore(b)[cmd] = Len(before) /\ Len(before) \in Nat
             /\ Len(before) + Len(Sought(p)) <= Len(Flat)
  <2> HIDE DEF cmd, n
  <2>1. /\ cmd \in 0 .. n /\ cmd \in 0 .. n - 1 /\ cmd + 1 \in 0 .. n
        /\ cmd + 1 \in 1 .. n /\ (cmd + 1) - 1 = cmd
    BY <1>2, <1>4, <1>7
  <2>2. Sought(p) = commands[cmd + 1]
    BY <1>4, <1>6, <2>1
  <2>3. /\ BytesBefore(b)[cmd] \in 0 .. Len(Flat)
        /\ BytesBefore(b)[cmd + 1] \in 0 .. Len(Flat)
        /\ BytesBefore(b)[cmd] = Len(before)
        /\ BytesBefore(b)[cmd + 1] = BytesBefore(b)[cmd] + Len(Sought(p))
        /\ Sought(p) \in Seq(Bytes)
    BY <1>5, <1>6, <2>1 DEF EntriesInPlace, Flat, n
  <2>4. Len(Sought(p)) \in Nat /\ Len(Flat) \in Nat
    BY <2>3, FlatIsBytes
  <2> HIDE DEF before
  <2>5. QED
    BY <2>2, <2>3, <2>4
<1>8. ASSUME ~(cmd < n) PROVE Len(Sought(p)) = 0
  <2> HIDE DEF cmd, n
  <2>1. ~b.full /\ n = b.in_offs /\ cmd >= b.in_offs /\ cmd \in 0 .. Capacity - 1
    BY <1>1, <1>2, <1>4, <1>8, CapacityAssumption
  <2>2. b.out_offs = 0
    BY <1>3, <2>1 DEF WellFormed
  <2>3. SlotAfter(b, cmd) = cmd
    <3>1. SlotAfter(b, cmd) = IF b.out_offs + cmd < Capacity THEN b.out_offs + cmd
                              ELSE b.out_offs + cmd - Capacity
      BY <1>3, <2>1, SlotAfterWraps
    <3>2. b.out_offs + cmd = cmd /\ cmd < Capacity
      <4>1. cmd \in Nat /\ cmd < Capacity
        BY <2>1, CapacityAssumption
      <4>2. 0 + cmd = cmd
        BY <4>1
      <4>3. QED
        BY <2>2, <4>1, <4>2, Zenon
    <3>3. QED
      BY <3>1, <3>2
  <2>4. b.entry[cmd] = ZeroSlot
    BY <1>3, <2>1 DEF WellFormed, Slots
  <2>5. Sought(p) = << >>
    BY <1>6, <2>3, <2>4 DEF ZeroSlot
  <2>6. QED
    BY <2>5
<1>9. QED
  BY <1>2, <1>4, <1>7, <1>8

LEMMA SeekToStep ==
  ASSUME DriverInv, NEW p \in Procs, aesd_ioctl(p)
  PROVE  SeekToLands(p)
<1> DEFINE cmd      == call[p].arg.write_cmd
           offset   == call[p].arg.write_cmd_offset
           commands == Contents(circ_buffer)
           before   == FlattenSeq(SubSeq(commands, 1, cmd))
<1>0. ControlOK /\ DeviceOK /\ PlacesOK
  BY DEF DriverInv
<1>1. /\ cmd \in Nat /\ offset \in Nat
      /\ cmd < Len(commands) =>
           /\ Sought(p) = commands[cmd + 1] /\ Len(Sought(p)) \in Nat
           /\ BytesBefore(circ_buffer)[cmd] = Len(before) /\ Len(before) \in Nat
           /\ Len(before) + Len(Sought(p)) <= Len(Flat)
      /\ ~(cmd < Len(commands)) => Len(Sought(p)) = 0
  BY <1>0, SoughtIs
<1>2. SoughtPosition(p) = BytesBefore(circ_buffer)[cmd] + offset
  BY DEF SoughtPosition
<1>3. OffsetTooFar(p) <=> offset >= Len(Sought(p))
  BY DEF OffsetTooFar
<1>4. NoSuchByte(p) <=> OffsetTooFar(p) \/ Found(SoughtPosition(p)) = NoEntry
  BY DEF NoSuchByte, Found
<1>5. IF NoSuchByte(p) THEN UNCHANGED f_pos
      ELSE f_pos' = [f_pos EXCEPT ![call[p].file] = SoughtPosition(p)]
  BY DEF aesd_ioctl, FailAndUnlock
<1>6. Len(Flat) \in Nat
  BY <1>0, FlatIsBytes
<1> HIDE DEF cmd, offset, commands, before
<1>7. CASE cmd < Len(commands) /\ offset < Len(commands[cmd + 1])
  <2>1. /\ SoughtPosition(p) = Len(before) + offset /\ SoughtPosition(p) \in Nat
        /\ SoughtPosition(p) < Len(Flat) /\ ~OffsetTooFar(p)
    BY <1>1, <1>2, <1>3, <1>6, <1>7
  <2>2. Found(SoughtPosition(p)) # NoEntry
    <3> DEFINE pos == SoughtPosition(p)
    <3>1. pos \in Nat /\ ~(pos >= Len(Flat))
      BY <1>6, <2>1
    <3> HIDE DEF pos
    <3>2. Found(pos) # NoEntry
      BY <1>0, <3>1, ReadIs
    <3>3. QED
      BY <3>2 DEF pos
  <2>3. f_pos' = [f_pos EXCEPT ![call[p].file] = Len(before) + offset]
    BY <1>4, <1>5, <2>1, <2>2
  <2>4. QED
    BY <1>7, <2>3 DEF SeekToLands, cmd, offset, commands, before
<1>8. CASE ~(cmd < Len(commands) /\ offset < Len(commands[cmd + 1]))
  <2>1. OffsetTooFar(p)
    <3>1. CASE cmd < Len(commands)
      BY <1>1, <1>3, <1>8, <3>1
    <3>2. CASE ~(cmd < Len(commands))
      BY <1>1, <1>3, <3>2
    <3>3. QED
      BY <3>1, <3>2
  <2>2. f_pos' = f_pos
    BY <1>4, <1>5, <2>1
  <2>3. QED
    BY <1>8, <2>2 DEF SeekToLands, cmd, offset, commands, before
<1>9. QED
  BY <1>7, <1>8

(***************************************************************************)
(* SEEK_END, when the contents are no longer than a loff_t can count.      *)
(***************************************************************************)
LEMMA WrappedIs ==
  ASSUME NEW x \in -PosLimit .. 2 * PosLimit - 1
  PROVE  Wrapped(x) = IF x < PosLimit THEN x ELSE x - 2 * PosLimit
<1>1. PosLimit \in Nat \ {0}
  BY DriverAssumption
<1> DEFINE y == x + PosLimit
           m == 2 * PosLimit
<1>2. y \in 0 .. 3 * PosLimit - 1 /\ m \in Nat \ {0} /\ x \in Int
  BY <1>1
<1>3. CASE x < PosLimit
  <2>1. y \in 0 .. m - 1
    BY <1>1, <1>2, <1>3
  <2> HIDE DEF y, m
  <2>2. y % m = y
    BY <1>2, <2>1
  <2>3. QED
    BY <1>1, <1>2, <1>3, <2>2 DEF Wrapped, y, m
<1>4. CASE ~(x < PosLimit)
  <2> DEFINE z == y - m
  <2>1. z \in 0 .. m - 1 /\ y = z + m
    BY <1>1, <1>2, <1>4
  <2> HIDE DEF y, m, z
  <2>2. y % m = z
    BY <1>2, <2>1
  <2>3. QED
    BY <1>1, <1>2, <1>4, <2>2 DEF Wrapped, y, m, z
<1>5. QED
  BY <1>3, <1>4

LEMMA SeekEndStep ==
  ASSUME DriverInv, Len(Flat) <= PosLimit, NEW p \in Procs, aesd_llseek(p),
         call[p].arg.whence = 2
  PROVE  SeekEndLands(p)
<1> DEFINE pos == Len(Flat) + call[p].arg.off
<1>0. ControlOK /\ DeviceOK /\ PlacesOK
  BY DEF DriverInv
<1>1. Locked(p, "llseek")
  BY DEF aesd_llseek
<1>2. call[p].arg.off \in -PosLimit .. PosLimit - 1 /\ NewPos(p) = Wrapped(pos)
  BY <1>0, <1>1, NewPosIs
<1>3. PosLimit \in Nat \ {0} /\ Len(Flat) \in Nat
  BY <1>0, FlatIsBytes, DriverAssumption
<1>4. pos \in -PosLimit .. 2 * PosLimit - 1
  BY <1>2, <1>3
<1> HIDE DEF pos
<1>5. NewPos(p) = IF pos < PosLimit THEN pos ELSE pos - 2 * PosLimit
  BY <1>2, <1>4, WrappedIs
<1>6. CASE pos \in 0 .. PosLimit - 1
  <2>1. NewPos(p) = pos /\ ~(NewPos(p) < 0)
    BY <1>3, <1>5, <1>6
  <2>2. call'[p] = SeekCall(call[p].file, call[p].arg, NewPos(p))
    BY <1>0, <2>1 DEF aesd_llseek, PlacesOK
  <2>3. call'[p].newpos = pos
    BY <2>1, <2>2 DEF SeekCall
  <2>4. QED
    BY <1>6, <2>3 DEF SeekEndLands, pos
<1>7. CASE ~(pos \in 0 .. PosLimit - 1)
  <2>1. NewPos(p) < 0
    BY <1>3, <1>4, <1>5, <1>7
  <2>2. pc'[p] = "user"
    BY <1>0, <2>1 DEF aesd_llseek, FailAndUnlock, GoBack, ControlOK
  <2>3. QED
    BY <1>7, <2>2 DEF SeekEndLands, pos
<1>8. QED
  BY <1>6, <1>7

(***************************************************************************)
(* AESDCHAR_IOCSEEKTO and SEEK_END put the position where they should, and *)
(* fail exactly when there is no such place, for every offset a loff_t can *)
(* be and as long as the contents are not longer than that: beyond, the    *)
(* sum can wrap past the negative numbers.                                 *)
(***************************************************************************)
THEOREM SeeksGoWhereTheyShould == Spec /\ [](Len(Flat) <= PosLimit) => SeeksLand
<1>1. ASSUME DriverInv, Len(Flat) <= PosLimit, [Next]_vars,
             NEW p \in Procs, pc[p] = "locked", pc'[p] # "locked"
      PROVE  /\ call[p].op = "ioctl" => SeekToLands(p)
             /\ call[p].op = "llseek" /\ call[p].arg.whence = 2 => SeekEndLands(p)
  <2>1. /\ call[p].op = "ioctl" => aesd_ioctl(p)
        /\ call[p].op = "llseek" => aesd_llseek(p)
    BY <1>1, WhoGoesOn DEF DriverInv
  <2>2. QED
    BY <1>1, <2>1, SeekToStep, SeekEndStep
<1>2. DriverInv /\ Len(Flat) <= PosLimit /\ [Next]_vars
        => [\A p \in Procs :
              pc[p] = "locked" /\ pc'[p] # "locked" =>
                /\ call[p].op = "ioctl" => SeekToLands(p)
                /\ call[p].op = "llseek" /\ call[p].arg.whence = 2 => SeekEndLands(p)]_vars
  BY <1>1
<1>3. QED
  BY <1>2, DriverInvariant, PTL DEF Spec, SeeksLand
-----------------------------------------------------------------------------
(***************************************************************************)
(* AesdCharHistory only watches the driver.                                *)
(***************************************************************************)
LEMMA HistoryWatches == [HistNext]_histVars => [Next]_vars
<1> SUFFICES ASSUME [HistNext]_histVars PROVE [Next]_vars
  OBVIOUS
<1>1. CASE ReloadRecorded
  BY <1>1 DEF ReloadRecorded, Next
<1>2. CASE OtherStep
  BY <1>2 DEF OtherStep, Next, Enter, Work
<1>3. ASSUME NEW f \in Files, SeekRecorded(f) PROVE Next
  BY <1>3 DEF SeekRecorded, Next, Work
<1>4. ASSUME NEW p \in Procs, WriteRecorded(p) \/ ReadRecorded(p) PROVE Next
  BY <1>4 DEF WriteRecorded, ReadRecorded, Next, Work
<1>5. CASE UNCHANGED histVars
  BY <1>5 DEF histVars
<1>6. QED
  BY <1>1, <1>2, <1>3, <1>4, <1>5 DEF HistNext

LEMMA HistoryInvariant == HistSpec => []DriverInv
<1>1. HistInit => Init
  BY DEF HistInit
<1>2. HistSpec => Spec
  BY <1>1, HistoryWatches, PTL DEF HistSpec, Spec
<1>3. QED
  BY <1>2, DriverInvariant, PTL
-----------------------------------------------------------------------------
(***************************************************************************)
(* What aesd_write does with the bytes when no allocation fails: they join *)
(* the unfinished ones, and at most one command leaves these for the ring. *)
(***************************************************************************)
NothingInFresh == working_entry = NULL => working_size = 0

LEMMA OldIsUnfinished ==
  ASSUME DeviceOK, NothingInFresh, NEW old \in OldBytes
  PROVE  old = Unfinished /\ Unfinished \in Seq(Bytes)
<1>1. CASE working_entry = NULL
  <2>1. old \in [1 .. 0 -> Bytes]
    BY <1>1 DEF OldBytes, NothingInFresh
  <2>2. old = << >> /\ << >> \in Seq(Bytes)
    BY <2>1
  <2>3. QED
    BY <1>1, <2>2 DEF Unfinished
<1>2. CASE working_entry # NULL
  BY <1>2 DEF OldBytes, Unfinished, DeviceOK
<1>3. QED
  BY <1>1, <1>2

\* Dropping the oldest entry drops the first bytes.
LEMMA LatestDrops ==
  ASSUME NEW B, NEW s \in Seq(Seq(B)), NEW e \in Seq(B)
  PROVE  /\ FlattenSeq(Latest(Append(s, e))) \in Seq(B)
         /\ \E gone \in Seq(B) :
              Cat(FlattenSeq(s), e) = Cat(gone, FlattenSeq(Latest(Append(s, e))))
         /\ Len(s) < Capacity =>
              FlattenSeq(Latest(Append(s, e))) = Cat(FlattenSeq(s), e)
<1> DEFINE T    == Seq(B)
           long == Append(s, e)
           k    == Len(long) - Capacity
<1>1. long \in Seq(T) /\ Len(long) \in Nat /\ Len(long) = Len(s) + 1 /\ Len(s) \in Nat
  OBVIOUS
<1>2. FlattenSeq(long) = Cat(FlattenSeq(s), e) /\ FlattenSeq(s) \in Seq(B)
  BY FlattenAppend DEF Cat
<1> HIDE DEF long
<1>3. << >> \in Seq(B) /\ \A x \in Seq(B) : Cat(<< >>, x) = x
  BY DEF Cat
<1>4. ASSUME NEW x \in Seq(T) PROVE FlattenSeq(x) \in Seq(B)
  BY <1>3, FlattenAppend
<1>5. CASE Len(long) <= Capacity
  <2>1. Latest(long) = long
    BY <1>5 DEF Latest
  <2>2. FlattenSeq(long) \in Seq(B)
    BY <1>1, <1>4
  <2>3. Cat(FlattenSeq(s), e) = Cat(<< >>, FlattenSeq(Latest(long)))
    BY <1>2, <1>3, <2>1, <2>2
  <2>4. QED
    BY <1>2, <1>3, <2>1, <2>2, <2>3 DEF long
<1>6. CASE ~(Len(long) <= Capacity)
  <2> DEFINE x == SubSeq(long, 1, k)
             y == SubSeq(long, k + 1, Len(long))
  <2>1. /\ k \in 0 .. Len(long) /\ Len(long) \in 0 .. Len(long) /\ ~(Len(s) < Capacity)
        /\ k + 1 = Len(long) - Capacity + 1
    BY <1>1, <1>6, CapacityAssumption
  <2>2. Latest(long) = y
    BY <1>6, <2>1 DEF Latest
  <2> HIDE DEF k, T
  <2>3. SubSeq(long, 1, Len(long)) = x \o y
    BY <1>1, <2>1, SplitAt
  <2>4. long = x \o y /\ x \in Seq(T) /\ y \in Seq(T)
    <3>1. SubSeq(long, 1, Len(long)) = long
      BY <1>1
    <3>2. x \in Seq(T)
      BY <1>1, <2>1
    <3>3. y \in Seq(T)
      BY <1>1, <2>1
    <3>4. QED
      BY <2>3, <3>1, <3>2, <3>3, Zenon
  <2> HIDE DEF x, y
  <2>5. FlattenSeq(x \o y) = FlattenSeq(x) \o FlattenSeq(y)
    BY <2>4, FlattenConcat DEF T
  <2>6. Cat(FlattenSeq(s), e) = Cat(FlattenSeq(x), FlattenSeq(y))
    BY <1>2, <2>4, <2>5, Zenon DEF Cat
  <2>7. FlattenSeq(x) \in Seq(B) /\ FlattenSeq(y) \in Seq(B)
    BY <1>4, <2>4
  <2>8. QED
    BY <2>1, <2>2, <2>6, <2>7 DEF long
<1>7. QED
  BY <1>5, <1>6

LEMMA StoredBytes ==
  ASSUME DeviceOK, NEW e \in Commands,
         circ_buffer' = aesd_circular_buffer_add_entry(circ_buffer, e)
  PROVE  /\ Flat' \in Seq(Bytes)
         /\ \E gone \in Seq(Bytes) : Cat(Flat, e) = Cat(gone, Flat')
         /\ ~circ_buffer.full => Flat' = Cat(Flat, e)
<1> DEFINE b == circ_buffer
           s == Contents(b)
           t == Latest(Append(s, e))
<1>1. /\ b \in Buffers(Commands) /\ WellFormed(b) /\ Commands \subseteq Seq(Bytes)
      /\ b.in_offs \in Slots
  BY CommandsBytes DEF DeviceOK, RingShape, CommandsAreBytes, Buffers
<1>2. EntriesInPlace(Bytes, b)
  BY <1>1, EntryBytes
<1>3. s \in Seq(Seq(Bytes)) /\ e \in Seq(Bytes)
  BY <1>1, <1>2 DEF EntriesInPlace
<1>4. Contents(b') = t
  BY <1>1, AddEntryRemembers
<1>5. ~b.full => Len(s) < Capacity
  <2>1. ValidEntries(b) = (IF b.full THEN Capacity ELSE b.in_offs) /\ Len(s) = ValidEntries(b)
    BY <1>1, ContentsIsSeq
  <2>2. b.in_offs < Capacity
    BY <1>1, CapacityAssumption DEF Slots
  <2>3. QED
    BY <2>1, <2>2
<1>6. Flat' = FlattenSeq(t)
  BY <1>4 DEF Flat
<1>7. /\ FlattenSeq(t) \in Seq(Bytes)
      /\ \E gone \in Seq(Bytes) : Cat(FlattenSeq(s), e) = Cat(gone, FlattenSeq(t))
      /\ Len(s) < Capacity => FlattenSeq(t) = Cat(FlattenSeq(s), e)
  <2> HIDE DEF s
  <2>1. QED
    BY <1>3, LatestDrops
<1>8. Flat = FlattenSeq(s)
  BY DEF Flat
<1> HIDE DEF s, t, b
<1>9. QED
  BY <1>5, <1>6, <1>7, <1>8 DEF b

(***************************************************************************)
(* The invariant: what the callers were told has been written is what has  *)
(* been dropped, then the contents, then the unfinished bytes.             *)
(***************************************************************************)
Kept == Cat(Flat, Unfinished)

SavedInv ==
  /\ written \in Seq(Bytes)
  /\ NothingInFresh
  /\ \E gone \in Seq(Bytes) : written = Cat(gone, Kept)

LEMMA UnfinishedIsBytes ==
  ASSUME DeviceOK
  PROVE  Unfinished \in Seq(Bytes) /\ Flat \in Seq(Bytes) /\ Kept \in Seq(Bytes)
<1>1. Unfinished \in Seq(Bytes)
  BY DEF Unfinished, DeviceOK
<1>2. Flat \in Seq(Bytes)
  BY FlatIsBytes
<1>3. QED
  BY <1>1, <1>2 DEF Kept, Cat

LEMMA SavedInit == HistInit => SavedInv
<1> SUFFICES ASSUME HistInit PROVE SavedInv
  OBVIOUS
<1>1. circ_buffer = aesd_circular_buffer_init /\ working_entry = NULL /\ working_size = 0
      /\ written = << >>
  BY DEF HistInit, Init
<1>2. Flat = << >>
  BY <1>1, InitShape, FlattenEmpty DEF Flat
<1>3. Unfinished = << >>
  BY <1>1 DEF Unfinished
<1>4. << >> \in Seq(Bytes) /\ Cat(<< >>, << >>) = << >>
  BY DEF Cat
<1>5. Kept = << >>
  BY <1>2, <1>3, <1>4 DEF Kept
<1>6. written = Cat(<< >>, Kept)
  BY <1>1, <1>4, <1>5
<1>7. QED
  BY <1>1, <1>4, <1>6 DEF SavedInv, NothingInFresh

LEMMA SavedSame ==
  ASSUME SavedInv, UNCHANGED <<dev, written>>
  PROVE  SavedInv'
<1>1. Flat' = Flat /\ Unfinished' = Unfinished
  BY DEF dev, Flat, Unfinished
<1>2. Kept' = Kept
  BY <1>1 DEF Kept
<1>3. QED
  BY <1>2 DEF SavedInv, NothingInFresh, dev

LEMMA SavedReload ==
  ASSUME ReloadRecorded
  PROVE  SavedInv'
<1>1. circ_buffer' = aesd_circular_buffer_init /\ working_entry' = NULL /\ working_size' = 0
      /\ written' = << >>
  BY DEF ReloadRecorded, Reload
<1>2. Flat' = << >>
  BY <1>1, InitShape, FlattenEmpty DEF Flat
<1>3. Unfinished' = << >>
  BY <1>1 DEF Unfinished
<1>4. << >> \in Seq(Bytes) /\ Cat(<< >>, << >>) = << >>
  BY DEF Cat
<1>5. Kept' = << >>
  BY <1>2, <1>3, <1>4 DEF Kept
<1>6. written' = Cat(<< >>, Kept')
  BY <1>1, <1>4, <1>5
<1>7. QED
  BY <1>1, <1>4, <1>6 DEF SavedInv, NothingInFresh

\* What is unfinished grows, or a command leaves it: nothing else moves.
LEMMA KeptGrows ==
  ASSUME DeviceOK, NEW grown \in Seq(Bytes),
         \/ /\ UNCHANGED circ_buffer
            /\ Unfinished' = grown
         \/ /\ \E i \in DOMAIN grown : grown[i] = Newline
            /\ circ_buffer' = aesd_circular_buffer_add_entry(circ_buffer,
                                 SubSeq(grown, 1, entry_size(grown)))
            /\ Unfinished' = leftover(grown)
  PROVE  /\ \E gone \in Seq(Bytes) : Cat(Flat, grown) = Cat(gone, Kept')
         /\ Kept' \in Seq(Bytes)
<1>0. Flat \in Seq(Bytes)
  BY FlatIsBytes
<1>1. CASE UNCHANGED circ_buffer /\ Unfinished' = grown
  <2>1. Flat' = Flat
    BY <1>1 DEF Flat
  <2>2. Kept' = Cat(Flat, grown)
    BY <1>1, <2>1 DEF Kept
  <2>3. Cat(Flat, grown) \in Seq(Bytes) /\ << >> \in Seq(Bytes)
    BY <1>0 DEF Cat
  <2>4. \A x \in Seq(Bytes) : Cat(<< >>, x) = x
    BY DEF Cat
  <2>5. Cat(<< >>, Kept') = Cat(Flat, grown)
    BY <2>2, <2>3, <2>4
  <2>6. QED
    BY <2>2, <2>3, <2>5
<1>2. CASE /\ \E i \in DOMAIN grown : grown[i] = Newline
           /\ circ_buffer' = aesd_circular_buffer_add_entry(circ_buffer,
                                SubSeq(grown, 1, entry_size(grown)))
           /\ Unfinished' = leftover(grown)
  <2> DEFINE k    == entry_size(grown)
             cmd  == SubSeq(grown, 1, k)
             rest == leftover(grown)
  <2>1. cmd \in Commands /\ rest \in Seq(Bytes)
    BY <1>2, EntryIsCommand
  <2>2. k \in 0 .. Len(grown)
    <3> DEFINE newlines == {i \in DOMAIN grown : grown[i] = Newline}
    <3>1. newlines \subseteq Nat /\ newlines # {} /\ DOMAIN grown = 1 .. Len(grown)
      BY <1>2
    <3>2. k \in newlines
      BY <3>1, MinOfNaturals DEF entry_size
    <3> HIDE DEF k
    <3>3. QED
      BY <3>1, <3>2
  <2>3. grown = Cat(cmd, rest)
    <3> HIDE DEF k
    <3>1. Len(grown) \in 0 .. Len(grown) /\ SubSeq(grown, 1, Len(grown)) = grown
      OBVIOUS
    <3>2. k \in 0 .. Len(grown) /\ Len(grown) \in Nat
      BY <2>2
    <3>3. SubSeq(grown, 1, Len(grown)) = SubSeq(grown, 1, k) \o SubSeq(grown, k + 1, Len(grown))
      BY <3>1, <3>2, SplitAt
    <3>4. QED
      BY <3>1, <3>3, Zenon DEF Cat, leftover, k
  <2> HIDE DEF k, cmd, rest
  <2>4. cmd \in Seq(Bytes)
    BY <2>1, CommandsBytes DEF CommandsAreBytes
  <2>5. /\ Flat' \in Seq(Bytes)
        /\ \E gone \in Seq(Bytes) : Cat(Flat, cmd) = Cat(gone, Flat')
    BY <1>2, <2>1, StoredBytes DEF cmd, k
  <2>6. PICK gone \in Seq(Bytes) : Cat(Flat, cmd) = Cat(gone, Flat')
    BY <2>5
  <2>7. Cat(Flat, Cat(cmd, rest)) = Cat(Cat(Flat, cmd), rest)
    BY <1>0, <2>1, <2>4, CatAssociative
  <2>8. Cat(Cat(gone, Flat'), rest) = Cat(gone, Cat(Flat', rest))
    BY <2>1, <2>5, CatAssociative
  <2>9. Kept' = Cat(Flat', rest)
    BY <1>2 DEF Kept, rest
  <2>10. Cat(Flat, grown) = Cat(gone, Kept')
    BY <2>3, <2>6, <2>7, <2>8, <2>9, Zenon
  <2>11. Kept' \in Seq(Bytes)
    BY <2>1, <2>5, <2>9 DEF Cat
  <2>12. QED
    BY <2>10, <2>11
<1>3. QED
  BY <1>1, <1>2

LEMMA SavedWrite ==
  ASSUME ~AllocMayFail, DriverInv, SavedInv, NEW p \in Procs, WriteRecorded(p)
  PROVE  SavedInv'
<1> DEFINE buf == call[p].buf
<1>0. ControlOK /\ DeviceOK /\ PlacesOK /\ aesd_write(p)
  BY DEF DriverInv, WriteRecorded
<1>1. /\ buf \in Seq(Bytes) /\ pc[p] = "locked"
      /\ written' = IF pc'[p] = "return" THEN Cat(written, buf) ELSE written
  <2>1. buf \in Payloads /\ pc[p] = "locked"
    BY <1>0, LockedCall, CallFields DEF aesd_write
  <2>2. QED
    BY <2>1, DriverAssumption DEF WriteRecorded, Cat
<1>2. written \in Seq(Bytes) /\ NothingInFresh
  BY DEF SavedInv
<1>3. Unfinished \in Seq(Bytes) /\ Flat \in Seq(Bytes) /\ Kept \in Seq(Bytes)
  BY <1>0, UnfinishedIsBytes
<1>4. PICK gone \in Seq(Bytes) : written = Cat(gone, Kept)
  BY DEF SavedInv
<1>5. CASE UNCHANGED dev /\ written' = written
  BY <1>5, SavedSame
<1>6. CASE buf = << >> /\ UNCHANGED dev
  <2>1. Cat(written, << >>) = written
    BY <1>2 DEF Cat
  <2>2. written' = written
    BY <1>1, <1>6, <2>1
  <2>3. QED
    BY <1>6, <2>2, SavedSame
<1>7. ASSUME NEW grown \in Seq(Bytes), grown = Cat(Unfinished, buf), pc'[p] = "return",
             \E bytes \in Seq(Bytes) : SetWorking(bytes) /\ Unfinished' = bytes,
             \E more \in Seq(Bytes) : Cat(Flat, grown) = Cat(more, Kept'),
             Kept' \in Seq(Bytes)
      PROVE  SavedInv'
  <2>1. written' = Cat(written, buf)
    BY <1>1, <1>7
  <2>2. working_entry' # NULL /\ NothingInFresh'
    BY <1>7, DriverAssumption DEF SetWorking, NothingInFresh
  <2>3. Unfinished' \in Seq(Bytes)
    BY <1>7
  <2>4. PICK more \in Seq(Bytes) : Cat(Flat, grown) = Cat(more, Kept')
    BY <1>7
  <2> HIDE DEF buf
  <2>5. Cat(Kept, buf) = Cat(Flat, grown)
    BY <1>1, <1>3, <1>7, CatAssociative DEF Kept
  <2>6. Cat(written, buf) = Cat(gone, Cat(Kept, buf))
    BY <1>1, <1>3, <1>4, CatAssociative
  <2>7. Kept' \in Seq(Bytes)
    BY <1>7
  <2>8. Cat(gone, Cat(more, Kept')) = Cat(Cat(gone, more), Kept')
    BY <2>4, <2>7, CatAssociative
  <2>9. written' = Cat(Cat(gone, more), Kept')
    BY <2>1, <2>4, <2>5, <2>6, <2>8, Zenon
  <2>10. Cat(gone, more) \in Seq(Bytes)
    BY <2>4 DEF Cat
  <2>11. written' \in Seq(Bytes)
    <3>1. Cat(written, buf) \in Seq(Bytes)
      BY <1>1, <1>2 DEF Cat
    <3>2. QED
      BY <2>1, <3>1
  <2>12. QED
    BY <2>2, <2>9, <2>10, <2>11 DEF SavedInv
<1>8. ASSUME NEW old \in OldBytes, NEW grown, grown = old \o buf,
             \/ KeepForLater(p, grown)
             \/ (\E i \in DOMAIN grown : grown[i] = Newline) /\ StoreCommand(p, grown)
      PROVE  SavedInv'
  <2>1. old = Unfinished
    BY <1>0, <1>2, <1>8, OldIsUnfinished
  <2>2. grown = Cat(Unfinished, buf) /\ grown \in Seq(Bytes)
    <3>1. grown = Cat(Unfinished, buf)
      BY <1>8, <2>1 DEF Cat
    <3>2. Cat(Unfinished, buf) \in Seq(Bytes)
      BY <1>1, <1>3 DEF Cat
    <3>3. QED
      BY <3>1, <3>2
  <2> HIDE DEF buf
  <2>3. pc'[p] = "return"
    BY <1>0, <1>8 DEF KeepForLater, StoreCommand, UnlockAndReturn, ControlOK
  <2>4. ASSUME NEW bytes \in Seq(Bytes), SetWorking(bytes) PROVE Unfinished' = bytes
    BY <2>4, DriverAssumption DEF SetWorking, Unfinished
  <2>5. CASE KeepForLater(p, grown)
    <3>1. SetWorking(grown) /\ UNCHANGED circ_buffer /\ Unfinished' = grown
      BY <2>2, <2>4, <2>5 DEF KeepForLater
    <3>2. /\ \E more \in Seq(Bytes) : Cat(Flat, grown) = Cat(more, Kept')
          /\ Kept' \in Seq(Bytes)
      BY <1>0, <2>2, <3>1, KeptGrows
    <3>3. QED
      BY <1>7, <2>2, <2>3, <3>1, <3>2
  <2>6. CASE (\E i \in DOMAIN grown : grown[i] = Newline) /\ StoreCommand(p, grown)
    <3>1. leftover(grown) \in Seq(Bytes)
      BY <2>2, <2>6, EntryIsCommand
    <3>2. /\ SetWorking(leftover(grown)) /\ Unfinished' = leftover(grown)
          /\ circ_buffer' = aesd_circular_buffer_add_entry(circ_buffer,
                               SubSeq(grown, 1, entry_size(grown)))
      BY <2>4, <2>6, <3>1 DEF StoreCommand
    <3>3. /\ \E more \in Seq(Bytes) : Cat(Flat, grown) = Cat(more, Kept')
          /\ Kept' \in Seq(Bytes)
      BY <1>0, <2>2, <2>6, <3>2, KeptGrows
    <3>4. QED
      BY <1>7, <2>2, <2>3, <3>1, <3>2, <3>3
  <2>7. QED
    BY <1>8, <2>5, <2>6
<1>9. \/ UNCHANGED dev /\ pc'[p] # "return"
      \/ buf = << >> /\ UNCHANGED dev
      \/ \E old \in OldBytes :
           LET grown == old \o buf
           IN  \/ KeepForLater(p, grown)
               \/ (\E i \in DOMAIN grown : grown[i] = Newline) /\ StoreCommand(p, grown)
  BY <1>0 DEF aesd_write, RefuseData, LoseWorkingEntry, KeepButFail, FailAndUnlock, GoBack,
              ControlOK
<1>10. QED
  BY <1>1, <1>5, <1>6, <1>8, <1>9

LEMMA SavedStep ==
  ASSUME ~AllocMayFail, DriverInv, SavedInv, [HistNext]_histVars
  PROVE  SavedInv'
<1>1. CASE ReloadRecorded
  BY <1>1, SavedReload
<1>2. CASE OtherStep
  <2>1. UNCHANGED written
    BY <1>2 DEF OtherStep, ghosts
  <2>2. UNCHANGED dev
    BY <1>2 DEF OtherStep, aesd_release, EnterRead, EnterLlseek, EnterIoctl, EnterWrite,
                EnterCall, mutex_lock, Interrupted, RefuseSeekTo, aesd_llseek, aesd_ioctl,
                StorePosition
  <2>3. QED
    BY <2>1, <2>2, SavedSame
<1>3. ASSUME NEW f \in Files, SeekRecorded(f) PROVE SavedInv'
  <2>1. UNCHANGED <<dev, written>>
    BY <1>3 DEF SeekRecorded, aesd_open, StoreNewPos, aesd_ioctl
  <2>2. QED
    BY <2>1, SavedSame
<1>4. ASSUME NEW p \in Procs, ReadRecorded(p) PROVE SavedInv'
  <2>1. UNCHANGED <<dev, written>>
    BY <1>4 DEF ReadRecorded, aesd_read
  <2>2. QED
    BY <2>1, SavedSame
<1>5. ASSUME NEW p \in Procs, WriteRecorded(p) PROVE SavedInv'
  BY <1>5, SavedWrite
<1>6. CASE UNCHANGED histVars
  <2>1. UNCHANGED <<dev, written>>
    BY <1>6 DEF histVars, vars, ghosts, dev
  <2>2. QED
    BY <2>1, SavedSame
<1>7. QED
  BY <1>1, <1>2, <1>3, <1>4, <1>5, <1>6 DEF HistNext

(***************************************************************************)
(* As long as no allocation fails, the device holds the newest bytes its   *)
(* callers were told it has taken, in the order in which it took them,     *)
(* whatever they write and however their calls interleave.  With a failing *)
(* allocation KeepButFail and LoseWorkingEntry show why it does not: one   *)
(* keeps bytes whose write is reported as failed, the other loses bytes    *)
(* whose write has been reported as done.                                  *)
(***************************************************************************)
THEOREM NothingIsLost ==
  ASSUME ~AllocMayFail
  PROVE  HistSpec => []SavedWhatWasWritten
<1>1. HistInit => SavedInv
  BY SavedInit
<1>2. DriverInv /\ SavedInv /\ [HistNext]_histVars => SavedInv'
  BY SavedStep
<1>3. DriverInv /\ SavedInv => SavedWhatWasWritten
  <2> SUFFICES ASSUME DriverInv, SavedInv PROVE SavedWhatWasWritten
    OBVIOUS
  <2>1. PICK gone \in Seq(Bytes) : written = Cat(gone, Kept)
    BY DEF SavedInv
  <2>2. Kept \in Seq(Bytes)
    BY UnfinishedIsBytes DEF DriverInv
  <2>3. IsSuffix(Kept, gone \o Kept)
    BY <2>1, <2>2, SuffixOfConcat
  <2>4. QED
    BY <2>1, <2>3, Zenon DEF SavedWhatWasWritten, Kept, Cat
<1>4. QED
  BY <1>1, <1>2, <1>3, HistoryInvariant, PTL DEF HistSpec
-----------------------------------------------------------------------------
(***************************************************************************)
(* Reading in order.  What has been read from a file since it was opened   *)
(* or sought in lies where it began, and the file's position is behind it: *)
(* but for the time between a read and the kernel's storing what the read  *)
(* made of its copy of the position, when that copy is.                    *)
(***************************************************************************)
OneUser == \A p, q \in Procs, f \in Files : <<p, f>> \in Uses /\ <<q, f>> \in Uses => p = q

NextByte(f) == trace[f].from + Len(trace[f].bytes)

Followed(f) == f \in opened /\ trace[f] # Moved

TraceOK(f) == Trails(Flat, trace[f].from, trace[f].bytes)

Calling(p, f) == pc[p] # "user" /\ call[p].file = f

PositionOK(f) ==
  /\ (\A p \in Procs : Calling(p, f) => pc[p] # "return") => f_pos[f] = NextByte(f)
  /\ \A p \in Procs : Calling(p, f) /\ call[p].op \in {"read", "write"}
                        => call[p].pos = NextByte(f)

Traces == {Moved} \cup [from : Nat, bytes : Seq(Bytes)]

TracesOK ==
  /\ trace \in [Files -> Traces]
  /\ \A p \in Procs : pc[p] # "user" => <<p, call[p].file>> \in Uses
  /\ \A f \in Files : Followed(f) => TraceOK(f) /\ PositionOK(f)

\* PositionOK(f) as the one user of f sees it.
InPlace(p, f) ==
  /\ pc[p] # "return" => f_pos[f] = NextByte(f)
  /\ pc[p] # "user" /\ call[p].op \in {"read", "write"} => call[p].pos = NextByte(f)

\* p makes no call but on f.
Only(p, f) == pc[p] # "user" => call[p].file = f

LEMMA FollowedFields ==
  ASSUME TracesOK, NEW f \in Files, trace[f] # Moved
  PROVE  trace[f].from \in Nat /\ trace[f].bytes \in Seq(Bytes) /\ NextByte(f) \in Nat
<1>1. trace[f] \in [from : Nat, bytes : Seq(Bytes)]
  BY DEF TracesOK, Traces
<1>2. QED
  BY <1>1 DEF NextByte

LEMMA InPlaceIs ==
  ASSUME OneUser, TracesOK, NEW p \in Procs, NEW f \in Files, <<p, f>> \in Uses,
         Only(p, f), Followed(f)
  PROVE  InPlace(p, f)
<1>1. PositionOK(f)
  BY DEF TracesOK
<1>2. ASSUME NEW q \in Procs, Calling(q, f) PROVE q = p
  <2>1. <<q, f>> \in Uses
    BY <1>2 DEF TracesOK, Calling
  <2>2. QED
    BY <2>1 DEF OneUser
<1>3. pc[p] # "return" => f_pos[f] = NextByte(f)
  BY <1>1, <1>2 DEF PositionOK
<1>4. pc[p] # "user" => Calling(p, f)
  BY DEF Only, Calling
<1>5. QED
  BY <1>1, <1>3, <1>4 DEF PositionOK, InPlace

\* A step of p in a call on f: all the others are where they were.
OnlyMoves(p, f) ==
  /\ \A q \in Procs \ {p} : pc'[q] = pc[q] /\ call'[q] = call[q]
  /\ \A g \in Files \ {f} : f_pos'[g] = f_pos[g]
  /\ opened' = opened

LEMMA FollowStep ==
  ASSUME OneUser, TracesOK, NEW p \in Procs, NEW f \in Files, <<p, f>> \in Uses,
         Only(p, f), Only(p, f)', OnlyMoves(p, f),
         trace' \in [Files -> Traces],
         \A g \in Files \ {f} : trace'[g] = trace[g] \/ trace'[g] = Moved,
         \A g \in Files \ {f} : Followed(g) /\ Followed(g)' => TraceOK(g)',
         Followed(f)' => TraceOK(f)' /\ InPlace(p, f)'
  PROVE  TracesOK'
<1>1. ASSUME NEW q \in Procs, pc'[q] # "user" PROVE <<q, call'[q].file>> \in Uses
  <2>1. CASE q = p
    BY <1>1, <2>1 DEF Only
  <2>2. CASE q # p
    BY <1>1, <2>2 DEF OnlyMoves, TracesOK
  <2>3. QED
    BY <2>1, <2>2
<1>2. ASSUME NEW g \in Files, g # f, Followed(g)' PROVE TraceOK(g)' /\ PositionOK(g)'
  <2>1. trace'[g] = trace[g] /\ Followed(g)
    BY <1>2 DEF Followed, OnlyMoves
  <2>2. TraceOK(g)' /\ PositionOK(g)
    BY <1>2, <2>1 DEF TracesOK
  <2>3. NextByte(g)' = NextByte(g) /\ f_pos'[g] = f_pos[g]
    BY <1>2, <2>1 DEF NextByte, OnlyMoves
  <2>4. ~Calling(p, g) /\ ~Calling(p, g)'
    BY <1>2 DEF Only, Calling
  <2>5. \A q \in Procs \ {p} : /\ pc'[q] = pc[q] /\ call'[q] = call[q]
                               /\ Calling(q, g)' <=> Calling(q, g)
    BY DEF OnlyMoves, Calling
  <2>6. PositionOK(g)'
    BY <2>2, <2>3, <2>4, <2>5 DEF PositionOK
  <2>7. QED
    BY <2>2, <2>6
<1>3. ASSUME Followed(f)' PROVE PositionOK(f)'
  <2>1. InPlace(p, f)'
    BY <1>3
  <2>2. ASSUME NEW q \in Procs, Calling(q, f)' PROVE q = p
    <3>1. <<q, f>> \in Uses
      BY <1>1, <2>2 DEF Calling
    <3>2. QED
      BY <3>1 DEF OneUser
  <2>3. CASE pc'[p] = "return"
    <3>1. Calling(p, f)'
      BY <2>3 DEF Only, Calling
    <3>2. QED
      BY <2>1, <2>2, <2>3, <3>1 DEF PositionOK, InPlace, Calling
  <2>4. CASE pc'[p] # "return"
    BY <2>1, <2>2, <2>4 DEF PositionOK, InPlace, Calling
  <2>5. QED
    BY <2>3, <2>4
<1>4. QED
  BY <1>1, <1>2, <1>3 DEF TracesOK

\* The contents stay, and so does what has been read of them.
LEMMA FollowQuiet ==
  ASSUME OneUser, TracesOK, NEW p \in Procs, NEW f \in Files, <<p, f>> \in Uses,
         Only(p, f), Only(p, f)', OnlyMoves(p, f), UNCHANGED <<circ_buffer, trace>>,
         Followed(f) => InPlace(p, f)'
  PROVE  TracesOK'
<1>1. Flat' = Flat
  BY DEF Flat
<1>2. \A g \in Files : Followed(g)' => Followed(g) /\ TraceOK(g)'
  BY <1>1 DEF Followed, OnlyMoves, TracesOK, TraceOK
<1>3. QED
  BY <1>2, FollowStep DEF TracesOK

\* The file and what is known of it when p is in a call.
LEMMA InACall ==
  ASSUME OneUser, DriverInv, TracesOK, NEW p \in Procs, pc[p] # "user"
  PROVE  /\ call[p] \in Calls /\ call[p].file \in Files /\ <<p, call[p].file>> \in Uses
         /\ Only(p, call[p].file) /\ call[p].file \in opened
         /\ Followed(call[p].file) => InPlace(p, call[p].file)
<1>1. call[p] \in Calls /\ call[p].file \in opened
  BY DEF DriverInv, PlacesOK, Shape, ControlOK, CallOK
<1>2. call[p].file \in Files
  BY <1>1, CallFields
<1>3. <<p, call[p].file>> \in Uses /\ Only(p, call[p].file)
  BY DEF TracesOK, Only
<1>4. QED
  BY <1>1, <1>2, <1>3, InPlaceIs

LEMMA OneMoves ==
  ASSUME DriverInv, NEW p \in Procs, NEW s, NEW c,
         pc' = [pc EXCEPT ![p] = s], call' = [call EXCEPT ![p] = c]
  PROVE  /\ pc'[p] = s /\ call'[p] = c
         /\ \A q \in Procs \ {p} : pc'[q] = pc[q] /\ call'[q] = call[q]
  BY DEF DriverInv, ControlOK, PlacesOK

\* A call goes on or ends, and the position is nowhere else.
LEMMA FollowOn ==
  ASSUME OneUser, DriverInv, TracesOK, NEW p \in Procs, pc[p] \notin {"user", "return"},
         NEW s, NEW c, pc' = [pc EXCEPT ![p] = s], call' = [call EXCEPT ![p] = c],
         s # "user" => /\ c.file = call[p].file /\ c.op = call[p].op
                       /\ c.op \in {"read", "write"} => c.pos = call[p].pos,
         UNCHANGED <<circ_buffer, opened, f_pos, trace>>
  PROVE  TracesOK'
<1>1. PICK f \in Files : /\ f = call[p].file /\ <<p, f>> \in Uses /\ Only(p, f)
                         /\ Followed(f) => InPlace(p, f)
  BY InACall
<1>2. OnlyMoves(p, f) /\ Only(p, f)' /\ pc'[p] = s /\ call'[p] = c
  <2>1. s # "user" => c.file = f
    BY <1>1
  <2>2. (\A g \in Files \ {f} : f_pos'[g] = f_pos[g]) /\ opened' = opened
    OBVIOUS
  <2>3. /\ pc'[p] = s /\ call'[p] = c
        /\ \A q \in Procs \ {p} : pc'[q] = pc[q] /\ call'[q] = call[q]
    BY OneMoves
  <2>4. QED
    BY <2>1, <2>2, <2>3 DEF OnlyMoves, Only
<1>3. ASSUME Followed(f) PROVE InPlace(p, f)'
  <2>1. InPlace(p, f) /\ NextByte(f)' = NextByte(f) /\ f_pos'[f] = f_pos[f]
    BY <1>1, <1>3 DEF NextByte
  <2>2. QED
    BY <1>1, <1>2, <2>1 DEF InPlace
<1>4. QED
  BY <1>1, <1>2, <1>3, FollowQuiet

LEMMA FollowEnter ==
  ASSUME OneUser, DriverInv, TracesOK, NEW p \in Procs, NEW c \in Calls, EnterCall(p, c),
         c.op \in {"read", "write"} => c.pos = f_pos[c.file], UNCHANGED trace
  PROVE  TracesOK'
<1>1. PICK f \in Files : f = c.file /\ <<p, f>> \in Uses /\ pc[p] = "user" /\ Only(p, f)
  BY CallFields DEF EnterCall, Only
<1>2. OnlyMoves(p, f) /\ Only(p, f)' /\ pc'[p] = "enter" /\ call'[p] = c
  <2>1. /\ pc' = [pc EXCEPT ![p] = "enter"] /\ call' = [call EXCEPT ![p] = c]
        /\ \A g \in Files \ {f} : f_pos'[g] = f_pos[g]
        /\ opened' = opened
    BY DEF EnterCall
  <2>2. /\ pc'[p] = "enter" /\ call'[p] = c
        /\ \A q \in Procs \ {p} : pc'[q] = pc[q] /\ call'[q] = call[q]
    BY <2>1, OneMoves
  <2>3. QED
    BY <1>1, <2>1, <2>2 DEF OnlyMoves, Only
<1>3. ASSUME Followed(f) PROVE InPlace(p, f)'
  <2>1. InPlace(p, f)
    BY <1>1, <1>3, InPlaceIs
  <2>2. NextByte(f)' = NextByte(f) /\ f_pos'[f] = f_pos[f] /\ f_pos[f] = NextByte(f)
    BY <1>1, <2>1 DEF NextByte, EnterCall, InPlace
  <2>3. QED
    BY <1>1, <1>2, <2>2 DEF InPlace
<1>4. UNCHANGED circ_buffer
  BY DEF EnterCall, dev
<1>5. QED
  BY <1>1, <1>2, <1>3, <1>4, FollowQuiet

LEMMA FollowStore ==
  ASSUME OneUser, DriverInv, TracesOK, NEW p \in Procs, StorePosition(p), UNCHANGED trace
  PROVE  TracesOK'
<1>0. pc[p] = "return"
  BY DEF StorePosition
<1>1. PICK f \in Files : /\ f = call[p].file /\ <<p, f>> \in Uses /\ Only(p, f)
                         /\ Followed(f) => InPlace(p, f)
  BY <1>0, InACall
<1>2. OnlyMoves(p, f) /\ Only(p, f)' /\ pc'[p] = "user" /\ call'[p] = NoCall
  <2>1. /\ pc' = [pc EXCEPT ![p] = "user"] /\ call' = [call EXCEPT ![p] = NoCall]
        /\ opened' = opened
    BY DEF StorePosition
  <2>2. \A g \in Files \ {f} : f_pos'[g] = f_pos[g]
    BY <1>1 DEF StorePosition, DriverInv, PlacesOK
  <2>3. /\ pc'[p] = "user" /\ call'[p] = NoCall
        /\ \A q \in Procs \ {p} : pc'[q] = pc[q] /\ call'[q] = call[q]
    BY <2>1, OneMoves
  <2>4. QED
    BY <2>1, <2>2, <2>3 DEF OnlyMoves, Only
<1>3. call[p].op \in {"read", "write"}
  BY <1>0 DEF DriverInv, PlacesOK, Shape
<1>4. ASSUME Followed(f) PROVE InPlace(p, f)'
  <2>1. f_pos'[f] = call[p].pos
    BY <1>1 DEF StorePosition, DriverInv, PlacesOK
  <2>2. InPlace(p, f) /\ NextByte(f)' = NextByte(f)
    BY <1>1, <1>4 DEF NextByte
  <2>3. QED
    BY <1>0, <1>2, <1>3, <2>1, <2>2 DEF InPlace
<1>5. UNCHANGED circ_buffer
  BY DEF StorePosition, dev
<1>6. QED
  BY <1>1, <1>2, <1>4, <1>5, FollowQuiet

\* A seek: what is read from here on counts.
LEMMA FollowSeek ==
  ASSUME OneUser, DriverInv, TracesOK, NEW p \in Procs, pc[p] # "user", GoBack(p),
         UNCHANGED <<circ_buffer, opened>>, NEW x, f_pos' = [f_pos EXCEPT ![call[p].file] = x],
         f_pos' \in [Files -> Nat],
         trace' = [trace EXCEPT ![call[p].file] = TraceFrom(f_pos'[call[p].file])]
  PROVE  TracesOK'
<1>1. PICK f \in Files : f = call[p].file /\ <<p, f>> \in Uses /\ Only(p, f)
  BY InACall
<1>2. OnlyMoves(p, f) /\ Only(p, f)' /\ pc'[p] = "user" /\ call'[p] = NoCall
  <2>1. /\ pc' = [pc EXCEPT ![p] = "user"] /\ call' = [call EXCEPT ![p] = NoCall]
        /\ opened' = opened
    BY DEF GoBack
  <2>2. \A g \in Files \ {f} : f_pos'[g] = f_pos[g]
    BY <1>1 DEF DriverInv, PlacesOK
  <2>3. /\ pc'[p] = "user" /\ call'[p] = NoCall
        /\ \A q \in Procs \ {p} : pc'[q] = pc[q] /\ call'[q] = call[q]
    BY <2>1, OneMoves
  <2>4. QED
    BY <2>1, <2>2, <2>3 DEF OnlyMoves, Only
<1>3. f_pos'[f] \in Nat
  BY <1>1
<1>4. /\ trace' \in [Files -> Traces] /\ trace'[f] = TraceFrom(f_pos'[f])
      /\ \A g \in Files \ {f} : trace'[g] = trace[g]
  <2>1. TraceFrom(f_pos'[f]) \in Traces
    BY <1>3 DEF TraceFrom, Traces
  <2>2. trace' = [trace EXCEPT ![f] = TraceFrom(f_pos'[f])] /\ trace \in [Files -> Traces]
    BY <1>1 DEF TracesOK
  <2>3. QED
    BY <1>1, <2>1, <2>2
<1>5. Flat' = Flat /\ Flat \in Seq(Bytes)
  BY FlatIsBytes DEF Flat, DriverInv
<1>6. /\ trace'[f].from = f_pos'[f] /\ trace'[f].bytes = << >>
  BY <1>4 DEF TraceFrom
<1>7. TraceOK(f)'
  BY <1>3, <1>5, <1>6, TrailEmpty DEF TraceOK
<1>8. InPlace(p, f)'
  <2>1. Len(<< >>) = 0 /\ f_pos'[f] + 0 = f_pos'[f]
    BY <1>3
  <2>2. NextByte(f)' = f_pos'[f]
    BY <1>6, <2>1 DEF NextByte
  <2>3. QED
    BY <1>1, <1>2, <2>2 DEF InPlace
<1>9. ASSUME NEW g \in Files \ {f}, Followed(g) PROVE TraceOK(g)'
  BY <1>4, <1>5, <1>9 DEF TracesOK, TraceOK
<1>10. QED
  BY <1>1, <1>2, <1>4, <1>7, <1>8, <1>9, FollowStep

\* A read that succeeds goes on with the bytes from its position on.
LEMMA ReadMoves ==
  ASSUME DriverInv, NEW p \in Procs, aesd_read(p), ~FailAndUnlock(p)
  PROVE  \E d : /\ UnlockAndReturn(p, d) /\ d.file = call[p].file /\ d.op = "read"
               /\ d.data \in Seq(Bytes) /\ d.pos = call[p].pos + Len(d.data)
               /\ Trails(Flat, call[p].pos, d.data)
<1> DEFINE c    == call[p]
           size == CopiedSize(c.pos, c.count)
           d    == ReadCall(c.file, c.count, c.pos + size, Copied(c.pos, c.count))
<1>0. ControlOK /\ DeviceOK /\ PlacesOK /\ Flat \in Seq(Bytes)
  BY FlatIsBytes DEF DriverInv
<1>1. /\ c \in Calls /\ c.op = "read" /\ c.data = << >> /\ c.pos \in Nat /\ c.count \in Nat
      /\ \/ Found(c.pos) = NoEntry /\ AtEnd(p)
         \/ Found(c.pos) # NoEntry /\ CopiesSome(p)
  BY <1>0, ReadWays
<1>2. CASE AtEnd(p)
  <2>1. UnlockAndReturn(p, c) /\ c.data \in Seq(Bytes)
    BY <1>1, <1>2 DEF AtEnd
  <2> HIDE DEF c
  <2>2. c.pos = c.pos + Len(c.data)
    BY <1>1
  <2>3. Trails(Flat, c.pos, c.data)
    BY <1>0, <1>1, TrailEmpty
  <2>4. QED
    BY <1>1, <2>1, <2>2, <2>3 DEF c
<1>3. CASE Found(c.pos) # NoEntry /\ CopiesSome(p)
  <2>1. UnlockAndReturn(p, d)
    BY <1>3 DEF CopiesSome
  <2>2. d.file = c.file /\ d.op = "read" /\ d.data = Copied(c.pos, c.count) /\ d.pos = c.pos + size
    BY DEF ReadCall
  <2> HIDE DEF d, c
  <2>3. /\ Copied(c.pos, c.count) \in Seq(Bytes) /\ Len(Copied(c.pos, c.count)) = size
        /\ Copied(c.pos, c.count) = SubSeq(Flat, c.pos + 1, c.pos + size)
        /\ c.pos + size <= Len(Flat)
    BY <1>0, <1>1, <1>3, ReadIs
  <2> HIDE DEF size
  <2>4. Trails(Flat, c.pos, d.data)
    BY <2>2, <2>3 DEF Trails
  <2>5. QED
    BY <2>1, <2>2, <2>3, <2>4 DEF c
<1>4. QED
  BY <1>1, <1>2, <1>3

LEMMA FollowRead ==
  ASSUME OneUser, DriverInv, TracesOK, NEW p \in Procs, ReadRecorded(p)
  PROVE  TracesOK'
<1>0. aesd_read(p) /\ pc[p] = "locked" /\ call[p].op = "read" /\ UNCHANGED circ_buffer
  BY DEF ReadRecorded, aesd_read, Locked, dev
<1>1. CASE FailAndUnlock(p)
  <2>1. /\ pc' = [pc EXCEPT ![p] = "user"] /\ call' = [call EXCEPT ![p] = NoCall]
        /\ UNCHANGED <<opened, f_pos>>
    BY <1>1 DEF FailAndUnlock, GoBack
  <2>2. pc'[p] = "user"
    BY <2>1 DEF DriverInv, ControlOK
  <2>3. UNCHANGED trace
    BY <2>2 DEF ReadRecorded
  <2>4. QED
    BY <1>0, <2>1, <2>3, FollowOn
<1>2. CASE ~FailAndUnlock(p)
  <2>1. PICK d : /\ UnlockAndReturn(p, d) /\ d.file = call[p].file /\ d.op = "read"
                 /\ d.data \in Seq(Bytes) /\ d.pos = call[p].pos + Len(d.data)
                 /\ Trails(Flat, call[p].pos, d.data)
    BY <1>0, <1>2, ReadMoves
  <2>2. PICK f \in Files : /\ f = call[p].file /\ <<p, f>> \in Uses /\ Only(p, f)
                           /\ Followed(f) => InPlace(p, f)
    BY <1>0, InACall
  <2>3. /\ pc' = [pc EXCEPT ![p] = "return"] /\ call' = [call EXCEPT ![p] = d]
        /\ UNCHANGED <<opened, f_pos>>
    BY <2>1 DEF UnlockAndReturn
  <2>4. /\ pc'[p] = "return" /\ call'[p] = d
        /\ \A q \in Procs \ {p} : pc'[q] = pc[q] /\ call'[q] = call[q]
    BY <2>3, OneMoves
  <2>5. OnlyMoves(p, f) /\ Only(p, f)'
    BY <2>1, <2>2, <2>3, <2>4 DEF OnlyMoves, Only
  <2>6. Flat' = Flat /\ Flat \in Seq(Bytes)
    BY <1>0, FlatIsBytes DEF Flat, DriverInv
  <2>7. CASE trace[f] = Moved
    <3>1. trace' = trace
      BY <2>2, <2>7 DEF ReadRecorded
    <3>2. ~Followed(f)
      BY <2>7 DEF Followed
    <3>3. QED
      BY <1>0, <2>2, <2>5, <3>1, <3>2, FollowQuiet
  <2>8. CASE trace[f] # Moved
    <3> DEFINE x == trace[f].bytes
    <3>1. trace' = [trace EXCEPT ![f].bytes = Cat(x, d.data)]
      BY <2>2, <2>4, <2>8 DEF ReadRecorded, Cat
    <3>2. trace[f] \in [from : Nat, bytes : Seq(Bytes)] /\ trace \in [Files -> Traces]
      BY <2>8 DEF TracesOK, Traces
    <3>3. /\ trace[f].from \in Nat /\ x \in Seq(Bytes)
      BY <3>2
    <3>4. Cat(x, d.data) \in Seq(Bytes)
      BY <2>1, <3>3 DEF Cat
    <3>5. /\ trace'[f].from = trace[f].from /\ trace'[f].bytes = Cat(x, d.data)
          /\ trace' \in [Files -> Traces] /\ \A g \in Files \ {f} : trace'[g] = trace[g]
      <4>1. trace'[f] = [trace[f] EXCEPT !.bytes = Cat(x, d.data)]
            /\ \A g \in Files \ {f} : trace'[g] = trace[g]
        BY <3>1, <3>2
      <4> HIDE DEF x
      <4>2. trace'[f] \in [from : Nat, bytes : Seq(Bytes)] /\ trace'[f].from = trace[f].from
            /\ trace'[f].bytes = Cat(x, d.data)
        BY <3>2, <3>4, <4>1
      <4>3. trace' \in [Files -> Traces]
        BY <3>1, <3>2, <4>1, <4>2 DEF Traces
      <4>4. QED
        BY <4>1, <4>2, <4>3
    <3>6. ASSUME f \in opened PROVE TraceOK(f)' /\ InPlace(p, f)'
      <4>1. Followed(f)
        BY <2>8, <3>6 DEF Followed
      <4>2. call[p].pos = trace[f].from + Len(x) /\ Trails(Flat, trace[f].from, x)
        BY <1>0, <2>2, <4>1 DEF InPlace, NextByte, TracesOK, TraceOK
      <4> HIDE DEF x
      <4>3. /\ Trails(Flat, trace[f].from, Cat(x, d.data))
            /\ trace[f].from + Len(Cat(x, d.data)) = (trace[f].from + Len(x)) + Len(d.data)
        <5>1. /\ Flat \in Seq(Bytes) /\ trace[f].from \in Nat /\ x \in Seq(Bytes)
              /\ d.data \in Seq(Bytes) /\ Trails(Flat, trace[f].from, x)
              /\ Trails(Flat, trace[f].from + Len(x), d.data)
          BY <2>1, <2>6, <3>3, <4>2
        <5>2. QED
          BY <5>1, TrailGoesOn
      <4>4. TraceOK(f)'
        BY <2>6, <3>5, <4>3 DEF TraceOK
      <4>5. NextByte(f)' = d.pos
        BY <2>1, <3>5, <4>2, <4>3 DEF NextByte
      <4>6. InPlace(p, f)'
        BY <2>4, <4>5 DEF InPlace
      <4>7. QED
        BY <4>4, <4>6
    <3>7. Followed(f)' => TraceOK(f)' /\ InPlace(p, f)'
      BY <2>3, <3>6 DEF Followed
    <3>8. ASSUME NEW g \in Files \ {f}, Followed(g) PROVE TraceOK(g)'
      BY <2>6, <3>5, <3>8 DEF TracesOK, TraceOK
    <3>9. QED
      BY <2>2, <2>5, <3>5, <3>7, <3>8, FollowStep
  <2>9. QED
    BY <2>7, <2>8
<1>3. QED
  BY <1>1, <1>2

LEMMA FollowWrite ==
  ASSUME OneUser, DriverInv, TracesOK, NEW p \in Procs, WriteRecorded(p)
  PROVE  TracesOK'
<1>0. /\ aesd_write(p) /\ pc[p] = "locked" /\ call[p].op = "write"
      /\ ControlOK /\ DeviceOK /\ PlacesOK
  BY DEF WriteRecorded, aesd_write, Locked, DriverInv
<1>1. PICK f \in Files : /\ f = call[p].file /\ <<p, f>> \in Uses /\ Only(p, f)
                         /\ Followed(f) => InPlace(p, f)
  BY <1>0, InACall
<1>2. FailAndUnlock(p) \/ UnlockAndReturn(p, call[p])
  BY <1>0 DEF aesd_write, Written, RefuseData, LoseWorkingEntry, StoreCommand, KeepButFail,
              KeepForLater
<1>3. PICK s, c : /\ pc' = [pc EXCEPT ![p] = s] /\ call' = [call EXCEPT ![p] = c]
                  /\ UNCHANGED <<opened, f_pos>>
                  /\ s # "user" => /\ c.file = call[p].file /\ c.op = call[p].op
                                   /\ c.pos = call[p].pos
  <2>1. CASE FailAndUnlock(p)
    <3>1. /\ pc' = [pc EXCEPT ![p] = "user"] /\ call' = [call EXCEPT ![p] = NoCall]
          /\ UNCHANGED <<opened, f_pos>>
      BY <2>1 DEF FailAndUnlock, GoBack
    <3>2. QED
      BY <3>1
  <2>2. CASE UnlockAndReturn(p, call[p])
    <3>1. /\ pc' = [pc EXCEPT ![p] = "return"] /\ call' = [call EXCEPT ![p] = call[p]]
          /\ UNCHANGED <<opened, f_pos>>
      BY <2>2 DEF UnlockAndReturn
    <3>2. QED
      BY <3>1
  <2>3. QED
    BY <1>2, <2>1, <2>2
<1>4. CASE UNCHANGED circ_buffer
  <2>1. UNCHANGED trace
    BY <1>4 DEF WriteRecorded, Added
  <2>2. QED
    BY <1>0, <1>3, <1>4, <2>1, FollowOn
<1>5. ASSUME NEW e \in Commands,
             circ_buffer' = aesd_circular_buffer_add_entry(circ_buffer, e)
      PROVE  TracesOK'
  <2>1. Added
    <3>1. circ_buffer.in_offs \in Slots
      BY <1>0 DEF DeviceOK, Buffers
    <3>2. NextSlot(circ_buffer.in_offs) # circ_buffer.in_offs
      BY <3>1, NextSlotWraps, CapacityAssumption, HistoryAssumption DEF Slots
    <3>3. QED
      BY <1>5, <3>2 DEF Added, aesd_circular_buffer_add_entry
  <2>2. /\ pc'[p] = s /\ call'[p] = c
        /\ \A q \in Procs \ {p} : pc'[q] = pc[q] /\ call'[q] = call[q]
    BY <1>3, OneMoves
  <2>3. OnlyMoves(p, f) /\ Only(p, f)'
    BY <1>1, <1>3, <2>2 DEF OnlyMoves, Only
  <2>4. CASE circ_buffer.full
    <3>1. trace' = [g \in Files |-> Moved]
      BY <2>1, <2>4 DEF WriteRecorded
    <3>2. /\ \A g \in Files : trace'[g] = Moved /\ ~Followed(g)'
          /\ trace' \in [Files -> Traces]
      BY <3>1 DEF Followed, Traces
    <3>3. QED
      BY <1>1, <2>3, <3>2, FollowStep
  <2>5. CASE ~circ_buffer.full
    <3>1. trace' = trace /\ trace \in [Files -> Traces]
      BY <2>5 DEF WriteRecorded, TracesOK
    <3>2. Flat' = Cat(Flat, e)
      BY <1>0, <1>5, <2>5, StoredBytes
    <3>3. Flat \in Seq(Bytes) /\ e \in Seq(Bytes)
      BY <1>0, FlatIsBytes, CommandsBytes DEF CommandsAreBytes
    <3>4. ASSUME NEW g \in Files, Followed(g) PROVE TraceOK(g)'
      <4>1. trace[g].from \in Nat /\ trace[g].bytes \in Seq(Bytes)
        BY <3>4, FollowedFields DEF Followed
      <4>2. Trails(Flat, trace[g].from, trace[g].bytes)
        BY <3>4 DEF TracesOK, TraceOK
      <4>3. Trails(Cat(Flat, e), trace[g].from, trace[g].bytes)
        BY <3>3, <4>1, <4>2, TrailGrows
      <4>4. QED
        BY <3>1, <3>2, <4>3 DEF TraceOK
    <3>5. ASSUME Followed(f)' PROVE TraceOK(f)' /\ InPlace(p, f)'
      <4>1. Followed(f)
        BY <1>3, <3>1, <3>5 DEF Followed
      <4>2. InPlace(p, f) /\ NextByte(f)' = NextByte(f) /\ f_pos'[f] = f_pos[f]
        BY <1>1, <1>3, <3>1, <4>1 DEF NextByte
      <4>3. InPlace(p, f)'
        BY <1>0, <1>3, <2>2, <4>2 DEF InPlace
      <4>4. QED
        BY <3>4, <4>1, <4>3
    <3>6. QED
      BY <1>1, <2>3, <3>1, <3>4, <3>5, FollowStep
  <2>6. QED
    BY <2>4, <2>5
<1>6. UNCHANGED circ_buffer \/ \E e \in Commands :
        circ_buffer' = aesd_circular_buffer_add_entry(circ_buffer, e)
  BY <1>0, DeviceWrite DEF WriteStep
<1>7. QED
  BY <1>4, <1>5, <1>6

\* A file that is opened or closed is in no call.
LEMMA FollowOpening ==
  ASSUME DriverInv, TracesOK, NEW f \in Files, \A p \in Procs : ~Calling(p, f),
         UNCHANGED <<circ_buffer, pc, call>>, f_pos' \in [Files -> Nat],
         \A g \in Files \ {f} : /\ f_pos'[g] = f_pos[g] /\ trace'[g] = trace[g]
                                /\ g \in opened' <=> g \in opened,
         trace' \in [Files -> Traces],
         f \in opened' => trace'[f] = TraceFrom(f_pos'[f])
  PROVE  TracesOK'
<1>1. Flat' = Flat /\ Flat \in Seq(Bytes)
  BY FlatIsBytes DEF Flat, DriverInv
<1>2. \A p \in Procs, g \in Files : Calling(p, g)' <=> Calling(p, g)
  BY DEF Calling
<1>3. ASSUME NEW g \in Files, g # f, Followed(g)' PROVE TraceOK(g)' /\ PositionOK(g)'
  <2>1. trace'[g] = trace[g] /\ f_pos'[g] = f_pos[g] /\ Followed(g)
    BY <1>3 DEF Followed
  <2>2. TraceOK(g) /\ PositionOK(g) /\ NextByte(g)' = NextByte(g)
    BY <2>1 DEF TracesOK, NextByte
  <2>3. TraceOK(g)'
    BY <1>1, <2>1, <2>2 DEF TraceOK
  <2>4. PositionOK(g)'
    BY <1>2, <1>3, <2>1, <2>2 DEF PositionOK
  <2>5. QED
    BY <2>3, <2>4
<1>4. ASSUME Followed(f)' PROVE TraceOK(f)' /\ PositionOK(f)'
  <2>1. trace'[f].from = f_pos'[f] /\ trace'[f].bytes = << >> /\ f_pos'[f] \in Nat
    BY <1>4 DEF Followed, TraceFrom
  <2>2. TraceOK(f)'
    BY <1>1, <2>1, TrailEmpty DEF TraceOK
  <2>3. Len(<< >>) = 0 /\ f_pos'[f] + 0 = f_pos'[f]
    BY <2>1
  <2>4. NextByte(f)' = f_pos'[f]
    BY <2>1, <2>3 DEF NextByte
  <2>5. PositionOK(f)'
    BY <1>2, <2>4 DEF PositionOK
  <2>6. QED
    BY <2>2, <2>5
<1>5. \A p \in Procs : pc'[p] # "user" => <<p, call'[p].file>> \in Uses
  BY DEF TracesOK
<1>6. QED
  BY <1>3, <1>4, <1>5 DEF TracesOK

\* Nobody is in a call on a file that is not open.
LEMMA ClosedIsFree ==
  ASSUME DriverInv, NEW f \in Files, f \notin opened, NEW p \in Procs
  PROVE  ~Calling(p, f)
  BY DEF DriverInv, ControlOK, CallOK, Calling

LEMMA TracesInit == HistInit => TracesOK
  BY DEF HistInit, Init, TracesOK, Traces, Followed

LEMMA FollowReload ==
  ASSUME DriverInv, TracesOK, ReloadRecorded
  PROVE  TracesOK'
  BY DEF ReloadRecorded, Reload, TracesOK, Followed

LEMMA FollowSame ==
  ASSUME TracesOK, UNCHANGED <<circ_buffer, opened, f_pos, pc, call, trace>>
  PROVE  TracesOK'
<1>1. Flat' = Flat
  BY DEF Flat
<1>2. ASSUME NEW f \in Files PROVE /\ Followed(f)' <=> Followed(f)
                                   /\ TraceOK(f)' <=> TraceOK(f)
                                   /\ PositionOK(f)' <=> PositionOK(f)
  BY <1>1 DEF Followed, TraceOK, PositionOK, NextByte, Calling
<1>3. QED
  BY <1>2 DEF TracesOK

LEMMA FollowOther ==
  ASSUME OneUser, DriverInv, TracesOK, OtherStep
  PROVE  TracesOK'
<1>0. UNCHANGED trace
  BY DEF OtherStep, ghosts
<1>1. ASSUME NEW f \in Files, aesd_release(f) PROVE TracesOK'
  <2>1. \A p \in Procs : ~Calling(p, f)
    BY <1>1 DEF aesd_release, InUse, Calling
  <2>2. /\ UNCHANGED <<circ_buffer, pc, call>> /\ opened' = opened \ {f}
        /\ f_pos' = [f_pos EXCEPT ![f] = 0] /\ f_pos \in [Files -> Nat]
    BY <1>1 DEF aesd_release, dev, DriverInv, PlacesOK
  <2>3. f_pos' \in [Files -> Nat] /\ \A g \in Files \ {f} : f_pos'[g] = f_pos[g]
    BY <2>2
  <2>4. trace' \in [Files -> Traces]
    BY <1>0 DEF TracesOK
  <2>5. QED
    BY <1>0, <2>1, <2>2, <2>3, <2>4, FollowOpening
<1>2. ASSUME NEW p \in Procs, EnterRead(p) PROVE TracesOK'
  <2>1. PICK f \in Files, n \in Counts : EnterCall(p, ReadCall(f, n, f_pos[f], << >>))
    BY <1>2 DEF EnterRead
  <2>2. ReadCall(f, n, f_pos[f], << >>) \in ReadCalls
    BY DEF ReadCall, ReadCalls, Positions, DriverInv, PlacesOK
  <2>3. ReadCall(f, n, f_pos[f], << >>) \in Calls
    BY <2>2 DEF Calls
  <2>4. ReadCall(f, n, f_pos[f], << >>).pos = f_pos[ReadCall(f, n, f_pos[f], << >>).file]
    BY DEF ReadCall
  <2>5. QED
    BY <1>0, <2>1, <2>3, <2>4, FollowEnter
<1>3. ASSUME NEW p \in Procs, EnterWrite(p) PROVE TracesOK'
  <2>1. PICK f \in Files, d \in Payloads :
          EnterCall(p, [op |-> "write", file |-> f, buf |-> d, pos |-> f_pos[f]])
    BY <1>3 DEF EnterWrite
  <2>2. [op |-> "write", file |-> f, buf |-> d, pos |-> f_pos[f]] \in WriteCalls
    BY DEF WriteCalls, Positions, DriverInv, PlacesOK
  <2>3. [op |-> "write", file |-> f, buf |-> d, pos |-> f_pos[f]] \in Calls
    BY <2>2 DEF Calls
  <2>4. QED
    BY <1>0, <2>1, <2>3, FollowEnter
<1>4. ASSUME NEW p \in Procs, EnterLlseek(p) PROVE TracesOK'
  <2>1. PICK f \in Files, a \in Seeks : EnterCall(p, SeekCall(f, a, 0))
    BY <1>4 DEF EnterLlseek
  <2>2. SeekCall(f, a, 0) \in SeekCalls /\ SeekCall(f, a, 0).op = "llseek"
    BY DEF SeekCall, SeekCalls, Positions
  <2>3. SeekCall(f, a, 0) \in Calls
    BY <2>2 DEF Calls
  <2>4. QED
    BY <1>0, <2>1, <2>2, <2>3, FollowEnter
<1>5. ASSUME NEW p \in Procs, EnterIoctl(p) PROVE TracesOK'
  <2>1. PICK f \in Files, a \in SeekTos :
          EnterCall(p, [op |-> "ioctl", file |-> f, arg |-> a])
    BY <1>5 DEF EnterIoctl
  <2>2. [op |-> "ioctl", file |-> f, arg |-> a] \in Calls
    BY DEF IoctlCalls, Calls
  <2>3. QED
    BY <1>0, <2>1, <2>2, FollowEnter
<1>6. ASSUME NEW p \in Procs, Interrupted(p) \/ RefuseSeekTo(p) PROVE TracesOK'
  <2>1. /\ pc[p] = "enter" /\ pc' = [pc EXCEPT ![p] = "user"]
        /\ call' = [call EXCEPT ![p] = NoCall]
        /\ UNCHANGED <<circ_buffer, opened, f_pos>>
    BY <1>6 DEF Interrupted, RefuseSeekTo, GoBack, dev
  <2>2. QED
    BY <1>0, <2>1, FollowOn
<1>7. ASSUME NEW p \in Procs, mutex_lock(p) PROVE TracesOK'
  <2>1. /\ pc[p] = "enter" /\ pc' = [pc EXCEPT ![p] = "locked"] /\ call' = call
        /\ UNCHANGED <<circ_buffer, opened, f_pos>>
    BY <1>7 DEF mutex_lock, dev
  <2>2. call' = [call EXCEPT ![p] = call[p]]
    BY <2>1 DEF DriverInv, PlacesOK
  <2>3. QED
    BY <1>0, <2>1, <2>2, FollowOn
<1>8. ASSUME NEW p \in Procs, aesd_llseek(p) PROVE TracesOK'
  <2>1. /\ pc[p] = "locked" /\ call[p].op = "llseek" /\ UNCHANGED <<circ_buffer, opened, f_pos>>
    BY <1>8 DEF aesd_llseek, Locked, FailAndUnlock, dev
  <2>2. PICK s, c : /\ pc' = [pc EXCEPT ![p] = s] /\ call' = [call EXCEPT ![p] = c]
                    /\ s # "user" => c.file = call[p].file /\ c.op = "llseek"
    <3>1. CASE NewPos(p) < 0
      BY <1>8, <3>1 DEF aesd_llseek, FailAndUnlock, GoBack
    <3>2. CASE ~(NewPos(p) < 0)
      <4> DEFINE c == SeekCall(call[p].file, call[p].arg, NewPos(p))
      <4>1. pc' = [pc EXCEPT ![p] = "store"] /\ call' = [call EXCEPT ![p] = c]
        BY <1>8, <3>2 DEF aesd_llseek
      <4>2. c.file = call[p].file /\ c.op = "llseek"
        BY DEF SeekCall
      <4> HIDE DEF c
      <4>3. QED
        BY <4>1, <4>2
    <3>3. QED
      BY <3>1, <3>2
  <2>3. s # "user" => /\ c.file = call[p].file /\ c.op = call[p].op
                      /\ c.op \in {"read", "write"} => c.pos = call[p].pos
    BY <2>1, <2>2
  <2>4. QED
    BY <1>0, <2>1, <2>2, <2>3, FollowOn
<1>9. ASSUME NEW p \in Procs, aesd_ioctl(p), f_pos' = f_pos PROVE TracesOK'
  <2>1. /\ pc[p] = "locked" /\ pc' = [pc EXCEPT ![p] = "user"]
        /\ call' = [call EXCEPT ![p] = NoCall] /\ UNCHANGED <<circ_buffer, opened, f_pos>>
    BY <1>9 DEF aesd_ioctl, Locked, FailAndUnlock, GoBack, dev
  <2>2. QED
    BY <1>0, <2>1, FollowOn
<1>10. ASSUME NEW p \in Procs, StorePosition(p) PROVE TracesOK'
  BY <1>0, <1>10, FollowStore
<1>11. QED
  BY <1>1, <1>2, <1>3, <1>4, <1>5, <1>6, <1>7, <1>8, <1>9, <1>10 DEF OtherStep

LEMMA FollowSeekStep ==
  ASSUME OneUser, DriverInv, TracesOK, NEW f \in Files, SeekRecorded(f)
  PROVE  TracesOK'
<1>0. trace \in [Files -> Traces] /\ trace' = [trace EXCEPT ![f] = TraceFrom(f_pos'[f])]
  BY DEF SeekRecorded, TracesOK
<1>1. f_pos' \in [Files -> Nat]
  <2>1. Next
    BY DEF SeekRecorded, Next, Work
  <2>2. PlacesOK'
    BY <2>1, PlacesStep DEF DriverInv
  <2>3. QED
    BY <2>2 DEF PlacesOK
<1>2. CASE aesd_open(f)
  <2>1. \A p \in Procs : ~Calling(p, f)
    BY <1>2, ClosedIsFree DEF aesd_open
  <2>2. /\ UNCHANGED <<circ_buffer, pc, call>> /\ opened' = opened \cup {f}
        /\ f_pos' = [f_pos EXCEPT ![f] = 0] /\ f_pos \in [Files -> Nat]
    BY <1>2 DEF aesd_open, dev, DriverInv, PlacesOK
  <2>3. TraceFrom(f_pos'[f]) \in Traces
    BY <1>1 DEF TraceFrom, Traces
  <2>4. /\ trace' \in [Files -> Traces] /\ trace'[f] = TraceFrom(f_pos'[f])
        /\ \A g \in Files \ {f} : trace'[g] = trace[g]
    BY <1>0, <2>3
  <2>5. \A g \in Files \ {f} : f_pos'[g] = f_pos[g] /\ (g \in opened' <=> g \in opened)
    BY <2>2
  <2>6. QED
    BY <1>1, <2>1, <2>2, <2>4, <2>5, FollowOpening
<1>3. ASSUME NEW p \in Procs, pc[p] # "user", call[p].file = f,
             StoreNewPos(p) \/ (aesd_ioctl(p) /\ f_pos' # f_pos)
      PROVE  TracesOK'
  <2>1. /\ GoBack(p) /\ UNCHANGED <<circ_buffer, opened>>
        /\ \E x : f_pos' = [f_pos EXCEPT ![call[p].file] = x]
    BY <1>3 DEF StoreNewPos, aesd_ioctl, FailAndUnlock, dev
  <2>2. trace' = [trace EXCEPT ![call[p].file] = TraceFrom(f_pos'[call[p].file])]
    BY <1>0, <1>3
  <2>3. QED
    BY <1>1, <1>3, <2>1, <2>2, FollowSeek
<1>4. QED
  BY <1>2, <1>3 DEF SeekRecorded

LEMMA TracesStep ==
  ASSUME OneUser, DriverInv, TracesOK, [HistNext]_histVars
  PROVE  TracesOK'
<1>1. CASE UNCHANGED histVars
  BY <1>1, FollowSame DEF histVars, vars, ghosts
<1>2. QED
  BY <1>1, FollowReload, FollowOther, FollowSeekStep, FollowWrite, FollowRead DEF HistNext

(***************************************************************************)
(* A file that one process uses is read in order, whatever all the others  *)
(* write and wherever the signals and the failing calls come in between,   *)
(* with and without allocation failures.  Two processes that share a file  *)
(* may read the same bytes twice: each has a copy of the position.         *)
(***************************************************************************)
THEOREM FilesAreReadInOrder ==
  ASSUME OneUser
  PROVE  HistSpec => []ReadsInOrder
<1>1. HistInit => TracesOK
  BY TracesInit
<1>2. DriverInv /\ TracesOK /\ [HistNext]_histVars => TracesOK'
  BY TracesStep
<1>3. DriverInv /\ TracesOK => ReadsInOrder
  <2> SUFFICES ASSUME DriverInv, TracesOK, NEW f \in Files, f \in opened, trace[f] # Moved
               PROVE  /\ trace[f].bytes = SubSeq(Flat, trace[f].from + 1, NextByte(f))
                      /\ ~InUse(f) => f_pos[f] = NextByte(f)
    BY DEF ReadsInOrder, NextByte
  <2>1. TraceOK(f) /\ PositionOK(f)
    BY DEF TracesOK, Followed
  <2>2. ~InUse(f) => \A p \in Procs : ~Calling(p, f)
    BY DEF InUse, Calling
  <2>3. QED
    BY <2>1, <2>2 DEF TraceOK, Trails, PositionOK, NextByte
<1>4. QED
  BY <1>1, <1>2, <1>3, HistoryInvariant, PTL DEF HistSpec
=============================================================================
