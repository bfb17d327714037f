------------------------------ MODULE AesdChar ------------------------------
(***************************************************************************)
(* The aesdchar device driver (aesd-char-driver/main.c): processes make    *)
(* system calls on open files of the one device, and the handlers          *)
(* serialise on dev->lock.                                                 *)
(*                                                                         *)
(* A call is made in the steps at which another process can come between:  *)
(* the kernel enters the handler, with a copy of the file position for     *)
(* read and write; the handler waits for dev->lock; it does its work and   *)
(* releases the lock; after read and write the kernel stores the copied    *)
(* position.  The device fields (circ_buffer, working_entry, working_size) *)
(* are only touched under the lock, so what happens to them under it is    *)
(* one step.  filp->f_pos is not protected by the lock: aesd_llseek reads  *)
(* it and stores it in two steps.                                          *)
(***************************************************************************)
EXTENDS CircularBufferOps, SequencesExt

CONSTANTS
  Procs,         \* the processes
  Files,         \* the open files (struct file)
  Uses,          \* {<<p, f>>} : process p has a descriptor for file f
  Bytes,         \* the bytes that are written
  Newline,       \* '\n'
  Payloads,      \* the buffers given to write
  Counts,        \* the counts given to read
  Seeks,         \* the [off, whence] given to llseek
  SeekTos,       \* the [write_cmd, write_cmd_offset] given to AESDCHAR_IOCSEEKTO
  PosLimit,      \* loff_t is in -PosLimit .. PosLimit - 1; 2^63 in the code
  AllocMayFail,  \* whether kmalloc and krealloc may return NULL
  MaxPending,    \* bound: no write starts with more unfinished bytes than this
  NULL,          \* the null pointer
  Free           \* the value of dev->lock when nobody holds it

ASSUME DriverAssumption ==
  /\ Uses \subseteq Procs \X Files
  /\ Newline \in Bytes
  /\ Payloads \subseteq Seq(Bytes)
  /\ Counts \subseteq Nat
  /\ Seeks \subseteq [off : -PosLimit .. PosLimit - 1, whence : Nat]
  /\ SeekTos \subseteq [write_cmd : Nat, write_cmd_offset : Nat]
  /\ PosLimit \in Nat \ {0}
  /\ AllocMayFail \in BOOLEAN
  /\ MaxPending \in Nat
  /\ NULL \notin Seq(Bytes)
  /\ Free \notin Procs

VARIABLES
  circ_buffer,    \* dev->circ_buffer
  working_entry,  \* dev->working_entry: NULL, or the bytes of the allocation
  working_size,   \* dev->working_size
  lock,           \* dev->lock: Free or the process that holds it
  opened,         \* the files that are open
  f_pos,          \* filp->f_pos of each file
  pc,             \* where each process is
  call            \* the call each process is making

dev  == <<circ_buffer, working_entry, working_size>>
vars == <<circ_buffer, working_entry, working_size, lock, opened, f_pos, pc, call>>

-----------------------------------------------------------------------------
Positions == Nat   \* below PosLimit, or reached by reading that much
NoCall    == [op |-> "none"]

ReadCall(f, n, pos, data) ==
  [op |-> "read", file |-> f, count |-> n, pos |-> pos, data |-> data]

SeekCall(f, arg, newpos) ==
  [op |-> "llseek", file |-> f, arg |-> arg, newpos |-> newpos]

ReadCalls  == [op : {"read"}, file : Files, count : Counts, pos : Positions,
               data : Seq(Bytes)]
WriteCalls == [op : {"write"}, file : Files, buf : Payloads, pos : Positions]
SeekCalls  == [op : {"llseek"}, file : Files, arg : Seeks, newpos : Positions]
IoctlCalls == [op : {"ioctl"}, file : Files, arg : SeekTos]
Calls      == ReadCalls \cup WriteCalls \cup SeekCalls \cup IoctlCalls

\* In user space; in the handler before it has the lock; holding the lock;
\* holding it about to store the new position (aesd_llseek); after the handler.
Pcs == {"user", "enter", "locked", "store", "return"}

\* A command, as the driver stores it: it ends at its first newline.
Commands == {s \in Seq(Bytes) : /\ s # << >>
                                /\ \A i \in DOMAIN s : s[i] = Newline <=> i = Len(s)}

TypeOK ==
  /\ circ_buffer \in Buffers(Commands)
  /\ working_entry \in Seq(Bytes) \cup {NULL}
  /\ working_size \in Nat
  /\ lock \in Procs \cup {Free}
  /\ opened \subseteq Files
  /\ f_pos \in [Files -> Positions]
  /\ pc \in [Procs -> Pcs]
  /\ call \in [Procs -> Calls \cup {NoCall}]

\* aesd_init_module: the device is zeroed and its fields set up.
Init ==
  /\ circ_buffer = aesd_circular_buffer_init
  /\ working_entry = NULL
  /\ working_size = 0
  /\ lock = Free
  /\ opened = {}
  /\ f_pos = [f \in Files |-> 0]
  /\ pc = [p \in Procs |-> "user"]
  /\ call = [p \in Procs |-> NoCall]

-----------------------------------------------------------------------------
(***************************************************************************)
(* The kernel's side of a call.                                            *)
(***************************************************************************)
InUse(f) == \E p \in Procs : pc[p] # "user" /\ call[p].file = f

\* aesd_open: needs neither the lock nor the buffer.
aesd_open(f) ==
  /\ f \notin opened
  /\ opened' = opened \cup {f}
  /\ f_pos' = [f_pos EXCEPT ![f] = 0]
  /\ UNCHANGED <<dev, lock, pc, call>>

\* aesd_release: when the last reference to the file is dropped, and the
\* struct file with it.
aesd_release(f) ==
  /\ f \in opened /\ ~InUse(f)
  /\ opened' = opened \ {f}
  /\ f_pos' = [f_pos EXCEPT ![f] = 0]
  /\ UNCHANGED <<dev, lock, pc, call>>

EnterCall(p, c) ==
  /\ pc[p] = "user" /\ <<p, c.file>> \in Uses /\ c.file \in opened
  /\ pc' = [pc EXCEPT ![p] = "enter"]
  /\ call' = [call EXCEPT ![p] = c]
  /\ UNCHANGED <<dev, lock, opened, f_pos>>

\* The kernel hands read and write a pointer to a copy of the position.
EnterRead(p) ==
  \E f \in Files, n \in Counts :
    EnterCall(p, ReadCall(f, n, f_pos[f], << >>))

EnterWrite(p) ==
  /\ working_size <= MaxPending
  /\ \E f \in Files, d \in Payloads :
       EnterCall(p, [op |-> "write", file |-> f, buf |-> d, pos |-> f_pos[f]])

EnterLlseek(p) ==
  \E f \in Files, a \in Seeks :
    EnterCall(p, SeekCall(f, a, 0))

EnterIoctl(p) ==
  \E f \in Files, a \in SeekTos :
    EnterCall(p, [op |-> "ioctl", file |-> f, arg |-> a])

\* A read or write that did not fail: the copied position is stored back,
\* whatever became of the file's position in the meantime.
StorePosition(p) ==
  /\ pc[p] = "return"
  /\ f_pos' = [f_pos EXCEPT ![call[p].file] = call[p].pos]
  /\ pc' = [pc EXCEPT ![p] = "user"]
  /\ call' = [call EXCEPT ![p] = NoCall]
  /\ UNCHANGED <<dev, lock, opened>>

\* The call is over; its result does not change the position again.
GoBack(p) ==
  /\ pc' = [pc EXCEPT ![p] = "user"]
  /\ call' = [call EXCEPT ![p] = NoCall]

-----------------------------------------------------------------------------
(***************************************************************************)
(* The lock.  aesd_ioctl refuses a write_cmd that no buffer can have       *)
(* before it takes the lock; a signal ends the wait in every handler.      *)
(***************************************************************************)
OutOfRange(p) == call[p].op = "ioctl" /\ call[p].arg.write_cmd >= Capacity

mutex_lock(p) ==
  /\ pc[p] = "enter" /\ ~OutOfRange(p)
  /\ lock = Free
  /\ lock' = p
  /\ pc' = [pc EXCEPT ![p] = "locked"]
  /\ UNCHANGED <<dev, opened, f_pos, call>>

\* -ERESTARTSYS
Interrupted(p) ==
  /\ pc[p] = "enter" /\ ~OutOfRange(p)
  /\ GoBack(p)
  /\ UNCHANGED <<dev, lock, opened, f_pos>>

\* -EINVAL
RefuseSeekTo(p) ==
  /\ pc[p] = "enter" /\ OutOfRange(p)
  /\ GoBack(p)
  /\ UNCHANGED <<dev, lock, opened, f_pos>>

Locked(p, op) == pc[p] = "locked" /\ call[p].op = op

\* Mutant: an error path forgets mutex_unlock.
fail_without_unlock(p) ==
  /\ GoBack(p)
  /\ UNCHANGED <<lock, opened, f_pos>>

\* mutex_unlock and an error: nothing else changes.
FailAndUnlock(p) ==
  /\ lock' = Free
  /\ GoBack(p)
  /\ UNCHANGED <<opened, f_pos>>

\* mutex_unlock in a read or write that goes back to the kernel with c.
UnlockAndReturn(p, c) ==
  /\ lock' = Free
  /\ pc' = [pc EXCEPT ![p] = "return"]
  /\ call' = [call EXCEPT ![p] = c]
  /\ UNCHANGED <<opened, f_pos>>

-----------------------------------------------------------------------------
(***************************************************************************)
(* aesd_read: at most the rest of the one entry that holds position pos.   *)
(***************************************************************************)
aesd_read(p) ==
  LET c     == call[p]
      found == aesd_circular_buffer_find_entry_offset_for_fpos(circ_buffer, c.pos)
      bytes == circ_buffer.entry[found.slot]
      n     == Min({Len(bytes) - found.offset, c.count})
  IN  /\ Locked(p, "read")
      /\ IF found = NoEntry
         THEN UnlockAndReturn(p, c)
         ELSE \/ FailAndUnlock(p)        \* copy_to_user: -EFAULT
              \/ UnlockAndReturn(p,
                   ReadCall(c.file, c.count, c.pos + n,
                            SubSeq(bytes, found.offset + 1, found.offset + n)))
      /\ UNCHANGED dev
-----------------------------------------------------------------------------
(***************************************************************************)
(* aesd_write: the bytes join the unfinished ones; if there is a newline   *)
(* among them, the bytes up to the first one become an entry.  The loop    *)
(* "while (remaining)" takes everything in its first round (chunk =        *)
(* remaining), so one call adds at most one entry, and what follows the    *)
(* newline stays behind even when it holds another newline.                *)
(***************************************************************************)
\* Mutant: the position advances by the bytes written, as for a plain file.
written_at_position(p) == [call[p] EXCEPT !.pos = @ + Len(call[p].buf)]

\* *f_pos is left alone.
Written(p) == call[p]

\* krealloc keeps the bytes of working_entry; of a NULL one it gives fresh
\* memory, and the working_size bytes in front of the new ones are whatever
\* that memory holds.
OldBytes == IF working_entry = NULL THEN [1 .. working_size -> Bytes]
            ELSE {working_entry}

SetWorking(bytes) ==
  /\ working_entry' = bytes
  /\ working_size' = Len(bytes)

\* kmalloc of kbuf fails, or copy_from_user does: nothing has been touched.
RefuseData(p) ==
  /\ FailAndUnlock(p)
  /\ UNCHANGED dev

\* The result of krealloc overwrites the only pointer to the old bytes.
LoseWorkingEntry(p) ==
  /\ AllocMayFail
  /\ working_entry' = NULL
  /\ FailAndUnlock(p)
  /\ UNCHANGED <<circ_buffer, working_size>>

\* No newline yet.
KeepForLater(p, grown) ==
  /\ SetWorking(grown)
  /\ UnlockAndReturn(p, Written(p))
  /\ UNCHANGED circ_buffer

\* kmalloc of entry_buf fails: the call fails, but the bytes have been kept.
KeepButFail(p, grown) ==
  /\ AllocMayFail
  /\ SetWorking(grown)
  /\ FailAndUnlock(p)
  /\ UNCHANGED circ_buffer

\* Mutant: the + 1 is missing, and the newline stays behind.
entry_size_without_newline(grown) ==
  Min({i \in DOMAIN grown : grown[i] = Newline}) - 1

\* newline - dev->working_entry + 1
entry_size(grown) == Min({i \in DOMAIN grown : grown[i] = Newline})

\* Mutant: the stored command is not taken out of working_entry.
leftover_with_command(grown) == grown

leftover(grown) == SubSeq(grown, entry_size(grown) + 1, Len(grown))

StoreCommand(p, grown) ==
  /\ circ_buffer' = aesd_circular_buffer_add_entry(circ_buffer,
                                                   SubSeq(grown, 1, entry_size(grown)))
  /\ SetWorking(leftover(grown))
  /\ UnlockAndReturn(p, Written(p))

aesd_write(p) ==
  /\ Locked(p, "write")
  /\ \/ /\ call[p].buf = << >>
        /\ UnlockAndReturn(p, Written(p))
        /\ UNCHANGED dev
     \/ /\ call[p].buf # << >>
        /\ \/ RefuseData(p)
           \/ LoseWorkingEntry(p)
           \/ \E old \in OldBytes :
                LET grown == old \o call[p].buf
                IN  IF \E i \in DOMAIN grown : grown[i] = Newline
                    THEN StoreCommand(p, grown) \/ KeepButFail(p, grown)
                    ELSE KeepForLater(p, grown)

-----------------------------------------------------------------------------
(***************************************************************************)
(* aesd_llseek                                                             *)
(***************************************************************************)
\* The slots its two loops visit, in order: all of a full buffer, otherwise
\* those from out_offs until the index meets in_offs.
SummedSlots ==
  IF circ_buffer.full THEN [i \in 1 .. Capacity |-> i - 1]
  ELSE [i \in 1 .. (circ_buffer.in_offs - circ_buffer.out_offs) % Capacity |->
          SlotAfter(circ_buffer, i - 1)]

total_size ==
  LET total[i \in 0 .. Len(SummedSlots)] ==
        IF i = 0 THEN 0 ELSE total[i - 1] + Len(circ_buffer.entry[SummedSlots[i]])
  IN  total[Len(SummedSlots)]

\* Sums of loff_t (and of size_t stored in a loff_t) wrap around.
Wrapped(x) == ((x + PosLimit) % (2 * PosLimit)) - PosLimit

NewPos(p) ==
  LET off == call[p].arg.off
  IN  CASE call[p].arg.whence = 0 -> off                              \* SEEK_SET
        [] call[p].arg.whence = 1 -> Wrapped(f_pos[call[p].file] + off)
        [] call[p].arg.whence = 2 -> Wrapped(total_size + off)        \* SEEK_END
        [] OTHER -> -1                                                \* -EINVAL

aesd_llseek(p) ==
  /\ Locked(p, "llseek")
  /\ UNCHANGED dev
  /\ IF NewPos(p) < 0
     THEN FailAndUnlock(p)
     ELSE /\ pc' = [pc EXCEPT ![p] = "store"]
          /\ call' = [call EXCEPT ![p] = SeekCall(@.file, @.arg, NewPos(p))]
          /\ UNCHANGED <<lock, opened, f_pos>>

StoreNewPos(p) ==
  /\ pc[p] = "store"
  /\ f_pos' = [f_pos EXCEPT ![call[p].file] = call[p].newpos]
  /\ lock' = Free
  /\ GoBack(p)
  /\ UNCHANGED <<dev, opened>>

-----------------------------------------------------------------------------
(***************************************************************************)
(* aesd_ioctl with AESDCHAR_IOCSEEKTO (any other command is refused        *)
(* without a step).  It checks the entry that write_cmd leads to, counting *)
(* from out_offs, and relies on the slots that hold no command being zero. *)
(***************************************************************************)
\* The entry write_cmd leads to.
Sought(p) == circ_buffer.entry[SlotAfter(circ_buffer, call[p].arg.write_cmd)]

\* Mutant: the offset one past the command's last byte is accepted.
past_last_byte(p) == call[p].arg.write_cmd_offset > Len(Sought(p))

OffsetTooFar(p) == call[p].arg.write_cmd_offset >= Len(Sought(p))

SoughtPosition(p) ==
  BytesBefore(circ_buffer)[call[p].arg.write_cmd] + call[p].arg.write_cmd_offset

\* -EINVAL
NoSuchByte(p) ==
  \/ OffsetTooFar(p)
  \/ aesd_circular_buffer_find_entry_offset_for_fpos(circ_buffer, SoughtPosition(p))
       = NoEntry

aesd_ioctl(p) ==
  /\ Locked(p, "ioctl")
  /\ IF NoSuchByte(p)
     THEN FailAndUnlock(p)
     ELSE /\ f_pos' = [f_pos EXCEPT ![call[p].file] = SoughtPosition(p)]
          /\ lock' = Free
          /\ GoBack(p)
          /\ UNCHANGED opened
  /\ UNCHANGED dev

-----------------------------------------------------------------------------
\* rmmod (refused while a file is open), which frees every entry and the
\* unfinished bytes, and insmod, which runs aesd_init_module again.
Reload ==
  /\ opened = {}
  /\ circ_buffer' = aesd_circular_buffer_init
  /\ working_entry' = NULL
  /\ working_size' = 0
  /\ lock' = Free
  /\ UNCHANGED <<opened, f_pos, pc, call>>

Enter(p) == EnterRead(p) \/ EnterWrite(p) \/ EnterLlseek(p) \/ EnterIoctl(p)

\* What the kernel and the driver do in a call once they have started it.
Work(p) == \/ RefuseSeekTo(p) \/ aesd_read(p) \/ aesd_write(p)
           \/ aesd_llseek(p) \/ StoreNewPos(p) \/ aesd_ioctl(p)
           \/ StorePosition(p)

Next ==
  \/ Reload
  \/ \E f \in Files : aesd_open(f) \/ aesd_release(f)
  \/ \E p \in Procs : Enter(p) \/ mutex_lock(p) \/ Interrupted(p) \/ Work(p)

Spec == Init /\ [][Next]_vars

(***************************************************************************)
(* A process in the kernel keeps running.  The mutex of the kernel hands   *)
(* itself over to a waiter that has waited too long, so that a waiter that *)
(* finds it free again and again gets it: strong fairness.  Nobody has to  *)
(* open, close or make a call, and no signal has to arrive.                *)
(***************************************************************************)
Fairness == \A p \in Procs : WF_vars(Work(p)) /\ SF_vars(mutex_lock(p))

FairSpec == Spec /\ Fairness
-----------------------------------------------------------------------------
(***************************************************************************)
(* Whoever has dev->lock is in a handler between mutex_lock and            *)
(* mutex_unlock, and nobody else is: each of the fifteen return statements *)
(* of the four handlers gives back the lock if and only if it has it.      *)
(***************************************************************************)
LockDiscipline ==
  \A p \in Procs : pc[p] \in {"locked", "store"} <=> lock = p

\* The ring as CircularBuffer!RingShape states it, now behind the driver.
RingShape == WellFormed(circ_buffer)

(***************************************************************************)
(* "newline signals complete write" (main.c:130): bytes that are still     *)
(* waiting for their command to be completed hold no newline.  True as     *)
(* long as a write has at most one newline, at its end.                    *)
(***************************************************************************)
PendingHasNoNewline ==
  working_entry # NULL =>
    \A i \in DOMAIN working_entry : working_entry[i] # Newline

Flat == FlattenSeq(Contents(circ_buffer))

(***************************************************************************)
(* A read that succeeds has copied the bytes of the device at the position *)
(* it was given, without gap or overlap with the next read, and finds none *)
(* only at or beyond the end of the data.                                  *)
(***************************************************************************)
ReadCopiesWhatIsThere(p) ==
  LET c == call[p]
      d == call'[p]
  IN  /\ d.data = SubSeq(Flat, c.pos + 1, d.pos)
      /\ Len(d.data) \in 0 .. c.count
      /\ d.data = << >> => c.count = 0 \/ c.pos >= Len(Flat)

ReadsDeliver ==
  [][\A p \in Procs : Locked(p, "read") /\ pc'[p] = "return"
                        => ReadCopiesWhatIsThere(p)]_vars

(***************************************************************************)
(* What the two seeks are for.  AESDCHAR_IOCSEEKTO puts the position on    *)
(* byte write_cmd_offset of command write_cmd, counted from the oldest one *)
(* stored, and fails exactly if there is no such byte                      *)
(* (aesd_ioctl.h:21-31); SEEK_END counts from the end of all stored bytes. *)
(***************************************************************************)
SeekToLands(p) ==
  LET cmd    == call[p].arg.write_cmd
      offset == call[p].arg.write_cmd_offset
      valid  == /\ cmd < Len(Contents(circ_buffer))
                /\ offset < Len(Contents(circ_buffer)[cmd + 1])
      before == FlattenSeq(SubSeq(Contents(circ_buffer), 1, cmd))
  IN  f_pos' = IF valid
               THEN [f_pos EXCEPT ![call[p].file] = Len(before) + offset]
               ELSE f_pos

SeekEndLands(p) ==
  LET pos == Len(Flat) + call[p].arg.off
  IN  IF pos \in 0 .. PosLimit - 1 THEN call'[p].newpos = pos ELSE pc'[p] = "user"

SeeksLand ==
  [][\A p \in Procs :
       pc[p] = "locked" /\ pc'[p] # "locked" =>
         /\ call[p].op = "ioctl" => SeekToLands(p)
         /\ call[p].op = "llseek" /\ call[p].arg.whence = 2 => SeekEndLands(p)]_vars

(***************************************************************************)
(* However the calls of the processes interleave, the device remembers the *)
(* last Capacity commands (main.c:131), and a failed, interrupted or       *)
(* partial write changes none of them.                                     *)
(***************************************************************************)
History == INSTANCE RecentWrites WITH recent <- Contents(circ_buffer),
                                      Entries <- Commands

ImplementsRecentWrites == History!Spec

\* Every call comes back to user space, whoever else is in the driver.
EveryCallReturns == \A p \in Procs : pc[p] # "user" ~> pc[p] = "user"
=============================================================================
