-------------------------- MODULE AesdCharHistory ---------------------------
(***************************************************************************)
(* AesdChar with variables that only record what happened, for properties  *)
(* about a whole run of the driver: what the callers of write were told    *)
(* has been written, what the readers of each file got, and how many       *)
(* blocks of memory are allocated.  Every step is a step of AesdChar, and  *)
(* none is prevented but a write beyond the bound MaxWritten.              *)
(***************************************************************************)
EXTENDS AesdChar

CONSTANT MaxWritten   \* bound: no write starts once this much is written

\* With a single slot in_offs would stay where it is when a command is added.
ASSUME HistoryAssumption == Capacity > 1 /\ MaxWritten \in Nat

VARIABLES
  written,  \* the bytes of all writes that returned their count, since insmod
  trace,    \* for each file, the bytes read since it was opened or sought in
  live      \* blocks kmalloc'ed for entries and unfinished bytes since insmod,
            \* and not kfree'd

ghosts == <<written, trace, live>>
histVars == <<vars, ghosts>>

\* The trace of a file none of whose past reads counts any more: the oldest
\* command was dropped, so every later byte has moved to a lower position.
Moved == [from |-> -1, bytes |-> << >>]

TraceFrom(pos) == [from |-> pos, bytes |-> << >>]

HistInit ==
  /\ Init
  /\ written = << >>
  /\ trace = [f \in Files |-> Moved]
  /\ live = 0

-----------------------------------------------------------------------------
Count(condition) == IF condition THEN 1 ELSE 0

\* working_entry points at a block: not NULL, and not krealloc'ed to size 0.
HasWorkingBlock == working_entry # NULL /\ working_entry # << >>

Added == circ_buffer'.in_offs # circ_buffer.in_offs

\* The blocks aesd_write allocates and frees (kbuf comes and goes within the
\* call).  add_entry overwrites the pointer in the oldest entry of a full
\* buffer, and a failing krealloc the one to the unfinished bytes.
WriteRecorded(p) ==
  /\ aesd_write(p)
  /\ written' = IF pc'[p] = "return" THEN written \o call[p].buf ELSE written
  /\ trace' = IF Added /\ circ_buffer.full THEN [f \in Files |-> Moved] ELSE trace
  /\ live' = IF working_entry' = NULL THEN live
             ELSE live + Count(Added) + Count(HasWorkingBlock') - Count(HasWorkingBlock)

ReadRecorded(p) ==
  /\ aesd_read(p)
  /\ trace' = IF pc'[p] = "return" /\ trace[call[p].file] # Moved
              THEN [trace EXCEPT ![call[p].file].bytes = @ \o call'[p].data]
              ELSE trace
  /\ UNCHANGED <<written, live>>

\* A step that puts a file's position somewhere on purpose.
SeekRecorded(f) ==
  /\ \/ aesd_open(f)
     \/ \E p \in Procs : /\ pc[p] # "user" /\ call[p].file = f
                         /\ StoreNewPos(p) \/ (aesd_ioctl(p) /\ f_pos' # f_pos)
  /\ trace' = [trace EXCEPT ![f] = TraceFrom(f_pos'[f])]
  /\ UNCHANGED <<written, live>>

\* The blocks the driver still has a pointer to: aesd_cleanup_module frees
\* these.
Reachable == Cardinality({i \in Slots : circ_buffer.entry[i] # ZeroSlot})
               + Count(HasWorkingBlock)

ReloadRecorded ==
  /\ Reload
  /\ written' = << >>
  /\ live' = 0
  /\ UNCHANGED trace

OtherStep ==
  /\ \/ \E f \in Files : aesd_release(f)
     \/ \E p \in Procs :
          \/ EnterRead(p) \/ EnterLlseek(p) \/ EnterIoctl(p)
          \/ EnterWrite(p) /\ Len(written) <= MaxWritten
          \/ mutex_lock(p) \/ Interrupted(p) \/ RefuseSeekTo(p)
          \/ aesd_llseek(p)
          \/ aesd_ioctl(p) /\ f_pos' = f_pos
          \/ StorePosition(p)
  /\ UNCHANGED ghosts

HistNext ==
  \/ ReloadRecorded
  \/ OtherStep
  \/ \E f \in Files : SeekRecorded(f)
  \/ \E p \in Procs : WriteRecorded(p) \/ ReadRecorded(p)

HistSpec == HistInit /\ [][HistNext]_histVars

-----------------------------------------------------------------------------
Unfinished == IF working_entry = NULL THEN << >> ELSE working_entry

(***************************************************************************)
(* The stored commands followed by the unfinished bytes are the newest     *)
(* bytes the callers of write were told had been written: nothing is lost, *)
(* doubled, reordered or made up, although every call goes through the one *)
(* working_entry that all processes share ("append data into device, wait  *)
(* until new line then append", main.c:149).                               *)
(***************************************************************************)
SavedWhatWasWritten == IsSuffix(Flat \o Unfinished, written)

(***************************************************************************)
(* A file used by one process at a time is read in order: as long as no    *)
(* command has been dropped, successive reads return consecutive bytes     *)
(* from where the file was opened or sought to, whatever is written in     *)
(* between, and the position is where the last read ended.                 *)
(***************************************************************************)
ReadsInOrder ==
  \A f \in Files : f \in opened /\ trace[f] # Moved =>
    LET next == trace[f].from + Len(trace[f].bytes)
    IN  /\ trace[f].bytes = SubSeq(Flat, trace[f].from + 1, next)
        /\ ~InUse(f) => f_pos[f] = next

(***************************************************************************)
(* Every block that is allocated can still be reached, so that it can be   *)
(* freed: add_entry is to return "if an existing entry at out_offs was     *)
(* replaced, the value of buffptr for the entry which was replaced (for    *)
(* use with dynamic memory allocation)" (aesd-circular-buffer.c:80-81).    *)
(***************************************************************************)
EveryBlockReachable == live = Reachable
=============================================================================
