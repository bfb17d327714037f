# TLA+ models of aesdchar and aesdsocket

This directory specifies, model-checks and proves properties of the programs
of this repository: the `aesdchar` character device driver
(`aesd-char-driver/`) with its circular buffer, the `aesdsocket` server
(`server/`) in both its builds, and the two libraries of examples
(`examples/systemcalls`, `examples/threading`). Paths below are relative to
`src/`.

## 1. The system

| component | state | operations | talks to |
|---|---|---|---|
| circular buffer, `aesd-char-driver/aesd-circular-buffer.c` | `entry[10]`, `in_offs`, `out_offs`, `full` | init, add entry, find entry for a position | called by the driver, under its lock |
| driver, `aesd-char-driver/main.c` | `circ_buffer`, `working_entry`, `working_size`, `lock`; per open file `f_pos` | open, release, read, write, llseek, ioctl(IOCSEEKTO), fsync | processes (system calls), the kernel (file positions, `kmalloc`) |
| driver module, `main.c:348-441`, with `aesdchar_load`, `aesdchar_unload` | major number, `cdev`, `aesd_device`, the node in `/dev` | `aesd_init_module`, `aesd_cleanup_module` | `insmod`, `rmmod`, users |
| server, file build, `server/aesdsocket.c` | the data file, `global_mutex`, `active_threads`; per connection a `thread_data` and the locals of its thread | accept, start and reap threads; receive packets, append, reply; timestamps; signals | clients (TCP), the file system |
| server, driver build (`USE_AESD_CHAR_DEVICE`) | as above, with the device for the file | also the packet `AESDCHAR_IOCSEEKTO:X,Y` | the driver |
| server start-up, with `aesdsocket-start-stop.sh` | listening socket, daemon process, descriptors | clear the file, getaddrinfo, bind, fork, detach, listen | init script, other servers |
| `server/queue.h` | two pointers per head and element | the TAILQ macros | server |
| `examples/systemcalls` | children, descriptors | `do_system`, `do_exec`, `do_exec_redirect` | the kernel |
| `examples/threading` | mutexes, a record per thread | `start_thread_obtaining_mutex`, `threadfunc` | its caller |
| `finder-app`, tests, build files | none that lasts | - | - |

What makes them correct, and what is hard about it:

* **Buffer.** It remembers the last ten commands in order. Two indices wrap
  independently and one flag tells full from empty; `aesd_ioctl` relies on
  unused slots being zero.
* **Driver.** The stored commands and the unfinished bytes are exactly what was
  written, whichever processes write in between; reads and seeks agree on where
  a byte is; every return path treats the lock correctly. Hard: all processes
  share `working_entry`; positions shift when a command is dropped; the file
  position is copied by the kernel around `read` and `write` outside the lock;
  allocations fail in the middle of a write.
* **Loading and unloading.** Nobody meets a driver that is half set up or half
  freed, and no block of memory is freed twice. Hard: `cdev_add` comes before
  `mutex_init` and the entries are freed before `cdev_del`; it is the scripts
  and the reference count of the module that keep users away, and scripts can
  be interrupted.
* **Server.** No byte of a client is lost, doubled or mixed with another's; a
  reply is the whole file with the client's packet at its end; `thread_data` is
  freed once, and not before its thread has finished with it; nobody waits for
  ever. Hard: chunk and packet borders differ; the flag that announces a
  thread's end is set before the end; error paths unlock, break and exit in
  places where the rest of the function does not expect it.
* **Server on the driver.** Two programs that each join pieces until a newline
  comes have to agree on what a line is; a reply to a seek request depends on a
  position that a later write could make stale.
* **Start-up.** The starter learns of success from a parent that exits early; the
  daemon closes descriptors by number; the script looks for a running server
  before it starts one, and the server clears the file before it knows whether it
  is alone.
* **Queue.** The pointers to pointers must be right after every operation, also
  when the element a loop is at is removed and freed.
* **Examples.** A child process runs its parent's code until `execv`; any child
  may end at any time; a thread reports through a record whether it has released
  its mutex.

`PROJECT.json` lists these hazards one by one, at their lines, with the
properties that look at them.

## 2. The modules

| module | what it is |
|---|---|
| `RecentWrites` | abstract specification: a sequence of the newest `Capacity` commands |
| `CircularBufferOps` | the three functions of `aesd-circular-buffer.c` as operators on a buffer value, and its contents as a sequence |
| `CircularBuffer` | a buffer and the calls that change it |
| `AesdChar` | the driver: processes, open files, the lock, the four handlers, reload |
| `AesdCharHistory` | `AesdChar` with variables that record what was written, read and allocated |
| `ModuleLifecycle` | load and unload step by step, with users who open and write in between |
| `AesdSocket` | the server in its default (file) build |
| `DriverServer` | the connection threads of the driver build, composed with `AesdChar` (`Device == INSTANCE AesdChar`) |
| `ServerStartup` | several servers from their start to their first `accept` |
| `TailQueue` | the TAILQ macros on cells of two pointers |
| `SystemCalls` | `do_system`, `do_exec`, `do_exec_redirect` and the children they make |
| `ThreadingExample` | `start_thread_obtaining_mutex` and the threads it starts |
| `DataLemmas` | lemmas about sequences and numbers |
| `CircularBufferViews` | the terms in which the proofs speak of a buffer value |
| `CircularBufferProofs` | lemmas about the operators of `CircularBufferOps`, theorems about `CircularBuffer` |
| `AesdCharProofs` | theorems about `AesdChar` and `AesdCharHistory`; the buffer's lemmas by `Ring == INSTANCE CircularBufferProofs` |
| `ModuleLifecycleProofs`, `TailQueueProofs` | theorems about the module in the name |
| `AesdSocketProofs` | theorems about `AesdSocket` and `ServerStartup` (`S == INSTANCE ServerStartup`) |
| `ServerProofs` | theorems about `DriverServer`; the driver's lemmas by `D == INSTANCE AesdCharProofs` |
| `ExamplesProofs` | theorems about `SystemCalls` and `ThreadingExample` (`T == INSTANCE ThreadingExample`) |
| `MC...`, `MCDriverInputs` | instances for TLC |

`CircularBuffer` and `AesdChar` both implement `RecentWrites`; `AesdChar` uses
the operators of `CircularBufferOps` for its buffer; `AesdCharHistory` extends
`AesdChar`; `DriverServer` runs `AesdChar` with its connection threads as the
processes and its descriptors as the files.

### How they correspond to the code

**Data.** A `struct aesd_buffer_entry` is the sequence of the bytes its pointer
points at; `size` is its length and the zeroed struct is `<< >>`. `working_entry`
is `NULL` or a byte sequence. Bytes are model values; only the newline means
anything to the code. Log output is left out.

**Driver.** A call of process `p` goes through `pc[p]`: `user`, `enter` (in the
handler, before the lock), `locked`, `store` (`aesd_llseek` about to assign
`filp->f_pos`), `return` (the handler is done, the kernel still has to store the
position). These are the places where another process can see or change
something: everything between lock and unlock touches only what the lock
protects, except `filp->f_pos`, which is why `aesd_llseek` has two steps. The
kernel's part is modelled from how Linux calls the handlers and is marked
external in `PROJECT.json`: `read` and `write` work on a copy of the position,
which is stored back if the result is not negative; a character device has no
lock on its position; `llseek` and `ioctl` assign `filp->f_pos` themselves; a
file is released when no call is running on it; `rmmod` is refused while a file
is open. Then:

* `aesd_write`: `krealloc` of a `NULL` `working_entry` gives arbitrary old bytes
  (`OldBytes`); its failure (`LoseWorkingEntry`) and that of the entry's
  `kmalloc` (`KeepButFail`) are steps when `AllocMayFail`. The loop runs once,
  as `chunk = remaining`. The `krealloc` at `main.c:189` only shrinks and does
  not fail; to size 0 it yields a non-`NULL` pointer, hence `<< >>` and not `NULL`.
* `aesd_llseek`: sums wrap in `-PosLimit .. PosLimit - 1`, which is
  `loff_t` for `PosLimit` = 2^63.
* `Reload` is `aesd_cleanup_module` followed by `aesd_init_module`.

**Loading and unloading.** `script` is where the administrator's script is: at a
command, or at a call inside `aesd_init_module` (`alloc_region`, `setup_cdev`,
`setup_buffer`) or `aesd_cleanup_module` (`free_entries` to `unregister`). A
script may be interrupted between two commands and run again later. `state` is
the module's state in the kernel. Memory is followed block by block: `dev` says
which block each pointer leads to, `heap` which blocks are allocated, and the
auxiliary `lost` which have no pointer any more. A write is one step, as its lock
makes it once the module is live. While the module is coming, `mutex_init` and the
resets after it (`main.c:395-402`) may run inside a write of somebody who has opened
the device by a stale node; what such a write does is not followed, and two history
variables say what it takes: `stale`, a script has been interrupted, and since then
none has replaced or removed the node; `exposed`, somebody has had the device open
while it was coming, after which nothing is claimed of the memory. `insmod` of a
loaded module fails and ends the script; `modprobe`, which the script takes where
there is no `.ko` file, succeeds, and the script goes on to the node.

**Server.** A connection thread stands before the call that `conn[c].pc` names.
`recv` returns any non-empty part of what is left of the client's stream; `Parse`
is the loop over `buf` up to a newline; the file is the sequence of the pieces
appended to it, with their writers. `Faults` names the calls that may fail;
`write_to_file` is one step, since under the mutex only its effect and its
result matter, and without the mutex (after an error) it is not called. A
`pthread_mutex_unlock` by a thread that does not hold the mutex frees it all the
same, as the default mutex of glibc does. `freed` is what `main` has given back
to `free`.

**Driver build.** The same labels, with `open`, `write`, `read`, `ioctl` and
`close` being calls on the device: a thread enters the driver (`EnterKernel`),
takes the driver's steps (`InCall`), and acts on the result (`WriteReturns`,
`ReadReturns`, `ReadEnds`, `IoctlReturns`). One byte of a packet stands for the
text `AESDCHAR_IOCSEEKTO:X,Y`; `SeekText` says where it leads. `open` takes the
lowest free descriptor and fails when there is none. `clean` is a history
variable: no call on the device has failed so far. Two error paths that both builds
have are followed in `AesdSocket` only: a `send` that returns -1 and ends the
process, and a failing `realloc`.

**Start-up.** A start by the script is two steps, `Check`, in which
`start-stop-daemon` finds no server running, and `Start`, and other starts may come
between them; a start by hand is `Start` alone. `unseen` is a history variable: the
servers that have been started since the script of each has looked. `Order` is the
order of the steps of `main`; `OnlyDaemon` those taken with `-d`. Every step may end
the process with an error, and a signal may end it anywhere: by the signal until the
handlers are installed, and from then on by the handler's `exit(0)`, which whoever
waits for the process takes for success (`StatusAfterSignal`). `sockfd` is the local variable of `main`; the global one of the
same name, which the signal handler looks at, is never assigned. `reported` is
what the starter has seen.

**Queue.** `link` is `tqh_first` and `tqe_next`, `back` is `tqh_last` and
`tqe_prev`, both as cells; the casts in `TAILQ_LAST` and `TAILQ_PREV` read an
element as a head, which this layout makes visible. `queue` and `ahead` are
auxiliary: the sequence each head stands for, and what the running loop still
has to visit. A freed element's pointers become `Trash`.

**System calls.** `caller.pc` names the next call; a child goes through `dup2`,
`close`, `execv`, `running`, `zombie`. `system()` is an external result. In
`caller`, `trouble` is for the properties: in this call `fork` or `waitpid`
failed.

**Threading.** `thread[t].pc` is where a thread is and `thread[t]` its record
otherwise. The sleeps take no step of their own: they may last any time, and so
may a thread stay where it is. `threading.c` frees no record, so their memory is
not followed.

## 3. What is checked

| run | asks | result |
|---|---|---|
| `buffer` | 10 slots, entries of two sizes: shape, search at every offset, refinement of `RecentWrites` | holds |
| `driver` | two processes on one shared file, all kinds of seeks, failing allocations: the lock, where seeks land, the stored commands (refinement), and that every call returns | holds |
| `driver_history` | two processes with a file each: what was written is saved, reads are consecutive and deliver what is stored, no newline waits in `working_entry` | holds |
| `driver_leak` | every block of memory can be reached | violated |
| `module_lifecycle` | users and interrupted scripts, failing steps of `insmod`: readiness, ownership of memory, what is left behind, what a load achieves | holds |
| `server` | two clients with overlapping chunks and packets, timestamps, reaping, no failing calls: mutual exclusion, bytes, packets, replies, freeing | holds |
| `server_faults` | every kind of failing call (a failing first `open` ends like a failing `write`): freeing, and that packets and `main` make progress | holds |
| `device_server` | server and driver together, with seek requests that succeed and fail, failing allocations, running out of descriptors | holds |
| `startup` | three servers, started by hand and by scripts that overlap, all steps failing, signals anywhere: what the starter is told, the daemon's descriptors, whose data is cleared | holds |
| `tail_queue` | two queues, four elements, all macros, a loop that removes | holds |
| `system_calls` | three children, one of them foreign, everything failing: what a call reports, which children it takes and leaves, where a redirected command writes | holds |
| `threading` | three threads, two mutexes, failing create, lock and unlock: what success says of the mutex, and that every thread ends | holds |

The violated one is a disagreement between the code and its comment, quoted under
`findings` in `PROJECT.json`: the entry that `add_entry` overwrites is freed by
nobody.

### Where the code stops keeping its promise

Several properties hold only up to an event in the code after which they do not.
The property or the instance names the event; it is part of what the models say.

* `SavedWhatWasWritten`: until an allocation fails. `aesd_write` assigns the
  result of `krealloc` to `working_entry` before it looks at it, so a failure
  loses the unfinished bytes while `working_size` keeps counting them.
* `PendingHasNoNewline`: for writes that have a newline at their end only. Of two
  commands in one write the second waits for the next one.
* `OpenMeansReady`: until a script is interrupted (`stale`). With a node left by
  `aesdchar_unload`, a user can open the device between `cdev_add` and
  `mutex_init`.
* `PointersOwnTheirBlocks`, and what `NothingLeftBehind` says of memory: until a
  user does so (`exposed`). `aesd_init_module` takes no lock; a write that runs
  meanwhile may find its mutex initialised again, let a second writer in, and lose
  `working_entry` to the reset.
* `MutualExclusion`: until `write_to_file` returns -1. The thread then unlocks,
  replies without the mutex, and unlocks again. (This is why `server_faults` does
  not claim it.)
* `PiecesArePackets`: until the `open` for a reply fails; `break` then keeps the
  packet and drops the rest of `buf`, so two packets become one piece.
* `SweepFreesThoseWhoSent`: a thread whose client has sent nothing never sets
  `thread_complete_success`, and its `thread_data` is never freed.
* `OneAtATime`, `EveryLineStored`, `RepliesAnswer`, `DescriptorsInUse`: until a
  call on the device fails (`clean`). A failing `ioctl` skips `close` and
  `packet_len = 0`: the descriptor stays open and the request becomes the
  beginning of the next packet.
* `EveryLineStored` also has conditions on what is sent, which the instance
  states as `ASSUME LinesCanBeFollowed`: `TextsDiffer` (no byte of a client's text
  is sent by another: bytes in the device bear no names), `OwnLines` (a request
  has its line to itself: `sscanf` takes it from the start of the packet, and text
  behind it on the line would be dropped, text before it would make it a line like
  any other), `RoomForAll` (the device holds all the lines; it drops the
  oldest when it does not).
* `ReportsItsOwnCommand`, `OtherChildrenStay`: unless `fork` fails. `do_exec` then
  calls `waitpid(-1)`, takes whichever child ends first, and reports what became
  of that: it may return true, although `systemcalls.c:38-42` says that it returns
  false if an error occurred in `fork()`.
* `CommandWritesToTheFile`: for callers with standard output open. Otherwise
  `open` returns 1, `dup2` does nothing and `close` closes the command's output.
  The caller's own descriptor is never closed, though `systemcalls.c:94` says so.
* `SuccessMeansBound`: unless a signal ends the server between
  `setup_signal_handlers` (`aesdsocket.c:371`) and the fork. The handler's `exit(0)`
  tells the starter of a daemon that does not exist.
* `DataOutlivesOtherStarts`: for starts by the script, and for the data of servers
  that were there when it looked (`unseen`). A start by hand looks at nothing, and a
  server that comes between the script's look and its own start is not seen.
* `EveryThreadEnds`: unless a failing unlock has left the mutex locked.
* When `pthread_create` fails, `start_thread_obtaining_mutex` returns without
  freeing the record it has filled.

**Bounds.** `Capacity` is 10 for the buffer. For the driver it is 2, the
least for which oldest, newest and a wrap differ; the theorems cover every
capacity, so the runs only need the interplay with the calls. `Payloads` holds a
whole command, and a part of one (`driver_history`) or nothing (`driver`).
`MaxPending = 0` lets a write start only when no byte is waiting at that moment,
so that the parts of commands stay short: two writes that start together can
still both add a part. `MaxWritten` ends the recorded history after the buffer of
two has wrapped. `PosLimit` is small so that sums do reach both ends.
`SomeSeekTos` leads into a command, to the end of one, and past the last. For the
server two clients are enough for every pairwise interleaving of packets, with
the timestamp thread as a third writer; their streams hold two packets, or one
and a beginning, and chunks of `recv` cut them everywhere; with failing calls a
packet is just its newline, as nothing claimed there looks at bytes. `MaxStamps`
bounds the timestamps. In `device_server` a device of three commands has room for
all that is sent, so nothing is dropped; dropping is the driver's runs' business;
one request to seek leads into the second command, and fails as long as there is
only one, the other to a command the device never has;
two descriptors run out once one has leaked. In `module_lifecycle` five blocks
are one for the buffer, one for `working_entry`, two entries, and one to move to;
`MaxFd = 4` in `system_calls` lets a caller with three open files redirect twice
and then fail to open. In `startup` one of three servers can run while another
starts that has looked, or has not, at the same time as a third. Two queues of four elements have every position a macro
distinguishes: first, last, middle, only one. `driver_history` and
`module_lifecycle` use symmetry, in runs without liveness.

**Fairness.** No failure, no signal, no interruption and no call from outside
is forced to happen: the fair actions are disjunctions that always contain the
step without failure, or exclude the failing ones.

* `AesdChar`: a process inside the kernel keeps running (weak fairness), and a
  waiter for `dev->lock` gets it if it is free again and again (strong fairness),
  as the kernel's mutex hands itself over to a waiter that starves.
* `AesdSocket`, `DriverServer`: threads are scheduled, and clients send and take
  what they are sent (weak fairness); there is no time-out in the code that would
  cover a client that does not. No client has to connect or to hang up.
* `SystemCalls`: processes are scheduled and commands end (weak fairness); no
  signal has to interrupt `waitpid`.
* `ThreadingExample`: threads are scheduled, a waiter gets a mutex that is free
  again and again (strong fairness), and the caller lets go of what it holds.

**Deadlock** is checked for the buffer, the driver, `module_lifecycle`, `startup`
and `tail_queue`. The servers may stop (exit, signals, all clients gone) or wait
in `accept` for ever, the caller of `do_exec_redirect` may abort, and a mutex
left locked by a failing unlock stops whoever waits for it; there the liveness
properties take its place.

## 4. What is proved

TLAPS checks the following for all values of the constants that satisfy the
named assumptions of the modules (`CapacityAssumption`, `EntriesAreSequences`,
`DriverAssumption`, `HistoryAssumption`, `ServerAssumption`,
`DriverServerAssumption`, `StartupAssumption`, `LifecycleAssumption`,
`QueueAssumption`, `SystemCallsAssumption`, `ThreadingAssumption`), which TLC
evaluates on the instances. Where a theorem assumes more, it is named below; what
the assumption excludes is a failure, or an input, for which the code does violate
the property.

**Lemmas.** `DataLemmas` has what all proofs about bytes need: least numbers,
induction over the naturals for a set of them (`NaturalInduction`, from the
library's well-founded induction, by way of sets instead of predicates), and with
it what `FlattenSeq` of an empty sequence, of one with an element more, and of
two sequences in a row is, that sums of lengths are lengths of concatenations,
and what the sequence operators of the models return. `CircularBufferProofs`
says what an add does to the fields (`AddEntryFields`), that it keeps the shape
(`AddEntryShape`), that it appends to the contents and keeps the newest
`Capacity` (`AddEntryRemembers`), by comparing the two sequences index by index
after the modulus has been eliminated, and that the search finds byte `n` of the
contents joined, or nothing when there are no more (`FindIs`). `AesdCharProofs`
takes these lemmas from an instance of that module, after showing that the
operators there and here are the same (`SameValues` to `SameSearch`).

**Buffer** (`CircularBufferProofs`).

* `ShapeHolds`, `BufferRemembers`. `TypeOK /\ RingShape` is inductive. Shape is
  what refinement needs: without `full => in_offs = out_offs` the overwritten slot
  would not be the oldest, and without `~full => out_offs = 0` a wrap could not be
  told from an add.
* `FindsEveryByte`. From the shape: the slots the search passes are the contents
  in order, then empty slots that hold no byte.

**Driver** (`AesdCharProofs`).

* `LockIsDisciplined`. `LockDiscipline` alone is not inductive: a reload resets
  the lock, which is harmless only because a process in the kernel keeps its file
  open (`CallOK`), so `opened = {}` means that nobody has it.
* `RingKeepsItsShape`, `DriverRemembers`. Every step leaves the ring alone,
  resets it, or adds one command that ends at its first newline (`DeviceSteps`);
  the lemmas about the buffer do the rest. This includes failing allocations.
* `PendingIsUnfinished`, for writes with a newline only at the end and
  allocations that do not fail. Both are needed.
* `DriverTypes`, `ReadsAreExact`, from `DriverInv`: no position, in a file, in a
  call or about to be stored, is negative, although sums of `loff_t` wrap. With
  `FindIs` the place the search returns for a position is the byte the read must
  deliver first.
* `SeeksGoWhereTheyShould`, as long as `Len(Flat) <= PosLimit`. If more is stored
  than a `loff_t` can count, a sum wraps past the negative numbers and lands on a
  place that is not the one asked for; `llseek` does not notice.
* `NothingIsLost`, if no allocation fails. `SavedInv` says that all that was
  written is something that is gone, followed by the contents and
  `working_entry`. `KeepButFail` and
  `LoseWorkingEntry` break it: one stores what it reports as failed, one loses what
  was reported as written.
* `FilesAreReadInOrder`, for files with one user (`OneUser`). `TracesOK` says that
  the position of a file lies right behind the last byte it has delivered, and so
  does the copy that a call has of it, until the kernel has stored the new one.

**Loading and unloading** (`ModuleLifecycleProofs`).

* `OpenOnlyWhenReady`, `LoadGivesDevice`. `Control` ties the script's place to the
  module's state (`ScriptOK`), that to what is registered (`KernelOK`), and both to
  the node (`NodeOK`): with nothing interrupted there is no node while the module
  is coming, and nobody has it open while it is going.
* `NothingIsLeft`, `NoBlockIsShared`, of the memory as long as nobody has opened a
  coming device (`exposed`), and `LifecycleTypes`. `Owns(dev, heap, lost)` says
  that the allocated blocks that are not lost are exactly those the pointers lead
  to, each by one pointer. Each thing that a write or an unload does with a block
  has a lemma (`WorkingMoves`, `EntryComes`, `OldestIsLost`, `WorkingGoes`,
  `WorkingIsLost`, `EntriesGo`), and a write that completes a command is four of
  them in a row. `PhaseOK` says which pointers are unset at each place of the
  scripts, without which a block would be left when the module goes.

**Server** (`AesdSocketProofs`). All rest on `TypeInv`, which adds to the types
that a thread at its packet has one.

* `ServerTypes`, whatever fails.
* `FreedThreadsHaveEnded`, whatever fails. `ListsOK`: a connection is in the list
  once, and what a sweep has ahead of it is in the list.
* `MutexExcludes`, as long as `write_to_file` does not return -1: after that the
  thread unlocks, goes on to the reply, and unlocks again.
* `PiecesAreSinglePackets`, without short writes and a failing open for the reply
  (`"reopen"`). `PacketsOK`: what is being collected has no newline, and what is complete
  has one, at its end.
* `SweepFreesThem`, without `realloc` failing: `FlagsOK`: who has
  received something has a `packet_buf`, and at the end the flag says whether.
* `BytesOnce`, without the failures after which the code goes on without the bytes
  or with the bytes twice (`"short"`, `"open"`, `"write"`, `"reopen"`, `"realloc"`).
  `BytesOK` splits what `recv` has returned into what is in the file, in `packet`
  and in `rest` at every place of the thread.
* `RepliesAreComplete`, with exclusion and without failing reads and short writes.
  `RepliesOK`: while a reply is sent, `sent` is the pieces of the file up to
  the position of the descriptor, and the last piece is the packet.

**Start-up** (`AesdSocketProofs`).

* `SuccessIsBound`, for any number of servers, of which any may end at any time,
  and with the handler's `exit(0)` as its one exception. `StartInv` follows each
  server through the labels of `main` (`ServerWays` lists the ways a step can take)
  with who has the port: the fork comes with the port bound by the process that forks.
* `DataIsKept`, for any number of servers, started by hand or by scripts that
  overlap. `SeenInv`: from the script's look to the clearing of the file, whoever
  runs has been started since, whatever the others do meanwhile.
* `SocketIsKept`, for servers that start with exactly descriptors 0, 1 and 2 open
  (`OpenAtStart = 0 .. 2`). `FdsInv` says at each label what the three descriptors
  and the socket's number are: `open` takes the least free one, so after 0, 1 and 2
  are closed the three opens of `/dev/null` fill exactly these. If some
  were closed at the start, the socket could get one of their numbers, which the
  daemon closes.

**Driver build** (`ServerProofs`).

* `OnePacketAtATime`, `NoFileIsForgotten`, from `ThreadsOK` and `TurnsOK`: a thread
  is in the kernel only at one of its system calls; as long as no call on the
  device has failed, what it has open and the mutex agree with its label, and a
  descriptor belongs to one thread, because `open` takes one that is free.
* `EveryReplyAnswers`, for a device of more than one command, which
  `HistoryAssumption` asks for and with it every use of the driver's lemmas.
  `ReplyInv` says, until a call on the device
  fails: `packet_buf` holds one command, and nothing is left unfinished in the
  driver when no call is running (`Quiet`), so a packet becomes exactly one entry;
  the thread that has its turn has told the driver what its label says (`ToldOK`);
  the command and the byte that a request asks for are there (`IsThere`); and what
  has been sent, with what the last read has just returned, is the device's
  contents from the start of the reply to the file's position (`ReadsOn`). The
  other threads cannot touch the device, as they lack `global_mutex`
  (`OnePacketAtATime`). What a write, a read and a seek do are the driver's own
  lemmas, instantiated with the connection threads as processes.
* `LinesAreStored`, for a device of more than one command, and under the three
  conditions of section 3. `LinesOK` says, until a call on the device fails, how much
  of each client's stream is done with (`Follows`): it ends with a newline, and the
  client's text in it is the client's text in the device (`IsStored`);
  `packet_buf` followed by `buf` is the rest of what `recv` has returned (`InPlace`);
  and the device holds no more commands than lines are done with (`DoneLines`), so by
  `RoomForAll` an add drops none. As `packet_buf` is one line (`ReplyInv`), a write
  adds exactly this line to what is stored and to what is done with; a request, which
  has a line of its own, adds nothing to either text.

**Tail queues** (`TailQueueProofs`), for any number of queues and elements.

* `LinksStay`. `QueuesOK` says of every queue that each forward pointer leads to the
  next element and that the back pointer which stands for it leads to its cell
  (`Linked`); that no element is twice in a queue; and that queues have no cell in
  common. Without the last two an assignment meant for one place would change
  another. For each macro there is what it does to a sequence (`InsertAtIs`,
  `RemoveAtIs`), that the assignments are to the cells of the places it changes
  (`InsertLinks`, `RemoveLinks`, `ConcatLinks`, `TakesOver`), and that other queues
  keep theirs (`InsertKeeps`, `RemoveKeeps`, `ConcatKeeps`, `SwapKeeps`).
* `LoopIsComplete`. `LoopOK` says that what is ahead of a loop is the end of its
  queue and that `item` and `tmp` are its first two. Removing the element the loop
  is at leaves this true because `tmp` was read before (`TailIsEndWithout`).

**Examples** (`ExamplesProofs`).

* `ChildIsAwaited`, `OwnCommandIsReported`, `OtherChildrenAreLeft`. `CallOK` says
  that a call that waits has no child but the one it waits for, and none if its
  `fork` failed; the two action properties follow from it. `ResultIsOwn` is about
  every way in which a call that waits comes back, if its `fork` has not failed.
* `RedirectionWorks`, for callers with descriptor 1 open (`StdoutIsOpen`).
  `Redirected` follows the descriptors of a child from `fork` to `execv`; the
  caller's standard output stays open, so `open` never returns 1.
* `MutexIsHeld`, `SuccessIsRelease`. `HolderOK` says who may be named as the holder
  of a mutex: a thread between lock and unlock, or one that has failed to unlock and
  says so.

**Only model-checked.** Liveness under fairness, which TLAPS does not prove.
All other properties of the runs are theorems; `SuccessMeansBound`,
`KeepsItsSocketOnly`, `DataOutlivesOtherStarts` and `SuccessMeansReleased` are so by
way of an instance (`SuccessIsBound`, `SocketIsKept`, `DataIsKept`, `SuccessIsRelease`). The
type invariants (`TypeOK`) describe the state of each module; no run lists them, but
they are theorems for the driver, the life cycle and the server, and parts of
the inductive invariants of the others.

## 5. Not modelled

* The NULL checks on pointers that callers never leave NULL; `aesd_fsync`, which
  does nothing; `PDEBUG` and `pr_info` output, including the uninitialised
  `new_entry.size` that `main.c:123` prints.
* `accept` failing and `malloc` failing in `main` of the server, and `malloc`
  failing in `start_thread_obtaining_mutex`, whose result nobody looks at.
* In the driver build, a `send` that returns -1, with `close`, `unlock` and `exit(1)`
  (`aesdsocket.c:232-237`, `277-282`), and a failing `realloc` with
  `goto client_done` (`177-182`); `AesdSocket` has both.
* What a write does while `aesd_init_module` is still running (`main.c:395-402`);
  see `exposed` in section 2.
* The memory of the records of `examples/threading`, which `threading.c` leaves to
  whoever joins the threads (and to nobody when `pthread_create` fails).
* The locks inside `syslog` and stdio that the server's signal handler may find
  taken (`aesdsocket.c:118-128`).
* `sscanf` on a packet buffer that nothing has terminated (`aesdsocket.c:201`):
  the models do not have the bytes behind a packet.
* `server/queue.h`: SLIST, STAILQ and LIST, which nothing here uses; the loops
  that remove nothing and the debug macros of TAILQ, which change nothing.
* `finder-app/writer.c` and the shell scripts of `finder-app`: one process that
  runs from its first line to its last, and no state but files.
* Tests, the autotest example and build files.

## 6. Plan

Done: all components of section 1 but `finder-app`, their runs, and the theorems
of section 4. Left: that a reader who follows a dropped command misses exactly that
command, as a property of `AesdCharHistory`.
