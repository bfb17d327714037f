---------------------------- MODULE DriverServer ----------------------------
(***************************************************************************)
(* The socket server as it is built with USE_AESD_CHAR_DEVICE, on top of   *)
(* the driver: its threads are the processes of AesdChar, and what they    *)
(* open, write, read and seek is the device.  There is no timestamp thread *)
(* in this build; accept, the reaping of threads and the chunks of recv    *)
(* are as in AesdSocket, so here the threads are there from the start.     *)
(*                                                                         *)
(* In the byte sequences that clients send, one byte stands for the text   *)
(* "AESDCHAR_IOCSEEKTO:X,Y" of a request to seek.                          *)
(***************************************************************************)
EXTENDS Integers, SequencesExt, FiniteSetsExt

CONSTANTS
  Clients,        \* the connections
  Stream,         \* the bytes each of them sends
  Bytes,          \* the bytes there are
  Newline,        \* '\n'
  SeekText,       \* which bytes stand for a request to seek, and to where
  FILE_BUF_SIZE,  \* how much one read asks for
  MaxFds,         \* how many files the process may have open
  Faults,         \* "memory": the driver's allocations and copies may fail
  Capacity, PosLimit, NULL, Free   \* as in AesdChar

Fds == 1 .. MaxFds

ASSUME DriverServerAssumption ==
  /\ Stream \in [Clients -> Seq(Bytes)]
  /\ Newline \in Bytes
  /\ DOMAIN SeekText \subseteq Bytes \ {Newline}
  /\ \A s \in DOMAIN SeekText :
       SeekText[s] \in [write_cmd : Nat, write_cmd_offset : Nat]
  /\ FILE_BUF_SIZE \in Nat \ {0} /\ MaxFds \in Nat
  /\ Capacity \in 1 .. 256 /\ PosLimit \in Nat \ {0}
  /\ Faults \subseteq {"memory"}
  /\ NULL \notin Seq(Bytes) \cup Fds /\ Free \notin Clients

VARIABLES
  circ_buffer, working_entry, working_size, lock, opened, f_pos, pc, call,  \* AesdChar
  conn,   \* the state of each connection thread
  mutex,  \* global_mutex
  clean   \* history: no call on the device has failed so far

device == <<circ_buffer, working_entry, working_size, lock, opened, f_pos, pc, call>>
vars   == <<device, conn, mutex, clean>>

May(fault) == fault \in Faults

Device == INSTANCE AesdChar WITH
  Procs <- Clients, Files <- Fds, Uses <- Clients \X Fds, Payloads <- Seq(Bytes),
  Counts <- {FILE_BUF_SIZE}, Seeks <- {}, SeekTos <- Range(SeekText),
  AllocMayFail <- May("memory"), MaxPending <- 0

-----------------------------------------------------------------------------
\* Where a thread is: before the call named ("append", "reply" and "seek" open
\* the device), at a result of write_to_file, or looking at buf.
Labels == {"recv", "parse", "lock", "append", "write", "saved", "unsaved", "reply",
           "seek", "ioctl", "read", "close", "ended"}

TypeOK ==
  /\ conn \in [Clients -> [pc : Labels, got : Nat, rest : Seq(Bytes),
                           packet : Seq(Bytes), sent : Seq(Bytes),
                           fd : Fds \cup {NULL}]]
  /\ mutex \in Clients \cup {Free}
  /\ clean \in BOOLEAN

Init ==
  /\ Device!Init
  /\ conn = [c \in Clients |-> [pc |-> "recv", got |-> 0, rest |-> << >>,
                                packet |-> << >>, sent |-> << >>, fd |-> NULL]]
  /\ mutex = Free
  /\ clean = TRUE

At(c, label) == conn[c].pc = label

Becomes(c, state) == conn' = [conn EXCEPT ![c] = state]

Goes(c, label) == Becomes(c, [conn[c] EXCEPT !.pc = label])

\* Mutant: the unlock is forgotten.
forgotten_unlock == UNCHANGED mutex

Unlock == mutex' = Free

-----------------------------------------------------------------------------
(***************************************************************************)
(* From recv to a complete packet.                                         *)
(***************************************************************************)
Recv(c) ==
  /\ At(c, "recv")
  /\ \E upto \in conn[c].got + 1 .. Len(Stream[c]) :
       Becomes(c, [conn[c] EXCEPT !.rest = SubSeq(Stream[c], conn[c].got + 1, upto),
                                  !.got = upto,
                                  !.pc = "parse"])
  /\ UNCHANGED <<device, mutex, clean>>

HangUp(c) ==
  /\ At(c, "recv")
  /\ Goes(c, "ended")
  /\ UNCHANGED <<device, mutex, clean>>

Parse(c) ==
  LET rest == conn[c].rest
      ends == {i \in DOMAIN rest : rest[i] = Newline}
      n    == IF ends = {} THEN Len(rest) ELSE Min(ends)
  IN  /\ At(c, "parse")
      /\ Becomes(c, [conn[c] EXCEPT !.packet = @ \o SubSeq(rest, 1, n),
                                    !.rest = SubSeq(rest, n + 1, Len(rest)),
                                    !.pc = IF ends = {} THEN "recv" ELSE "lock"])
      /\ UNCHANGED <<device, mutex, clean>>

\* strncmp and sscanf look at the beginning of packet_buf only.
IsSeek(packet) == Head(packet) \in DOMAIN SeekText

\* Mutant: the packet is handled without locking.
go_without_lock(c) ==
  /\ At(c, "lock")
  /\ Goes(c, IF IsSeek(conn[c].packet) THEN "seek" ELSE "append")
  /\ UNCHANGED <<device, mutex, clean>>

Lock(c) ==
  /\ At(c, "lock") /\ mutex = Free
  /\ mutex' = c
  /\ Goes(c, IF IsSeek(conn[c].packet) THEN "seek" ELSE "append")
  /\ UNCHANGED <<device, clean>>

-----------------------------------------------------------------------------
(***************************************************************************)
(* open and close.  The lowest free descriptor is taken; open fails when   *)
(* there is none.                                                          *)
(***************************************************************************)
OpenFor(c, label, next) ==
  LET fd == Min(Fds \ opened)
  IN  /\ At(c, label) /\ opened # Fds
      /\ Device!aesd_open(fd)
      /\ Becomes(c, [conn[c] EXCEPT !.fd = fd, !.sent = << >>, !.pc = next])
      /\ UNCHANGED <<mutex, clean>>

Open(c) == OpenFor(c, "append", "write") \/ OpenFor(c, "reply", "read")
             \/ OpenFor(c, "seek", "ioctl")

CannotOpen(c, label) ==
  /\ At(c, label) /\ opened = Fds
  /\ Unlock /\ clean' = FALSE
  /\ UNCHANGED device

\* write_to_file returns -1; break; continue.
OpenFails(c) ==
  \/ CannotOpen(c, "append") /\ Goes(c, "reply")
  \/ CannotOpen(c, "reply") /\ Becomes(c, [conn[c] EXCEPT !.rest = << >>, !.pc = "recv"])
  \/ CannotOpen(c, "seek") /\ Goes(c, "parse")

\* Mutant: the descriptor is forgotten.
forget_fd(c) == UNCHANGED device

CloseFd(c) == Device!aesd_release(conn[c].fd)

\* write_to_file after the write, which fsync does not change; if the write has
\* failed, the caller unlocks and goes on.
CloseWritten(c) ==
  /\ At(c, "saved") \/ At(c, "unsaved")
  /\ CloseFd(c)
  /\ Becomes(c, [conn[c] EXCEPT !.fd = NULL, !.pc = "reply"])
  /\ IF At(c, "unsaved") THEN Unlock ELSE UNCHANGED mutex
  /\ UNCHANGED clean

-----------------------------------------------------------------------------
(***************************************************************************)
(* The system calls on the device, and what becomes of their results.      *)
(***************************************************************************)
\* Mutant: Y is not passed on.
seek_to_command(c) == [SeekText[Head(conn[c].packet)] EXCEPT !.write_cmd_offset = 0]

seekto(c) == SeekText[Head(conn[c].packet)]

SystemCall(c) ==
  LET fd == conn[c].fd
  IN  CASE At(c, "write") -> [op |-> "write", file |-> fd, buf |-> conn[c].packet,
                              pos |-> f_pos[fd]]
        [] At(c, "read")  -> Device!ReadCall(fd, FILE_BUF_SIZE, f_pos[fd], << >>)
        [] At(c, "ioctl") -> [op |-> "ioctl", file |-> fd, arg |-> seekto(c)]

EnterKernel(c) ==
  /\ conn[c].pc \in {"write", "read", "ioctl"}
  /\ Device!EnterCall(c, SystemCall(c))
  /\ UNCHANGED <<conn, mutex, clean>>

\* -1: for read and write, when the handler does not go on to the end.
Failed(c) == IF call[c].op = "ioctl" THEN Device!OutOfRange(c) \/ Device!NoSuchByte(c)
             ELSE pc[c] # "return"

Noted(c) == clean' = (clean /\ ~Failed(c))

\* The thread is in the call, and stays in it.
InCall(c) ==
  /\ Device!mutex_lock(c) \/ Device!Work(c)
  /\ pc'[c] # "user"
  /\ UNCHANGED <<conn, mutex, clean>>

Returns(c, label) == At(c, label) /\ Device!Work(c) /\ pc'[c] = "user"

WriteReturns(c) ==
  /\ Returns(c, "write")
  /\ Failed(c) => May("memory")
  /\ Goes(c, IF Failed(c) THEN "unsaved" ELSE "saved")
  /\ Noted(c)
  /\ UNCHANGED mutex

\* One round of read and send.
ReadReturns(c) ==
  /\ Returns(c, "read") /\ ~Failed(c) /\ call[c].data # << >>
  /\ Becomes(c, [conn[c] EXCEPT !.sent = @ \o call[c].data])
  /\ UNCHANGED <<mutex, clean>>

\* read returned 0 or -1.
ReadEnds(c) ==
  /\ Returns(c, "read")
  /\ IF Failed(c) THEN May("memory") ELSE call[c].data = << >>
  /\ Goes(c, "close")
  /\ Noted(c)
  /\ UNCHANGED mutex

\* Mutant: packet_len is not reset.
packet_not_reset(packet) == packet

AfterReply(packet) == << >>

\* close, unlock and packet_len = 0, which are the same after both replies.
CloseReply(c) ==
  /\ At(c, "close")
  /\ CloseFd(c)
  /\ Unlock
  /\ Becomes(c, [conn[c] EXCEPT !.fd = NULL, !.packet = AfterReply(@), !.pc = "parse"])
  /\ UNCHANGED clean

\* When the ioctl fails, continue leaves the file open and packet_len as it is.
IoctlReturns(c) ==
  /\ Returns(c, "ioctl")
  /\ IF Failed(c)
     THEN Unlock /\ Becomes(c, [conn[c] EXCEPT !.fd = NULL, !.pc = "parse"])
     ELSE UNCHANGED mutex /\ Goes(c, "read")
  /\ Noted(c)

-----------------------------------------------------------------------------
handle_connection(c) ==
  \/ Recv(c) \/ Parse(c) \/ Lock(c) \/ Open(c) \/ OpenFails(c) \/ CloseWritten(c)
  \/ EnterKernel(c) \/ InCall(c) \/ WriteReturns(c) \/ ReadReturns(c) \/ ReadEnds(c)
  \/ CloseReply(c) \/ IoctlReturns(c)

Next == \E c \in Clients : HangUp(c) \/ handle_connection(c)

Spec == Init /\ [][Next]_vars

(***************************************************************************)
(* As in AesdSocket and AesdChar.  Only after a failed write two threads   *)
(* are in the driver at once, and each of them only a few times, so weak   *)
(* fairness is enough for its lock too.                                    *)
(***************************************************************************)
FairSpec == Spec /\ \A c \in Clients : WF_vars(handle_connection(c))

-----------------------------------------------------------------------------
(***************************************************************************)
(* As long as no call on the device fails, only the thread that holds      *)
(* global_mutex has the device open for a packet, so no two packets meet   *)
(* in the driver.                                                          *)
(***************************************************************************)
OneAtATime ==
  clean => \A c \in Clients : conn[c].fd # NULL \/ pc[c] # "user" => mutex = c

(***************************************************************************)
(* "send back contents of file": a packet is answered with all commands    *)
(* the device holds, its own the last of them; a request to seek with the  *)
(* bytes from byte Y of command X on, counted from the oldest.             *)
(***************************************************************************)
Stored == Device!Contents(circ_buffer)

ReplyToSeek(arg) ==
  LET onwards == FlattenSeq(SubSeq(Stored, arg.write_cmd + 1, Len(Stored)))
  IN  SubSeq(onwards, arg.write_cmd_offset + 1, Len(onwards))

Answers(c) ==
  IF IsSeek(conn[c].packet)
  THEN conn[c].sent = ReplyToSeek(SeekText[Head(conn[c].packet)])
  ELSE conn[c].sent = Device!Flat /\ Last(Stored) = conn[c].packet

RepliesAnswer ==
  [][\A c \in Clients : CloseReply(c) /\ clean => Answers(c)]_vars

(***************************************************************************)
(* What a client has sent, requests apart, is in the device, in packet_buf *)
(* or in buf, in order and once, whoever else writes (as long as no call   *)
(* fails): the driver makes one command of each packet, and keeps no part  *)
(* of one back for the next.  For clients whose text can be told apart     *)
(* (TextsDiffer), who send requests as the protocol wants them (OwnLines), *)
(* and a device with room for the lines of all of them (RoomForAll).       *)
(***************************************************************************)
Text(c) == Range(Stream[c]) \ (DOMAIN SeekText \cup {Newline})

Selected(s, kept) == FlattenSeq([i \in DOMAIN s |-> IF s[i] \in kept THEN <<s[i]>> ELSE << >>])

EveryLineStored ==
  clean => \A c \in Clients :
    LET written == conn[c].pc \in {"saved", "unsaved", "reply", "read", "close"}
        pending == IF written THEN << >> ELSE conn[c].packet
    IN  conn[c].pc # "write" =>
          /\ Selected(SubSeq(Stream[c], 1, conn[c].got), Text(c))
               = Selected(Device!Flat \o pending \o conn[c].rest, Text(c))
          /\ \A i \in DOMAIN Stored : Head(Stored[i]) \notin DOMAIN SeekText

TextsDiffer == \A c, d \in Clients : c # d => Text(c) \cap Range(Stream[d]) = {}

\* "AESDCHAR_IOCSEEKTO:X,Y" has a line of its own.
OwnLines ==
  \A c \in Clients : \A i \in DOMAIN Stream[c] : Stream[c][i] \in DOMAIN SeekText =>
    /\ i > 1 => Stream[c][i - 1] = Newline
    /\ i < Len(Stream[c]) => Stream[c][i + 1] = Newline

\* Where the lines end that are not requests.
LineEnds(c) ==
  {i \in DOMAIN Stream[c] : /\ Stream[c][i] = Newline
                            /\ i > 1 => Stream[c][i - 1] \notin DOMAIN SeekText}

AllLines == UNION {{c} \X LineEnds(c) : c \in Clients}

RoomForAll == IsFiniteSet(AllLines) /\ Cardinality(AllLines) <= Capacity

(***************************************************************************)
(* The only files that are open are those the threads are working with.    *)
(* True as long as no request asks for a byte that is not there.           *)
(***************************************************************************)
DescriptorsInUse == clean => opened \subseteq {conn[c].fd : c \in Clients}

(***************************************************************************)
(* Whatever fails in the driver, and when files run out, a thread with a   *)
(* complete packet gets its turn with the mutex and comes to its end.      *)
(***************************************************************************)
EveryPacketHasItsTurn ==
  \A c \in Clients : At(c, "lock") ~> conn[c].pc \in {"parse", "recv"}
=============================================================================
