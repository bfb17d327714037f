----------------------------- MODULE AesdSocket -----------------------------
(***************************************************************************)
(* The socket server (server/aesdsocket.c) in its default build, which     *)
(* keeps the packets in a file.  The main thread accepts connections and   *)
(* starts a thread for each; a connection thread appends every packet it   *)
(* receives to the file and sends the whole file back, holding the mutex;  *)
(* the timestamp thread appends a line now and then.                       *)
(*                                                                         *)
(* What a thread does to its own variables between two calls that other    *)
(* threads can notice is one step.                                         *)
(***************************************************************************)
EXTENDS Integers, SequencesExt, FiniteSetsExt

CONSTANTS
  Clients,    \* the connections that may be made
  Stream,     \* the bytes each of them sends before it closes
  Bytes,      \* the bytes there are
  Newline,    \* '\n', the end of a packet
  Stamp,      \* the line the timestamp thread writes
  MaxStamps,  \* bound: how often the timestamp thread wakes up
  Faults,     \* the calls that may fail
  Stamper,    \* the timestamp thread
  Free,       \* the value of the mutex when nobody holds it
  NULL        \* the null pointer

ASSUME ServerAssumption ==
  /\ Stream \in [Clients -> Seq(Bytes)]
  /\ Newline \in Bytes /\ Stamp \in Seq(Bytes) /\ Stamp # << >>
  /\ NULL \notin Seq(Bytes)
  /\ MaxStamps \in Nat
  /\ Faults \subseteq {"open", "write", "sync", "short", "reopen", "read", "send",
                       "realloc", "create"}
  /\ Stamper \notin Clients /\ Free \notin Clients \cup {Stamper}

VARIABLES
  up,              \* the process runs
  main,            \* where main is: "accept" or "sweep"
  active_threads,  \* the TAILQ of thread_data, one per connection
  todo,            \* what the running TAILQ_FOREACH_SAFE has ahead of it
  freed,           \* the connections whose thread_data main has freed
  conn,            \* the state of each connection thread
  ts,              \* where the timestamp thread is
  stamps,          \* how often it has woken up
  mutex,           \* global_mutex: Free, or the thread that locked it last
  file             \* the pieces appended to the file, and by whom

mainVars == <<main, active_threads, todo, freed>>
tsVars   == <<ts, stamps>>
vars     == <<up, mainVars, conn, tsVars, mutex, file>>

-----------------------------------------------------------------------------
\* Where a connection thread is: before the call named, or before it exists
\* ("none"), in the loop over buf ("parse"), past client_done, or ended.
Labels == {"none", "recv", "parse", "lock", "write", "open", "send", "done", "close",
           "ended"}

Connections ==
  [pc : Labels,
   thread_complete_success : BOOLEAN,
   got    : Nat,                       \* how many bytes recv has returned
   rest   : Seq(Bytes),                \* buf[i ..], not looked at yet
   packet : Seq(Bytes) \cup {NULL},    \* packet_buf, packet_len bytes of it
   sent   : Seq(Bytes),                \* sent back for the current packet
   offset : Nat]                       \* pieces of the file fd_send is past

Pieces == [by : Clients \cup {Stamper}, data : Seq(Bytes)]

TypeOK ==
  /\ up \in BOOLEAN
  /\ main \in {"accept", "sweep"}
  /\ active_threads \in Seq(Clients) /\ todo \in Seq(Clients)
  /\ freed \subseteq Clients
  /\ conn \in [Clients -> Connections]
  /\ ts \in {"sleep", "lock", "write"} /\ stamps \in 0 .. MaxStamps
  /\ mutex \in Clients \cup {Stamper, Free}
  /\ file \in Seq(Pieces)

Init ==
  /\ up = TRUE
  /\ main = "accept" /\ active_threads = << >> /\ todo = << >> /\ freed = {}
  /\ conn = [c \in Clients |->
               [pc |-> "none", thread_complete_success |-> FALSE, got |-> 0,
                rest |-> << >>, packet |-> NULL, sent |-> << >>, offset |-> 0]]
  /\ ts = "sleep" /\ stamps = 0
  /\ mutex = Free
  /\ file = << >>                      \* O_TRUNC at startup

\* What connection c changes of its own state.
Becomes(c, state) == conn' = [conn EXCEPT ![c] = state]

May(fault) == fault \in Faults

\* exit() or a deadly signal: all threads stop where they are.
Die == up' = FALSE /\ UNCHANGED <<mainVars, conn, tsVars, mutex, file>>

\* SIGINT or SIGTERM, in any thread: the handler calls exit(0).
handle_signal == up /\ Die

-----------------------------------------------------------------------------
(***************************************************************************)
(* main                                                                    *)
(***************************************************************************)
Accept(c) ==
  /\ up /\ main = "accept" /\ conn[c].pc = "none"
  /\ \/ /\ Becomes(c, [conn[c] EXCEPT !.pc = "recv"])
        /\ active_threads' = Append(active_threads, c)
        /\ todo' = active_threads'
        /\ main' = "sweep"
        /\ UNCHANGED <<up, freed, tsVars, mutex, file>>
     \/ May("create") /\ Die           \* pthread_create fails: main returns

\* Mutant: every thread is joined, also one that is still at work.
join_them_all(c) == TRUE

Flagged(c) == conn[c].thread_complete_success

\* Mutant: main does not wait for the thread.
flagged_is_enough(c) == Flagged(c)

\* pthread_join returns when the thread has ended; the flag only says that it
\* is about to.
pthread_join(c) == conn[c].pc = "ended"

\* One round of the sweep.
Sweep ==
  /\ up /\ main = "sweep" /\ todo # << >>
  /\ LET c == Head(todo)
     IN  IF Flagged(c)
         THEN /\ pthread_join(c)
              /\ active_threads' = RemoveFirst(active_threads, c)
              /\ freed' = freed \cup {c}
         ELSE UNCHANGED <<active_threads, freed>>
  /\ todo' = Tail(todo)
  /\ UNCHANGED <<up, main, conn, tsVars, mutex, file>>

EndSweep ==
  /\ up /\ main = "sweep" /\ todo = << >>
  /\ main' = "accept"
  /\ UNCHANGED <<up, active_threads, todo, freed, conn, tsVars, mutex, file>>

-----------------------------------------------------------------------------
(***************************************************************************)
(* handle_connection: from recv to a complete packet                       *)
(***************************************************************************)
At(c, label) == up /\ conn[c].pc = label

OnlyConnChanges == UNCHANGED <<up, mainVars, tsVars, mutex, file>>

Recv(c) ==
  /\ At(c, "recv")
  /\ \E upto \in conn[c].got + 1 .. Len(Stream[c]) :
       Becomes(c, [conn[c] EXCEPT !.rest = SubSeq(Stream[c], conn[c].got + 1, upto),
                                  !.got = upto,
                                  !.pc = "parse"])
  /\ OnlyConnChanges

\* recv returns 0 or fails: the client is gone, perhaps in the middle of a packet.
HangUp(c) ==
  /\ At(c, "recv")
  /\ Becomes(c, [conn[c] EXCEPT !.pc = "done"])
  /\ OnlyConnChanges

Partial(c) == IF conn[c].packet = NULL THEN << >> ELSE conn[c].packet

\* The bytes of buf join packet_buf one by one, up to a newline.
Parse(c) ==
  LET rest == conn[c].rest
      ends == {i \in DOMAIN rest : rest[i] = Newline}
      n    == IF ends = {} THEN Len(rest) ELSE Min(ends)
  IN  /\ At(c, "parse")
      /\ Becomes(c, [conn[c] EXCEPT
                       !.packet = IF rest = << >> THEN @
                                  ELSE Partial(c) \o SubSeq(rest, 1, n),
                       !.rest = SubSeq(rest, n + 1, Len(rest)),
                       !.pc = IF ends = {} THEN "recv" ELSE "lock"])
      /\ OnlyConnChanges

\* realloc fails: packet_buf is freed and the connection given up.
ParseFails(c) ==
  /\ At(c, "parse") /\ conn[c].rest # << >> /\ May("realloc")
  /\ Becomes(c, [conn[c] EXCEPT !.packet = NULL, !.pc = "done"])
  /\ OnlyConnChanges

-----------------------------------------------------------------------------
(***************************************************************************)
(* handle_connection: append the packet and send the file, with the mutex  *)
(***************************************************************************)
\* Mutant: the packet is written without locking.
go_without_lock(c) ==
  /\ At(c, "lock")
  /\ Becomes(c, [conn[c] EXCEPT !.pc = "write"])
  /\ OnlyConnChanges

Lock(c) ==
  /\ At(c, "lock") /\ mutex = Free
  /\ mutex' = c
  /\ Becomes(c, [conn[c] EXCEPT !.pc = "write"])
  /\ UNCHANGED <<up, mainVars, tsVars, file>>

\* Mutant: the unlock is forgotten.
forgotten_unlock == UNCHANGED mutex

Unlock == mutex' = Free

AppendPiece(who, bytes) == file' = Append(file, [by |-> who, data |-> bytes])

\* write_to_file returns 0: everything has been appended, or only the beginning
\* (write took fewer bytes, which nobody notices).
WriteReturns0(who, bytes) ==
  \/ AppendPiece(who, bytes)
  \/ /\ May("short")
     /\ \E n \in 1 .. Len(bytes) - 1 : AppendPiece(who, SubSeq(bytes, 1, n))

\* It returns -1: open or write failed, or fsync or close after the write.
WriteReturnsError(who, bytes) ==
  \/ (May("open") \/ May("write")) /\ UNCHANGED file
  \/ May("sync") /\ AppendPiece(who, bytes)

\* On an error the mutex is unlocked, and the thread goes on all the same.
WritePacket(c) ==
  /\ At(c, "write")
  /\ \/ WriteReturns0(c, conn[c].packet) /\ UNCHANGED mutex
     \/ WriteReturnsError(c, conn[c].packet) /\ Unlock
  /\ Becomes(c, [conn[c] EXCEPT !.pc = "open"])
  /\ UNCHANGED <<up, mainVars, tsVars>>

OpenForReply(c) ==
  /\ At(c, "open")
  /\ Becomes(c, [conn[c] EXCEPT !.pc = "send", !.sent = << >>, !.offset = 0])
  /\ OnlyConnChanges

\* break leaves the loop over buf: its other bytes are dropped, and packet_len
\* is not reset, so the packet stays in packet_buf.
OpenForReplyFails(c) ==
  /\ At(c, "open") /\ May("reopen")
  /\ Unlock
  /\ Becomes(c, [conn[c] EXCEPT !.rest = << >>, !.pc = "recv"])
  /\ UNCHANGED <<up, mainVars, tsVars, file>>

\* One round of read and send.  A client that is gone kills the server: send
\* fails and exit(1) is called, or SIGPIPE arrives.
SendPiece(c) ==
  /\ At(c, "send") /\ conn[c].offset < Len(file)
  /\ \/ /\ Becomes(c, [conn[c] EXCEPT !.offset = @ + 1,
                                      !.sent = @ \o file[conn[c].offset + 1].data])
        /\ OnlyConnChanges
     \/ May("send") /\ Die

\* Mutant: packet_len is not reset after the reply.
packet_not_reset(packet) == packet

AfterReply(packet) == << >>

\* read returns 0 at the end of the file, or fails.
EndReply(c) ==
  /\ At(c, "send")
  /\ conn[c].offset = Len(file) \/ May("read")
  /\ Unlock
  /\ Becomes(c, [conn[c] EXCEPT !.packet = AfterReply(@), !.pc = "parse"])
  /\ UNCHANGED <<up, mainVars, tsVars, file>>

\* Mutant: the flag is set for an unfinished packet only.
has_unfinished_packet(c) == Partial(c) # << >>

HasPacketBuf(c) == conn[c].packet # NULL

\* client_done: the flag is only set if there is a packet_buf.
ClientDone(c) ==
  /\ At(c, "done")
  /\ Becomes(c, [conn[c] EXCEPT !.thread_complete_success = HasPacketBuf(c),
                                !.pc = "close"])
  /\ OnlyConnChanges

\* close(client_fd), the last use of thread_data, and the end of the thread.
CloseAndEnd(c) ==
  /\ At(c, "close")
  /\ Becomes(c, [conn[c] EXCEPT !.pc = "ended"])
  /\ OnlyConnChanges

-----------------------------------------------------------------------------
(***************************************************************************)
(* timestamp_thread                                                        *)
(***************************************************************************)
WakeUp ==
  /\ up /\ ts = "sleep" /\ stamps < MaxStamps
  /\ ts' = "lock" /\ stamps' = stamps + 1
  /\ UNCHANGED <<up, mainVars, conn, mutex, file>>

LockToStamp ==
  /\ up /\ ts = "lock" /\ mutex = Free
  /\ mutex' = Stamper
  /\ ts' = "write"
  /\ UNCHANGED <<up, mainVars, conn, stamps, file>>

WriteStamp ==
  /\ up /\ ts = "write"
  /\ WriteReturns0(Stamper, Stamp) \/ WriteReturnsError(Stamper, Stamp)
  /\ Unlock
  /\ ts' = "sleep"
  /\ UNCHANGED <<up, mainVars, conn, stamps>>

-----------------------------------------------------------------------------
handle_connection(c) ==
  \/ Recv(c) \/ Parse(c) \/ ParseFails(c) \/ Lock(c) \/ WritePacket(c)
  \/ OpenForReply(c) \/ OpenForReplyFails(c) \/ SendPiece(c) \/ EndReply(c)
  \/ ClientDone(c) \/ CloseAndEnd(c)

timestamp_thread == LockToStamp \/ WriteStamp

Next ==
  \/ handle_signal
  \/ \E c \in Clients : Accept(c) \/ HangUp(c) \/ handle_connection(c)
  \/ Sweep \/ EndSweep
  \/ WakeUp \/ timestamp_thread

Spec == Init /\ [][Next]_vars

(***************************************************************************)
(* Threads are scheduled, clients send what they have and take what they   *)
(* are sent.  A mutex that stays free is taken by a waiter; as every       *)
(* stream ends and timestamps are rare, weak fairness is enough for it.    *)
(* No client has to connect or hang up, and no signal has to arrive.       *)
(***************************************************************************)
Fairness ==
  /\ \A c \in Clients : WF_vars(handle_connection(c))
  /\ WF_vars(timestamp_thread)
  /\ WF_vars(Sweep) /\ WF_vars(EndSweep)

FairSpec == Spec /\ Fairness

-----------------------------------------------------------------------------
(***************************************************************************)
(* Nobody else is between pthread_mutex_lock and the end of its reply, or  *)
(* of its timestamp.  (An error in write_to_file makes a thread unlock     *)
(* twice, the second time whosever turn it is: without that error only.)   *)
(***************************************************************************)
InSection(t) == IF t = Stamper THEN ts = "write"
                ELSE conn[t].pc \in {"write", "open", "send"}

MutualExclusion ==
  \A t \in Clients \cup {Stamper} : InSection(t) => mutex = t

Written == FlattenSeq([i \in DOMAIN file |-> file[i].data])

WrittenBy(c) ==
  FlattenSeq([i \in DOMAIN file |-> IF file[i].by = c THEN file[i].data ELSE << >>])

(***************************************************************************)
(* However chunks and packets overlap, and whoever else writes: the bytes  *)
(* that recv returned to a thread are, in order and each of them once, in  *)
(* the file, in packet_buf, or still in buf.                               *)
(***************************************************************************)
EveryByteOnce ==
  \A c \in Clients :
    LET notYetWritten == conn[c].pc \notin {"open", "send"}
    IN  SubSeq(Stream[c], 1, conn[c].got)
          = WrittenBy(c) \o (IF notYetWritten THEN Partial(c) ELSE << >>) \o conn[c].rest

(***************************************************************************)
(* "complete packet found" (aesdsocket.c:190): what a connection appends   *)
(* to the file is one packet, which ends at its only newline.              *)
(***************************************************************************)
PiecesArePackets ==
  \A i \in DOMAIN file :
    LET d == file[i].data
    IN  file[i].by \in Clients => \A j \in DOMAIN d : d[j] = Newline <=> j = Len(d)

(***************************************************************************)
(* "send back contents of file" (aesdsocket.c:260): when a reply ends, the *)
(* client has been sent all that is in the file, and its own packet is the *)
(* last thing in it: no packet or timestamp has come in between.           *)
(***************************************************************************)
ReplyIsTheFile(c) ==
  /\ conn[c].sent = Written
  /\ IsSuffix(conn[c].packet, conn[c].sent)

RepliesAreTheFile == [][\A c \in Clients : EndReply(c) => ReplyIsTheFile(c)]_vars

(***************************************************************************)
(* The thread_data of a connection is freed when its thread uses it no     *)
(* more, although the flag that announces it is set by the running thread; *)
(* and no sweep comes to it again.                                         *)
(***************************************************************************)
FreedAfterUse ==
  \A c \in freed :
    conn[c].pc = "ended" /\ ~Contains(active_threads, c) /\ ~Contains(todo, c)

(***************************************************************************)
(* thread_data is there "so it can be freed by the joiner thread"          *)
(* (aesdsocket.h:9-10): a sweep passes over a connection only while its    *)
(* thread is still at work, whenever the flag is set in the course of a    *)
(* sweep.  The code keeps this for a client that has sent something; the   *)
(* thread of one that has not never sets the flag.                         *)
(***************************************************************************)
Passed(c) == Sweep /\ Head(todo) = c /\ c \notin freed'

SweepFreesThoseWhoSent ==
  [][\A c \in Clients : Passed(c) /\ conn[c].got > 0 => conn[c].pc # "ended"]_vars

(***************************************************************************)
(* No thread waits for ever.  Whatever calls fail, a packet that is        *)
(* complete gets its turn with the mutex and an answer (or the connection  *)
(* goes on without one, or the server ends); and main comes back to accept *)
(* from every sweep, although it waits there for threads that have         *)
(* announced their end.                                                    *)
(***************************************************************************)
EveryPacketHasItsTurn ==
  \A c \in Clients : conn[c].pc = "lock" ~> conn[c].pc \in {"parse", "recv"} \/ ~up

MainAcceptsAgain == main = "sweep" ~> main = "accept" \/ ~up
=============================================================================
