-------------------------- MODULE AesdSocketProofs --------------------------
(***************************************************************************)
(* What the socket server keeps for any number of clients and everything   *)
(* they send.  First the types of its variables and what each step does to *)
(* the connection that takes it; then one invariant for each property, on  *)
(* top of the types, under the assumption on the calls that may fail that  *)
(* the property needs.  At the end main until its first accept, for any    *)
(* number of servers that are started and ended at any time: whom the      *)
(* port, the descriptors and the data file belong to.  The two parts share *)
(* no variable.                                                            *)
(***************************************************************************)
EXTENDS AesdSocket, DataLemmas, FiniteSetTheorems

\* A packet is there from the newline that completes it to the end of the reply.
HasPacket(s) == s.pc \in {"lock", "write", "open", "send"} => s.packet # NULL

TypeInv == TypeOK /\ \A c \in Clients : HasPacket(conn[c])

\* What a step of connection c leaves alone.
OthersStay(c) ==
  /\ conn' \in [Clients -> Connections]
  /\ \A d \in Clients : d # c => conn'[d] = conn[d]

SameInput(c)  == conn'[c].got = conn[c].got /\ conn'[c].rest = conn[c].rest
SamePacket(c) == conn'[c].packet = conn[c].packet
SameReply(c)  == conn'[c].sent = conn[c].sent /\ conn'[c].offset = conn[c].offset
SameFlag(c)   == conn'[c].thread_complete_success = conn[c].thread_complete_success
-----------------------------------------------------------------------------
(***************************************************************************)
(* The steps of a connection, field by field                               *)
(***************************************************************************)
LEMMA FieldTypes ==
  ASSUME TypeInv, NEW c \in Clients
  PROVE  /\ conn[c] \in Connections /\ conn[c].pc \in Labels
         /\ conn[c].thread_complete_success \in BOOLEAN
         /\ conn[c].got \in Nat /\ conn[c].rest \in Seq(Bytes)
         /\ conn[c].packet \in Seq(Bytes) \cup {NULL}
         /\ conn[c].sent \in Seq(Bytes) /\ conn[c].offset \in Nat
         /\ HasPacket(conn[c])
  BY DEF TypeInv, TypeOK, Connections

LEMMA Becoming ==
  ASSUME TypeInv, NEW c \in Clients, NEW r \in Connections, Becomes(c, r)
  PROVE  conn'[c] = r /\ OthersStay(c)
  BY DEF TypeInv, TypeOK, Becomes, OthersStay

\* The steps that only put a connection at another label.
LEMMA LabelFields ==
  ASSUME TypeInv, NEW c \in Clients, NEW l \in Labels,
         Becomes(c, [conn[c] EXCEPT !.pc = l])
  PROVE  /\ OthersStay(c) /\ conn'[c].pc = l
         /\ SameInput(c) /\ SamePacket(c) /\ SameReply(c) /\ SameFlag(c)
<1> DEFINE s == conn[c]
           r == [s EXCEPT !.pc = l]
<1>1. s \in Connections
  BY FieldTypes
<1> HIDE DEF s
<1>2. /\ r \in Connections /\ r.pc = l
      /\ r.thread_complete_success = s.thread_complete_success
      /\ r.got = s.got /\ r.rest = s.rest /\ r.packet = s.packet
      /\ r.sent = s.sent /\ r.offset = s.offset
  BY <1>1 DEF Connections
<1>3. Becomes(c, r)
  BY DEF s
<1> HIDE DEF r
<1>4. conn'[c] = r /\ OthersStay(c)
  BY <1>2, <1>3, Becoming
<1>5. QED
  BY <1>2, <1>4 DEF s, SameInput, SamePacket, SameReply, SameFlag

LEMMA RecvFields ==
  ASSUME TypeInv, NEW c \in Clients, Recv(c)
  PROVE  /\ OthersStay(c) /\ conn'[c].pc = "parse"
         /\ SamePacket(c) /\ SameReply(c) /\ SameFlag(c)
         /\ conn'[c].got \in conn[c].got + 1 .. Len(Stream[c])
         /\ conn'[c].rest = SubSeq(Stream[c], conn[c].got + 1, conn'[c].got)
<1>1. PICK upto \in conn[c].got + 1 .. Len(Stream[c]) :
        Becomes(c, [conn[c] EXCEPT !.rest = SubSeq(Stream[c], conn[c].got + 1, upto),
                                   !.got = upto,
                                   !.pc = "parse"])
  BY DEF Recv
<1> DEFINE s == conn[c]
           x == SubSeq(Stream[c], conn[c].got + 1, upto)
           r == [s EXCEPT !.rest = x, !.got = upto, !.pc = "parse"]
<1>2. s \in Connections /\ "parse" \in Labels /\ upto \in Nat /\ x \in Seq(Bytes)
  <2>1. Stream[c] \in Seq(Bytes)
    BY ServerAssumption
  <2>2. QED
    BY <2>1, FieldTypes DEF Labels
<1>3. Becomes(c, r)
  BY <1>1
<1> HIDE DEF s, x
<1>4. /\ r \in Connections /\ r.pc = "parse"
      /\ r.thread_complete_success = s.thread_complete_success
      /\ r.got = upto /\ r.rest = x /\ r.packet = s.packet
      /\ r.sent = s.sent /\ r.offset = s.offset
  BY <1>2 DEF Connections
<1> HIDE DEF r
<1>5. conn'[c] = r /\ OthersStay(c)
  BY <1>3, <1>4, Becoming
<1>6. QED
  BY <1>4, <1>5 DEF s, x, SamePacket, SameReply, SameFlag

(***************************************************************************)
(* The loop over buf takes the first n bytes of what is left, up to and    *)
(* with a newline, or all of it.                                           *)
(***************************************************************************)
Takes(c, n) ==
  /\ n \in 0 .. Len(conn[c].rest)
  /\ conn'[c].rest = SubSeq(conn[c].rest, n + 1, Len(conn[c].rest))
  /\ conn'[c].packet = IF conn[c].rest = << >> THEN conn[c].packet
                       ELSE Partial(c) \o SubSeq(conn[c].rest, 1, n)
  /\ \A i \in 1 .. n - 1 : conn[c].rest[i] # Newline
  /\ \/ /\ conn'[c].pc = "recv" /\ n = Len(conn[c].rest)
        /\ n > 0 => conn[c].rest[n] # Newline
     \/ conn'[c].pc = "lock" /\ n > 0 /\ conn[c].rest[n] = Newline

LEMMA ParseFields ==
  ASSUME TypeInv, NEW c \in Clients, Parse(c)
  PROVE  /\ OthersStay(c) /\ SameReply(c) /\ SameFlag(c) /\ conn'[c].got = conn[c].got
         /\ \E n \in Nat : Takes(c, n)
<1> DEFINE s    == conn[c]
           rest == conn[c].rest
           ends == {i \in DOMAIN rest : rest[i] = Newline}
           n    == IF ends = {} THEN Len(rest) ELSE Min(ends)
           pkt  == IF rest = << >> THEN conn[c].packet
                   ELSE Partial(c) \o SubSeq(rest, 1, n)
           left == SubSeq(rest, n + 1, Len(rest))
           l    == IF ends = {} THEN "recv" ELSE "lock"
           r    == [s EXCEPT !.packet = pkt, !.rest = left, !.pc = l]
<1>1. s \in Connections /\ rest \in Seq(Bytes) /\ conn[c].packet \in Seq(Bytes) \cup {NULL}
  BY FieldTypes
<1>2. /\ n \in 0 .. Len(rest) /\ n \in Nat /\ Len(rest) \in Nat
      /\ \A i \in 1 .. n - 1 : rest[i] # Newline
      /\ \/ l = "recv" /\ n = Len(rest) /\ (n > 0 => rest[n] # Newline)
         \/ l = "lock" /\ n > 0 /\ rest[n] = Newline
  <2>1. ends \subseteq 1 .. Len(rest) /\ ends \subseteq Nat
        /\ \A i \in 1 .. Len(rest) : i \in ends <=> rest[i] = Newline
    BY <1>1
  <2> HIDE DEF ends
  <2>2. CASE ends = {}
    BY <1>1, <2>1, <2>2
  <2>3. CASE ends # {}
    <3>1. Min(ends) \in ends /\ \A i \in ends : Min(ends) <= i
      BY <2>1, <2>3, MinOfNaturals
    <3>2. n = Min(ends) /\ l = "lock"
      BY <2>3
    <3> HIDE DEF n, l
    <3>3. n \in 1 .. Len(rest) /\ rest[n] = Newline
      BY <2>1, <3>1, <3>2
    <3>4. ASSUME NEW i \in 1 .. n - 1 PROVE rest[i] # Newline
      <4>1. i \in 1 .. Len(rest) /\ ~(n <= i)
        BY <1>1, <3>3
      <4>2. i \notin ends
        BY <3>1, <3>2, <4>1
      <4>3. QED
        BY <2>1, <4>1, <4>2
    <3>5. QED
      BY <1>1, <3>2, <3>3, <3>4
  <2>4. QED
    BY <2>2, <2>3
<1>3. Becomes(c, r)
  BY DEF Parse
<1>4. l \in Labels
  BY DEF Labels
<1> HIDE DEF n, ends, l
<1>5. pkt \in Seq(Bytes) \cup {NULL} /\ left \in Seq(Bytes)
  <2>1. rest # << >> => Partial(c) \in Seq(Bytes)
    BY <1>1 DEF Partial
  <2>2. SubSeq(rest, 1, n) \in Seq(Bytes) /\ left \in Seq(Bytes)
    BY <1>1, <1>2
  <2>3. QED
    BY <1>1, <2>1, <2>2
<1> HIDE DEF pkt, left, s
<1>6. /\ r \in Connections /\ r.pc = l /\ r.rest = left /\ r.packet = pkt
      /\ r.thread_complete_success = s.thread_complete_success /\ r.got = s.got
      /\ r.sent = s.sent /\ r.offset = s.offset
  BY <1>1, <1>4, <1>5 DEF Connections
<1> HIDE DEF r
<1>7. conn'[c] = r /\ OthersStay(c)
  BY <1>3, <1>6, Becoming
<1>8. Takes(c, n)
  BY <1>2, <1>6, <1>7 DEF Takes, pkt, left
<1>9. QED
  BY <1>2, <1>6, <1>7, <1>8 DEF s, SameReply, SameFlag

LEMMA ParseFailsFields ==
  ASSUME TypeInv, NEW c \in Clients, ParseFails(c)
  PROVE  /\ OthersStay(c) /\ conn'[c].pc = "done" /\ conn'[c].packet = NULL
         /\ SameInput(c) /\ SameReply(c) /\ SameFlag(c)
<1> DEFINE s == conn[c]
           r == [s EXCEPT !.packet = NULL, !.pc = "done"]
<1>1. s \in Connections /\ "done" \in Labels
  BY FieldTypes DEF Labels
<1>2. Becomes(c, r)
  BY DEF ParseFails
<1> HIDE DEF s
<1>3. /\ r \in Connections /\ r.pc = "done" /\ r.packet = NULL
      /\ r.thread_complete_success = s.thread_complete_success
      /\ r.got = s.got /\ r.rest = s.rest /\ r.sent = s.sent /\ r.offset = s.offset
  BY <1>1 DEF Connections
<1> HIDE DEF r
<1>4. conn'[c] = r /\ OthersStay(c)
  BY <1>2, <1>3, Becoming
<1>5. QED
  BY <1>3, <1>4 DEF s, SameInput, SameReply, SameFlag

LEMMA OpenForReplyFields ==
  ASSUME TypeInv, NEW c \in Clients, OpenForReply(c)
  PROVE  /\ OthersStay(c) /\ conn'[c].pc = "send"
         /\ conn'[c].sent = << >> /\ conn'[c].offset = 0
         /\ SameInput(c) /\ SamePacket(c) /\ SameFlag(c)
<1> DEFINE s    == conn[c]
           none == << >>
           r    == [s EXCEPT !.pc = "send", !.sent = none, !.offset = 0]
<1>1. s \in Connections /\ "send" \in Labels /\ none \in Seq(Bytes)
  BY FieldTypes DEF Labels
<1>2. Becomes(c, r)
  BY DEF OpenForReply
<1> HIDE DEF s, none
<1>3. /\ r \in Connections /\ r.pc = "send" /\ r.sent = none /\ r.offset = 0
      /\ r.thread_complete_success = s.thread_complete_success
      /\ r.got = s.got /\ r.rest = s.rest /\ r.packet = s.packet
  BY <1>1 DEF Connections
<1> HIDE DEF r
<1>4. conn'[c] = r /\ OthersStay(c)
  BY <1>2, <1>3, Becoming
<1>5. QED
  BY <1>3, <1>4 DEF s, none, SameInput, SamePacket, SameFlag

LEMMA OpenForReplyFailsFields ==
  ASSUME TypeInv, NEW c \in Clients, OpenForReplyFails(c)
  PROVE  /\ OthersStay(c) /\ conn'[c].pc = "recv" /\ conn'[c].rest = << >>
         /\ conn'[c].got = conn[c].got
         /\ SamePacket(c) /\ SameReply(c) /\ SameFlag(c)
<1> DEFINE s    == conn[c]
           none == << >>
           r    == [s EXCEPT !.rest = none, !.pc = "recv"]
<1>1. s \in Connections /\ "recv" \in Labels /\ none \in Seq(Bytes)
  BY FieldTypes DEF Labels
<1>2. Becomes(c, r)
  BY DEF OpenForReplyFails
<1> HIDE DEF s, none
<1>3. /\ r \in Connections /\ r.pc = "recv" /\ r.rest = none
      /\ r.thread_complete_success = s.thread_complete_success
      /\ r.got = s.got /\ r.packet = s.packet /\ r.sent = s.sent /\ r.offset = s.offset
  BY <1>1 DEF Connections
<1> HIDE DEF r
<1>4. conn'[c] = r /\ OthersStay(c)
  BY <1>2, <1>3, Becoming
<1>5. QED
  BY <1>3, <1>4 DEF s, none, SamePacket, SameReply, SameFlag

LEMMA SendPieceFields ==
  ASSUME TypeInv, NEW c \in Clients, SendPiece(c), up'
  PROVE  /\ OthersStay(c) /\ OnlyConnChanges /\ conn'[c].pc = "send"
         /\ conn[c].offset + 1 \in DOMAIN file
         /\ conn'[c].offset = conn[c].offset + 1
         /\ conn'[c].sent = conn[c].sent \o file[conn[c].offset + 1].data
         /\ SameInput(c) /\ SamePacket(c) /\ SameFlag(c)
<1> DEFINE s    == conn[c]
           sent == conn[c].sent \o file[conn[c].offset + 1].data
           past == conn[c].offset + 1
           r    == [s EXCEPT !.offset = past, !.sent = sent]
<1>1. OnlyConnChanges /\ Becomes(c, r) /\ s.pc = "send" /\ conn[c].offset < Len(file)
  BY DEF SendPiece, Die, At
<1>2. s \in Connections /\ past \in Nat /\ past \in DOMAIN file
  BY <1>1, FieldTypes DEF TypeInv, TypeOK
<1>3. sent \in Seq(Bytes)
  <2>1. file[conn[c].offset + 1] \in Pieces
    BY <1>2 DEF TypeInv, TypeOK
  <2>2. file[conn[c].offset + 1].data \in Seq(Bytes)
    BY <2>1 DEF Pieces
  <2>3. QED
    BY <2>2, FieldTypes
<1> HIDE DEF s, sent, past
<1>4. /\ r \in Connections /\ r.pc = s.pc /\ r.offset = past /\ r.sent = sent
      /\ r.thread_complete_success = s.thread_complete_success
      /\ r.got = s.got /\ r.rest = s.rest /\ r.packet = s.packet
  BY <1>2, <1>3 DEF Connections
<1> HIDE DEF r
<1>5. conn'[c] = r /\ OthersStay(c)
  BY <1>1, <1>4, Becoming
<1>6. QED
  BY <1>1, <1>2, <1>4, <1>5 DEF s, sent, past, SameInput, SamePacket, SameFlag

LEMMA EndReplyFields ==
  ASSUME TypeInv, NEW c \in Clients, EndReply(c)
  PROVE  /\ OthersStay(c) /\ conn'[c].pc = "parse" /\ conn'[c].packet = << >>
         /\ SameInput(c) /\ SameReply(c) /\ SameFlag(c)
<1> DEFINE s    == conn[c]
           none == << >>
           r    == [s EXCEPT !.packet = none, !.pc = "parse"]
<1>1. s \in Connections /\ "parse" \in Labels /\ none \in Seq(Bytes)
  BY FieldTypes DEF Labels
<1>2. Becomes(c, r)
  BY DEF EndReply, AfterReply
<1> HIDE DEF s, none
<1>3. /\ r \in Connections /\ r.pc = "parse" /\ r.packet = none
      /\ r.thread_complete_success = s.thread_complete_success
      /\ r.got = s.got /\ r.rest = s.rest /\ r.sent = s.sent /\ r.offset = s.offset
  BY <1>1 DEF Connections
<1> HIDE DEF r
<1>4. conn'[c] = r /\ OthersStay(c)
  BY <1>2, <1>3, Becoming
<1>5. QED
  BY <1>3, <1>4 DEF s, none, SameInput, SameReply, SameFlag

LEMMA ClientDoneFields ==
  ASSUME TypeInv, NEW c \in Clients, ClientDone(c)
  PROVE  /\ OthersStay(c) /\ conn'[c].pc = "close"
         /\ conn'[c].thread_complete_success = (conn[c].packet # NULL)
         /\ SameInput(c) /\ SamePacket(c) /\ SameReply(c)
<1> DEFINE s    == conn[c]
           flag == (conn[c].packet # NULL)
           r    == [s EXCEPT !.thread_complete_success = flag, !.pc = "close"]
<1>1. s \in Connections /\ "close" \in Labels /\ flag \in BOOLEAN
  BY FieldTypes DEF Labels
<1>2. Becomes(c, r)
  BY DEF ClientDone, HasPacketBuf
<1> HIDE DEF s, flag
<1>3. /\ r \in Connections /\ r.pc = "close" /\ r.thread_complete_success = flag
      /\ r.got = s.got /\ r.rest = s.rest /\ r.packet = s.packet
      /\ r.sent = s.sent /\ r.offset = s.offset
  BY <1>1 DEF Connections
<1> HIDE DEF r
<1>4. conn'[c] = r /\ OthersStay(c)
  BY <1>2, <1>3, Becoming
<1>5. QED
  BY <1>3, <1>4, Zenon DEF s, flag, SameInput, SamePacket, SameReply
-----------------------------------------------------------------------------
(***************************************************************************)
(* The types                                                               *)
(***************************************************************************)
\* The labels that LabelFields is used for.
LEMMA SomeLabels == {"recv", "write", "open", "done", "ended"} \subseteq Labels
  BY DEF Labels

\* What a connection does to what the other threads see.
LEMMA ConnTypes ==
  ASSUME TypeInv, NEW c \in Clients, Accept(c) \/ HangUp(c) \/ handle_connection(c)
  PROVE  conn' \in [Clients -> Connections] /\ \A d \in Clients : HasPacket(conn'[d])
<1> SUFFICES ASSUME ~UNCHANGED conn
             PROVE  OthersStay(c) /\ HasPacket(conn'[c])
  BY FieldTypes DEF OthersStay, TypeInv, TypeOK
<1>1. HasPacket(conn[c])
  BY FieldTypes
<1>2. CASE \/ Accept(c) \/ HangUp(c) \/ Lock(c) \/ WritePacket(c) \/ CloseAndEnd(c)
  <2>1. \E l \in {"recv", "write", "open", "done", "ended"} :
          /\ Becomes(c, [conn[c] EXCEPT !.pc = l])
          /\ l \in {"write", "open"} => conn[c].pc \in {"lock", "write"}
    BY <1>2 DEF Accept, Die, HangUp, Lock, WritePacket, CloseAndEnd, At
  <2>2. QED
    BY <1>1, <2>1, LabelFields, SomeLabels DEF HasPacket, SamePacket
<1>3. CASE Recv(c)
  BY <1>3, RecvFields DEF HasPacket
<1>4. CASE Parse(c)
  <2>1. PICK n \in Nat : Takes(c, n)
    BY <1>4, ParseFields
  <2>2. conn'[c].pc = "lock" => conn'[c].packet \in Seq(Bytes)
    <3>1. /\ conn[c].rest \in Seq(Bytes) /\ Len(conn[c].rest) \in Nat
          /\ conn[c].packet \in Seq(Bytes) \cup {NULL}
      BY FieldTypes
    <3>2. Partial(c) \in Seq(Bytes)
      BY <3>1 DEF Partial
    <3>3. SubSeq(conn[c].rest, 1, n) \in Seq(Bytes)
      BY <2>1, <3>1 DEF Takes
    <3>4. Partial(c) \o SubSeq(conn[c].rest, 1, n) \in Seq(Bytes)
      BY <3>2, <3>3
    <3>5. n > 0 => conn[c].rest # << >>
      BY <2>1, <3>1 DEF Takes
    <3>6. QED
      BY <2>1, <3>4, <3>5 DEF Takes
  <2>3. conn'[c].pc \in {"recv", "lock"}
    BY <2>1 DEF Takes
  <2>4. QED
    BY <1>4, <2>2, <2>3, ParseFields, ServerAssumption DEF HasPacket
<1>5. CASE ParseFails(c)
  BY <1>5, ParseFailsFields DEF HasPacket
<1>6. CASE OpenForReply(c)
  BY <1>1, <1>6, OpenForReplyFields DEF HasPacket, SamePacket, OpenForReply, At
<1>7. CASE OpenForReplyFails(c)
  BY <1>7, OpenForReplyFailsFields DEF HasPacket
<1>8. CASE SendPiece(c)
  <2>1. up'
    BY <1>8 DEF SendPiece, Die, At, OnlyConnChanges
  <2>2. QED
    BY <1>1, <1>8, <2>1, SendPieceFields DEF HasPacket, SamePacket, SendPiece, At
<1>9. CASE EndReply(c)
  BY <1>9, EndReplyFields DEF HasPacket
<1>10. CASE ClientDone(c)
  BY <1>10, ClientDoneFields DEF HasPacket
<1>11. QED
  BY <1>2, <1>3, <1>4, <1>5, <1>6, <1>7, <1>8, <1>9, <1>10 DEF handle_connection

(***************************************************************************)
(* What a call of write_to_file does to the file: nothing, or one more     *)
(* piece, which begins as what was to be written.                          *)
(***************************************************************************)
LEMMA FileSteps ==
  ASSUME TypeInv, [Next]_vars
  PROVE  \/ UNCHANGED file
         \/ \E c \in Clients :
              /\ WritePacket(c) /\ conn[c].packet \in Seq(Bytes)
              /\ \E d \in Seq(Bytes) : AppendPiece(c, d) /\ (~May("short") => d = conn[c].packet)
         \/ /\ WriteStamp
            /\ \E d \in Seq(Bytes) : AppendPiece(Stamper, d) /\ (~May("short") => d = Stamp)
<1>1. ASSUME NEW who, NEW bytes \in Seq(Bytes),
             WriteReturns0(who, bytes) \/ WriteReturnsError(who, bytes)
      PROVE  \/ UNCHANGED file
             \/ \E d \in Seq(Bytes) : AppendPiece(who, d) /\ (~May("short") => d = bytes)
  <2>1. \A n \in 1 .. Len(bytes) - 1 : SubSeq(bytes, 1, n) \in Seq(Bytes)
    OBVIOUS
  <2>2. QED
    BY <1>1, <2>1 DEF WriteReturns0, WriteReturnsError
<1>2. ASSUME NEW c \in Clients, WritePacket(c) PROVE conn[c].packet \in Seq(Bytes)
  BY <1>2, FieldTypes DEF WritePacket, At, HasPacket
<1>3. ASSUME NEW c \in Clients, Accept(c) \/ HangUp(c) \/ handle_connection(c)
      PROVE  WritePacket(c) \/ UNCHANGED file
  BY <1>3 DEF Accept, Die, HangUp, handle_connection, Recv, Parse, ParseFails, Lock,
              OpenForReply, OpenForReplyFails, SendPiece, EndReply, ClientDone,
              CloseAndEnd, OnlyConnChanges
<1>4. ASSUME \/ handle_signal \/ Sweep \/ EndSweep \/ WakeUp \/ LockToStamp
             \/ UNCHANGED vars
      PROVE  UNCHANGED file
  BY <1>4 DEF handle_signal, Die, Sweep, EndSweep, WakeUp, LockToStamp, vars
<1>5. CASE WriteStamp
  BY <1>1, <1>5, ServerAssumption DEF WriteStamp
<1>6. ASSUME NEW c \in Clients, WritePacket(c)
      PROVE  \/ UNCHANGED file
             \/ \E d \in Seq(Bytes) : AppendPiece(c, d) /\ (~May("short") => d = conn[c].packet)
  <2>1. WriteReturns0(c, conn[c].packet) \/ WriteReturnsError(c, conn[c].packet)
    BY <1>6 DEF WritePacket
  <2>2. QED
    BY <1>1, <1>2, <1>6, <2>1
<1>7. QED
  BY <1>2, <1>3, <1>4, <1>5, <1>6 DEF Next, timestamp_thread

LEMMA TypeStep ==
  ASSUME TypeInv, [Next]_vars
  PROVE  TypeInv'
<1>1. conn' \in [Clients -> Connections] /\ \A c \in Clients : HasPacket(conn'[c])
  <2>1. CASE UNCHANGED conn
    BY <2>1 DEF TypeInv, TypeOK
  <2>2. CASE ~UNCHANGED conn
    <3>1. \E c \in Clients : Accept(c) \/ HangUp(c) \/ handle_connection(c)
      BY <2>2 DEF Next, handle_signal, Die, Sweep, EndSweep, WakeUp, timestamp_thread,
                  LockToStamp, WriteStamp, vars
    <3>2. QED
      BY <3>1, ConnTypes
  <2>3. QED
    BY <2>1, <2>2
<1>2. file' \in Seq(Pieces)
  <2>1. ASSUME NEW who \in Clients \cup {Stamper}, NEW d \in Seq(Bytes), AppendPiece(who, d)
        PROVE  file' \in Seq(Pieces)
    <3>1. [by |-> who, data |-> d] \in Pieces
      BY DEF Pieces
    <3>2. QED
      BY <2>1, <3>1 DEF AppendPiece, TypeInv, TypeOK
  <2>2. QED
    BY <2>1, FileSteps DEF TypeInv, TypeOK
<1>3. /\ up' \in BOOLEAN /\ main' \in {"accept", "sweep"} /\ freed' \subseteq Clients
      /\ active_threads' \in Seq(Clients) /\ todo' \in Seq(Clients)
  <2>1. CASE UNCHANGED mainVars
    <3>1. up' = up \/ up' = FALSE
      BY DEF Next, handle_signal, Accept, HangUp, handle_connection, Recv, Parse, ParseFails,
             Lock, WritePacket, OpenForReply, OpenForReplyFails, SendPiece, EndReply, ClientDone,
             CloseAndEnd, OnlyConnChanges, Sweep, EndSweep, WakeUp, timestamp_thread,
             LockToStamp, WriteStamp, Die, vars
    <3>2. QED
      BY <2>1, <3>1 DEF mainVars, TypeInv, TypeOK
  <2>2. ASSUME NEW c \in Clients, Accept(c), ~UNCHANGED mainVars
        PROVE  /\ up' = up /\ main' = "sweep" /\ freed' = freed
               /\ active_threads' \in Seq(Clients) /\ todo' = active_threads'
    <3>1. /\ up' = up /\ main' = "sweep" /\ freed' = freed
          /\ active_threads' = Append(active_threads, c) /\ todo' = active_threads'
      BY <2>2 DEF Accept, Die
    <3>2. QED
      BY <3>1 DEF TypeInv, TypeOK
  <2>3. CASE Sweep
    <3>1. /\ todo \in Seq(Clients) /\ todo # << >> /\ active_threads \in Seq(Clients)
          /\ freed \subseteq Clients
      BY <2>3 DEF Sweep, TypeInv, TypeOK
    <3>2. Head(todo) \in Clients /\ Tail(todo) \in Seq(Clients)
      BY <3>1
    <3>3. RemoveFirst(active_threads, Head(todo)) \in Seq(Clients)
      BY <3>1, RemoveFirstIs
    <3>4. /\ up' = up /\ main' = main /\ todo' = Tail(todo)
          /\ \/ /\ active_threads' = RemoveFirst(active_threads, Head(todo))
                /\ freed' = freed \cup {Head(todo)}
             \/ active_threads' = active_threads /\ freed' = freed
      BY <2>3 DEF Sweep
    <3>5. QED
      BY <3>1, <3>2, <3>3, <3>4 DEF TypeInv, TypeOK
  <2>4. CASE EndSweep
    BY <2>4 DEF EndSweep, TypeInv, TypeOK
  <2>5. UNCHANGED mainVars \/ Sweep \/ EndSweep \/ \E c \in Clients : Accept(c)
    BY DEF Next, handle_signal, HangUp, handle_connection, Recv, Parse, ParseFails,
           Lock, WritePacket, OpenForReply, OpenForReplyFails, SendPiece, EndReply, ClientDone,
           CloseAndEnd, OnlyConnChanges, WakeUp, timestamp_thread, LockToStamp, WriteStamp,
           Die, vars, mainVars
  <2>6. QED
    BY <2>1, <2>2, <2>3, <2>4, <2>5 DEF TypeInv, TypeOK
<1>4. /\ ts' \in {"sleep", "lock", "write"} /\ stamps' \in 0 .. MaxStamps
      /\ mutex' \in Clients \cup {Stamper, Free}
  <2>1. \/ UNCHANGED tsVars
        \/ ts' = "lock" /\ stamps < MaxStamps /\ stamps' = stamps + 1
        \/ ts' \in {"write", "sleep"} /\ stamps' = stamps
    BY DEF Next, handle_signal, Accept, HangUp, handle_connection, Recv, Parse, ParseFails,
           Lock, WritePacket, OpenForReply, OpenForReplyFails, SendPiece, EndReply, ClientDone,
           CloseAndEnd, OnlyConnChanges, Sweep, EndSweep, WakeUp, timestamp_thread,
           LockToStamp, WriteStamp, Die, vars, tsVars
  <2>2. mutex' = mutex \/ mutex' \in Clients \cup {Stamper, Free}
    BY DEF Next, handle_signal, Accept, HangUp, handle_connection, Recv, Parse, ParseFails,
           Lock, WritePacket, OpenForReply, OpenForReplyFails, SendPiece, EndReply, ClientDone,
           CloseAndEnd, OnlyConnChanges, Sweep, EndSweep, WakeUp, timestamp_thread,
           LockToStamp, WriteStamp, Unlock, Die, vars
  <2>3. stamps \in 0 .. MaxStamps /\ MaxStamps \in Nat /\ ts \in {"sleep", "lock", "write"}
        /\ mutex \in Clients \cup {Stamper, Free}
    BY ServerAssumption DEF TypeInv, TypeOK
  <2>4. QED
    BY <2>1, <2>2, <2>3 DEF tsVars
<1>5. QED
  BY <1>1, <1>2, <1>3, <1>4 DEF TypeInv, TypeOK

LEMMA TypeInit == Init => TypeInv
<1> SUFFICES ASSUME Init PROVE TypeInv
  OBVIOUS
<1> DEFINE none == << >>
<1>1. none \in Seq(Bytes) /\ none \in Seq(Pieces) /\ none \in Seq(Clients) /\ "none" \in Labels
  BY DEF Labels
<1>2. conn = [c \in Clients |->
                [pc |-> "none", thread_complete_success |-> FALSE, got |-> 0,
                 rest |-> none, packet |-> NULL, sent |-> none, offset |-> 0]]
  BY DEF Init
<1>3. /\ up = TRUE /\ main = "accept" /\ active_threads = none /\ todo = none /\ freed = {}
      /\ mutex = Free /\ ts = "sleep" /\ stamps = 0 /\ file = none
  BY DEF Init
<1> HIDE DEF none
<1>4. conn \in [Clients -> Connections]
  BY <1>1, <1>2 DEF Connections
<1>5. \A c \in Clients : HasPacket(conn[c])
  BY <1>2 DEF HasPacket
<1>6. QED
  BY <1>1, <1>3, <1>4, <1>5, ServerAssumption DEF TypeInv, TypeOK

(***************************************************************************)
(* Every variable keeps its type, whatever calls fail.                     *)
(***************************************************************************)
THEOREM ServerTypes == Spec => []TypeOK
<1>1. TypeInv => TypeOK
  BY DEF TypeInv
<1>2. QED
  BY TypeInit, TypeStep, <1>1, PTL DEF Spec
-----------------------------------------------------------------------------
(***************************************************************************)
(* What the TAILQ holds and what is freed                                  *)
(***************************************************************************)
\* A connection is in the list once at most, from its Accept to its end, and
\* what a sweep has ahead of it is still in the list.
ListsOK ==
  /\ IsInjective(active_threads) /\ IsInjective(todo)
  /\ \A c \in Clients : Contains(todo, c) => Contains(active_threads, c)
  /\ \A c \in Clients : Contains(active_threads, c) => conn[c].pc # "none"
  /\ FreedAfterUse

\* No thread goes back to before its start, or on after its end.
LEMMA ThreadsGoOn ==
  ASSUME TypeInv, [Next]_vars, NEW c \in Clients
  PROVE  /\ conn[c].pc # "none" => conn'[c].pc # "none"
         /\ conn[c].pc = "ended" => conn'[c].pc = "ended"
<1> SUFFICES ASSUME conn'[c] # conn[c] PROVE conn[c].pc # "ended" /\ conn'[c].pc # "none"
  OBVIOUS
<1>1. PICK d \in Clients : Accept(d) \/ HangUp(d) \/ handle_connection(d)
  BY DEF Next, handle_signal, Die, Sweep, EndSweep, WakeUp, timestamp_thread, LockToStamp,
         WriteStamp, vars
<1>2. ~UNCHANGED conn
  OBVIOUS
<1>3. CASE \/ Accept(d) \/ HangUp(d) \/ Lock(d) \/ WritePacket(d) \/ CloseAndEnd(d)
  <2>1. \E l \in {"recv", "write", "open", "done", "ended"} :
          Becomes(d, [conn[d] EXCEPT !.pc = l]) /\ conn[d].pc # "ended"
    BY <1>2, <1>3 DEF Accept, Die, HangUp, Lock, WritePacket, CloseAndEnd, At
  <2>2. QED
    BY <2>1, LabelFields, SomeLabels DEF OthersStay
<1>4. CASE Recv(d)
  BY <1>4, RecvFields DEF OthersStay, Recv, At
<1>5. CASE Parse(d)
  BY <1>5, ParseFields DEF OthersStay, Parse, At, Takes
<1>6. CASE ParseFails(d)
  BY <1>6, ParseFailsFields DEF OthersStay, ParseFails, At
<1>7. CASE OpenForReply(d)
  BY <1>7, OpenForReplyFields DEF OthersStay, OpenForReply, At
<1>8. CASE OpenForReplyFails(d)
  BY <1>8, OpenForReplyFailsFields DEF OthersStay, OpenForReplyFails, At
<1>9. CASE SendPiece(d)
  <2>1. up'
    BY <1>2, <1>9 DEF SendPiece, Die, At, OnlyConnChanges
  <2>2. QED
    BY <1>9, <2>1, SendPieceFields DEF OthersStay, SendPiece, At
<1>10. CASE EndReply(d)
  BY <1>10, EndReplyFields DEF OthersStay, EndReply, At
<1>11. CASE ClientDone(d)
  BY <1>11, ClientDoneFields DEF OthersStay, ClientDone, At
<1>12. QED
  BY <1>1, <1>3, <1>4, <1>5, <1>6, <1>7, <1>8, <1>9, <1>10, <1>11 DEF handle_connection

\* An element more at the end of a list in which it was not.
LEMMA AppendNew ==
  ASSUME NEW T, NEW s \in Seq(T), NEW e \in T, ~Contains(s, e), IsInjective(s)
  PROVE  /\ IsInjective(Append(s, e))
         /\ \A x \in T : Contains(Append(s, e), x) <=> Contains(s, x) \/ x = e
<1> DEFINE t == Append(s, e)
<1>1. /\ t \in Seq(T) /\ Len(t) = Len(s) + 1 /\ Len(s) \in Nat
      /\ t[Len(s) + 1] = e /\ \A i \in 1 .. Len(s) : t[i] = s[i]
  OBVIOUS
<1>2. /\ \A i, j \in 1 .. Len(s) : s[i] = s[j] => i = j
      /\ \A i \in 1 .. Len(s) : s[i] # e
  BY DEF IsInjective, Contains
<1> HIDE DEF t
<1>3. IsInjective(t)
  BY <1>1, <1>2 DEF IsInjective
<1>4. \A x \in T : Contains(t, x) <=> Contains(s, x) \/ x = e
  BY <1>1 DEF Contains
<1>5. QED
  BY <1>3, <1>4 DEF t

\* What the rest of a list holds.
LEMMA TailOf ==
  ASSUME NEW T, NEW s \in Seq(T), s # << >>, IsInjective(s)
  PROVE  /\ Head(s) \in T /\ Contains(s, Head(s)) /\ IsInjective(Tail(s))
         /\ \A x \in T : Contains(Tail(s), x) => Contains(s, x) /\ x # Head(s)
<1> DEFINE t == Tail(s)
           h == Head(s)
<1>1. /\ t \in Seq(T) /\ Len(t) = Len(s) - 1 /\ Len(s) \in Nat \ {0} /\ h = s[1] /\ h \in T
      /\ \A i \in 1 .. Len(t) : t[i] = s[i + 1]
  OBVIOUS
<1>2. \A i, j \in 1 .. Len(s) : s[i] = s[j] => i = j
  BY DEF IsInjective
<1> HIDE DEF t, h
<1>3. IsInjective(t)
  BY <1>1, <1>2 DEF IsInjective
<1>4. Contains(s, h)
  BY <1>1 DEF Contains
<1>5. ASSUME NEW x \in T, Contains(t, x) PROVE Contains(s, x) /\ x # h
  <2>1. PICK i \in 1 .. Len(t) : t[i] = x
    BY <1>5 DEF Contains
  <2>2. i + 1 \in 1 .. Len(s) /\ s[i + 1] = x /\ i + 1 # 1 /\ 1 \in 1 .. Len(s)
    BY <1>1, <2>1
  <2>3. QED
    BY <1>1, <1>2, <2>2 DEF Contains
<1>6. QED
  BY <1>1, <1>3, <1>4, <1>5 DEF t, h

LEMMA ListsStep ==
  ASSUME TypeInv, ListsOK, [Next]_vars
  PROVE  ListsOK'
<1>0. active_threads \in Seq(Clients) /\ todo \in Seq(Clients) /\ freed \subseteq Clients
  BY DEF TypeInv, TypeOK
<1>1. ASSUME UNCHANGED <<active_threads, todo, freed>>
      PROVE  ListsOK'
  BY <1>0, <1>1, ThreadsGoOn DEF ListsOK, FreedAfterUse
<1>2. ASSUME NEW c \in Clients, Accept(c), ~UNCHANGED active_threads
      PROVE  ListsOK'
  <2>1. /\ conn[c].pc = "none" /\ Becomes(c, [conn[c] EXCEPT !.pc = "recv"])
        /\ active_threads' = Append(active_threads, c)
        /\ todo' = active_threads' /\ freed' = freed
    BY <1>2 DEF Accept, Die, mainVars
  <2>2. OthersStay(c) /\ conn'[c].pc = "recv"
    BY <2>1, LabelFields, SomeLabels
  <2>3. ~Contains(active_threads, c) /\ c \notin freed
    BY <2>1 DEF ListsOK, FreedAfterUse
  <2>4. /\ IsInjective(active_threads')
        /\ \A x \in Clients : Contains(active_threads', x) <=> Contains(active_threads, x) \/ x = c
    BY <1>0, <2>1, <2>3, AppendNew DEF ListsOK
  <2>5. QED
    BY <1>0, <2>1, <2>2, <2>3, <2>4 DEF ListsOK, FreedAfterUse, OthersStay
<1>3. CASE Sweep
  <2> DEFINE c == Head(todo)
  <2>1. /\ c \in Clients /\ Contains(todo, c) /\ IsInjective(Tail(todo))
        /\ \A x \in Clients : Contains(Tail(todo), x) => Contains(todo, x) /\ x # c
    BY <1>0, <1>3, TailOf DEF Sweep, ListsOK
  <2>2. /\ todo' = Tail(todo) /\ conn' = conn
        /\ \/ /\ conn[c].pc = "ended" /\ active_threads' = RemoveFirst(active_threads, c)
              /\ freed' = freed \cup {c}
           \/ active_threads' = active_threads /\ freed' = freed
    BY <1>3 DEF Sweep, pthread_join
  <2> HIDE DEF c
  <2>3. /\ IsInjective(RemoveFirst(active_threads, c))
        /\ \A x \in Clients : Contains(RemoveFirst(active_threads, c), x)
                                <=> Contains(active_threads, x) /\ x # c
    BY <1>0, RemoveFirstIs DEF ListsOK
  <2>4. QED
    BY <1>0, <2>1, <2>2, <2>3 DEF ListsOK, FreedAfterUse
<1>4. \/ UNCHANGED <<active_threads, todo, freed>> \/ Sweep
      \/ \E c \in Clients : Accept(c)
  BY DEF Next, handle_signal, HangUp, handle_connection, Recv, Parse, ParseFails,
         Lock, WritePacket, OpenForReply, OpenForReplyFails, SendPiece, EndReply, ClientDone,
         CloseAndEnd, OnlyConnChanges, EndSweep, WakeUp, timestamp_thread, LockToStamp,
         WriteStamp, Die, vars, mainVars
<1>5. ASSUME NEW c \in Clients, Accept(c), UNCHANGED active_threads
      PROVE  ListsOK'
  <2>1. active_threads # Append(active_threads, c)
    BY <1>0
  <2>2. UNCHANGED <<active_threads, todo, freed>>
    BY <1>5, <2>1 DEF Accept, Die, mainVars
  <2>3. QED
    BY <1>1, <2>2
<1>6. QED
  BY <1>1, <1>2, <1>3, <1>4, <1>5

(***************************************************************************)
(* For any number of connections, and whatever calls fail: what main frees *)
(* belonged to a thread that has ended, and is in no list any more.  It    *)
(* takes that a connection is in the list only once, and that a sweep has  *)
(* nothing ahead of it that is not in the list.                            *)
(***************************************************************************)
THEOREM FreedThreadsHaveEnded == Spec => []FreedAfterUse
<1>1. Init => ListsOK
  <2> SUFFICES ASSUME Init PROVE ListsOK
    OBVIOUS
  <2>1. active_threads = << >> /\ todo = << >> /\ freed = {}
    BY DEF Init
  <2>2. \A s : s = << >> => IsInjective(s) /\ \A x : ~Contains(s, x)
    BY DEF IsInjective, Contains
  <2>3. QED
    BY <2>1, <2>2 DEF ListsOK, FreedAfterUse
<1>2. TypeInv /\ ListsOK /\ [Next]_vars => (TypeInv /\ ListsOK)'
  BY TypeStep, ListsStep
<1>3. ListsOK => FreedAfterUse
  BY DEF ListsOK
<1>4. QED
  BY TypeInit, <1>1, <1>2, <1>3, PTL DEF Spec
-----------------------------------------------------------------------------
(***************************************************************************)
(* The mutex excludes                                                      *)
(***************************************************************************)
\* What can fail for write_to_file to return -1 (aesdsocket.c:35-63).
WriteToFileFailures == {"open", "write", "sync"}

Section == {"write", "open", "send"}

\* A connection takes a step with the mutex as it was, takes it, or leaves the
\* section in which it has it.
LEMMA KeepMutex ==
  ASSUME MutualExclusion, NEW c \in Clients, OthersStay(c),
         conn'[c].pc \in Section => conn[c].pc \in Section,
         UNCHANGED <<mutex, ts>>
  PROVE  MutualExclusion'
  BY DEF MutualExclusion, InSection, OthersStay, Section

LEMMA TakeMutex ==
  ASSUME MutualExclusion, NEW c \in Clients, OthersStay(c),
         mutex = Free, mutex' = c, UNCHANGED ts
  PROVE  MutualExclusion'
  BY ServerAssumption DEF MutualExclusion, InSection, OthersStay

LEMMA LeaveSection ==
  ASSUME MutualExclusion, NEW c \in Clients, OthersStay(c),
         conn[c].pc \in Section, conn'[c].pc \notin Section, Unlock, UNCHANGED ts
  PROVE  MutualExclusion'
  BY ServerAssumption DEF MutualExclusion, InSection, OthersStay, Section, Unlock

LEMMA SameConnections ==
  ASSUME MutualExclusion, UNCHANGED <<conn, mutex, ts>>
  PROVE  MutualExclusion'
  BY DEF MutualExclusion, InSection

LEMMA ConnExclusion ==
  ASSUME TypeInv, MutualExclusion, Faults \cap WriteToFileFailures = {},
         NEW c \in Clients, Accept(c) \/ HangUp(c) \/ handle_connection(c)
  PROVE  MutualExclusion'
<1>1. ASSUME NEW l \in {"recv", "write", "open", "done", "ended"},
             Becomes(c, [conn[c] EXCEPT !.pc = l]), UNCHANGED <<mutex, ts>>,
             l \in Section => conn[c].pc \in Section
      PROVE  MutualExclusion'
  BY <1>1, LabelFields, SomeLabels, KeepMutex
<1>2. CASE Accept(c)
  BY <1>1, <1>2, SameConnections DEF Accept, Die, tsVars, Section
<1>3. CASE HangUp(c)
  BY <1>1, <1>3 DEF HangUp, OnlyConnChanges, tsVars, Section
<1>4. CASE CloseAndEnd(c)
  BY <1>1, <1>4 DEF CloseAndEnd, OnlyConnChanges, tsVars, Section
<1>5. CASE Lock(c)
  BY <1>5, LabelFields, SomeLabels, TakeMutex DEF Lock, tsVars
<1>6. CASE WritePacket(c)
  <2>1. ~WriteReturnsError(c, conn[c].packet)
    BY DEF WriteReturnsError, May, WriteToFileFailures
  <2>2. QED
    BY <1>1, <1>6, <2>1 DEF WritePacket, At, Section, tsVars
<1>7. CASE Recv(c)
  BY <1>7, RecvFields, KeepMutex DEF Recv, OnlyConnChanges, tsVars, Section
<1>8. CASE Parse(c)
  <2>1. OthersStay(c) /\ conn'[c].pc \in {"recv", "lock"}
    BY <1>8, ParseFields DEF Takes
  <2>2. QED
    BY <1>8, <2>1, KeepMutex DEF Parse, OnlyConnChanges, tsVars, Section
<1>9. CASE ParseFails(c)
  BY <1>9, ParseFailsFields, KeepMutex DEF ParseFails, OnlyConnChanges, tsVars, Section
<1>10. CASE OpenForReply(c)
  BY <1>10, OpenForReplyFields, KeepMutex
     DEF OpenForReply, At, OnlyConnChanges, tsVars, Section
<1>11. CASE OpenForReplyFails(c)
  BY <1>11, OpenForReplyFailsFields, LeaveSection DEF OpenForReplyFails, At, tsVars, Section
<1>12. CASE SendPiece(c)
  <2>1. CASE Die
    BY <2>1, SameConnections DEF Die, tsVars
  <2>2. CASE ~Die
    <3>1. up' /\ conn[c].pc = "send"
      BY <1>12, <2>2 DEF SendPiece, At, OnlyConnChanges
    <3>2. QED
      BY <1>12, <3>1, SendPieceFields, KeepMutex DEF OnlyConnChanges, tsVars, Section
  <2>3. QED
    BY <2>1, <2>2
<1>13. CASE EndReply(c)
  BY <1>13, EndReplyFields, LeaveSection DEF EndReply, At, tsVars, Section
<1>14. CASE ClientDone(c)
  BY <1>14, ClientDoneFields, KeepMutex DEF ClientDone, OnlyConnChanges, tsVars, Section
<1>15. QED
  BY <1>2, <1>3, <1>4, <1>5, <1>6, <1>7, <1>8, <1>9, <1>10, <1>11, <1>12, <1>13, <1>14
     DEF handle_connection

LEMMA ExclusionStep ==
  ASSUME TypeInv, MutualExclusion, Faults \cap WriteToFileFailures = {}, [Next]_vars
  PROVE  MutualExclusion'
<1>1. ASSUME NEW c \in Clients, Accept(c) \/ HangUp(c) \/ handle_connection(c)
      PROVE  MutualExclusion'
  BY <1>1, ConnExclusion
<1>2. CASE handle_signal \/ Sweep \/ EndSweep \/ UNCHANGED vars
  <2>1. UNCHANGED <<conn, mutex, ts>>
    BY <1>2 DEF handle_signal, Die, Sweep, EndSweep, vars, tsVars
  <2>2. QED
    BY <2>1, SameConnections
<1>3. CASE WakeUp
  BY <1>3, ServerAssumption DEF WakeUp, MutualExclusion, InSection
<1>4. CASE LockToStamp
  BY <1>4, ServerAssumption DEF LockToStamp, MutualExclusion, InSection
<1>5. CASE WriteStamp
  <2>1. ts = "write" /\ ts' = "sleep" /\ UNCHANGED conn
    BY <1>5 DEF WriteStamp
  <2>2. \A c \in Clients : conn[c].pc \notin {"write", "open", "send"}
    BY <2>1, ServerAssumption DEF MutualExclusion, InSection
  <2>3. QED
    BY <2>1, <2>2, ServerAssumption DEF MutualExclusion, InSection
<1>6. QED
  BY <1>1, <1>2, <1>3, <1>4, <1>5 DEF Next, timestamp_thread

LEMMA ExclusionInit == Init => MutualExclusion
  BY DEF Init, MutualExclusion, InSection

(***************************************************************************)
(* Between locking the mutex and the end of its reply, a connection thread *)
(* is alone with the file, and so is the timestamp thread while it writes: *)
(* for any number of clients, and also when realloc, pthread_create, send, *)
(* read or the second open fails or a write is short.  The assumption is   *)
(* needed: after an error of write_to_file the code unlocks twice.         *)
(***************************************************************************)
THEOREM MutexExcludes ==
  ASSUME Faults \cap WriteToFileFailures = {}
  PROVE  Spec => []MutualExclusion
<1>1. TypeInv /\ MutualExclusion /\ [Next]_vars => (TypeInv /\ MutualExclusion)'
  BY TypeStep, ExclusionStep
<1>2. QED
  BY TypeInit, ExclusionInit, <1>1, PTL DEF Spec
-----------------------------------------------------------------------------
(***************************************************************************)
(* One packet at a time                                                    *)
(***************************************************************************)
OnePacket(d)  == \A j \in DOMAIN d : d[j] = Newline <=> j = Len(d)
Unfinished(d) == \A j \in DOMAIN d : d[j] # Newline

\* What is collected has no newline in it until it is complete.
Collected(s) ==
  /\ s.pc \in {"lock", "write", "open", "send"} => OnePacket(s.packet)
  /\ s.pc \in {"none", "recv", "parse"} /\ s.packet # NULL => Unfinished(s.packet)

PacketsOK == PiecesArePackets /\ \A c \in Clients : Collected(conn[c])

LEMMA UpToNewline ==
  ASSUME NEW p \in Seq(Bytes), NEW r \in Seq(Bytes), NEW n \in 0 .. Len(r),
         Unfinished(p), \A i \in 1 .. n - 1 : r[i] # Newline
  PROVE  LET t == p \o SubSeq(r, 1, n)
         IN  /\ n > 0 /\ r[n] = Newline => OnePacket(t)
             /\ (n > 0 => r[n] # Newline) => Unfinished(t)
<1> DEFINE x == SubSeq(r, 1, n)
           t == p \o x
<1>1. /\ x \in Seq(Bytes) /\ Len(x) = n /\ n \in Nat
      /\ \A i \in 1 .. n : x[i] = r[i]
  OBVIOUS
<1> HIDE DEF x
<1>2. /\ Len(t) = Len(p) + n /\ Len(p) \in Nat /\ DOMAIN t = 1 .. Len(p) + n
      /\ \A j \in 1 .. Len(p) : t[j] = p[j]
      /\ \A j \in 1 .. n : t[Len(p) + j] = r[j]
  <2>1. /\ Len(t) = Len(p) + Len(x) /\ Len(p) \in Nat /\ DOMAIN t = 1 .. Len(p) + Len(x)
        /\ \A j \in 1 .. Len(p) : t[j] = p[j]
        /\ \A j \in 1 .. Len(x) : t[Len(p) + j] = x[j]
    <3> DEFINE cat(u, v) == u \o v
    <3>1. \A u, v \in Seq(Bytes) :
            /\ Len(cat(u, v)) = Len(u) + Len(v) /\ Len(u) \in Nat
            /\ DOMAIN cat(u, v) = 1 .. Len(u) + Len(v)
            /\ \A j \in 1 .. Len(u) : cat(u, v)[j] = u[j]
            /\ \A j \in 1 .. Len(v) : cat(u, v)[Len(u) + j] = v[j]
      BY ConcatElements
    <3>2. t = cat(p, x)
      OBVIOUS
    <3> HIDE DEF cat, t
    <3>3. QED
      BY <1>1, <3>1, <3>2
  <2> HIDE DEF t
  <2>2. QED
    BY <1>1, <2>1
<1> HIDE DEF t
<1>3. \A j \in 1 .. Len(p) : p[j] # Newline
  BY DEF Unfinished
<1>4. \A j \in 1 .. Len(t) : j < Len(t) => t[j] # Newline
  <2> SUFFICES ASSUME NEW j \in 1 .. Len(t), j < Len(t) PROVE t[j] # Newline
    OBVIOUS
  <2>1. CASE j <= Len(p)
    BY <1>2, <1>3, <2>1
  <2>2. CASE j > Len(p)
    <3>1. j - Len(p) \in 1 .. n - 1 /\ j - Len(p) \in 1 .. n /\ Len(p) + (j - Len(p)) = j
      BY <1>1, <1>2, <2>2
    <3>2. t[j] = r[j - Len(p)]
      BY <1>2, <3>1
    <3>3. QED
      BY <3>1, <3>2
  <2>3. QED
    BY <1>2, <2>1, <2>2
<1>5. n > 0 => t[Len(t)] = r[n]
  BY <1>1, <1>2
<1>6. n = 0 => Unfinished(t)
  BY <1>2, <1>3 DEF Unfinished
<1>7. \A j \in DOMAIN t : j \in 1 .. Len(t) /\ (j < Len(t) \/ j = Len(t))
  BY <1>1, <1>2
<1>8. n > 0 /\ r[n] # Newline => Unfinished(t)
  BY <1>4, <1>5, <1>7 DEF Unfinished
<1>9. n > 0 /\ r[n] = Newline => OnePacket(t)
  BY <1>1, <1>4, <1>5, <1>7 DEF OnePacket
<1>10. QED
  BY <1>1, <1>6, <1>8, <1>9 DEF t, x

LEMMA ParseCollects ==
  ASSUME TypeInv, NEW c \in Clients, Collected(conn[c]), Parse(c)
  PROVE  Collected(conn'[c])
<1>1. /\ conn[c].rest \in Seq(Bytes) /\ conn[c].packet \in Seq(Bytes) \cup {NULL}
      /\ conn[c].pc = "parse"
  BY FieldTypes DEF Parse, At
<1>2. PICK n \in Nat : Takes(c, n)
  BY ParseFields
<1>3. Partial(c) \in Seq(Bytes) /\ Unfinished(Partial(c))
  BY <1>1 DEF Partial, Collected, Unfinished
<1>4. CASE conn[c].rest = << >>
  <2>1. conn'[c].pc = "recv" /\ conn'[c].packet = conn[c].packet
    BY <1>2, <1>4 DEF Takes
  <2>2. QED
    BY <1>1, <2>1 DEF Collected
<1>5. CASE conn[c].rest # << >>
  <2> DEFINE t == Partial(c) \o SubSeq(conn[c].rest, 1, n)
  <2>1. /\ n > 0 /\ conn[c].rest[n] = Newline => OnePacket(t)
        /\ (n > 0 => conn[c].rest[n] # Newline) => Unfinished(t)
    BY <1>1, <1>2, <1>3, UpToNewline DEF Takes
  <2>2. conn'[c].packet = t
    BY <1>2, <1>5 DEF Takes
  <2> HIDE DEF t
  <2>3. QED
    BY <1>2, <2>1, <2>2 DEF Takes, Collected
<1>6. QED
  BY <1>4, <1>5

LEMMA ConnCollects ==
  ASSUME TypeInv, \A c \in Clients : Collected(conn[c]), "reopen" \notin Faults,
         NEW c \in Clients, Accept(c) \/ HangUp(c) \/ handle_connection(c)
  PROVE  \A d \in Clients : Collected(conn'[d])
<1> SUFFICES ASSUME ~UNCHANGED conn
             PROVE  OthersStay(c) /\ Collected(conn'[c])
  BY DEF OthersStay
<1>1. Collected(conn[c])
  OBVIOUS
<1>2. CASE \/ Accept(c) \/ HangUp(c) \/ Lock(c) \/ WritePacket(c) \/ CloseAndEnd(c)
  <2>1. \E l \in {"recv", "write", "open", "done", "ended"} :
          /\ Becomes(c, [conn[c] EXCEPT !.pc = l])
          /\ l \in {"write", "open"} => conn[c].pc \in {"lock", "write"}
          /\ l = "recv" => conn[c].pc = "none"
    BY <1>2 DEF Accept, Die, HangUp, Lock, WritePacket, CloseAndEnd, At
  <2>2. QED
    BY <1>1, <2>1, LabelFields, SomeLabels DEF Collected, SamePacket
<1>3. CASE Recv(c)
  BY <1>1, <1>3, RecvFields DEF Collected, SamePacket, Recv, At
<1>4. CASE Parse(c)
  BY <1>1, <1>4, ParseFields, ParseCollects
<1>5. CASE ParseFails(c)
  BY <1>5, ParseFailsFields DEF Collected
<1>6. CASE OpenForReply(c)
  BY <1>1, <1>6, OpenForReplyFields DEF Collected, SamePacket, OpenForReply, At
<1>7. CASE OpenForReplyFails(c)
  BY <1>7 DEF OpenForReplyFails, May
<1>8. CASE SendPiece(c)
  <2>1. up'
    BY <1>8 DEF SendPiece, Die, At, OnlyConnChanges
  <2>2. QED
    BY <1>1, <1>8, <2>1, SendPieceFields DEF Collected, SamePacket, SendPiece, At
<1>9. CASE EndReply(c)
  BY <1>9, EndReplyFields DEF Collected, Unfinished
<1>10. CASE ClientDone(c)
  BY <1>10, ClientDoneFields DEF Collected
<1>11. QED
  BY <1>2, <1>3, <1>4, <1>5, <1>6, <1>7, <1>8, <1>9, <1>10 DEF handle_connection

\* The steps that change a connection are its own.
LEMMA WhoseStep ==
  ASSUME [Next]_vars
  PROVE  \/ UNCHANGED conn
         \/ \E c \in Clients : Accept(c) \/ HangUp(c) \/ handle_connection(c)
  BY DEF Next, handle_signal, Die, Sweep, EndSweep, WakeUp, timestamp_thread, LockToStamp,
         WriteStamp, vars

LEMMA PacketsStep ==
  ASSUME TypeInv, PacketsOK, Faults \cap {"short", "reopen"} = {}, [Next]_vars
  PROVE  PacketsOK'
<1>1. \A c \in Clients : Collected(conn'[c])
  BY WhoseStep, ConnCollects DEF PacketsOK
<1>2. PiecesArePackets'
  <2>1. ~May("short") /\ file \in Seq(Pieces)
    BY DEF May, TypeInv, TypeOK
  <2>2. ASSUME NEW who, NEW d, AppendPiece(who, d), who \in Clients => OnePacket(d)
        PROVE  PiecesArePackets'
    <3> DEFINE p == [by |-> who, data |-> d]
    <3>1. /\ file' = Append(file, p) /\ p.by = who /\ p.data = d
      BY <2>2 DEF AppendPiece
    <3> HIDE DEF p
    <3>2. /\ DOMAIN file' = 1 .. Len(file) + 1 /\ file'[Len(file) + 1] = p /\ Len(file) \in Nat
          /\ DOMAIN file = 1 .. Len(file) /\ \A i \in 1 .. Len(file) : file'[i] = file[i]
      BY <2>1, <3>1
    <3>3. ASSUME NEW i \in DOMAIN file', file'[i].by \in Clients PROVE OnePacket(file'[i].data)
      <4>1. CASE i = Len(file) + 1
        BY <2>2, <3>1, <3>2, <3>3, <4>1
      <4>2. CASE i \in DOMAIN file
        BY <3>2, <3>3, <4>2 DEF PacketsOK, PiecesArePackets, OnePacket
      <4>3. QED
        BY <3>2, <4>1, <4>2
    <3>4. QED
      BY <3>3 DEF PiecesArePackets, OnePacket
  <2>3. CASE UNCHANGED file
    BY <2>3 DEF PacketsOK, PiecesArePackets
  <2>4. ASSUME NEW c \in Clients, WritePacket(c), AppendPiece(c, conn[c].packet)
        PROVE  PiecesArePackets'
    BY <2>2, <2>4 DEF WritePacket, At, PacketsOK, Collected
  <2>5. ASSUME AppendPiece(Stamper, Stamp)
        PROVE  PiecesArePackets'
    BY <2>2, <2>5, ServerAssumption
  <2>6. QED
    BY <2>1, <2>3, <2>4, <2>5, FileSteps
<1>3. QED
  BY <1>1, <1>2 DEF PacketsOK

(***************************************************************************)
(* However a stream is cut into chunks: what a connection appends to the   *)
(* file is one packet, which ends at its only newline, provided write      *)
(* takes all it is given and the file can be opened for the reply.  The    *)
(* assumption is needed: a short write appends a packet without its end,   *)
(* and after a failed open the next packet is collected behind this one.   *)
(***************************************************************************)
THEOREM PiecesAreSinglePackets ==
  ASSUME Faults \cap {"short", "reopen"} = {}
  PROVE  Spec => []PiecesArePackets
<1>1. Init => PacketsOK
  <2> SUFFICES ASSUME Init PROVE PacketsOK
    OBVIOUS
  <2>1. DOMAIN file = {} /\ \A c \in Clients : conn[c].pc = "none" /\ conn[c].packet = NULL
    BY DEF Init
  <2>2. QED
    BY <2>1 DEF PacketsOK, PiecesArePackets, Collected
<1>2. TypeInv /\ PacketsOK /\ [Next]_vars => (TypeInv /\ PacketsOK)'
  BY TypeStep, PacketsStep
<1>3. PacketsOK => PiecesArePackets
  BY DEF PacketsOK
<1>4. QED
  BY TypeInit, <1>1, <1>2, <1>3, PTL DEF Spec
-----------------------------------------------------------------------------
(***************************************************************************)
(* The flag and the sweep                                                  *)
(***************************************************************************)
\* Who has sent something has a packet_buf, or will have after the loop over buf;
\* and past client_done the flag says whether there is one.
FlagOK(s) ==
  /\ s.got > 0 => s.packet # NULL \/ (s.pc = "parse" /\ s.rest # << >>)
  /\ s.pc \in {"close", "ended"} => s.thread_complete_success = (s.packet # NULL)

FlagsOK == \A c \in Clients : FlagOK(conn[c])

LEMMA ParseKeepsPacket ==
  ASSUME TypeInv, NEW c \in Clients, FlagOK(conn[c]), Parse(c)
  PROVE  FlagOK(conn'[c])
<1>1. /\ conn[c].rest \in Seq(Bytes) /\ conn[c].packet \in Seq(Bytes) \cup {NULL}
      /\ conn[c].pc = "parse" /\ Len(conn[c].rest) \in Nat
  BY FieldTypes DEF Parse, At
<1>2. PICK n \in Nat : Takes(c, n)
  BY ParseFields
<1>3. conn'[c].pc \in {"recv", "lock"} /\ conn'[c].got = conn[c].got
  BY <1>2, ParseFields DEF Takes
<1>4. CASE conn[c].rest = << >>
  <2>1. conn'[c].packet = conn[c].packet
    BY <1>2, <1>4 DEF Takes
  <2>2. QED
    BY <1>3, <1>4, <2>1 DEF FlagOK
<1>5. CASE conn[c].rest # << >>
  <2>1. Partial(c) \in Seq(Bytes) /\ SubSeq(conn[c].rest, 1, n) \in Seq(Bytes)
    BY <1>1, <1>2 DEF Partial, Takes
  <2>2. Partial(c) \o SubSeq(conn[c].rest, 1, n) \in Seq(Bytes)
    BY <2>1
  <2>3. conn'[c].packet \in Seq(Bytes)
    BY <1>2, <1>5, <2>2 DEF Takes
  <2>4. QED
    BY <1>3, <2>3, ServerAssumption DEF FlagOK
<1>6. QED
  BY <1>4, <1>5

LEMMA ConnFlags ==
  ASSUME TypeInv, FlagsOK, "realloc" \notin Faults,
         NEW c \in Clients, Accept(c) \/ HangUp(c) \/ handle_connection(c)
  PROVE  FlagsOK'
<1> SUFFICES ASSUME ~UNCHANGED conn
             PROVE  OthersStay(c) /\ FlagOK(conn'[c])
  BY DEF OthersStay, FlagsOK
<1>1. FlagOK(conn[c]) /\ HasPacket(conn[c]) /\ conn[c].got \in Nat
  BY FieldTypes DEF FlagsOK
<1>2. CASE \/ Accept(c) \/ HangUp(c) \/ Lock(c) \/ WritePacket(c) \/ CloseAndEnd(c)
  <2>1. \E l \in {"recv", "write", "open", "done", "ended"} :
          /\ Becomes(c, [conn[c] EXCEPT !.pc = l])
          /\ l = "ended" => conn[c].pc = "close"
          /\ conn[c].pc # "parse"
    BY <1>2 DEF Accept, Die, HangUp, Lock, WritePacket, CloseAndEnd, At
  <2>2. QED
    BY <1>1, <2>1, LabelFields, SomeLabels DEF FlagOK, SameInput, SamePacket, SameFlag
<1>3. CASE Recv(c)
  <2>1. Stream[c] \in Seq(Bytes)
    BY ServerAssumption
  <2>2. /\ conn'[c].got \in conn[c].got + 1 .. Len(Stream[c])
        /\ conn'[c].rest = SubSeq(Stream[c], conn[c].got + 1, conn'[c].got)
    BY <1>3, RecvFields
  <2>3. conn'[c].rest # << >>
    <3> DEFINE g == conn[c].got
               u == conn'[c].got
    <3>1. g \in Nat /\ u \in g + 1 .. Len(Stream[c]) /\ conn'[c].rest = SubSeq(Stream[c], g + 1, u)
      BY <1>1, <2>2
    <3> HIDE DEF g, u
    <3>2. PICK n \in Nat \ {0} : u = g + n /\ g + n <= Len(Stream[c])
      <4>1. u = g + (u - g) /\ u - g \in Nat \ {0} /\ u <= Len(Stream[c])
        BY <2>1, <3>1
      <4>2. QED
        BY <4>1
    <3>3. conn'[c].rest = SubSeq(Stream[c], g + 1, g + n)
      BY <3>1, <3>2
    <3>4. Len(conn'[c].rest) = n
      BY <2>1, <3>1, <3>2, <3>3, SliceElements
    <3>5. QED
      BY <3>2, <3>4
  <2>4. QED
    BY <1>3, <2>3, RecvFields DEF FlagOK
<1>4. CASE Parse(c)
  BY <1>1, <1>4, ParseFields, ParseKeepsPacket
<1>5. CASE ParseFails(c)
  BY <1>5 DEF ParseFails, May
<1>6. CASE OpenForReply(c)
  BY <1>1, <1>6, OpenForReplyFields DEF FlagOK, HasPacket, SamePacket, OpenForReply, At
<1>7. CASE OpenForReplyFails(c)
  BY <1>1, <1>7, OpenForReplyFailsFields
     DEF FlagOK, HasPacket, SamePacket, OpenForReplyFails, At
<1>8. CASE SendPiece(c)
  <2>1. up'
    BY <1>8 DEF SendPiece, Die, At, OnlyConnChanges
  <2>2. QED
    BY <1>1, <1>8, <2>1, SendPieceFields DEF FlagOK, HasPacket, SamePacket, SendPiece, At
<1>9. CASE EndReply(c)
  <2>1. << >> # NULL
    <3>1. << >> \in Seq(Bytes)
      OBVIOUS
    <3>2. QED
      BY <3>1, ServerAssumption
  <2>2. QED
    BY <1>9, <2>1, EndReplyFields DEF FlagOK
<1>10. CASE ClientDone(c)
  <2>1. conn[c].pc = "done" /\ conn'[c].pc = "close" /\ OthersStay(c)
    BY <1>10, ClientDoneFields DEF ClientDone, At
  <2>2. /\ conn'[c].thread_complete_success = (conn[c].packet # NULL)
        /\ conn'[c].packet = conn[c].packet /\ conn'[c].got = conn[c].got
    BY <1>10, ClientDoneFields DEF SameInput, SamePacket
  <2>3. conn'[c].thread_complete_success = (conn'[c].packet # NULL)
    BY <2>2, Zenon
  <2>4. conn'[c].got > 0 => conn'[c].packet # NULL
    BY <1>1, <2>1, <2>2 DEF FlagOK
  <2>5. QED
    BY <2>1, <2>3, <2>4, Zenon DEF FlagOK
<1>11. QED
  BY <1>2, <1>3, <1>4, <1>5, <1>6, <1>7, <1>8, <1>9, <1>10 DEF handle_connection

LEMMA FlagsStep ==
  ASSUME TypeInv, FlagsOK, "realloc" \notin Faults, [Next]_vars
  PROVE  FlagsOK'
<1>1. CASE UNCHANGED conn
  BY <1>1 DEF FlagsOK
<1>2. QED
  BY <1>1, WhoseStep, ConnFlags

(***************************************************************************)
(* For any number of connections: a sweep never passes over a thread that  *)
(* has ended if its client has sent something.  Without the assumption it  *)
(* may: a thread whose realloc fails frees its packet_buf and ends without *)
(* setting the flag.                                                       *)
(***************************************************************************)
THEOREM SweepFreesThem ==
  ASSUME "realloc" \notin Faults
  PROVE  Spec => SweepFreesThoseWhoSent
<1>1. Init => FlagsOK
  <2> SUFFICES ASSUME Init PROVE FlagsOK
    OBVIOUS
  <2>1. \A c \in Clients : conn[c].pc = "none" /\ conn[c].got = 0
    BY DEF Init
  <2>2. QED
    BY <2>1 DEF FlagsOK, FlagOK
<1>2. TypeInv /\ FlagsOK /\ [Next]_vars => (TypeInv /\ FlagsOK)'
  BY TypeStep, FlagsStep
<1>3. TypeInv /\ FlagsOK /\ [Next]_vars =>
        [\A c \in Clients : Passed(c) /\ conn[c].got > 0 => conn[c].pc # "ended"]_vars
  <2> SUFFICES ASSUME TypeInv, FlagsOK, NEW c \in Clients, Passed(c), conn[c].got > 0,
                      conn[c].pc = "ended"
               PROVE  FALSE
    OBVIOUS
  <2>1. conn[c].thread_complete_success
    <3>1. conn[c].packet # NULL
      BY DEF FlagsOK, FlagOK
    <3>2. conn[c].thread_complete_success = (conn[c].packet # NULL)
      BY DEF FlagsOK, FlagOK
    <3>3. QED
      BY <3>1, <3>2, Zenon
  <2>2. c \in freed'
    BY <2>1 DEF Passed, Sweep, Flagged
  <2>3. QED
    BY <2>2 DEF Passed
<1>4. QED
  BY TypeInit, <1>1, <1>2, <1>3, PTL DEF Spec, SweepFreesThoseWhoSent
-----------------------------------------------------------------------------
(***************************************************************************)
(* Every byte once                                                         *)
(***************************************************************************)
\* What connection c has collected and not written yet.
InHand(s) == IF s.pc \in {"open", "send"} \/ s.packet = NULL THEN << >> ELSE s.packet

BytesOK(c) ==
  /\ conn[c].got <= Len(Stream[c])
  /\ conn[c].pc \in {"none", "recv"} => conn[c].rest = << >>
  /\ SubSeq(Stream[c], 1, conn[c].got)
       = (WrittenBy(c) \o InHand(conn[c])) \o conn[c].rest

LEMMA InHandType ==
  ASSUME TypeInv, NEW c \in Clients
  PROVE  InHand(conn[c]) \in Seq(Bytes) /\ InHand(conn[c]) =
           IF conn[c].pc \notin {"open", "send"} THEN Partial(c) ELSE << >>
<1>1. << >> \in Seq(Bytes)
  OBVIOUS
<1>2. QED
  BY <1>1, FieldTypes DEF InHand, Partial

\* What each has written, when a piece is appended.
LEMMA WrittenByGrows ==
  ASSUME file \in Seq(Pieces), NEW c
  PROVE  /\ WrittenBy(c) \in Seq(Bytes)
         /\ \A who \in Clients \cup {Stamper}, d \in Seq(Bytes) :
              AppendPiece(who, d) =>
                WrittenBy(c)' = WrittenBy(c) \o (IF who = c THEN d ELSE << >>)
<1> DEFINE own(f) == [i \in DOMAIN f |-> IF f[i].by = c THEN f[i].data ELSE << >>]
<1>1. own(file) \in Seq(Seq(Bytes))
  <2>1. << >> \in Seq(Bytes) /\ \A i \in DOMAIN file : file[i] \in Pieces
    OBVIOUS
  <2>2. \A i \in DOMAIN file : file[i].data \in Seq(Bytes)
    BY <2>1 DEF Pieces
  <2> DEFINE T == Seq(Bytes)
  <2>3. \A i \in DOMAIN file : own(file)[i] \in T
    BY <2>1, <2>2
  <2>4. DOMAIN file = 1 .. Len(file) /\ Len(file) \in Nat
    OBVIOUS
  <2> HIDE DEF T
  <2>5. own(file) \in Seq(T)
    BY <2>3, <2>4
  <2>6. QED
    BY <2>5 DEF T
<1>2. WrittenBy(c) = FlattenSeq(own(file)) /\ WrittenBy(c)' = FlattenSeq(own(file'))
  BY DEF WrittenBy
<1>3. ASSUME NEW who \in Clients \cup {Stamper}, NEW d \in Seq(Bytes), AppendPiece(who, d)
      PROVE  own(file') = Append(own(file), IF who = c THEN d ELSE << >>)
  <2> DEFINE p == [by |-> who, data |-> d]
             x == IF who = c THEN d ELSE << >>
  <2>1. file' = Append(file, p) /\ p.by = who /\ p.data = d
    BY <1>3 DEF AppendPiece
  <2> HIDE DEF p
  <2>2. /\ DOMAIN file' = 1 .. Len(file) + 1 /\ file'[Len(file) + 1] = p /\ Len(file) \in Nat
        /\ DOMAIN file = 1 .. Len(file) /\ \A i \in 1 .. Len(file) : file'[i] = file[i]
    BY <2>1
  <2>3. IF file'[Len(file) + 1].by = c THEN file'[Len(file) + 1].data = x ELSE << >> = x
    BY <2>1, <2>2
  <2> HIDE DEF x
  <2>4. /\ Len(own(file)) = Len(file) /\ own(file) = [i \in 1 .. Len(file) |-> own(file)[i]]
    BY <2>2
  <2>5. \A i \in 1 .. Len(file) + 1 : own(file')[i] = IF i <= Len(file) THEN own(file)[i] ELSE x
    BY <2>2, <2>3
  <2>6. own(file') = [i \in 1 .. Len(file) + 1 |-> own(file')[i]]
    BY <2>2
  <2> DEFINE a == own(file)
             b == own(file')
  <2> HIDE DEF own
  <2>7. /\ a \in Seq(Seq(Bytes)) /\ Len(a) = Len(file)
        /\ b = [i \in 1 .. Len(file) + 1 |-> IF i <= Len(file) THEN a[i] ELSE x]
    BY <1>1, <2>4, <2>5, <2>6
  <2> HIDE DEF a, b
  <2>8. b = Append(a, x)
    <3> DEFINE T == Seq(Bytes)
    <3>1. a \in Seq(T) /\ x \in T
      BY <2>7 DEF x
    <3> HIDE DEF T
    <3>2. QED
      BY <2>7, <3>1, AppendIs
  <2>9. QED
    BY <2>8 DEF a, b, x
<1>4. << >> \in Seq(Bytes)
  OBVIOUS
<1> HIDE DEF own
<1>5. FlattenSeq(own(file)) \in Seq(Bytes)
  BY <1>1, <1>4, FlattenAppend
<1>6. ASSUME NEW who \in Clients \cup {Stamper}, NEW d \in Seq(Bytes), AppendPiece(who, d)
      PROVE  FlattenSeq(own(file')) = FlattenSeq(own(file)) \o (IF who = c THEN d ELSE << >>)
  <2> DEFINE x == IF who = c THEN d ELSE << >>
  <2>1. x \in Seq(Bytes)
    BY <1>4
  <2>2. own(file') = Append(own(file), x)
    BY <1>3, <1>6
  <2> HIDE DEF x
  <2>3. FlattenSeq(own(file')) = FlattenSeq(own(file)) \o x
    BY <1>1, <2>1, <2>2, FlattenAppend
  <2>4. QED
    BY <2>3 DEF x
<1>7. QED
  BY <1>2, <1>5, <1>6

\* A step of connection c that does not write, and after which the bytes in its
\* hands and in buf are the same.
LEMMA SameBytes ==
  ASSUME NEW c \in Clients, BytesOK(c), UNCHANGED file,
         InHand(conn'[c]) = InHand(conn[c]), SameInput(c),
         conn'[c].pc \in {"none", "recv"} => conn[c].pc \in {"none", "recv"}
  PROVE  BytesOK(c)'
  BY DEF BytesOK, SameInput, WrittenBy

LEMMA RecvBytes ==
  ASSUME TypeInv, NEW c \in Clients, BytesOK(c), Recv(c)
  PROVE  BytesOK(c)'
<1> DEFINE g == conn[c].got
           u == conn'[c].got
           h == WrittenBy(c) \o InHand(conn[c])
<1>1. /\ Stream[c] \in Seq(Bytes) /\ g \in Nat /\ file \in Seq(Pieces)
      /\ conn[c].pc = "recv"
  BY ServerAssumption, FieldTypes DEF Recv, At, TypeInv, TypeOK
<1>2. u \in g + 1 .. Len(Stream[c]) /\ conn'[c].rest = SubSeq(Stream[c], g + 1, u)
      /\ conn'[c].pc = "parse"
  BY RecvFields
<1>3. WrittenBy(c)' = WrittenBy(c)
  BY DEF Recv, OnlyConnChanges, WrittenBy
<1>4. InHand(conn'[c]) = InHand(conn[c])
  BY <1>1, <1>2, RecvFields DEF InHand, SamePacket
<1>5. h \in Seq(Bytes)
  <2>1. WrittenBy(c) \in Seq(Bytes) /\ InHand(conn[c]) \in Seq(Bytes)
    BY <1>1, WrittenByGrows, InHandType
  <2>2. QED
    BY <2>1
<1>6. SubSeq(Stream[c], 1, g) = h
  <2>1. SubSeq(Stream[c], 1, g) = h \o << >>
    BY <1>1 DEF BytesOK
  <2> HIDE DEF h
  <2>2. h \o << >> = h
    BY <1>5
  <2>3. QED
    BY <2>1, <2>2
<1>7. SubSeq(Stream[c], 1, u) = SubSeq(Stream[c], 1, g) \o SubSeq(Stream[c], g + 1, u)
  <2>1. Len(Stream[c]) \in Nat
    BY <1>1
  <2> HIDE DEF g, u
  <2>2. u \in 0 .. Len(Stream[c]) /\ g \in 0 .. u
    BY <1>1, <1>2, <2>1
  <2>3. QED
    BY <1>1, <2>2, SplitAt
<1>8. u <= Len(Stream[c])
  BY <1>1, <1>2
<1>9. SubSeq(Stream[c], 1, u) = (WrittenBy(c)' \o InHand(conn'[c])) \o conn'[c].rest
  BY <1>2, <1>3, <1>4, <1>6, <1>7
<1>10. QED
  BY <1>2, <1>8, <1>9 DEF BytesOK

LEMMA ParseBytes ==
  ASSUME TypeInv, NEW c \in Clients, BytesOK(c), Parse(c)
  PROVE  BytesOK(c)'
<1> DEFINE w    == WrittenBy(c)
           p    == InHand(conn[c])
           rest == conn[c].rest
<1>1. /\ rest \in Seq(Bytes) /\ Len(rest) \in Nat /\ file \in Seq(Pieces)
      /\ conn[c].pc = "parse" /\ p = Partial(c) /\ p \in Seq(Bytes)
      /\ conn[c].packet \in Seq(Bytes) \cup {NULL}
  BY FieldTypes, InHandType DEF Parse, At, TypeInv, TypeOK
<1>2. PICK n \in Nat : Takes(c, n)
  BY ParseFields
<1> DEFINE a == SubSeq(rest, 1, n)
           b == SubSeq(rest, n + 1, Len(rest))
<1>3. /\ conn'[c].rest = b /\ conn'[c].pc \in {"recv", "lock"} /\ conn'[c].got = conn[c].got
      /\ conn'[c].pc = "recv" => n = Len(rest)
      /\ n \in 0 .. Len(rest)
  BY <1>2, ParseFields DEF Takes
<1>4. a \in Seq(Bytes) /\ b \in Seq(Bytes) /\ (n = Len(rest) => b = << >>)
  BY <1>1, <1>3
<1>5. rest = a \o b
  <2>1. SubSeq(rest, 1, Len(rest)) = rest
    BY <1>1
  <2>2. Len(rest) \in 0 .. Len(rest) /\ n \in 0 .. Len(rest)
    BY <1>1, <1>3
  <2>3. SubSeq(rest, 1, Len(rest)) = a \o b
    <3> HIDE DEF rest
    <3>1. QED
      BY <1>1, <2>2, SplitAt
  <2>4. QED
    BY <2>1, <2>3
<1>6. w \in Seq(Bytes) /\ WrittenBy(c)' = w
  BY <1>1, WrittenByGrows DEF Parse, OnlyConnChanges, WrittenBy
<1>7. SubSeq(Stream[c], 1, conn[c].got) = (w \o p) \o rest /\ conn[c].got <= Len(Stream[c])
  BY DEF BytesOK
<1>8. InHand(conn'[c]) = IF rest = << >> THEN p ELSE p \o a
  <2>1. rest = << >> => conn'[c].packet = conn[c].packet
    BY <1>2 DEF Takes
  <2>2. rest # << >> => conn'[c].packet = p \o a
    BY <1>1, <1>2 DEF Takes
  <2>3. p \o a \in Seq(Bytes)
    <3> HIDE DEF p, a
    <3>1. QED
      BY <1>1, <1>4
  <2>4. p \o a # NULL
    BY <2>3, ServerAssumption
  <2>5. QED
    BY <1>1, <1>3, <2>1, <2>2, <2>4 DEF InHand
<1>9. (w \o p) \o rest = (w \o InHand(conn'[c])) \o b
  <2>1. CASE rest = << >>
    <3>1. b = << >>
      BY <1>3, <2>1
    <3>2. QED
      BY <1>8, <2>1, <3>1
  <2>2. CASE rest # << >>
    <3>1. w \in Seq(Bytes) /\ p \in Seq(Bytes) /\ a \in Seq(Bytes) /\ b \in Seq(Bytes)
      BY <1>1, <1>4, <1>6
    <3> HIDE DEF w, p, a, b, rest
    <3>2. Cat(Cat(w, p), Cat(a, b)) = Cat(Cat(w, Cat(p, a)), b)
      BY <3>1, Regroup
    <3>3. QED
      BY <1>5, <1>8, <2>2, <3>2 DEF Cat
  <2>3. QED
    BY <2>1, <2>2
<1>10. conn'[c].pc \in {"none", "recv"} => conn'[c].rest = << >>
  BY <1>3, <1>4
<1>11. SubSeq(Stream[c], 1, conn'[c].got) = (WrittenBy(c)' \o InHand(conn'[c])) \o conn'[c].rest
  BY <1>3, <1>6, <1>7, <1>9
<1>12. conn'[c].got <= Len(Stream[c])
  BY <1>3, <1>7
<1>13. QED
  BY <1>10, <1>11, <1>12 DEF BytesOK

\* The packet is in the file, and in nobody's hands.
LEMMA WriteBytes ==
  ASSUME TypeInv, NEW c \in Clients, BytesOK(c), WritePacket(c),
         Faults \cap {"short", "open", "write"} = {}
  PROVE  BytesOK(c)'
<1>1. /\ conn[c].pc = "write" /\ conn[c].packet \in Seq(Bytes) /\ conn[c].packet # NULL
      /\ file \in Seq(Pieces)
  BY FieldTypes DEF WritePacket, At, HasPacket, TypeInv, TypeOK
<1>2. AppendPiece(c, conn[c].packet)
  BY DEF WritePacket, WriteReturns0, WriteReturnsError, May
<1>3. conn'[c].pc = "open" /\ SameInput(c)
  BY LabelFields, SomeLabels DEF WritePacket
<1>4. InHand(conn[c]) = conn[c].packet /\ InHand(conn'[c]) = << >>
  BY <1>1, <1>3 DEF InHand
<1>5. WrittenBy(c)' = WrittenBy(c) \o conn[c].packet /\ WrittenBy(c)' \in Seq(Bytes)
  <2>1. WrittenBy(c) \in Seq(Bytes) /\ WrittenBy(c)' = WrittenBy(c) \o conn[c].packet
    BY <1>1, <1>2, WrittenByGrows
  <2>2. QED
    BY <1>1, <2>1
<1>6. WrittenBy(c)' \o InHand(conn'[c]) = WrittenBy(c) \o InHand(conn[c])
  BY <1>4, <1>5
<1>7. QED
  BY <1>3, <1>6 DEF BytesOK, SameInput

\* What others write is not c's.
LEMMA OthersWrite ==
  ASSUME TypeInv, [Next]_vars, NEW c \in Clients, BytesOK(c), ~WritePacket(c),
         conn'[c] = conn[c]
  PROVE  BytesOK(c)'
<1>1. WrittenBy(c)' = WrittenBy(c)
  <2>1. CASE UNCHANGED file
    BY <2>1 DEF WrittenBy
  <2>2. CASE \E who \in Clients \cup {Stamper}, d \in Seq(Bytes) :
               who # c /\ AppendPiece(who, d)
    <3>1. /\ WrittenBy(c) \in Seq(Bytes)
          /\ WrittenBy(c)' = WrittenBy(c) \o << >>
      BY <2>2, WrittenByGrows DEF TypeInv, TypeOK
    <3>2. QED
      BY <3>1
  <2>3. QED
    BY <2>1, <2>2, FileSteps, ServerAssumption
<1>2. QED
  BY <1>1 DEF BytesOK

LEMMA ConnBytes ==
  ASSUME TypeInv, NEW c \in Clients, BytesOK(c), ~UNCHANGED conn,
         Faults \cap {"short", "open", "write", "reopen", "realloc"} = {},
         Accept(c) \/ HangUp(c) \/ handle_connection(c)
  PROVE  OthersStay(c) /\ BytesOK(c)'
<1>1. HasPacket(conn[c])
  BY FieldTypes
<1>2. ASSUME NEW l \in {"recv", "write", "done", "ended"}, UNCHANGED file,
             Becomes(c, [conn[c] EXCEPT !.pc = l]),
             l = "recv" => conn[c].pc = "none", conn[c].pc \notin {"open", "send"}
      PROVE  OthersStay(c) /\ BytesOK(c)'
  <2>1. OthersStay(c) /\ conn'[c].pc = l /\ SameInput(c) /\ SamePacket(c)
    BY <1>2, LabelFields, SomeLabels
  <2>2. InHand(conn'[c]) = InHand(conn[c])
    BY <1>2, <2>1 DEF InHand, SamePacket
  <2>3. QED
    BY <1>2, <2>1, <2>2, SameBytes
<1>3. CASE Accept(c)
  BY <1>2, <1>3 DEF Accept, Die
<1>4. CASE HangUp(c)
  <2>1. UNCHANGED file /\ conn[c].pc = "recv" /\ Becomes(c, [conn[c] EXCEPT !.pc = "done"])
    BY <1>4 DEF HangUp, At, OnlyConnChanges
  <2>2. QED
    BY <1>2, <2>1
<1>5. CASE CloseAndEnd(c)
  BY <1>2, <1>5 DEF CloseAndEnd, At, OnlyConnChanges
<1>6. CASE Lock(c)
  BY <1>2, <1>6 DEF Lock, At
<1>7. CASE WritePacket(c)
  BY <1>7, WriteBytes, LabelFields, SomeLabels DEF WritePacket
<1>8. CASE Recv(c)
  BY <1>8, RecvFields, RecvBytes
<1>9. CASE Parse(c)
  BY <1>9, ParseFields, ParseBytes
<1>10. CASE ParseFails(c)
  BY <1>10 DEF ParseFails, May
<1>11. CASE OpenForReply(c)
  <2>1. UNCHANGED file /\ conn[c].pc = "open"
    BY <1>11 DEF OpenForReply, At, OnlyConnChanges
  <2>2. OthersStay(c) /\ conn'[c].pc = "send" /\ SameInput(c)
    BY <1>11, OpenForReplyFields
  <2>3. InHand(conn'[c]) = InHand(conn[c])
    BY <2>1, <2>2 DEF InHand
  <2>4. QED
    BY <2>1, <2>2, <2>3, SameBytes
<1>12. CASE OpenForReplyFails(c)
  BY <1>12 DEF OpenForReplyFails, May
<1>13. CASE SendPiece(c)
  <2>1. up' /\ UNCHANGED file /\ conn[c].pc = "send"
    BY <1>13 DEF SendPiece, Die, At, OnlyConnChanges
  <2>2. OthersStay(c) /\ conn'[c].pc = "send" /\ SameInput(c)
    BY <1>13, <2>1, SendPieceFields
  <2>3. InHand(conn'[c]) = InHand(conn[c])
    BY <2>1, <2>2 DEF InHand
  <2>4. QED
    BY <2>1, <2>2, <2>3, SameBytes
<1>14. CASE EndReply(c)
  <2>1. UNCHANGED file /\ conn[c].pc = "send"
    BY <1>14 DEF EndReply, At
  <2>2. OthersStay(c) /\ conn'[c].pc = "parse" /\ conn'[c].packet = << >> /\ SameInput(c)
    BY <1>14, EndReplyFields
  <2>3. InHand(conn'[c]) = InHand(conn[c])
    BY <2>1, <2>2 DEF InHand
  <2>4. QED
    BY <2>1, <2>2, <2>3, SameBytes
<1>15. CASE ClientDone(c)
  <2>1. UNCHANGED file /\ conn[c].pc = "done"
    BY <1>15 DEF ClientDone, At, OnlyConnChanges
  <2>2. OthersStay(c) /\ conn'[c].pc = "close" /\ SameInput(c) /\ SamePacket(c)
    BY <1>15, ClientDoneFields
  <2>3. InHand(conn'[c]) = InHand(conn[c])
    BY <2>1, <2>2 DEF InHand, SamePacket
  <2>4. QED
    BY <2>1, <2>2, <2>3, SameBytes
<1>16. QED
  BY <1>3, <1>4, <1>5, <1>6, <1>7, <1>8, <1>9, <1>10, <1>11, <1>12, <1>13, <1>14, <1>15
     DEF handle_connection

LEMMA BytesStep ==
  ASSUME TypeInv, \A c \in Clients : BytesOK(c), [Next]_vars,
         Faults \cap {"short", "open", "write", "reopen", "realloc"} = {}
  PROVE  \A c \in Clients : BytesOK(c)'
<1> SUFFICES ASSUME NEW c \in Clients PROVE BytesOK(c)'
  OBVIOUS
<1>1. \A d \in Clients : WritePacket(d) => conn'[d].pc = "open" /\ conn[d].pc = "write"
  BY LabelFields, SomeLabels DEF WritePacket, At
<1>2. CASE UNCHANGED conn
  BY <1>1, <1>2, OthersWrite
<1>3. CASE ~UNCHANGED conn
  <2>1. PICK d \in Clients : Accept(d) \/ HangUp(d) \/ handle_connection(d)
    BY <1>3, WhoseStep
  <2>2. OthersStay(d) /\ BytesOK(d)'
    BY <1>3, <2>1, ConnBytes
  <2>3. CASE c # d
    <3>1. conn'[c] = conn[c]
      BY <2>2, <2>3 DEF OthersStay
    <3>2. QED
      BY <1>1, <3>1, OthersWrite
  <2>4. QED
    BY <2>2, <2>3
<1>4. QED
  BY <1>2, <1>3

(***************************************************************************)
(* However chunks and packets overlap, and whoever else writes: as long as *)
(* write_to_file appends all it is given, the file can be opened for the   *)
(* reply and realloc works, every byte that recv returned to a thread is,  *)
(* in order and once, in the file, in packet_buf or in buf.  An error of   *)
(* fsync, read, send or pthread_create does not change that.  Each of the  *)
(* five assumptions is needed: the code goes on after the failure, without *)
(* the bytes or with the bytes twice.                                      *)
(***************************************************************************)
THEOREM BytesOnce ==
  ASSUME Faults \cap {"short", "open", "write", "reopen", "realloc"} = {}
  PROVE  Spec => []EveryByteOnce
<1> DEFINE BytesInv == \A c \in Clients : BytesOK(c)
<1>1. Init => BytesInv
  <2> SUFFICES ASSUME Init, NEW c \in Clients PROVE BytesOK(c)
    OBVIOUS
  <2>1. file = << >> /\ conn[c].got = 0 /\ conn[c].rest = << >> /\ conn[c].packet = NULL
    BY DEF Init
  <2>2. Stream[c] \in Seq(Bytes) /\ Len(Stream[c]) \in Nat
    BY ServerAssumption
  <2>3. WrittenBy(c) = << >>
    <3> DEFINE own == [i \in DOMAIN file |-> IF file[i].by = c THEN file[i].data ELSE << >>]
    <3>1. own = << >>
      BY <2>1
    <3>2. WrittenBy(c) = FlattenSeq(own)
      BY DEF WrittenBy
    <3> HIDE DEF own
    <3>3. QED
      BY <3>1, <3>2, FlattenEmpty
  <2>4. InHand(conn[c]) = << >>
    BY <2>1 DEF InHand
  <2>5. SubSeq(Stream[c], 1, 0) = (<< >> \o << >>) \o << >>
    BY <2>2
  <2>6. QED
    BY <2>1, <2>2, <2>3, <2>4, <2>5 DEF BytesOK
<1>2. TypeInv /\ BytesInv /\ [Next]_vars => (TypeInv /\ BytesInv)'
  <2> SUFFICES ASSUME TypeInv, BytesInv, [Next]_vars PROVE TypeInv' /\ BytesInv'
    OBVIOUS
  <2>1. TypeInv'
    BY TypeStep
  <2>2. \A c \in Clients : BytesOK(c)'
    BY BytesStep
  <2>3. QED
    BY <2>1, <2>2
<1>3. TypeInv /\ BytesInv => EveryByteOnce
  <2> SUFFICES ASSUME TypeInv, BytesInv PROVE EveryByteOnce
    OBVIOUS
  <2>1. ASSUME NEW c \in Clients
        PROVE  SubSeq(Stream[c], 1, conn[c].got)
                 = (WrittenBy(c) \o (IF conn[c].pc \notin {"open", "send"} THEN Partial(c)
                                     ELSE << >>)) \o conn[c].rest
    BY InHandType DEF BytesOK
  <2>2. QED
    BY <2>1 DEF EveryByteOnce
<1> HIDE DEF BytesInv
<1>4. QED
  BY TypeInit, <1>1, <1>2, <1>3, PTL DEF Spec
-----------------------------------------------------------------------------
(***************************************************************************)
(* A reply is the file                                                     *)
(***************************************************************************)
Datas == [i \in DOMAIN file |-> file[i].data]

\* The reply so far is the first pieces of the file, and the packet that is being
\* answered is its last piece.
ReplyOK(c) ==
  /\ conn[c].pc = "send" =>
       /\ conn[c].offset \in 0 .. Len(file)
       /\ conn[c].sent = FlattenSeq(SubSeq(Datas, 1, conn[c].offset))
  /\ conn[c].pc \in {"open", "send"} =>
       Len(file) > 0 /\ file[Len(file)].data = conn[c].packet

RepliesOK == \A c \in Clients : ReplyOK(c)

LEMMA DatasType ==
  ASSUME TypeInv
  PROVE  /\ Datas \in Seq(Seq(Bytes)) /\ Len(Datas) = Len(file) /\ Len(file) \in Nat
         /\ \A i \in 1 .. Len(file) : Datas[i] = file[i].data
<1> DEFINE T == Seq(Bytes)
<1>1. \A i \in DOMAIN file : file[i].data \in T
  <2>1. \A i \in DOMAIN file : file[i] \in Pieces
    BY DEF TypeInv, TypeOK
  <2>2. QED
    BY <2>1 DEF Pieces
<1>2. DOMAIN file = 1 .. Len(file) /\ Len(file) \in Nat
  BY DEF TypeInv, TypeOK
<1> HIDE DEF T
<1>3. Datas \in Seq(T) /\ Len(Datas) = Len(file)
  BY <1>1, <1>2 DEF Datas
<1>4. QED
  BY <1>2, <1>3 DEF Datas, T

\* A step that leaves the file alone, and after which c is not in its reply or
\* where it was.
LEMMA SameReplies ==
  ASSUME NEW c \in Clients, ReplyOK(c), UNCHANGED file,
         \/ conn'[c].pc \notin {"open", "send"}
         \/ conn'[c].pc = conn[c].pc /\ SamePacket(c) /\ SameReply(c)
  PROVE  ReplyOK(c)'
  BY DEF ReplyOK, Datas, SamePacket, SameReply

\* The packet is written: nobody else is in a reply, and c is about to be.
LEMMA WriteReply ==
  ASSUME TypeInv, MutualExclusion, RepliesOK, NEW c \in Clients, WritePacket(c),
         Faults \cap {"open", "write", "sync", "short"} = {}
  PROVE  RepliesOK'
<1>1. conn[c].pc = "write" /\ AppendPiece(c, conn[c].packet)
  BY DEF WritePacket, At, WriteReturns0, WriteReturnsError, May
<1>2. OthersStay(c) /\ conn'[c].pc = "open" /\ conn'[c].packet = conn[c].packet
  BY LabelFields, SomeLabels DEF WritePacket, SamePacket
<1>3. \A d \in Clients : d # c => conn[d].pc \notin {"open", "send"}
  BY <1>1, ServerAssumption DEF MutualExclusion, InSection
<1>4. Len(file') > 0 /\ file'[Len(file')].data = conn[c].packet
  <2> DEFINE p == [by |-> c, data |-> conn[c].packet]
  <2>1. file' = Append(file, p) /\ p.data = conn[c].packet
    BY <1>1 DEF AppendPiece
  <2> HIDE DEF p
  <2>2. Len(file') = Len(file) + 1 /\ file'[Len(file) + 1] = p /\ Len(file) \in Nat
    BY <2>1 DEF TypeInv, TypeOK
  <2>3. QED
    BY <2>1, <2>2
<1>5. QED
  BY <1>2, <1>3, <1>4 DEF RepliesOK, ReplyOK, OthersStay

LEMMA SendReply ==
  ASSUME TypeInv, NEW c \in Clients, ReplyOK(c), SendPiece(c), up'
  PROVE  ReplyOK(c)'
<1> DEFINE k == conn[c].offset
<1>1. /\ UNCHANGED file /\ conn[c].pc = "send" /\ conn'[c].pc = "send"
      /\ conn'[c].offset = k + 1 /\ k \in Nat /\ k + 1 \in DOMAIN file
      /\ conn'[c].sent = conn[c].sent \o file[k + 1].data
      /\ conn'[c].packet = conn[c].packet
  BY SendPieceFields, FieldTypes DEF SendPiece, At, OnlyConnChanges, SamePacket
<1>2. k \in 0 .. Len(Datas) - 1 /\ k + 1 \in 0 .. Len(file)
  BY <1>1, DatasType DEF TypeInv, TypeOK
<1> HIDE DEF k
<1>3. FlattenSeq(SubSeq(Datas, 1, k + 1)) = FlattenSeq(SubSeq(Datas, 1, k)) \o Datas[k + 1]
  BY <1>2, DatasType, FlattenFirst
<1>4. conn[c].sent = FlattenSeq(SubSeq(Datas, 1, k)) /\ Datas[k + 1] = file[k + 1].data
  BY <1>1 DEF ReplyOK, k, Datas
<1>5. conn'[c].sent = FlattenSeq(SubSeq(Datas, 1, k + 1))
  BY <1>1, <1>3, <1>4
<1>6. Datas' = Datas
  BY <1>1 DEF Datas
<1>7. QED
  BY <1>1, <1>2, <1>5, <1>6 DEF ReplyOK

LEMMA ConnReplies ==
  ASSUME TypeInv, MutualExclusion, RepliesOK, NEW c \in Clients, ~UNCHANGED conn,
         Faults \cap {"open", "write", "sync", "short"} = {},
         Accept(c) \/ HangUp(c) \/ handle_connection(c)
  PROVE  RepliesOK'
<1>1. CASE WritePacket(c)
  BY <1>1, WriteReply
<1>2. CASE ~WritePacket(c)
  <2> SUFFICES ASSUME TRUE PROVE UNCHANGED file /\ OthersStay(c) /\ ReplyOK(c)'
    BY SameReplies DEF RepliesOK, OthersStay, SamePacket, SameReply
  <2>1. UNCHANGED file
    BY <1>2 DEF Accept, Die, HangUp, handle_connection, Recv, Parse, ParseFails, Lock,
                OpenForReply, OpenForReplyFails, SendPiece, EndReply, ClientDone,
                CloseAndEnd, OnlyConnChanges
  <2>2. ReplyOK(c)
    BY DEF RepliesOK
  <2>3. ASSUME OthersStay(c), conn'[c].pc \notin {"open", "send"}
        PROVE  OthersStay(c) /\ ReplyOK(c)'
    BY <2>1, <2>2, <2>3, SameReplies
  <2>4. CASE Accept(c) \/ HangUp(c) \/ Lock(c) \/ CloseAndEnd(c)
    <3>1. \E l \in {"recv", "write", "done", "ended"} : Becomes(c, [conn[c] EXCEPT !.pc = l])
      BY <2>4 DEF Accept, Die, HangUp, Lock, CloseAndEnd
    <3>2. OthersStay(c) /\ conn'[c].pc \in {"recv", "write", "done", "ended"}
      BY <3>1, LabelFields, SomeLabels
    <3>3. QED
      BY <2>1, <2>3, <3>2
  <2>5. CASE Recv(c)
    BY <2>1, <2>3, <2>5, RecvFields
  <2>6. CASE Parse(c)
    <3>1. OthersStay(c) /\ conn'[c].pc \in {"recv", "lock"}
      BY <2>6, ParseFields DEF Takes
    <3>2. QED
      BY <2>1, <2>3, <3>1
  <2>7. CASE ParseFails(c)
    BY <2>1, <2>3, <2>7, ParseFailsFields
  <2>8. CASE OpenForReply(c)
    <3>1. /\ OthersStay(c) /\ conn[c].pc = "open" /\ conn'[c].pc = "send"
          /\ conn'[c].sent = << >> /\ conn'[c].offset = 0 /\ conn'[c].packet = conn[c].packet
      BY <2>8, OpenForReplyFields DEF OpenForReply, At, SamePacket
    <3>2. FlattenSeq(SubSeq(Datas, 1, 0)) = << >>
      <4>1. SubSeq(Datas, 1, 0) = << >>
        BY DatasType
      <4>2. QED
        BY <4>1, FlattenEmpty
    <3>3. Datas' = Datas
      BY <2>1 DEF Datas
    <3>4. conn[c].offset \in Nat /\ 0 \in 0 .. Len(file)
      BY FieldTypes, DatasType
    <3>5. QED
      BY <2>1, <2>2, <3>1, <3>2, <3>3, <3>4 DEF ReplyOK
  <2>9. CASE OpenForReplyFails(c)
    BY <2>1, <2>3, <2>9, OpenForReplyFailsFields
  <2>10. CASE SendPiece(c)
    <3>1. up'
      BY <2>10 DEF SendPiece, Die, At, OnlyConnChanges
    <3>2. QED
      BY <2>1, <2>2, <2>10, <3>1, SendPieceFields, SendReply
  <2>11. CASE EndReply(c)
    BY <2>1, <2>3, <2>11, EndReplyFields
  <2>12. CASE ClientDone(c)
    BY <2>1, <2>3, <2>12, ClientDoneFields
  <2>13. QED
    BY <1>2, <2>4, <2>5, <2>6, <2>7, <2>8, <2>9, <2>10, <2>11, <2>12 DEF handle_connection
<1>3. QED
  BY <1>1, <1>2

LEMMA RepliesStep ==
  ASSUME TypeInv, MutualExclusion, RepliesOK, [Next]_vars,
         Faults \cap {"open", "write", "sync", "short"} = {}
  PROVE  RepliesOK'
<1>1. CASE ~UNCHANGED conn
  BY <1>1, WhoseStep, ConnReplies
<1>2. CASE UNCHANGED <<conn, file>>
  BY <1>2, SameReplies DEF RepliesOK, SamePacket, SameReply
<1>3. CASE UNCHANGED conn /\ ~UNCHANGED file
  <2>1. \A c \in Clients : ~WritePacket(c)
    <3>1. \A c \in Clients : WritePacket(c) => conn[c].pc = "write" /\ conn'[c].pc = "open"
      BY LabelFields, SomeLabels DEF WritePacket, At
    <3>2. QED
      BY <1>3, <3>1
  <2>2. ts = "write"
    BY <1>3, <2>1, FileSteps DEF WriteStamp
  <2>3. \A c \in Clients : conn[c].pc \notin {"open", "send"}
    BY <2>2, ServerAssumption DEF MutualExclusion, InSection
  <2>4. QED
    BY <1>3, <2>3 DEF RepliesOK, ReplyOK
<1>4. QED
  BY <1>1, <1>2, <1>3

LEMMA AtEndOfReply ==
  ASSUME TypeInv, RepliesOK, "read" \notin Faults, NEW c \in Clients, EndReply(c)
  PROVE  ReplyIsTheFile(c)
<1> DEFINE n == Len(file)
<1>1. conn[c].pc = "send" /\ conn[c].offset = Len(file)
  BY DEF EndReply, At, May
<1>2. /\ conn[c].sent = FlattenSeq(SubSeq(Datas, 1, n)) /\ n > 0 /\ n \in Nat
      /\ Datas[n] = conn[c].packet /\ Len(Datas) = n /\ Datas \in Seq(Seq(Bytes))
  BY <1>1, DatasType DEF RepliesOK, ReplyOK
<1>3. Written = FlattenSeq(Datas)
  BY DEF Written, Datas
<1> HIDE DEF n
<1>4. SubSeq(Datas, 1, n) = Datas
  BY <1>2
<1>5. FlattenSeq(SubSeq(Datas, 1, n)) = FlattenSeq(SubSeq(Datas, 1, n - 1)) \o Datas[n]
      /\ FlattenSeq(SubSeq(Datas, 1, n - 1)) \in Seq(Bytes)
  <2>1. n - 1 \in 0 .. Len(Datas) - 1 /\ (n - 1) + 1 = n
    BY <1>2
  <2> DEFINE k == n - 1
  <2>2. k \in 0 .. Len(Datas) - 1 /\ k + 1 = n
    BY <2>1
  <2> HIDE DEF k
  <2>3. FlattenSeq(SubSeq(Datas, 1, k + 1)) = FlattenSeq(SubSeq(Datas, 1, k)) \o Datas[k + 1]
        /\ FlattenSeq(SubSeq(Datas, 1, k)) \in Seq(Bytes)
    BY <1>2, <2>2, FlattenFirst
  <2>4. QED
    BY <2>2, <2>3 DEF k
<1>6. conn[c].packet \in Seq(Bytes)
  BY <1>1, FieldTypes DEF HasPacket
<1>7. IsSuffix(conn[c].packet, conn[c].sent)
  <2> DEFINE front == FlattenSeq(SubSeq(Datas, 1, n - 1))
  <2>1. front \in Seq(Bytes) /\ conn[c].sent = front \o conn[c].packet
    BY <1>2, <1>5
  <2> HIDE DEF front
  <2>2. IsSuffix(conn[c].packet, front \o conn[c].packet)
    BY <1>6, <2>1, SuffixOfConcat
  <2>3. QED
    BY <2>1, <2>2
<1>8. QED
  BY <1>2, <1>3, <1>4, <1>7 DEF ReplyIsTheFile

(***************************************************************************)
(* For any number of clients: the reply to a packet is all of the file, to *)
(* the byte, and the file ends with that packet.  It takes that the mutex  *)
(* excludes, so that nothing is appended between a packet and the end of   *)
(* its reply; that write takes all it is given; and that read does not     *)
(* fail, which ends a reply early.                                         *)
(***************************************************************************)
THEOREM RepliesAreComplete ==
  ASSUME Faults \cap {"open", "write", "sync", "short", "read"} = {}
  PROVE  Spec => RepliesAreTheFile
<1> DEFINE Inv == TypeInv /\ MutualExclusion /\ RepliesOK
<1>1. Init => RepliesOK
  BY DEF Init, RepliesOK, ReplyOK
<1>2. Inv /\ [Next]_vars => Inv'
  <2>1. /\ Faults \cap WriteToFileFailures = {}
        /\ Faults \cap {"open", "write", "sync", "short"} = {}
    BY DEF WriteToFileFailures
  <2>2. QED
    BY <2>1, TypeStep, ExclusionStep, RepliesStep
<1>3. Inv /\ [Next]_vars => [\A c \in Clients : EndReply(c) => ReplyIsTheFile(c)]_vars
  <2>1. "read" \notin Faults
    OBVIOUS
  <2>2. QED
    BY <2>1, AtEndOfReply
<1>4. Init => Inv
  BY <1>1, TypeInit, ExclusionInit
<1> HIDE DEF Inv
<1>5. QED
  BY <1>2, <1>3, <1>4, PTL DEF Spec, RepliesAreTheFile

-----------------------------------------------------------------------------
(***************************************************************************)
(* Startup.  The order of main's steps, with and without -d, and what open *)
(* and socket do to the descriptors.                                       *)
(***************************************************************************)
CONSTANTS Servers, OpenAtStart, MaxFd, None   \* as in ServerStartup

VARIABLES server, port, data, unseen

S == INSTANCE ServerStartup

Steps == <<"clear", "handlers", "getaddrinfo", "bind", "fork", "setsid",
           "detach", "listen", "pthread_create", "accept">>

\* The instance has operators of its own, which are the same.
LEMMA SameMin ==
  ASSUME NEW N
  PROVE  S!Min(N) = Min(N)
BY DEF S!Min, Min

LEMMA SameCardinality ==
  ASSUME NEW N
  PROVE  S!Cardinality(N) = Cardinality(N)
BY DEF S!Cardinality, Cardinality

LEMMA LeastIs ==
  ASSUME NEW N, N \subseteq Nat, NEW k \in N, \A i \in N : k <= i
  PROVE  Min(N) = k
<1>1. Min(N) \in N /\ Min(N) <= k
  BY MinOfNaturals
<1>2. k <= Min(N) /\ k \in Nat /\ Min(N) \in Nat
  BY <1>1
<1>3. QED
  BY <1>1, <1>2

LEMMA NextIs ==
  ASSUME NEW s, NEW i \in 1 .. 9, NEW k \in i + 1 .. 10, server[s].pc = Steps[i],
         server[s].daemon \/ Steps[k] \notin S!OnlyDaemon,
         \A j \in i + 1 .. k - 1 : ~(server[s].daemon \/ Steps[j] \notin S!OnlyDaemon)
  PROVE  S!NextLabel(s) = Steps[k]
<1> DEFINE Taken(j) == server[s].daemon \/ Steps[j] \notin S!OnlyDaemon
           later == {j \in 1 .. 10 : i < j /\ Taken(j)}
<1>1. DOMAIN Steps = 1 .. 10 /\ S!Order(s) = Steps
  BY DEF Steps, S!Order
<1>2. \A j \in 1 .. 10 : Steps[j] = Steps[i] => j = i
  BY DEF Steps
<1>3. (CHOOSE j \in 1 .. 10 : Steps[j] = Steps[i]) = i
  BY <1>2
<1>4. Min(later) = k
  <2>1. later \subseteq Nat /\ k \in later
    OBVIOUS
  <2>2. \A j \in later : k <= j
    OBVIOUS
  <2> HIDE DEF later
  <2>3. QED
    BY <2>1, <2>2, LeastIs
<1>5. S!NextLabel(s) = Steps[Min(later)]
  BY <1>1, <1>3, SameMin DEF S!NextLabel
<1>6. QED
  BY <1>4, <1>5

\* Every label of main and the next one.
LEMMA NextLabels ==
  ASSUME NEW s, server[s].daemon \in BOOLEAN
  PROVE  /\ server[s].pc = "clear" => S!NextLabel(s) = "handlers"
         /\ server[s].pc = "handlers" => S!NextLabel(s) = "getaddrinfo"
         /\ server[s].pc = "getaddrinfo" => S!NextLabel(s) = "bind"
         /\ server[s].pc = "bind" =>
              S!NextLabel(s) = IF server[s].daemon THEN "fork" ELSE "listen"
         /\ server[s].pc = "fork" /\ server[s].daemon => S!NextLabel(s) = "setsid"
         /\ server[s].pc = "setsid" /\ server[s].daemon => S!NextLabel(s) = "detach"
         /\ server[s].pc = "detach" => S!NextLabel(s) = "listen"
         /\ server[s].pc = "listen" => S!NextLabel(s) = "pthread_create"
         /\ server[s].pc = "pthread_create" => S!NextLabel(s) = "accept"
<1>1. /\ Steps[1] = "clear" /\ Steps[2] = "handlers" /\ Steps[3] = "getaddrinfo"
      /\ Steps[4] = "bind" /\ Steps[5] = "fork" /\ Steps[6] = "setsid"
      /\ Steps[7] = "detach" /\ Steps[8] = "listen" /\ Steps[9] = "pthread_create"
      /\ Steps[10] = "accept"
  BY DEF Steps
<1>2. \A i \in 1 .. 10 : Steps[i] \in S!OnlyDaemon <=> i \in 5 .. 7
  BY <1>1 DEF S!OnlyDaemon
<1>3. ASSUME NEW i \in 1 .. 9, server[s].pc = Steps[i],
             server[s].daemon \/ i + 1 \notin 5 .. 7
      PROVE  S!NextLabel(s) = Steps[i + 1]
  <2>1. i + 1 \in i + 1 .. 10 /\ i + 1 .. (i + 1) - 1 = {} /\ i + 1 \in 1 .. 10
    OBVIOUS
  <2>2. server[s].daemon \/ Steps[i + 1] \notin S!OnlyDaemon
    BY <1>2, <1>3, <2>1
  <2>3. QED
    BY <1>3, <2>1, <2>2, NextIs
<1>4. ASSUME server[s].pc = Steps[4], ~server[s].daemon
      PROVE  S!NextLabel(s) = Steps[8]
  <2>1. Steps[8] \notin S!OnlyDaemon /\ \A j \in 4 + 1 .. 8 - 1 : Steps[j] \in S!OnlyDaemon
    BY <1>2
  <2>2. 4 \in 1 .. 9 /\ 8 \in 4 + 1 .. 10
    OBVIOUS
  <2>3. QED
    BY <1>4, <2>1, <2>2, NextIs
<1>5. /\ \A i \in {1, 2, 3, 7, 8, 9} : server[s].pc = Steps[i] => S!NextLabel(s) = Steps[i + 1]
      /\ \A i \in {4, 5, 6} :
           server[s].pc = Steps[i] /\ server[s].daemon => S!NextLabel(s) = Steps[i + 1]
  BY <1>3
<1>6. QED
  BY <1>1, <1>4, <1>5

\* The lowest free descriptor.
LEMMA OpenedIs ==
  ASSUME MaxFd \in Nat, NEW fds, NEW what, NEW k \in S!Fds, fds[k] = "closed",
         \A d \in S!Fds : d < k => fds[d] # "closed"
  PROVE  S!Opened(fds, what) = [fds EXCEPT ![k] = what]
<1> DEFINE free == {d \in S!Fds : fds[d] = "closed"}
<1>1. free \subseteq Nat /\ k \in free
  BY DEF S!Fds
<1>2. \A d \in free : k <= d
  BY DEF S!Fds
<1>3. Min(free) = k
  <2> HIDE DEF free
  <2>1. QED
    BY <1>1, <1>2, LeastIs
<1>4. QED
  BY <1>3, SameMin DEF S!Opened

-----------------------------------------------------------------------------
(***************************************************************************)
(* The invariant of startup: a server has the port from its bind to its    *)
(* end, and a socket of its own no earlier.                                *)
(***************************************************************************)
NotRunning == {"off", "checked"}
BeforeBind == {"off", "checked", "clear", "handlers", "getaddrinfo", "bind"}
Detaching  == {"fork", "setsid", "detach"}
Serving    == {"listen", "pthread_create", "accept"}
AfterBind  == Detaching \cup Serving

ServerFields == {"pc", "by_script", "daemon", "fds", "sockfd", "reported"}

ServerOK(s) ==
  /\ DOMAIN server[s] = ServerFields
  /\ server[s].pc \in BeforeBind \cup AfterBind
  /\ server[s].daemon \in BOOLEAN /\ server[s].by_script \in BOOLEAN
  /\ server[s].pc \in Detaching => server[s].daemon
  /\ server[s].pc \in BeforeBind => server[s].sockfd = None /\ port # s
  /\ server[s].pc \in AfterBind => port = s
  /\ server[s].pc = "checked" => server[s].by_script

StartInv ==
  /\ DOMAIN server = Servers
  /\ \A s \in Servers : ServerOK(s)

\* What a step makes of server s; the others stay as they are.
Now(s, label, by, daemon, fds, sockfd) ==
  /\ DOMAIN server' = Servers
  /\ \A t \in Servers \ {s} : server'[t] = server[t]
  /\ DOMAIN server'[s] = ServerFields
  /\ server'[s].pc = label /\ server'[s].by_script = by /\ server'[s].daemon = daemon
  /\ server'[s].fds = fds /\ server'[s].sockfd = sockfd

LEMMA StartKept ==
  ASSUME StartInv, NEW s \in Servers, NEW label \in BeforeBind \cup AfterBind,
         NEW by \in BOOLEAN, NEW daemon \in BOOLEAN, NEW fds, NEW sockfd,
         Now(s, label, by, daemon, fds, sockfd),
         label \in Detaching => daemon,
         label \in BeforeBind => sockfd = None /\ port' # s,
         label \in AfterBind => port' = s,
         label = "checked" => by,
         \A t \in Servers \ {s} : port' = t <=> port = t
  PROVE  StartInv'
<1>1. ServerOK(s)'
  BY DEF ServerOK, Now
<1>2. ASSUME NEW t \in Servers \ {s} PROVE ServerOK(t)'
  <2>1. ServerOK(t) /\ server'[t] = server[t] /\ (port' = t <=> port = t)
    BY <1>2 DEF StartInv, Now
  <2>2. QED
    BY <2>1 DEF ServerOK, BeforeBind, AfterBind, Detaching, Serving
<1>3. QED
  BY <1>1, <1>2 DEF StartInv, Now

LEMMA ServerBecomes ==
  ASSUME StartInv, NEW s \in Servers, NEW state, S!Becomes(s, state),
         DOMAIN state = ServerFields
  PROVE  Now(s, state.pc, state.by_script, state.daemon, state.fds, state.sockfd)
BY DEF StartInv, S!Becomes, Now

-----------------------------------------------------------------------------
(***************************************************************************)
(* What each step of main changes.                                         *)
(***************************************************************************)
LEMMA EndsFields ==
  ASSUME StartInv, NEW s \in Servers, NEW status, S!Ends(s, status)
  PROVE  \E fds : Now(s, "off", FALSE, FALSE, fds, None)
<1>1. PICK reported, state : /\ state = [S!Off EXCEPT !.reported = reported]
                             /\ S!Becomes(s, state)
  BY DEF S!Ends
<1>2. /\ DOMAIN state = ServerFields /\ state.pc = "off" /\ state.by_script = FALSE
      /\ state.daemon = FALSE /\ state.sockfd = None
  BY <1>1 DEF S!Off, ServerFields
<1>3. Now(s, state.pc, state.by_script, state.daemon, state.fds, state.sockfd)
  BY <1>1, <1>2, ServerBecomes
<1>4. QED
  BY <1>2, <1>3

LEMMA EndsKeeps ==
  ASSUME S!StartupAssumption, StartInv, NEW s \in Servers, NEW status, S!Ends(s, status)
  PROVE  StartInv'
<1>1. PICK fds : Now(s, "off", FALSE, FALSE, fds, None)
  BY EndsFields
<1>2. port' # s /\ \A t \in Servers \ {s} : port' = t <=> port = t
  BY DEF S!Ends, S!StartupAssumption
<1>3. /\ "off" \in BeforeBind /\ "off" \in BeforeBind \cup AfterBind
      /\ "off" \notin AfterBind /\ "off" \notin Detaching
      /\ "off" # "checked" /\ FALSE \in BOOLEAN
  BY DEF BeforeBind, AfterBind, Detaching, Serving
<1>4. QED
  BY <1>1, <1>2, <1>3, StartKept

\* A step to the next label.
LEMMA WalkFields ==
  ASSUME StartInv, NEW s \in Servers, NEW label,
         S!Becomes(s, [server[s] EXCEPT !.pc = label])
  PROVE  Now(s, label, server[s].by_script, server[s].daemon, server[s].fds,
             server[s].sockfd)
<1>1. PICK state : state = [server[s] EXCEPT !.pc = label]
  OBVIOUS
<1>2. DOMAIN server[s] = ServerFields
  BY DEF StartInv, ServerOK
<1>3. /\ DOMAIN state = ServerFields /\ state.pc = label
      /\ state.by_script = server[s].by_script /\ state.daemon = server[s].daemon
      /\ state.fds = server[s].fds /\ state.sockfd = server[s].sockfd
  BY <1>1, <1>2 DEF ServerFields
<1>4. Now(s, state.pc, state.by_script, state.daemon, state.fds, state.sockfd)
  BY <1>1, <1>3, ServerBecomes
<1>5. QED
  BY <1>3, <1>4

LEMMA WalkKeeps ==
  ASSUME StartInv, NEW s \in Servers, NEW label, port' = port,
         Now(s, label, server[s].by_script, server[s].daemon, server[s].fds,
             server[s].sockfd),
         label # "checked",
         \/ server[s].pc \in BeforeBind /\ label \in BeforeBind
         \/ server[s].pc \in AfterBind /\ label \in AfterBind,
         label \in Detaching => server[s].daemon
  PROVE  StartInv'
<1>1. ServerOK(s)
  BY DEF StartInv
<1>2. BeforeBind \cap AfterBind = {}
  BY DEF BeforeBind, AfterBind, Detaching, Serving
<1>3. /\ server[s].daemon \in BOOLEAN /\ server[s].by_script \in BOOLEAN
      /\ label \in BeforeBind => server[s].sockfd = None /\ port' # s
      /\ label \in AfterBind => port' = s
  BY <1>1, <1>2 DEF ServerOK
<1>4. QED
  BY <1>3, StartKept

\* The ways a server can go: Check, Start, a step within one part of main, Bind,
\* Detach.
CheckWay(s) ==
  /\ server[s].pc = "off" /\ port' = port
  /\ \A t \in Servers : server[t].pc \in NotRunning
  /\ \E fds : Now(s, "checked", TRUE, TRUE, fds, None)

FdsAtStart ==
  S!Opened([d \in S!Fds |-> IF d \in OpenAtStart THEN "inherited" ELSE "closed"], "log")

StartWay(s) ==
  /\ server[s].pc \in NotRunning /\ port' = port
  /\ \E by, daemon \in BOOLEAN :
       /\ by => server[s].pc = "checked"
       /\ Now(s, "clear", by, daemon, FdsAtStart, None)

Parts == {BeforeBind \ NotRunning, Detaching, Serving}

WalkWay(s) ==
  /\ port' = port
  /\ \E part \in Parts : \E label \in part \ {"clear"} :
       /\ server[s].pc \in part
       /\ Now(s, label, server[s].by_script, server[s].daemon, server[s].fds,
              server[s].sockfd)

FdsAtBind(s) == S!Opened(server[s].fds, "listener")

BindWay(s) ==
  /\ server[s].pc = "bind" /\ port = Free /\ port' = s
  /\ Now(s, IF server[s].daemon THEN "fork" ELSE "listen", server[s].by_script,
         server[s].daemon, FdsAtBind(s),
         CHOOSE d \in S!Fds : FdsAtBind(s)[d] = "listener")

FdsAtDetach(s) ==
  S!Opened(S!Opened(S!Opened(
    [d \in S!Fds |-> IF d \in 0 .. 2 THEN "closed" ELSE server[s].fds[d]],
    "null"), "null"), "null")

DetachWay(s) ==
  /\ server[s].pc = "detach" /\ port' = port
  /\ Now(s, "listen", server[s].by_script, server[s].daemon, FdsAtDetach(s),
         server[s].sockfd)

LEMMA CheckIsWay ==
  ASSUME StartInv, NEW s \in Servers, S!Check(s)
  PROVE  CheckWay(s)
<1>1. PICK state : state = [S!Off EXCEPT !.pc = "checked", !.by_script = TRUE,
                                         !.daemon = TRUE]
  OBVIOUS
<1>2. /\ DOMAIN state = ServerFields /\ state.pc = "checked" /\ state.by_script = TRUE
      /\ state.daemon = TRUE /\ state.sockfd = None
  BY <1>1 DEF S!Off, ServerFields
<1>3. Now(s, state.pc, state.by_script, state.daemon, state.fds, state.sockfd)
  BY <1>1, <1>2, ServerBecomes DEF S!Check
<1>4. Now(s, "checked", TRUE, TRUE, state.fds, None)
  BY <1>2, <1>3
<1>5. QED
  BY <1>4 DEF CheckWay, S!Check, S!NoneRuns, S!At, NotRunning

LEMMA StartIsWay ==
  ASSUME StartInv, NEW s \in Servers, S!Start(s)
  PROVE  StartWay(s)
<1>1. PICK by \in BOOLEAN, daemon \in BOOLEAN :
        /\ IF by THEN server[s].pc = "checked" /\ daemon ELSE server[s].pc = "off"
        /\ S!Becomes(s, [S!Off EXCEPT !.pc = "clear", !.by_script = by, !.daemon = daemon,
                                      !.fds = FdsAtStart])
  BY DEF S!Start, S!At, FdsAtStart
<1>2. PICK state : state = [S!Off EXCEPT !.pc = "clear", !.by_script = by,
                                         !.daemon = daemon, !.fds = FdsAtStart]
  OBVIOUS
<1>3. /\ DOMAIN state = ServerFields /\ state.pc = "clear" /\ state.by_script = by
      /\ state.daemon = daemon /\ state.fds = FdsAtStart /\ state.sockfd = None
  BY <1>2 DEF S!Off, ServerFields
<1>4. Now(s, state.pc, state.by_script, state.daemon, state.fds, state.sockfd)
  BY <1>1, <1>2, <1>3, ServerBecomes
<1>5. Now(s, "clear", by, daemon, FdsAtStart, None)
  BY <1>3, <1>4
<1>6. server[s].pc \in NotRunning /\ (by => server[s].pc = "checked")
  BY <1>1 DEF NotRunning
<1>7. port' = port
  BY DEF S!Start
<1>8. QED
  BY <1>5, <1>6, <1>7 DEF StartWay

LEMMA WalkIsWay ==
  ASSUME StartInv, NEW s \in Servers, port' = port,
         S!Becomes(s, [server[s] EXCEPT !.pc = S!NextLabel(s)]),
         server[s].pc \in {"clear", "handlers", "getaddrinfo", "fork", "setsid",
                          "listen", "pthread_create"}
  PROVE  WalkWay(s)
<1>1. Now(s, S!NextLabel(s), server[s].by_script, server[s].daemon, server[s].fds,
          server[s].sockfd)
  BY WalkFields
<1>2. server[s].daemon \in BOOLEAN /\ (server[s].pc \in Detaching => server[s].daemon)
  BY DEF StartInv, ServerOK
<1>3. \E part \in Parts : server[s].pc \in part /\ S!NextLabel(s) \in part \ {"clear"}
  BY <1>2, NextLabels DEF Parts, NotRunning, BeforeBind, Detaching, Serving
<1>4. QED
  BY <1>1, <1>3 DEF WalkWay

LEMMA BindIsWay ==
  ASSUME StartInv, NEW s \in Servers, S!Bind(s)
  PROVE  BindWay(s) \/ S!Ends(s, "failure")
<1> DEFINE fd == CHOOSE d \in S!Fds : FdsAtBind(s)[d] = "listener"
<1> SUFFICES ASSUME ~S!Ends(s, "failure") PROVE BindWay(s)
  OBVIOUS
<1>1. /\ server[s].pc = "bind" /\ port = Free /\ port' = s
      /\ S!Becomes(s, [server[s] EXCEPT !.fds = FdsAtBind(s), !.sockfd = fd,
                                        !.pc = S!NextLabel(s)])
  BY DEF S!Bind, S!At, FdsAtBind
<1>2. PICK state : state = [server[s] EXCEPT !.fds = FdsAtBind(s), !.sockfd = fd,
                                             !.pc = S!NextLabel(s)]
  OBVIOUS
<1>3. DOMAIN server[s] = ServerFields /\ server[s].daemon \in BOOLEAN
  BY DEF StartInv, ServerOK
<1>4. /\ DOMAIN state = ServerFields /\ state.pc = S!NextLabel(s)
      /\ state.by_script = server[s].by_script /\ state.daemon = server[s].daemon
      /\ state.fds = FdsAtBind(s) /\ state.sockfd = fd
  BY <1>2, <1>3 DEF ServerFields
<1>5. Now(s, state.pc, state.by_script, state.daemon, state.fds, state.sockfd)
  BY <1>1, <1>2, <1>4, ServerBecomes
<1>6. S!NextLabel(s) = IF server[s].daemon THEN "fork" ELSE "listen"
  BY <1>1, <1>3, NextLabels
<1>7. Now(s, IF server[s].daemon THEN "fork" ELSE "listen", server[s].by_script,
          server[s].daemon, FdsAtBind(s), fd)
  BY <1>4, <1>5, <1>6
<1>8. QED
  BY <1>1, <1>7 DEF BindWay

LEMMA ForkIsWay ==
  ASSUME StartInv, NEW s \in Servers, S!Fork(s)
  PROVE  (WalkWay(s) /\ port = s) \/ S!Ends(s, "failure")
<1> SUFFICES ASSUME ~S!Ends(s, "failure") PROVE WalkWay(s) /\ port = s
  OBVIOUS
<1>1. /\ server[s].pc = "fork" /\ port' = port
      /\ S!Becomes(s, [server[s] EXCEPT !.reported = "success", !.pc = S!NextLabel(s)])
  BY DEF S!Fork, S!At
<1>2. PICK state : state = [server[s] EXCEPT !.reported = "success",
                                             !.pc = S!NextLabel(s)]
  OBVIOUS
<1>3. /\ DOMAIN server[s] = ServerFields /\ port = s
      /\ server[s].daemon /\ server[s].daemon \in BOOLEAN
  BY <1>1 DEF StartInv, ServerOK, Detaching, AfterBind
<1>4. /\ DOMAIN state = ServerFields /\ state.pc = "setsid"
      /\ state.by_script = server[s].by_script /\ state.daemon = server[s].daemon
      /\ state.fds = server[s].fds /\ state.sockfd = server[s].sockfd
  <2>1. S!NextLabel(s) = "setsid"
    <3>1. server[s].pc = Steps[5] /\ Steps[6] = "setsid"
      BY <1>1 DEF Steps
    <3>2. 5 \in 1 .. 9 /\ 6 \in 5 + 1 .. 10 /\ 5 + 1 .. 6 - 1 = {}
      OBVIOUS
    <3>3. server[s].daemon \/ Steps[6] \notin S!OnlyDaemon
      BY <1>3
    <3>4. S!NextLabel(s) = Steps[6]
      BY <3>1, <3>2, <3>3, NextIs
    <3>5. QED
      BY <3>1, <3>4
  <2>2. QED
    BY <1>2, <1>3, <2>1 DEF ServerFields
<1>5. Now(s, state.pc, state.by_script, state.daemon, state.fds, state.sockfd)
  BY <1>1, <1>2, <1>4, ServerBecomes
<1>6. Now(s, "setsid", server[s].by_script, server[s].daemon, server[s].fds,
          server[s].sockfd)
  BY <1>4, <1>5
<1>7. /\ Detaching \in Parts /\ "setsid" \in Detaching \ {"clear"}
      /\ server[s].pc \in Detaching
  BY <1>1 DEF Parts, Detaching
<1>8. QED
  BY <1>1, <1>3, <1>6, <1>7 DEF WalkWay

LEMMA DetachIsWay ==
  ASSUME StartInv, NEW s \in Servers, S!Detach(s)
  PROVE  DetachWay(s)
<1>1. /\ server[s].pc = "detach" /\ port' = port
      /\ S!Becomes(s, [server[s] EXCEPT !.fds = FdsAtDetach(s), !.pc = S!NextLabel(s)])
  BY DEF S!Detach, S!At, S!DescriptorsToClose, FdsAtDetach
<1>2. PICK state : state = [server[s] EXCEPT !.fds = FdsAtDetach(s),
                                             !.pc = S!NextLabel(s)]
  OBVIOUS
<1>3. DOMAIN server[s] = ServerFields /\ server[s].daemon \in BOOLEAN
  BY DEF StartInv, ServerOK
<1>4. /\ DOMAIN state = ServerFields /\ state.pc = "listen"
      /\ state.by_script = server[s].by_script /\ state.daemon = server[s].daemon
      /\ state.fds = FdsAtDetach(s) /\ state.sockfd = server[s].sockfd
  BY <1>1, <1>2, <1>3, NextLabels DEF ServerFields
<1>5. Now(s, state.pc, state.by_script, state.daemon, state.fds, state.sockfd)
  BY <1>1, <1>2, <1>4, ServerBecomes
<1>6. Now(s, "listen", server[s].by_script, server[s].daemon, FdsAtDetach(s),
          server[s].sockfd)
  BY <1>4, <1>5
<1>7. QED
  BY <1>1, <1>6 DEF DetachWay

\* Every step of server s is one of them, an end, or one that serves a client.
ServerStep(s) ==
  \/ S!Check(s) \/ S!Start(s) \/ S!Clear(s) \/ S!StepOrExit(s) \/ S!Bind(s) \/ S!Fork(s)
  \/ S!Detach(s)
  \/ S!Serve(s) \/ S!handle_signal(s)

LEMMA ServerWays ==
  ASSUME StartInv, NEW s \in Servers, ServerStep(s)
  PROVE  \/ CheckWay(s) \/ StartWay(s) \/ WalkWay(s) \/ BindWay(s) \/ DetachWay(s)
         \/ \E status : S!Ends(s, status)
         \/ UNCHANGED <<server, port>>
<1>1. CASE S!Clear(s)
  BY <1>1, WalkIsWay DEF S!Clear, S!At
<1>2. CASE S!StepOrExit(s)
  <2>1. server[s].pc \in {"handlers", "getaddrinfo", "setsid", "listen", "pthread_create"}
    BY <1>2 DEF S!StepOrExit
  <2>2. \/ S!Becomes(s, [server[s] EXCEPT !.pc = S!NextLabel(s)]) /\ port' = port
        \/ S!Ends(s, "failure")
    BY <1>2 DEF S!StepOrExit
  <2>3. QED
    BY <2>1, <2>2, WalkIsWay
<1>3. CASE S!handle_signal(s)
  BY <1>3 DEF S!handle_signal
<1>4. CASE S!Serve(s)
  BY <1>4 DEF S!Serve
<1>5. QED
  BY <1>1, <1>2, <1>3, <1>4, CheckIsWay, StartIsWay, BindIsWay, ForkIsWay, DetachIsWay
     DEF ServerStep

-----------------------------------------------------------------------------
(***************************************************************************)
(* So the invariant of startup holds, and what follows from it.            *)
(***************************************************************************)
LEMMA StartInit == S!StartupAssumption /\ S!Init => StartInv
<1> SUFFICES ASSUME S!StartupAssumption, S!Init PROVE StartInv
  OBVIOUS
<1>1. server = [s \in Servers |-> S!Off] /\ port = Free
  BY DEF S!Init
<1>2. \A s \in Servers :
        /\ DOMAIN server[s] = ServerFields /\ server[s].pc = "off"
        /\ server[s].by_script = FALSE /\ server[s].daemon = FALSE
        /\ server[s].sockfd = None /\ port # s
  BY <1>1 DEF S!Off, ServerFields, S!StartupAssumption
<1>3. \A s \in Servers : ServerOK(s)
  BY <1>2 DEF ServerOK, BeforeBind, AfterBind, Detaching, Serving
<1>4. QED
  BY <1>1, <1>2, <1>3 DEF StartInv

LEMMA StartSame == StartInv /\ UNCHANGED <<server, port>> => StartInv'
BY DEF StartInv, ServerOK

LEMMA StartStep ==
  ASSUME S!StartupAssumption, StartInv, NEW s \in Servers, ServerStep(s)
  PROVE  StartInv'
<1>1. ServerOK(s)
  BY DEF StartInv
<1>2. Free # s /\ \A t \in Servers : t # Free
  BY DEF S!StartupAssumption
<1>3. CASE StartWay(s)
  <2>1. PICK by \in BOOLEAN, daemon \in BOOLEAN :
          Now(s, "clear", by, daemon, FdsAtStart, None)
    BY <1>3 DEF StartWay
  <2>2. port' = port /\ port # s
    BY <1>1, <1>3 DEF StartWay, NotRunning, ServerOK, BeforeBind
  <2>3. QED
    BY <2>1, <2>2, StartKept DEF BeforeBind, AfterBind, Detaching, Serving
<1>4. CASE WalkWay(s)
  <2>1. PICK part, label :
          /\ part \in Parts /\ server[s].pc \in part /\ label \in part
          /\ Now(s, label, server[s].by_script, server[s].daemon, server[s].fds,
                 server[s].sockfd)
    BY <1>4 DEF WalkWay
  <2>2. /\ label # "checked"
        /\ \/ server[s].pc \in BeforeBind /\ label \in BeforeBind
           \/ server[s].pc \in AfterBind /\ label \in AfterBind
        /\ label \in Detaching => server[s].pc \in Detaching
    BY <2>1 DEF Parts, NotRunning, BeforeBind, AfterBind, Detaching, Serving
  <2>3. label \in Detaching => server[s].daemon
    BY <1>1, <2>2 DEF ServerOK
  <2>4. port' = port
    BY <1>4 DEF WalkWay
  <2>5. QED
    BY <2>1, <2>2, <2>3, <2>4, WalkKeeps
<1>5. CASE BindWay(s)
  <2>1. PICK label, fds, fd :
          /\ label = (IF server[s].daemon THEN "fork" ELSE "listen")
          /\ Now(s, label, server[s].by_script, server[s].daemon, fds, fd)
    BY <1>5 DEF BindWay
  <2>2. label \in AfterBind /\ label \notin BeforeBind /\ (label \in Detaching => server[s].daemon)
    BY <2>1 DEF BeforeBind, AfterBind, Detaching, Serving
  <2>3. port = Free /\ port' = s
    BY <1>5 DEF BindWay
  <2>4. server[s].daemon \in BOOLEAN /\ server[s].by_script \in BOOLEAN /\ label # "checked"
    BY <1>1, <2>1 DEF ServerOK
  <2>5. \A t \in Servers \ {s} : port' = t <=> port = t
    BY <1>2, <2>3
  <2>6. QED
    BY <2>1, <2>2, <2>3, <2>4, <2>5, StartKept
<1>6. CASE DetachWay(s)
  <2>1. server[s].pc = "detach" /\ port' = port /\ port = s
    BY <1>1, <1>6 DEF DetachWay, ServerOK, AfterBind, Detaching
  <2>2. /\ "listen" \in AfterBind /\ "listen" \notin BeforeBind /\ "listen" \notin Detaching
    BY DEF BeforeBind, AfterBind, Detaching, Serving
  <2>3. server[s].daemon \in BOOLEAN /\ server[s].by_script \in BOOLEAN
    BY <1>1 DEF ServerOK
  <2>4. QED
    BY <1>6, <2>1, <2>2, <2>3, StartKept DEF DetachWay
<1>7. CASE CheckWay(s)
  <2>1. PICK fds : Now(s, "checked", TRUE, TRUE, fds, None)
    BY <1>7 DEF CheckWay
  <2>2. port' = port /\ port # s
    BY <1>1, <1>7 DEF CheckWay, ServerOK, BeforeBind
  <2>3. QED
    BY <2>1, <2>2, StartKept DEF BeforeBind, AfterBind, Detaching, Serving
<1>8. QED
  BY <1>3, <1>4, <1>5, <1>6, <1>7, ServerWays, EndsKeeps, StartSame

LEMMA StartInvariant ==
  ASSUME S!StartupAssumption
  PROVE  S!Spec => []StartInv
<1>1. S!Init => StartInv
  BY StartInit
<1>2. StartInv /\ [S!Next]_(S!vars) => StartInv'
  BY StartStep, StartSame DEF S!Next, S!vars, ServerStep
<1>3. QED
  BY <1>1, <1>2, PTL DEF S!Spec

(***************************************************************************)
(* "fork after binding": for any number of servers, and whatever ends      *)
(* them, who has started one is told of success only by a process that has *)
(* the port, or by the handler of a signal.                                *)
(***************************************************************************)
THEOREM SuccessIsBound ==
  ASSUME S!StartupAssumption
  PROVE  S!Spec => S!SuccessMeansBound
<1> DEFINE Told(s) == server'[s].reported = "success" /\ server[s].reported # "success"
<1>1. ASSUME StartInv, [S!Next]_(S!vars), NEW s \in Servers, Told(s), ~S!handle_signal(s)
      PROVE  port' = s
  <2>1. PICK t \in Servers : ServerStep(t)
    BY <1>1 DEF S!Next, S!vars, ServerStep
  <2>2. DOMAIN server = Servers /\ DOMAIN server[t] = ServerFields /\ ServerOK(t)
    BY <1>1 DEF StartInv, ServerOK
  <2>3. CASE S!Fork(t)
    <3>1. port = t
      BY <2>2, <2>3 DEF S!Fork, S!At, ServerOK, AfterBind, Detaching
    <3>2. CASE port' = port
      <4>1. s = t
        BY <1>1, <2>2, <2>3 DEF S!Fork, S!Becomes, S!Ends
      <4>2. QED
        BY <3>1, <3>2, <4>1
    <3>3. CASE S!Ends(t, "failure")
      BY <1>1, <2>2, <3>3 DEF S!Ends, S!Becomes, S!Off
    <3>4. QED
      BY <2>3, <3>2, <3>3 DEF S!Fork
  <2>4. ASSUME NEW state, S!Becomes(t, state), state.reported \in {server[t].reported,
                  "nothing", "failure"}
        PROVE  FALSE
    BY <1>1, <2>2, <2>4 DEF S!Becomes
  <2>5. CASE S!Ends(t, "failure")
    <3>1. PICK state : S!Becomes(t, state) /\ state.reported \in {server[t].reported,
                         "failure"}
      <4>1. PICK reported \in {server[t].reported, "failure"} :
              S!Becomes(t, [S!Off EXCEPT !.reported = reported])
        BY <2>5 DEF S!Ends
      <4>2. [S!Off EXCEPT !.reported = reported].reported = reported
        BY DEF S!Off
      <4>3. QED
        BY <4>1, <4>2
    <3>2. QED
      BY <2>4, <3>1
  <2>6. CASE S!Start(t)
    <3>1. PICK by, daemon : S!Becomes(t, [S!Off EXCEPT !.pc = "clear", !.by_script = by,
                                            !.daemon = daemon, !.fds = FdsAtStart])
      BY <2>6 DEF S!Start, FdsAtStart
    <3>2. PICK state : state = [S!Off EXCEPT !.pc = "clear", !.by_script = by,
                                             !.daemon = daemon, !.fds = FdsAtStart]
      OBVIOUS
    <3>3. state.reported = "nothing"
      BY <3>2 DEF S!Off
    <3>4. QED
      BY <2>4, <3>1, <3>2, <3>3
  <2>12. CASE S!Check(t)
    <3>1. PICK state : state = [S!Off EXCEPT !.pc = "checked", !.by_script = TRUE,
                                             !.daemon = TRUE]
      OBVIOUS
    <3>2. state.reported = "nothing"
      BY <3>1 DEF S!Off
    <3>3. QED
      BY <2>4, <2>12, <3>1, <3>2 DEF S!Check
  <2>7. CASE \E label : S!Becomes(t, [server[t] EXCEPT !.pc = label])
    <3>1. PICK label : S!Becomes(t, [server[t] EXCEPT !.pc = label])
      BY <2>7
    <3>2. [server[t] EXCEPT !.pc = label].reported = server[t].reported
      BY <2>2 DEF ServerFields
    <3>3. QED
      BY <2>4, <3>1, <3>2
  <2>8. CASE \E label, fds, fd :
               S!Becomes(t, [server[t] EXCEPT !.fds = fds, !.sockfd = fd, !.pc = label])
    <3>1. PICK label, fds, fd :
            S!Becomes(t, [server[t] EXCEPT !.fds = fds, !.sockfd = fd, !.pc = label])
      BY <2>8
    <3>2. PICK state : state = [server[t] EXCEPT !.fds = fds, !.sockfd = fd, !.pc = label]
      OBVIOUS
    <3>3. state.reported = server[t].reported
      BY <2>2, <3>2 DEF ServerFields
    <3>4. QED
      BY <2>4, <3>1, <3>2, <3>3
  <2>9. CASE \E label, fds : S!Becomes(t, [server[t] EXCEPT !.fds = fds, !.pc = label])
    <3>1. PICK label, fds : S!Becomes(t, [server[t] EXCEPT !.fds = fds, !.pc = label])
      BY <2>9
    <3>2. PICK state : state = [server[t] EXCEPT !.fds = fds, !.pc = label]
      OBVIOUS
    <3>3. state.reported = server[t].reported
      BY <2>2, <3>2 DEF ServerFields
    <3>4. QED
      BY <2>4, <3>1, <3>2, <3>3
  <2>10. CASE server' = server
    BY <1>1, <2>10
  <2>11. QED
    <3>1. S!Clear(t) => \E label : S!Becomes(t, [server[t] EXCEPT !.pc = label])
      BY DEF S!Clear
    <3>2. S!StepOrExit(t) => \/ \E label : S!Becomes(t, [server[t] EXCEPT !.pc = label])
                             \/ S!Ends(t, "failure")
      BY DEF S!StepOrExit
    <3>3. S!Bind(t) => \/ \E label, fds, fd :
                            S!Becomes(t, [server[t] EXCEPT !.fds = fds, !.sockfd = fd,
                                                           !.pc = label])
                       \/ S!Ends(t, "failure")
      BY DEF S!Bind
    <3>4. S!Detach(t) => \E label, fds :
                           S!Becomes(t, [server[t] EXCEPT !.fds = fds, !.pc = label])
      BY DEF S!Detach
    <3>5. ~S!handle_signal(t)
      <4>1. ASSUME S!handle_signal(t) PROVE FALSE
        <5>1. PICK state : S!Becomes(t, state)
          BY <4>1 DEF S!handle_signal, S!Ends
        <5>2. s # t
          BY <1>1, <4>1
        <5>3. server'[s] = server[s]
          BY <2>2, <5>1, <5>2 DEF S!Becomes
        <5>4. QED
          BY <1>1, <5>3
      <4>2. QED
        BY <4>1
    <3>6. S!Serve(t) => server' = server
      BY DEF S!Serve
    <3>7. QED
      BY <2>1, <2>3, <2>5, <2>6, <2>7, <2>8, <2>9, <2>10, <2>12,
         <3>1, <3>2, <3>3, <3>4, <3>5, <3>6 DEF ServerStep
<1>2. StartInv /\ [S!Next]_(S!vars) =>
        \A s \in Servers : Told(s) => port' = s \/ S!handle_signal(s)
  BY <1>1
<1>3. QED
  BY <1>2, StartInvariant, PTL DEF S!Spec, S!SuccessMeansBound

-----------------------------------------------------------------------------
(***************************************************************************)
(* The descriptors of a server that is started with its standard input,    *)
(* output and error open: they are known at every point, the log at 3 and  *)
(* the socket at 4, where the three that a daemon closes do not reach.     *)
(***************************************************************************)
StartedFds  == [d \in S!Fds |-> IF d \in 0 .. 2 THEN "inherited"
                               ELSE IF d = 3 THEN "log" ELSE "closed"]
BoundFds    == [StartedFds EXCEPT ![4] = "listener"]
DetachedFds == [d \in S!Fds |-> IF d \in 0 .. 2 THEN "null" ELSE BoundFds[d]]

LEMMA FdsAreFive ==
  ASSUME S!StartupAssumption, OpenAtStart = 0 .. 2
  PROVE  MaxFd \in Nat /\ 0 .. 4 \subseteq S!Fds
<1>1. Cardinality(0 .. 2) = 3
  <2>1. PICK a \in Int, b \in Int : a = 0 /\ b = 2
    OBVIOUS
  <2>2. Cardinality(a .. b) = IF a > b THEN 0 ELSE b - a + 1
    BY FS_Interval
  <2>3. QED
    BY <2>1, <2>2
<1>2. MaxFd \in Nat /\ MaxFd >= 2 + 3
  BY <1>1, SameCardinality DEF S!StartupAssumption
<1>3. QED
  BY <1>2 DEF S!Fds

LEMMA AtStartIs ==
  ASSUME S!StartupAssumption, OpenAtStart = 0 .. 2
  PROVE  FdsAtStart = StartedFds
<1> DEFINE fds == [d \in S!Fds |-> IF d \in OpenAtStart THEN "inherited" ELSE "closed"]
<1>1. MaxFd \in Nat /\ 3 \in S!Fds /\ \A d \in S!Fds : d < 3 => d \in 0 .. 2
  BY FdsAreFive DEF S!Fds
<1>2. fds[3] = "closed" /\ \A d \in S!Fds : d < 3 => fds[d] # "closed"
  BY <1>1
<1>3. S!Opened(fds, "log") = [fds EXCEPT ![3] = "log"]
  <2> HIDE DEF fds
  <2>1. QED
    BY <1>1, <1>2, OpenedIs
<1>4. [fds EXCEPT ![3] = "log"] = StartedFds
  <2>1. ASSUME NEW d \in S!Fds PROVE [fds EXCEPT ![3] = "log"][d] = StartedFds[d]
    BY <1>1, <2>1 DEF StartedFds
  <2>2. QED
    BY <2>1 DEF StartedFds
<1>5. QED
  BY <1>3, <1>4 DEF FdsAtStart

LEMMA AtBindIs ==
  ASSUME S!StartupAssumption, OpenAtStart = 0 .. 2,
         NEW s, server[s].fds = StartedFds
  PROVE  /\ FdsAtBind(s) = BoundFds
         /\ (CHOOSE d \in S!Fds : FdsAtBind(s)[d] = "listener") = 4
<1>1. MaxFd \in Nat /\ 4 \in S!Fds /\ \A d \in S!Fds : d < 4 => d \in 0 .. 3
  BY FdsAreFive DEF S!Fds
<1>2. StartedFds[4] = "closed" /\ \A d \in S!Fds : d < 4 => StartedFds[d] # "closed"
  BY <1>1 DEF StartedFds
<1>3. FdsAtBind(s) = BoundFds
  BY <1>1, <1>2, OpenedIs DEF FdsAtBind, BoundFds
<1>4. \A d \in S!Fds : BoundFds[d] = "listener" <=> d = 4
  BY <1>1 DEF BoundFds, StartedFds
<1>5. (CHOOSE d \in S!Fds : BoundFds[d] = "listener") = 4
  BY <1>1, <1>4
<1>6. QED
  BY <1>3, <1>5

LEMMA AtDetachIs ==
  ASSUME S!StartupAssumption, OpenAtStart = 0 .. 2,
         NEW s, server[s].fds = BoundFds
  PROVE  FdsAtDetach(s) = DetachedFds
<1> DEFINE From(k) == [d \in S!Fds |-> IF d \in 0 .. k - 1 THEN "null"
                                      ELSE IF d \in k .. 2 THEN "closed" ELSE BoundFds[d]]
<1>1. MaxFd \in Nat /\ \A d \in 0 .. 4 : d \in S!Fds
  BY FdsAreFive
<1>2. [d \in S!Fds |-> IF d \in 0 .. 2 THEN "closed" ELSE server[s].fds[d]] = From(0)
  OBVIOUS
<1>3. ASSUME NEW k \in 0 .. 2
      PROVE  S!Opened(From(k), "null") = From(k + 1)
  <2>1. k \in S!Fds /\ \A d \in S!Fds : d < k => d \in 0 .. k - 1
    BY <1>1 DEF S!Fds
  <2>2. From(k)[k] = "closed" /\ \A d \in S!Fds : d < k => From(k)[d] # "closed"
    BY <2>1
  <2>3. [From(k) EXCEPT ![k] = "null"] = From(k + 1)
    <3>1. ASSUME NEW d \in S!Fds
          PROVE  [From(k) EXCEPT ![k] = "null"][d] = From(k + 1)[d]
      BY <3>1 DEF S!Fds
    <3>2. QED
      BY <3>1
  <2>4. PICK fds : fds = From(k)
    OBVIOUS
  <2>5. S!Opened(fds, "null") = [fds EXCEPT ![k] = "null"]
    <3>1. fds[k] = "closed" /\ \A d \in S!Fds : d < k => fds[d] # "closed"
      BY <2>2, <2>4
    <3>2. QED
      BY <1>1, <2>1, <3>1, OpenedIs
  <2>6. QED
    BY <2>3, <2>4, <2>5
<1>4. /\ S!Opened(From(0), "null") = From(1) /\ S!Opened(From(1), "null") = From(2)
      /\ S!Opened(From(2), "null") = From(3)
  <2> HIDE DEF From
  <2>1. /\ S!Opened(From(0), "null") = From(0 + 1) /\ S!Opened(From(1), "null") = From(1 + 1)
        /\ S!Opened(From(2), "null") = From(2 + 1)
    BY <1>3
  <2>2. 0 + 1 = 1 /\ 1 + 1 = 2 /\ 2 + 1 = 3
    OBVIOUS
  <2>3. QED
    BY <2>1, <2>2
<1>5. From(3) = DetachedFds
  BY DEF DetachedFds
<1>6. QED
  <2> HIDE DEF From
  <2>1. QED
    BY <1>2, <1>4, <1>5 DEF FdsAtDetach

FdsOK(s) ==
  /\ server[s].pc \in BeforeBind \ NotRunning => server[s].fds = StartedFds
  /\ server[s].pc \in Detaching => server[s].fds = BoundFds /\ server[s].sockfd = 4
  /\ server[s].pc \in Serving =>
       /\ server[s].fds = IF server[s].daemon THEN DetachedFds ELSE BoundFds
       /\ server[s].sockfd = 4

FdsInv == \A s \in Servers : FdsOK(s)

LEMMA FdsKept ==
  ASSUME FdsInv, NEW s \in Servers, NEW label, NEW by, NEW daemon, NEW fds, NEW sockfd,
         Now(s, label, by, daemon, fds, sockfd),
         label \in BeforeBind \ NotRunning => fds = StartedFds,
         label \in Detaching => fds = BoundFds /\ sockfd = 4,
         label \in Serving => /\ fds = IF daemon THEN DetachedFds ELSE BoundFds
                             /\ sockfd = 4
  PROVE  FdsInv'
<1>1. StartedFds' = StartedFds /\ BoundFds' = BoundFds /\ DetachedFds' = DetachedFds
  BY DEF StartedFds, BoundFds, DetachedFds, S!Fds
<1>2. FdsOK(s)'
  BY <1>1 DEF FdsOK, Now
<1>3. ASSUME NEW t \in Servers \ {s} PROVE FdsOK(t)'
  BY <1>1 DEF FdsOK, FdsInv, Now
<1>4. QED
  BY <1>2, <1>3 DEF FdsInv

LEMMA FdsStep ==
  ASSUME S!StartupAssumption, OpenAtStart = 0 .. 2, StartInv, FdsInv,
         NEW s \in Servers, ServerStep(s)
  PROVE  FdsInv'
<1>1. ServerOK(s) /\ FdsOK(s)
  BY DEF StartInv, FdsInv
<1>2. /\ "clear" \notin Detaching \cup Serving /\ "off" \notin Detaching \cup Serving
      /\ "fork" \in Detaching /\ "fork" \notin BeforeBind \cup Serving
      /\ "listen" \in Serving /\ "listen" \notin BeforeBind \cup Detaching
      /\ "bind" \in BeforeBind \ NotRunning /\ "detach" \in Detaching
      /\ NotRunning = {"off", "checked"} /\ "checked" \notin Detaching \cup Serving
  BY DEF NotRunning, BeforeBind, Detaching, Serving
<1>3. CASE StartWay(s)
  BY <1>2, <1>3, AtStartIs, FdsKept DEF StartWay
<1>4. CASE WalkWay(s)
  <2>1. PICK part, label :
          /\ part \in Parts /\ server[s].pc \in part /\ label \in part
          /\ Now(s, label, server[s].by_script, server[s].daemon, server[s].fds,
                 server[s].sockfd)
    BY <1>4 DEF WalkWay
  <2>2. /\ label \in BeforeBind \ NotRunning => server[s].pc \in BeforeBind \ NotRunning
        /\ label \in Detaching => server[s].pc \in Detaching
        /\ label \in Serving => server[s].pc \in Serving
    BY <2>1 DEF Parts, NotRunning, BeforeBind, Detaching, Serving
  <2>3. /\ label \in BeforeBind \ NotRunning => server[s].fds = StartedFds
        /\ label \in Detaching => server[s].fds = BoundFds /\ server[s].sockfd = 4
        /\ label \in Serving =>
             /\ server[s].fds = IF server[s].daemon THEN DetachedFds ELSE BoundFds
             /\ server[s].sockfd = 4
    BY <1>1, <2>2 DEF FdsOK
  <2>4. QED
    BY <2>1, <2>3, FdsKept
<1>5. CASE BindWay(s)
  <2>1. FdsAtBind(s) = BoundFds /\ (CHOOSE d \in S!Fds : FdsAtBind(s)[d] = "listener") = 4
    BY <1>1, <1>2, <1>5, AtBindIs DEF BindWay, FdsOK
  <2>2. PICK label :
          /\ label = (IF server[s].daemon THEN "fork" ELSE "listen")
          /\ Now(s, label, server[s].by_script, server[s].daemon, BoundFds, 4)
    BY <1>5, <2>1 DEF BindWay
  <2>3. label \notin BeforeBind /\ (label \in Serving => ~server[s].daemon)
    BY <1>2, <2>2
  <2>4. QED
    BY <2>2, <2>3, FdsKept
<1>6. CASE DetachWay(s)
  <2>1. server[s].pc \in Detaching
    BY <1>2, <1>6 DEF DetachWay
  <2>2. /\ FdsAtDetach(s) = DetachedFds /\ server[s].sockfd = 4 /\ server[s].daemon
    BY <1>1, <2>1, AtDetachIs DEF FdsOK, ServerOK
  <2>3. Now(s, "listen", server[s].by_script, server[s].daemon, DetachedFds, 4)
    BY <1>6, <2>2 DEF DetachWay
  <2>4. QED
    BY <1>2, <2>2, <2>3, FdsKept
<1>7. CASE \E status : S!Ends(s, status)
  <2>1. PICK fds : Now(s, "off", FALSE, FALSE, fds, None)
    BY <1>7, EndsFields
  <2>2. QED
    BY <1>2, <2>1, FdsKept
<1>8. CASE UNCHANGED <<server, port>>
  BY <1>8 DEF FdsInv, FdsOK, StartedFds, BoundFds, DetachedFds, S!Fds
<1>9. CASE CheckWay(s)
  <2>1. PICK fds : Now(s, "checked", TRUE, TRUE, fds, None)
    BY <1>9 DEF CheckWay
  <2>2. QED
    BY <1>2, <2>1, FdsKept
<1>10. QED
  BY <1>3, <1>4, <1>5, <1>6, <1>7, <1>8, <1>9, ServerWays

(***************************************************************************)
(* Close of 0, 1 and 2 and three times /dev/null: for any number of        *)
(* servers that are started with their standard descriptors open, a        *)
(* server's sockfd is its bound socket from bind on, and a daemon that     *)
(* accepts has nothing left of its starter's.                              *)
(***************************************************************************)
THEOREM SocketIsKept ==
  ASSUME S!StartupAssumption, OpenAtStart = 0 .. 2
  PROVE  S!Spec => []S!KeepsItsSocketOnly
<1>1. S!Init => FdsInv
  BY DEF S!Init, S!Off, FdsInv, FdsOK, NotRunning, BeforeBind, Detaching, Serving
<1>2. StartInv /\ FdsInv /\ [S!Next]_(S!vars) => FdsInv'
  <2>1. FdsInv /\ UNCHANGED S!vars => FdsInv'
    BY DEF S!vars, FdsInv, FdsOK, StartedFds, BoundFds, DetachedFds, S!Fds
  <2>2. QED
    BY <2>1, FdsStep DEF S!Next, ServerStep
<1>3. StartInv /\ FdsInv => S!KeepsItsSocketOnly
  <2> SUFFICES ASSUME StartInv, FdsInv, NEW s \in Servers
               PROVE  /\ server[s].sockfd # None =>
                           port = s /\ server[s].fds[server[s].sockfd] = "listener"
                      /\ server[s].pc = "accept" /\ server[s].daemon =>
                           \A d \in S!Fds : server[s].fds[d] # "inherited"
    BY DEF S!KeepsItsSocketOnly, S!At
  <2>1. ServerOK(s) /\ FdsOK(s)
    BY DEF StartInv, FdsInv
  <2>2. 4 \in S!Fds
    BY FdsAreFive
  <2>3. /\ BoundFds[4] = "listener" /\ DetachedFds[4] = "listener"
        /\ \A d \in S!Fds : DetachedFds[d] # "inherited"
    BY <2>2 DEF BoundFds, DetachedFds, StartedFds
  <2>4. CASE server[s].pc \in BeforeBind
    BY <2>1, <2>4 DEF ServerOK, BeforeBind
  <2>5. CASE server[s].pc \in AfterBind
    <3>1. port = s /\ server[s].sockfd = 4
      BY <2>1, <2>5 DEF ServerOK, FdsOK, AfterBind
    <3>2. server[s].fds \in {BoundFds, DetachedFds}
      BY <2>1, <2>5 DEF FdsOK, AfterBind
    <3>3. server[s].pc = "accept" /\ server[s].daemon => server[s].fds = DetachedFds
      BY <2>1 DEF FdsOK, Serving
    <3>4. QED
      BY <2>3, <3>1, <3>2, <3>3
  <2>6. QED
    BY <2>1, <2>4, <2>5 DEF ServerOK
<1>4. QED
  BY <1>1, <1>2, <1>3, StartInvariant, PTL DEF S!Spec

-----------------------------------------------------------------------------
(***************************************************************************)
(* What the script has seen: up to the clearing of the file, whoever runs  *)
(* has been started since it looked.                                       *)
(***************************************************************************)
Looked(t) == server[t].by_script /\ server[t].pc \in {"checked", "clear"}

SeenInv ==
  /\ unseen \in [Servers -> SUBSET Servers]
  /\ \A s, t \in Servers :
       Looked(t) /\ s # t /\ s \notin unseen[t] => server[s].pc \in NotRunning

\* A running server that goes on or ends starts nothing and looks at nothing.
LEMMA SeenKept ==
  ASSUME SeenInv, NEW u \in Servers, NEW label, NEW by, NEW daemon, NEW fds, NEW sockfd,
         Now(u, label, by, daemon, fds, sockfd), unseen' = unseen,
         label \notin {"checked", "clear"},
         label = "off" \/ server[u].pc \notin NotRunning
  PROVE  SeenInv'
<1>1. ASSUME NEW s \in Servers, NEW t \in Servers, Looked(t)', s # t, s \notin unseen'[t]
      PROVE  server'[s].pc \in NotRunning
  <2>1. t # u /\ Looked(t)
    BY <1>1 DEF Looked, Now
  <2>2. server[s].pc \in NotRunning
    BY <1>1, <2>1 DEF SeenInv
  <2>3. CASE s = u
    BY <2>2, <2>3 DEF Now, NotRunning
  <2>4. CASE s # u
    BY <2>2, <2>4 DEF Now
  <2>5. QED
    BY <2>3, <2>4
<1>2. QED
  BY <1>1 DEF SeenInv, NotRunning

LEMMA SeenStep ==
  ASSUME StartInv, SeenInv, NEW u \in Servers, ServerStep(u)
  PROVE  SeenInv'
<1>1. ServerOK(u) /\ "off" \in NotRunning /\ "checked" \in NotRunning
  BY DEF StartInv, NotRunning
<1>2. CASE S!Check(u)
  <2>1. unseen' = [unseen EXCEPT ![u] = {}] /\ CheckWay(u)
    BY <1>2, CheckIsWay DEF S!Check
  <2>2. PICK fds : Now(u, "checked", TRUE, TRUE, fds, None)
    BY <2>1 DEF CheckWay
  <2>3. \A s \in Servers : server'[s].pc \in NotRunning
    BY <1>1, <2>1, <2>2 DEF CheckWay, Now
  <2>4. QED
    BY <2>1, <2>3 DEF SeenInv, NotRunning
<1>3. CASE S!Start(u)
  <2>1. unseen' = [t \in Servers |-> unseen[t] \cup {u}] /\ StartWay(u)
    BY <1>3, StartIsWay DEF S!Start
  <2>2. PICK by \in BOOLEAN, daemon \in BOOLEAN :
          /\ by => server[u].pc = "checked"
          /\ Now(u, "clear", by, daemon, FdsAtStart, None)
    BY <2>1 DEF StartWay
  <2>3. ASSUME NEW s \in Servers, NEW t \in Servers, Looked(t)', s # t, s \notin unseen'[t]
        PROVE  server'[s].pc \in NotRunning
    <3>1. s # u /\ s \notin unseen[t] /\ server'[s] = server[s]
      BY <2>1, <2>2, <2>3 DEF SeenInv, Now
    <3>2. CASE t = u
      <4>1. Looked(t)
        BY <1>1, <2>2, <2>3, <3>2 DEF Looked, Now, ServerOK
      <4>2. QED
        BY <2>3, <3>1, <4>1 DEF SeenInv
    <3>3. CASE t # u
      <4>1. Looked(t)
        BY <2>2, <2>3, <3>3 DEF Looked, Now
      <4>2. QED
        BY <2>3, <3>1, <4>1 DEF SeenInv
    <3>4. QED
      BY <3>2, <3>3
  <2>4. unseen' \in [Servers -> SUBSET Servers]
    BY <2>1 DEF SeenInv
  <2>5. QED
    BY <2>3, <2>4 DEF SeenInv, NotRunning
<1>4. ASSUME ~S!Check(u), ~S!Start(u) PROVE unseen' = unseen
  BY <1>4 DEF ServerStep, S!Clear, S!StepOrExit, S!Bind, S!Fork, S!Detach, S!Serve,
              S!handle_signal
<1>5. ASSUME unseen' = unseen, WalkWay(u)
      PROVE  SeenInv'
  <2>1. PICK part, label :
          /\ part \in Parts /\ server[u].pc \in part /\ label \in part \ {"clear"}
          /\ Now(u, label, server[u].by_script, server[u].daemon, server[u].fds,
                 server[u].sockfd)
    BY <1>5 DEF WalkWay
  <2>2. label \notin {"checked", "clear"} /\ server[u].pc \notin NotRunning
    BY <2>1 DEF Parts, NotRunning, BeforeBind, Detaching, Serving
  <2>3. QED
    BY <1>5, <2>1, <2>2, SeenKept
<1>6. ASSUME unseen' = unseen, BindWay(u)
      PROVE  SeenInv'
  <2>1. PICK label, fds, fd :
          /\ label = (IF server[u].daemon THEN "fork" ELSE "listen")
          /\ Now(u, label, server[u].by_script, server[u].daemon, fds, fd)
    BY <1>6 DEF BindWay
  <2>2. label \notin {"checked", "clear"} /\ server[u].pc \notin NotRunning
    BY <1>6, <2>1 DEF BindWay, NotRunning
  <2>3. QED
    BY <1>6, <2>1, <2>2, SeenKept
<1>7. ASSUME unseen' = unseen, DetachWay(u)
      PROVE  SeenInv'
  <2>1. server[u].pc \notin NotRunning
    BY <1>7 DEF DetachWay, NotRunning
  <2>2. QED
    BY <1>7, <2>1, SeenKept DEF DetachWay
<1>8. ASSUME unseen' = unseen, NEW status, S!Ends(u, status)
      PROVE  SeenInv'
  <2>1. PICK fds : Now(u, "off", FALSE, FALSE, fds, None)
    BY <1>8, EndsFields
  <2>2. "off" # "checked" /\ "off" # "clear"
    OBVIOUS
  <2>3. QED
    BY <1>8, <2>1, <2>2, SeenKept
<1>9. ASSUME ~S!Check(u), ~S!Start(u)
      PROVE  \/ WalkWay(u) \/ BindWay(u) \/ DetachWay(u) \/ \E status : S!Ends(u, status)
             \/ UNCHANGED <<server, port>>
  <2>1. CASE S!Clear(u)
    BY <2>1, WalkIsWay DEF S!Clear, S!At
  <2>2. CASE S!StepOrExit(u)
    <3>1. server[u].pc \in {"handlers", "getaddrinfo", "setsid", "listen", "pthread_create"}
      BY <2>2 DEF S!StepOrExit
    <3>2. \/ S!Becomes(u, [server[u] EXCEPT !.pc = S!NextLabel(u)]) /\ port' = port
          \/ S!Ends(u, "failure")
      BY <2>2 DEF S!StepOrExit
    <3>3. QED
      BY <3>1, <3>2, WalkIsWay
  <2>3. QED
    BY <1>9, <2>1, <2>2, BindIsWay, ForkIsWay, DetachIsWay
       DEF ServerStep, S!Serve, S!handle_signal
<1>10. CASE unseen' = unseen /\ UNCHANGED <<server, port>>
  BY <1>10 DEF SeenInv, Looked
<1>11. QED
  BY <1>2, <1>3, <1>4, <1>5, <1>6, <1>7, <1>8, <1>9, <1>10

(***************************************************************************)
(* The script looks before it starts a server: for any number of servers,  *)
(* its start clears no data of one that runs, unless that one has come     *)
(* since it looked (aesdsocket-start-stop.sh:6, aesdsocket.c:357).         *)
(***************************************************************************)
THEOREM DataIsKept ==
  ASSUME S!StartupAssumption
  PROVE  S!Spec => S!DataOutlivesOtherStarts
<1>1. S!Init => SeenInv
  BY DEF S!Init, S!Off, SeenInv, Looked, NotRunning
<1>2. StartInv /\ SeenInv /\ [S!Next]_(S!vars) => SeenInv'
  <2>1. SeenInv /\ UNCHANGED S!vars => SeenInv'
    BY DEF S!vars, SeenInv, Looked
  <2>2. QED
    BY <2>1, SeenStep DEF S!Next, ServerStep
<1>3. ASSUME SeenInv, NEW s \in Servers, NEW t \in Servers, S!Clear(t), server[t].by_script,
             S!At(s, "accept"), s \notin unseen[t]
      PROVE  FALSE
  BY <1>3 DEF S!Clear, S!At, SeenInv, Looked, NotRunning
<1>4. SeenInv =>
        \A s, t \in Servers :
          S!Clear(t) /\ server[t].by_script /\ S!At(s, "accept") /\ s \notin unseen[t]
            => data' = data
  BY <1>3
<1>5. QED
  BY <1>1, <1>2, <1>4, StartInvariant, PTL DEF S!Spec, S!DataOutlivesOtherStarts
=============================================================================
