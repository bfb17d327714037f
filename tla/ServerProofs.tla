---------------------------- MODULE ServerProofs ----------------------------
(***************************************************************************)
(* The server as it is built for the driver: what it keeps for any number  *)
(* of clients, everything they send and every failure, what it answers,    *)
(* and where what they send ends up, which rest on the proofs about the    *)
(* driver.                                                                 *)
(***************************************************************************)
EXTENDS DriverServer, DataLemmas, FiniteSetTheorems

-----------------------------------------------------------------------------
(***************************************************************************)
(* The invariant.  Always: a thread is in the kernel only at one of its    *)
(* three system calls, and descriptors are numbers.                        *)
(***************************************************************************)
Fields  == {"pc", "got", "rest", "packet", "sent", "fd"}
InKernel == {"write", "read", "ioctl"}

\* From locking the mutex to the unlock after the reply.
Turn == InKernel \cup {"append", "saved", "reply", "seek", "close"}

ThreadOK(c) ==
  /\ DOMAIN conn[c] = Fields
  /\ conn[c].pc \in Labels
  /\ conn[c].fd \in Fds \cup {NULL}
  /\ pc[c] # "user" => conn[c].pc \in InKernel

ThreadsOK ==
  /\ DOMAIN conn = Clients
  /\ \A c \in Clients : ThreadOK(c)
  /\ DOMAIN pc = Clients
  /\ opened \subseteq Fds
  /\ clean \in BOOLEAN

(***************************************************************************)
(* As long as no call fails: who has its turn holds the mutex, the others  *)
(* have no file, nobody is about to open a second one, and no file is      *)
(* forgotten.                                                              *)
(***************************************************************************)
TurnOK(c) ==
  /\ conn[c].pc # "unsaved"
  /\ conn[c].pc \in Turn => mutex = c
  /\ conn[c].pc \notin Turn \ {"append", "reply", "seek"} => conn[c].fd = NULL

TurnsOK ==
  clean => /\ \A c \in Clients : TurnOK(c)
           /\ DescriptorsInUse

TurnInv == ThreadsOK /\ TurnsOK

-----------------------------------------------------------------------------
(***************************************************************************)
(* What the steps of a thread do to its label and descriptor, and those of *)
(* the driver to where the thread is in the kernel.                        *)
(***************************************************************************)
Moves(c, label, fd) ==
  /\ DOMAIN conn' = Clients
  /\ DOMAIN conn'[c] = Fields
  /\ conn'[c].pc = label /\ conn'[c].fd = fd
  /\ \A d \in Clients \ {c} : conn'[d] = conn[d]

KernelMoves(c, place) ==
  /\ DOMAIN pc' = Clients
  /\ pc'[c] = place
  /\ \A d \in Clients \ {c} : pc'[d] = pc[d]

LEMMA DeviceMoves ==
  ASSUME ThreadsOK, NEW c \in Clients, Device!mutex_lock(c) \/ Device!Work(c)
  PROVE  opened' = opened /\ pc[c] # "user" /\ KernelMoves(c, pc'[c])
<1> DEFINE Goes1(v) == pc' = [pc EXCEPT ![c] = v]
<1>1. (\E v : Goes1(v)) => KernelMoves(c, pc'[c])
  BY DEF ThreadsOK, KernelMoves
<1>2. CASE Device!mutex_lock(c)
  BY <1>1, <1>2 DEF Device!mutex_lock
<1>3. CASE Device!RefuseSeekTo(c)
  BY <1>1, <1>3 DEF Device!RefuseSeekTo, Device!GoBack
<1>4. CASE Device!aesd_read(c)
  BY <1>1, <1>4 DEF Device!aesd_read, Device!Locked, Device!UnlockAndReturn,
                    Device!FailAndUnlock, Device!GoBack
<1>5. CASE Device!aesd_write(c)
  BY <1>1, <1>5 DEF Device!aesd_write, Device!Locked, Device!UnlockAndReturn,
                    Device!FailAndUnlock, Device!GoBack, Device!RefuseData,
                    Device!LoseWorkingEntry, Device!StoreCommand, Device!KeepButFail,
                    Device!KeepForLater
<1>6. CASE Device!aesd_llseek(c)
  BY <1>1, <1>6 DEF Device!aesd_llseek, Device!Locked, Device!FailAndUnlock, Device!GoBack
<1>7. CASE Device!StoreNewPos(c)
  BY <1>1, <1>7 DEF Device!StoreNewPos, Device!GoBack
<1>8. CASE Device!aesd_ioctl(c)
  BY <1>1, <1>8 DEF Device!aesd_ioctl, Device!Locked, Device!FailAndUnlock, Device!GoBack
<1>9. CASE Device!StorePosition(c)
  BY <1>1, <1>9 DEF Device!StorePosition
<1>10. QED
  BY <1>2, <1>3, <1>4, <1>5, <1>6, <1>7, <1>8, <1>9 DEF Device!Work

\* A step that leaves the kernel as it is, or enters it.
LEMMA KernelSame ==
  ASSUME ThreadsOK, NEW c \in Clients, pc' = pc
  PROVE  KernelMoves(c, pc[c])
BY DEF ThreadsOK, KernelMoves

LEMMA LowestIsFree ==
  ASSUME DriverServerAssumption, ThreadsOK, opened # Fds
  PROVE  Min(Fds \ opened) \in Fds \ opened
<1>1. Fds \subseteq Nat
  BY DEF Fds, DriverServerAssumption
<1>2. QED
  BY <1>1, MinOfNaturals DEF ThreadsOK

-----------------------------------------------------------------------------
(***************************************************************************)
(* How the invariant is kept: first what holds always, then the turns,     *)
(* each from what the step does to the label and the descriptor.           *)
(***************************************************************************)
LEMMA ThreadsKept ==
  ASSUME ThreadsOK, NEW c \in Clients, NEW label \in Labels, NEW fd \in Fds \cup {NULL},
         NEW place, Moves(c, label, fd), KernelMoves(c, place),
         place # "user" => label \in InKernel,
         opened' \subseteq Fds, clean' \in BOOLEAN
  PROVE  ThreadsOK'
<1>1. \A d \in Clients : ThreadOK(d)'
  BY DEF ThreadsOK, ThreadOK, Moves, KernelMoves
<1>2. QED
  BY <1>1 DEF ThreadsOK, Moves, KernelMoves

\* The other threads, when c moves as c may.
LEMMA TurnsKept ==
  ASSUME ThreadsOK, TurnsOK, NEW c \in Clients, NEW label, NEW fd,
         Moves(c, label, fd), clean' => clean,
         clean' => /\ label # "unsaved"
                   /\ label \in Turn => mutex' = c
                   /\ label \notin Turn \ {"append", "reply", "seek"} => fd = NULL
                   /\ mutex' = mutex \/ mutex \in {c, Free}
                   /\ opened' \subseteq (opened \ {conn[c].fd}) \cup {fd}
  PROVE  TurnsOK'
<1> SUFFICES ASSUME clean' PROVE (\A d \in Clients : TurnOK(d))' /\ DescriptorsInUse'
  BY DEF TurnsOK
<1>1. \A d \in Clients : TurnOK(d)'
  BY DriverServerAssumption DEF TurnsOK, TurnOK, Moves, DriverServerAssumption
<1>2. DescriptorsInUse'
  <2>1. opened \subseteq {conn[d].fd : d \in Clients}
    BY DEF TurnsOK, DescriptorsInUse
  <2>2. ASSUME NEW x \in opened' PROVE x \in {conn'[d].fd : d \in Clients}
    <3>1. CASE x = fd
      BY <3>1 DEF Moves
    <3>2. CASE x # fd
      <4>1. x \in opened /\ x # conn[c].fd
        BY <2>2, <3>2
      <4>2. PICK d \in Clients : x = conn[d].fd
        BY <2>1, <4>1
      <4>3. QED
        BY <4>1, <4>2 DEF Moves
    <3>3. QED
      BY <3>1, <3>2
  <2>3. QED
    BY <2>2 DEF DescriptorsInUse
<1>3. QED
  BY <1>1, <1>2

-----------------------------------------------------------------------------
(***************************************************************************)
(* The steps                                                               *)
(***************************************************************************)
\* A step outside the driver that changes a connection.
LEMMA BecomesMoves ==
  ASSUME ThreadsOK, NEW c \in Clients, NEW state, DOMAIN state = Fields, Becomes(c, state),
         NEW label, label = state.pc, NEW fd, fd = state.fd
  PROVE  Moves(c, label, fd)
BY DEF ThreadsOK, ThreadOK, Becomes, Moves

LEMMA StreamSteps ==
  ASSUME TurnInv, NEW c \in Clients, Recv(c) \/ HangUp(c) \/ Parse(c) \/ Lock(c)
  PROVE  TurnInv'
<1> USE DEF TurnInv
<1>1. UNCHANGED <<device, clean>>
  BY DEF Recv, HangUp, Parse, Lock
<1>2. PICK label \in Labels : Moves(c, label, conn[c].fd) /\ label # "unsaved"
        /\ conn[c].pc \in Labels \ (InKernel \cup {"unsaved"})
        /\ conn[c].pc \notin Turn
        /\ (label \in Turn => mutex' = c /\ mutex = Free /\ label \in {"append", "reply", "seek"})
        /\ (label \notin Turn => mutex' = mutex)
  <2>1. DOMAIN conn[c] = Fields
    BY DEF ThreadsOK, ThreadOK
  <2>2. CASE Recv(c)
    <3>1. PICK rest, got, state : /\ state = [conn[c] EXCEPT !.rest = rest, !.got = got,
                                                             !.pc = "parse"]
                                  /\ Becomes(c, state)
      BY <2>2 DEF Recv
    <3>2. DOMAIN state = Fields /\ state.pc = "parse" /\ state.fd = conn[c].fd
      BY <2>1, <3>1 DEF Fields
    <3>3. Moves(c, "parse", conn[c].fd)
      BY <3>1, <3>2, BecomesMoves
    <3>4. QED
      BY <2>2, <3>3 DEF Recv, At, Labels, InKernel, Turn
  <2>3. CASE HangUp(c)
    <3>1. Moves(c, "ended", conn[c].fd)
      BY <2>1, <2>3, BecomesMoves DEF HangUp, Goes, Fields
    <3>2. QED
      BY <2>3, <3>1 DEF HangUp, At, Labels, InKernel, Turn
  <2>4. CASE Parse(c)
    <3>1. PICK packet, rest, label : 
            /\ Becomes(c, [conn[c] EXCEPT !.packet = packet, !.rest = rest, !.pc = label])
            /\ label \in {"recv", "lock"}
      BY <2>4 DEF Parse
    <3>2. PICK state : state = [conn[c] EXCEPT !.packet = packet, !.rest = rest, !.pc = label]
      OBVIOUS
    <3>3. DOMAIN state = Fields /\ state.pc = label /\ state.fd = conn[c].fd
      BY <2>1, <3>2 DEF Fields
    <3>4. Moves(c, label, conn[c].fd)
      BY <3>1, <3>2, <3>3, BecomesMoves
    <3>5. QED
      BY <2>4, <3>1, <3>4 DEF Parse, At, Labels, InKernel, Turn
  <2>5. CASE Lock(c)
    <3>1. \E label \in {"seek", "append"} : Moves(c, label, conn[c].fd)
      BY <2>1, <2>5, BecomesMoves DEF Lock, Goes, Fields
    <3>2. QED
      BY <2>5, <3>1 DEF Lock, At, Labels, InKernel, Turn
  <2>6. QED
    BY <2>2, <2>3, <2>4, <2>5
<1>3. pc[c] = "user" /\ conn[c].fd \in Fds \cup {NULL}
  BY <1>2 DEF ThreadsOK, ThreadOK
<1>4. KernelMoves(c, "user")
  BY <1>1, <1>3, KernelSame DEF device
<1>5. ThreadsOK'
  BY <1>1, <1>2, <1>3, <1>4, ThreadsKept DEF ThreadsOK, device
<1>6. clean' => /\ label \in Turn => mutex' = c
                /\ label \notin Turn \ {"append", "reply", "seek"} => conn[c].fd = NULL
                /\ mutex' = mutex \/ mutex \in {c, Free}
                /\ opened' \subseteq (opened \ {conn[c].fd}) \cup {conn[c].fd}
  BY <1>1, <1>2 DEF TurnsOK, TurnOK, device
<1>7. TurnsOK'
  BY <1>1, <1>2, <1>6, TurnsKept
<1>8. QED
  BY <1>5, <1>7

LEMMA OpenStep ==
  ASSUME DriverServerAssumption, TurnInv, NEW c \in Clients, Open(c)
  PROVE  TurnInv'
<1> USE DEF TurnInv
<1> PICK fd : fd = Min(Fds \ opened)
  OBVIOUS
<1>1. PICK label \in {"append", "reply", "seek"}, next \in InKernel :
        OpenFor(c, label, next)
  BY DEF Open, InKernel
<1>2. fd \in Fds \ opened
  BY <1>1, LowestIsFree DEF OpenFor
<1>3. Moves(c, next, fd)
  <2>1. PICK state : /\ state = [conn[c] EXCEPT !.fd = fd, !.sent = << >>, !.pc = next]
                     /\ Becomes(c, state)
    BY <1>1 DEF OpenFor
  <2>2. DOMAIN conn[c] = Fields
    BY DEF ThreadsOK, ThreadOK
  <2>3. DOMAIN state = Fields /\ state.pc = next /\ state.fd = fd
    BY <2>1, <2>2 DEF Fields
  <2>4. QED
    BY <2>1, <2>3, BecomesMoves
<1>4. pc' = pc /\ opened' = opened \cup {fd} /\ UNCHANGED <<mutex, clean>>
      /\ conn[c].pc = label
  BY <1>1 DEF OpenFor, Device!aesd_open, At
<1>5. KernelMoves(c, "user")
  BY <1>1, <1>4, KernelSame DEF ThreadsOK, ThreadOK, InKernel
<1>6. ThreadsOK'
  <2>1. next \in Labels /\ fd \in Fds \cup {NULL} /\ opened' \subseteq Fds /\ clean' \in BOOLEAN
    BY <1>2, <1>4 DEF ThreadsOK, InKernel, Labels
  <2>2. QED
    BY <1>3, <1>5, <2>1, ThreadsKept
<1>7. clean' => /\ next # "unsaved"
                /\ next \in Turn => mutex' = c
                /\ next \notin Turn \ {"append", "reply", "seek"} => fd = NULL
                /\ mutex' = mutex
                /\ opened' \subseteq (opened \ {conn[c].fd}) \cup {fd}
  <2>1. NULL \notin opened
    BY DEF DriverServerAssumption, ThreadsOK
  <2>2. clean => mutex = c /\ conn[c].fd = NULL
    BY <1>4 DEF TurnsOK, TurnOK, Turn
  <2>3. QED
    BY <1>4, <2>1, <2>2 DEF InKernel, Turn
<1>8. TurnsOK'
  BY <1>3, <1>4, <1>7, TurnsKept
<1>9. QED
  BY <1>6, <1>8

LEMMA OpenFailsStep ==
  ASSUME TurnInv, NEW c \in Clients, OpenFails(c)
  PROVE  TurnInv'
<1> USE DEF TurnInv
<1>1. pc' = pc /\ opened' = opened /\ clean' = FALSE
      /\ conn[c].pc \in {"append", "reply", "seek"}
  BY DEF OpenFails, CannotOpen, At, device
<1>2. DOMAIN conn[c] = Fields /\ conn[c].fd \in Fds \cup {NULL}
  BY DEF ThreadsOK, ThreadOK
<1>3. \E label \in {"reply", "recv", "parse"} : Moves(c, label, conn[c].fd)
  <2>1. ASSUME NEW label \in {"reply", "parse"}, Goes(c, label)
        PROVE  Moves(c, label, conn[c].fd)
    BY <1>2, <2>1, BecomesMoves DEF Goes, Fields
  <2>2. ASSUME Becomes(c, [conn[c] EXCEPT !.rest = << >>, !.pc = "recv"])
        PROVE  Moves(c, "recv", conn[c].fd)
    <3>1. PICK state : state = [conn[c] EXCEPT !.rest = << >>, !.pc = "recv"]
      OBVIOUS
    <3>2. DOMAIN state = Fields /\ state.pc = "recv" /\ state.fd = conn[c].fd
      BY <1>2, <3>1 DEF Fields
    <3>3. QED
      BY <2>2, <3>1, <3>2, BecomesMoves
  <2>3. QED
    BY <2>1, <2>2 DEF OpenFails
<1>4. KernelMoves(c, "user")
  BY <1>1, KernelSame DEF ThreadsOK, ThreadOK, InKernel
<1>5. QED
  BY <1>1, <1>2, <1>3, <1>4, ThreadsKept DEF ThreadsOK, TurnsOK, Labels

LEMMA CloseSteps ==
  ASSUME DriverServerAssumption, TurnInv, NEW c \in Clients, CloseWritten(c) \/ CloseReply(c)
  PROVE  TurnInv'
<1> USE DEF TurnInv
<1>1. /\ pc' = pc /\ clean' = clean /\ opened' = opened \ {conn[c].fd}
      /\ conn[c].pc \in {"saved", "unsaved", "close"}
  BY DEF CloseWritten, CloseReply, CloseFd, Device!aesd_release, At
<1>2. PICK label \in {"reply", "parse"} :
        /\ Moves(c, label, NULL)
        /\ conn[c].pc = "saved" => label = "reply" /\ mutex' = mutex
        /\ conn[c].pc = "close" => label = "parse"
        /\ mutex' \in {mutex, Free}
  <2>1. DOMAIN conn[c] = Fields
    BY DEF ThreadsOK, ThreadOK
  <2>2. CASE CloseWritten(c)
    <3>1. PICK state : /\ state = [conn[c] EXCEPT !.fd = NULL, !.pc = "reply"]
                       /\ Becomes(c, state)
      BY <2>2 DEF CloseWritten
    <3>2. DOMAIN state = Fields /\ state.pc = "reply" /\ state.fd = NULL
      BY <2>1, <3>1 DEF Fields
    <3>3. Moves(c, "reply", NULL)
      BY <3>1, <3>2, BecomesMoves
    <3>4. QED
      BY <2>2, <3>3 DEF CloseWritten, At, Unlock
  <2>3. CASE CloseReply(c)
    <3>1. PICK packet, state : /\ state = [conn[c] EXCEPT !.fd = NULL, !.packet = packet,
                                                          !.pc = "parse"]
                               /\ Becomes(c, state)
      BY <2>3 DEF CloseReply
    <3>2. DOMAIN state = Fields /\ state.pc = "parse" /\ state.fd = NULL
      BY <2>1, <3>1 DEF Fields
    <3>3. Moves(c, "parse", NULL)
      BY <3>1, <3>2, BecomesMoves
    <3>4. QED
      BY <2>3, <3>3 DEF CloseReply, At, Unlock
  <2>4. QED
    BY <2>2, <2>3
<1>3. KernelMoves(c, "user")
  BY <1>1, KernelSame DEF ThreadsOK, ThreadOK, InKernel
<1>4. ThreadsOK'
  BY <1>1, <1>2, <1>3, ThreadsKept DEF ThreadsOK, Labels
<1>5. clean' => /\ label \in Turn => mutex' = c
                /\ mutex = c
                /\ opened' \subseteq (opened \ {conn[c].fd}) \cup {NULL}
  BY <1>1, <1>2 DEF TurnsOK, TurnOK, Turn, InKernel
<1>6. TurnsOK'
  BY <1>1, <1>2, <1>5, TurnsKept
<1>7. QED
  BY <1>4, <1>6

(***************************************************************************)
(* The calls on the device.  Whether one has failed is what clean tells.   *)
(***************************************************************************)
LEMMA CleanOn ==
  ASSUME ThreadsOK, NEW c \in Clients, Noted(c)
  PROVE  clean' \in BOOLEAN /\ (clean' => clean /\ ~Failed(c))
BY DEF ThreadsOK, Noted

\* While c is at work in the kernel its label is as in the case at hand, and it
\* keeps the mutex and its descriptor.
LEMMA CallKeepsTurn ==
  ASSUME TurnInv, NEW c \in Clients, NEW label \in InKernel \cup {"saved", "close"},
         Moves(c, label, conn[c].fd), KernelMoves(c, pc'[c]),
         pc'[c] # "user" => label \in InKernel,
         conn[c].pc \in InKernel, UNCHANGED <<mutex, opened>>,
         clean' \in BOOLEAN, clean' => clean
  PROVE  TurnInv'
<1> USE DEF TurnInv
<1>1. conn[c].fd \in Fds \cup {NULL} /\ label \in Labels /\ opened' \subseteq Fds
  BY DEF ThreadsOK, ThreadOK, Turn, InKernel, Labels
<1>2. ThreadsOK'
  BY <1>1, ThreadsKept
<1>3. ASSUME clean'
      PROVE  /\ label # "unsaved" /\ mutex' = c
             /\ label \notin Turn \ {"append", "reply", "seek"} => conn[c].fd = NULL
             /\ opened' \subseteq (opened \ {conn[c].fd}) \cup {conn[c].fd}
  <2>1. mutex = c /\ label # "unsaved"
    BY <1>3 DEF TurnsOK, TurnOK, Turn, InKernel
  <2>2. QED
    BY <2>1 DEF Turn, InKernel
<1>4. TurnsOK'
  BY <1>3, TurnsKept
<1>5. QED
  BY <1>2, <1>4

LEMMA EnterStep ==
  ASSUME TurnInv, NEW c \in Clients, EnterKernel(c)
  PROVE  TurnInv'
<1> USE DEF TurnInv
<1>1. /\ pc' = [pc EXCEPT ![c] = "enter"] /\ opened' = opened
      /\ UNCHANGED <<conn, mutex, clean>>
      /\ conn[c].pc \in InKernel
  BY DEF EnterKernel, Device!EnterCall, InKernel
<1>2. KernelMoves(c, pc'[c])
  BY <1>1 DEF ThreadsOK, KernelMoves
<1>3. Moves(c, conn[c].pc, conn[c].fd)
  BY <1>1 DEF ThreadsOK, ThreadOK, Moves
<1>4. QED
  BY <1>1, <1>2, <1>3, CallKeepsTurn DEF ThreadsOK

LEMMA InCallStep ==
  ASSUME TurnInv, NEW c \in Clients, InCall(c)
  PROVE  TurnInv'
<1> USE DEF TurnInv
<1>1. UNCHANGED <<conn, mutex, clean>>
  BY DEF InCall
<1>2. /\ opened' = opened /\ pc[c] # "user" /\ KernelMoves(c, pc'[c])
  BY DeviceMoves DEF InCall
<1>3. conn[c].pc \in InKernel
  BY <1>2 DEF ThreadsOK, ThreadOK
<1>4. Moves(c, conn[c].pc, conn[c].fd)
  BY <1>1 DEF ThreadsOK, ThreadOK, Moves
<1>5. QED
  BY <1>1, <1>2, <1>3, <1>4, CallKeepsTurn DEF ThreadsOK

LEMMA ReturnMoves ==
  ASSUME ThreadsOK, NEW c \in Clients, NEW label \in InKernel, Returns(c, label)
  PROVE  /\ opened' = opened /\ pc'[c] = "user" /\ KernelMoves(c, pc'[c])
         /\ conn[c].pc = label
BY DeviceMoves DEF Returns, At

LEMMA WriteReturnsStep ==
  ASSUME TurnInv, NEW c \in Clients, WriteReturns(c)
  PROVE  TurnInv'
<1> USE DEF TurnInv
<1>1. /\ opened' = opened /\ pc'[c] = "user" /\ KernelMoves(c, pc'[c])
      /\ conn[c].pc = "write"
  BY ReturnMoves DEF WriteReturns, InKernel
<1>2. mutex' = mutex /\ clean' \in BOOLEAN /\ (clean' => clean /\ ~Failed(c))
  BY CleanOn DEF WriteReturns
<1>3. CASE Failed(c)
  <2>1. Goes(c, "unsaved") /\ clean' = FALSE
    BY <1>2, <1>3 DEF WriteReturns
  <2>2. Moves(c, "unsaved", conn[c].fd)
    BY <2>1, BecomesMoves DEF Goes, ThreadsOK, ThreadOK, Fields
  <2>3. ThreadsOK'
    BY <1>1, <2>1, <2>2, ThreadsKept DEF ThreadsOK, ThreadOK, Labels
  <2>4. QED
    BY <2>1, <2>3 DEF TurnsOK
<1>4. CASE ~Failed(c)
  <2>1. Goes(c, "saved")
    BY <1>4 DEF WriteReturns
  <2>2. Moves(c, "saved", conn[c].fd)
    BY <2>1, BecomesMoves DEF Goes, ThreadsOK, ThreadOK, Fields
  <2>3. QED
    BY <1>1, <1>2, <2>2, CallKeepsTurn DEF InKernel
<1>5. QED
  BY <1>3, <1>4

LEMMA ReadSteps ==
  ASSUME TurnInv, NEW c \in Clients, ReadReturns(c) \/ ReadEnds(c)
  PROVE  TurnInv'
<1> USE DEF TurnInv
<1>1. /\ opened' = opened /\ pc'[c] = "user" /\ KernelMoves(c, pc'[c])
      /\ conn[c].pc = "read"
  BY ReturnMoves DEF ReadReturns, ReadEnds, InKernel
<1>2. mutex' = mutex /\ clean' \in BOOLEAN /\ (clean' => clean)
  BY CleanOn DEF ReadReturns, ReadEnds, ThreadsOK
<1>3. CASE ReadReturns(c)
  <2>1. PICK sent, state : state = [conn[c] EXCEPT !.sent = sent] /\ Becomes(c, state)
    BY <1>3 DEF ReadReturns
  <2>2. DOMAIN conn[c] = Fields
    BY DEF ThreadsOK, ThreadOK
  <2>3. DOMAIN state = Fields /\ state.pc = "read" /\ state.fd = conn[c].fd
    BY <1>1, <2>1, <2>2 DEF Fields
  <2>4. Moves(c, "read", conn[c].fd)
    BY <2>1, <2>3, BecomesMoves
  <2>5. QED
    BY <1>1, <1>2, <2>4, CallKeepsTurn DEF InKernel
<1>4. CASE ReadEnds(c)
  <2>1. Goes(c, "close")
    BY <1>4 DEF ReadEnds
  <2>2. Moves(c, "close", conn[c].fd)
    BY <2>1, BecomesMoves DEF Goes, ThreadsOK, ThreadOK, Fields
  <2>3. QED
    BY <1>1, <1>2, <2>2, CallKeepsTurn DEF InKernel
<1>5. QED
  BY <1>3, <1>4

LEMMA IoctlReturnsStep ==
  ASSUME TurnInv, NEW c \in Clients, IoctlReturns(c)
  PROVE  TurnInv'
<1> USE DEF TurnInv
<1>1. /\ opened' = opened /\ pc'[c] = "user" /\ KernelMoves(c, pc'[c])
      /\ conn[c].pc = "ioctl"
  BY ReturnMoves DEF IoctlReturns, InKernel
<1>2. clean' \in BOOLEAN /\ (clean' => clean /\ ~Failed(c))
  BY CleanOn DEF IoctlReturns
<1>3. CASE Failed(c)
  <2>1. PICK state : state = [conn[c] EXCEPT !.fd = NULL, !.pc = "parse"] /\ Becomes(c, state)
    BY <1>3 DEF IoctlReturns
  <2>2. DOMAIN conn[c] = Fields
    BY DEF ThreadsOK, ThreadOK
  <2>3. DOMAIN state = Fields /\ state.pc = "parse" /\ state.fd = NULL
    BY <2>1, <2>2 DEF Fields
  <2>4. Moves(c, "parse", NULL)
    BY <2>1, <2>3, BecomesMoves
  <2>5. ThreadsOK'
    BY <1>1, <1>2, <2>4, ThreadsKept DEF ThreadsOK, Labels
  <2>6. QED
    BY <1>2, <1>3, <2>5 DEF TurnsOK
<1>4. CASE ~Failed(c)
  <2>1. Goes(c, "read") /\ mutex' = mutex
    BY <1>4 DEF IoctlReturns
  <2>2. Moves(c, "read", conn[c].fd)
    BY <2>1, BecomesMoves DEF Goes, ThreadsOK, ThreadOK, Fields
  <2>3. QED
    BY <1>1, <1>2, <2>1, <2>2, CallKeepsTurn DEF InKernel
<1>5. QED
  BY <1>3, <1>4

-----------------------------------------------------------------------------
LEMMA TurnInit == Init => TurnInv
<1> SUFFICES ASSUME Init PROVE TurnInv
  OBVIOUS
<1>1. /\ pc = [c \in Clients |-> "user"] /\ opened = {}
      /\ conn = [c \in Clients |-> [pc |-> "recv", got |-> 0, rest |-> << >>,
                                    packet |-> << >>, sent |-> << >>, fd |-> NULL]]
      /\ clean = TRUE
  BY DEF Init, Device!Init
<1>2. \A c \in Clients : /\ DOMAIN conn[c] = Fields /\ conn[c].pc = "recv"
                         /\ conn[c].fd = NULL /\ pc[c] = "user"
  BY <1>1 DEF Fields
<1>3. ThreadsOK
  BY <1>1, <1>2 DEF ThreadsOK, ThreadOK, Labels
<1>4. TurnsOK
  BY <1>1, <1>2 DEF TurnsOK, TurnOK, DescriptorsInUse, Turn, InKernel
<1>5. QED
  BY <1>3, <1>4 DEF TurnInv

LEMMA TurnSame == TurnInv /\ UNCHANGED vars => TurnInv'
BY DEF vars, device, TurnInv, ThreadsOK, ThreadOK, TurnsOK, TurnOK, DescriptorsInUse

LEMMA TurnStep == DriverServerAssumption /\ TurnInv /\ [Next]_vars => TurnInv'
<1> SUFFICES ASSUME DriverServerAssumption, TurnInv, [Next]_vars PROVE TurnInv'
  OBVIOUS
<1>1. ASSUME NEW c \in Clients, HangUp(c) \/ handle_connection(c) PROVE TurnInv'
  <2>1. CASE Recv(c) \/ HangUp(c) \/ Parse(c) \/ Lock(c)
    BY <2>1, StreamSteps
  <2>2. CASE Open(c)
    BY <2>2, OpenStep
  <2>3. CASE OpenFails(c)
    BY <2>3, OpenFailsStep
  <2>4. CASE CloseWritten(c) \/ CloseReply(c)
    BY <2>4, CloseSteps
  <2>5. CASE EnterKernel(c)
    BY <2>5, EnterStep
  <2>6. CASE InCall(c)
    BY <2>6, InCallStep
  <2>7. CASE WriteReturns(c)
    BY <2>7, WriteReturnsStep
  <2>8. CASE ReadReturns(c) \/ ReadEnds(c)
    BY <2>8, ReadSteps
  <2>9. CASE IoctlReturns(c)
    BY <2>9, IoctlReturnsStep
  <2>10. QED
    BY <1>1, <2>1, <2>2, <2>3, <2>4, <2>5, <2>6, <2>7, <2>8, <2>9 DEF handle_connection
<1>2. QED
  BY <1>1, TurnSame DEF Next

LEMMA TurnInvariant == Spec => []TurnInv
<1>1. DriverServerAssumption
  BY DriverServerAssumption
<1>2. Init => TurnInv
  BY TurnInit
<1>3. TurnInv /\ [Next]_vars => TurnInv'
  BY <1>1, TurnStep
<1>4. QED
  BY <1>2, <1>3, PTL DEF Spec

(***************************************************************************)
(* As long as no call on the device fails, global_mutex keeps the packets  *)
(* apart: for any clients and everything they send, a thread that has the  *)
(* device open, or is in a call on it, holds the mutex.                    *)
(***************************************************************************)
THEOREM OnePacketAtATime == Spec => []OneAtATime
<1>1. TurnInv => OneAtATime
  BY DEF TurnInv, ThreadsOK, ThreadOK, TurnsOK, TurnOK, OneAtATime, Turn, InKernel
<1>2. QED
  BY <1>1, TurnInvariant, PTL

(***************************************************************************)
(* As long as no call on the device fails, every file that is open is one  *)
(* that a thread is working with: write_to_file and both replies close     *)
(* what they open.                                                         *)
(***************************************************************************)
THEOREM NoFileIsForgotten == Spec => []DescriptorsInUse
<1>1. TurnInv => DescriptorsInUse
  BY DEF TurnInv, TurnsOK, DescriptorsInUse
<1>2. QED
  BY <1>1, TurnInvariant, PTL

-----------------------------------------------------------------------------
(***************************************************************************)
(* The replies.  What the driver does in a call is known from its own      *)
(* proofs; here its processes are the connection threads.                  *)
(***************************************************************************)
D == INSTANCE AesdCharProofs WITH
  Procs <- Clients, Files <- Fds, Uses <- Clients \X Fds, Payloads <- Seq(Bytes),
  Counts <- {FILE_BUF_SIZE}, Seeks <- {}, SeekTos <- Range(SeekText),
  AllocMayFail <- May("memory"), MaxPending <- 0,
  MaxWritten <- 0, written <- << >>, trace <- << >>, live <- 0

LEMMA DriverMeets ==
  ASSUME DriverServerAssumption, Capacity > 1
  PROVE  D!CapacityAssumption /\ D!DriverAssumption /\ D!HistoryAssumption
<1>1. Range(SeekText) \subseteq [write_cmd : Nat, write_cmd_offset : Nat]
  BY DEF DriverServerAssumption, Range
<1>2. /\ Clients \X Fds \subseteq Clients \X Fds
      /\ {} \subseteq [off : -PosLimit .. PosLimit - 1, whence : Nat]
      /\ {FILE_BUF_SIZE} \subseteq Nat /\ May("memory") \in BOOLEAN /\ 0 \in Nat
  BY DEF DriverServerAssumption, May
<1>3. D!DriverAssumption
  BY <1>1, <1>2 DEF DriverServerAssumption, D!DriverAssumption
<1>4. QED
  BY <1>3 DEF DriverServerAssumption, D!CapacityAssumption, D!HistoryAssumption

(***************************************************************************)
(* AesdChar is the same module here and there.                             *)
(***************************************************************************)
LEMMA SameFlatten == \A s : D!FlattenSeq(s) = FlattenSeq(s) /\ Device!FlattenSeq(s) = FlattenSeq(s)
  BY DEF D!FlattenSeq, FlattenSeq, Device!FlattenSeq

LEMMA SameInit == Device!Init => D!Init
  BY DEF Device!Init, D!Init, Device!aesd_circular_buffer_init, D!aesd_circular_buffer_init,
     Device!Slots, D!Slots, Device!ZeroSlot, D!ZeroSlot, Device!NoCall, D!NoCall

LEMMA SameOpen == \A fd : Device!aesd_open(fd) => D!aesd_open(fd)
  BY DEF Device!aesd_open, D!aesd_open, Device!dev, D!dev

LEMMA SameRelease == \A fd : Device!aesd_release(fd) => D!aesd_release(fd)
  BY DEF Device!aesd_release, D!aesd_release, Device!InUse, D!InUse, Device!dev, D!dev

LEMMA SameEnter == \A c, x : Device!EnterCall(c, x) => D!EnterCall(c, x)
  BY DEF Device!EnterCall, D!EnterCall, Device!dev, D!dev

LEMMA SameLeast == \A set : Device!Min(set) = D!Min(set)
  BY DEF Device!Min, D!Min

LEMMA SameBytesBefore ==
  \A b : Device!BytesBefore(b) = D!BytesBefore(b) /\ Device!ValidEntries(b) = D!ValidEntries(b)
         /\ \A i : Device!SlotAfter(b, i) = D!SlotAfter(b, i)
  BY DEF Device!BytesBefore, D!BytesBefore, Device!SlotAfter, D!SlotAfter,
         Device!ValidEntries, D!ValidEntries

LEMMA SameContents == \A b : Device!Contents(b) = D!Contents(b)
  BY DEF Device!Contents, D!Contents, Device!SlotAfter, D!SlotAfter,
         Device!ValidEntries, D!ValidEntries

LEMMA SameAdd ==
  \A b, e : Device!aesd_circular_buffer_add_entry(b, e) = D!aesd_circular_buffer_add_entry(b, e)
  BY DEF Device!aesd_circular_buffer_add_entry, D!aesd_circular_buffer_add_entry,
         Device!NextSlot, D!NextSlot

LEMMA SameFound ==
  \A b, pos : Device!aesd_circular_buffer_find_entry_offset_for_fpos(b, pos)
             = D!aesd_circular_buffer_find_entry_offset_for_fpos(b, pos)
  BY SameLeast, SameBytesBefore
     DEF Device!aesd_circular_buffer_find_entry_offset_for_fpos,
         D!aesd_circular_buffer_find_entry_offset_for_fpos,
         Device!NoEntry, D!NoEntry

LEMMA SameLeaving ==
  \A c, x : /\ Device!FailAndUnlock(c) <=> D!FailAndUnlock(c)
            /\ Device!GoBack(c) <=> D!GoBack(c)
            /\ Device!UnlockAndReturn(c, x) <=> D!UnlockAndReturn(c, x)
  BY DEF Device!FailAndUnlock, D!FailAndUnlock, Device!UnlockAndReturn, D!UnlockAndReturn,
         Device!GoBack, D!GoBack, Device!NoCall, D!NoCall

LEMMA SameRead == \A c : Device!aesd_read(c) => D!aesd_read(c)
  BY SameFound, SameLeaving, SameLeast
     DEF Device!aesd_read, D!aesd_read, Device!Locked, D!Locked, Device!NoEntry, D!NoEntry,
         Device!ReadCall, D!ReadCall, Device!dev, D!dev

LEMMA SameEntry ==
  \A s : Device!entry_size(s) = D!entry_size(s) /\ Device!leftover(s) = D!leftover(s)
  BY SameLeast DEF Device!entry_size, D!entry_size, Device!leftover, D!leftover

LEMMA SameWrite == \A c : Device!aesd_write(c) => D!aesd_write(c)
<1> SUFFICES ASSUME NEW c, Device!aesd_write(c) PROVE D!aesd_write(c)
  OBVIOUS
<1>1. Device!OldBytes = D!OldBytes
  BY DEF Device!OldBytes, D!OldBytes
<1>2. ASSUME NEW grown
      PROVE  /\ Device!StoreCommand(c, grown) => D!StoreCommand(c, grown)
             /\ Device!KeepButFail(c, grown) => D!KeepButFail(c, grown)
             /\ Device!KeepForLater(c, grown) => D!KeepForLater(c, grown)
  BY SameLeaving, SameAdd, SameEntry
     DEF Device!StoreCommand, D!StoreCommand, Device!KeepButFail, D!KeepButFail,
         Device!KeepForLater, D!KeepForLater, Device!SetWorking, D!SetWorking,
         Device!Written, D!Written
<1>3. QED
  BY <1>1, <1>2, SameLeaving
     DEF Device!aesd_write, D!aesd_write, Device!Locked, D!Locked, Device!dev, D!dev,
         Device!RefuseData, D!RefuseData, Device!LoseWorkingEntry, D!LoseWorkingEntry,
         Device!Written, D!Written

LEMMA SameIoctl ==
  \A c : /\ Device!aesd_ioctl(c) => D!aesd_ioctl(c)
         /\ Device!NoSuchByte(c) <=> D!NoSuchByte(c)
         /\ Device!OutOfRange(c) <=> D!OutOfRange(c)
<1> SUFFICES ASSUME NEW c
             PROVE  /\ Device!aesd_ioctl(c) => D!aesd_ioctl(c)
                    /\ Device!NoSuchByte(c) <=> D!NoSuchByte(c)
                    /\ Device!OutOfRange(c) <=> D!OutOfRange(c)
  OBVIOUS
<1>1. Device!SoughtPosition(c) = D!SoughtPosition(c) /\ Device!Sought(c) = D!Sought(c)
  BY SameBytesBefore DEF Device!SoughtPosition, D!SoughtPosition, Device!Sought, D!Sought
<1>2. Device!NoSuchByte(c) <=> D!NoSuchByte(c)
  BY <1>1, SameFound DEF Device!NoSuchByte, D!NoSuchByte, Device!OffsetTooFar, D!OffsetTooFar,
     Device!NoEntry, D!NoEntry
<1>3. QED
  BY <1>1, <1>2, SameLeaving
     DEF Device!aesd_ioctl, D!aesd_ioctl, Device!Locked, D!Locked, Device!dev, D!dev,
         Device!OutOfRange, D!OutOfRange

LEMMA SameKernel ==
  \A c : /\ Device!mutex_lock(c) => D!mutex_lock(c)
         /\ Device!RefuseSeekTo(c) => D!RefuseSeekTo(c)
         /\ Device!StorePosition(c) => D!StorePosition(c)
  BY SameLeaving, SameIoctl
     DEF Device!mutex_lock, D!mutex_lock, Device!RefuseSeekTo, D!RefuseSeekTo,
         Device!StorePosition, D!StorePosition, Device!dev, D!dev, Device!NoCall, D!NoCall

LEMMA SameLlseek ==
  \A c : /\ Device!aesd_llseek(c) => D!aesd_llseek(c)
         /\ Device!StoreNewPos(c) => D!StoreNewPos(c)
<1>1. Device!SummedSlots = D!SummedSlots
  BY SameBytesBefore DEF Device!SummedSlots, D!SummedSlots
<1>2. Device!total_size = D!total_size
  BY <1>1 DEF Device!total_size, D!total_size
<1>3. \A c : Device!NewPos(c) = D!NewPos(c)
  BY <1>2 DEF Device!NewPos, D!NewPos, Device!Wrapped, D!Wrapped
<1>4. QED
  BY <1>3, SameLeaving
     DEF Device!aesd_llseek, D!aesd_llseek, Device!StoreNewPos, D!StoreNewPos,
         Device!Locked, D!Locked, Device!SeekCall, D!SeekCall, Device!dev, D!dev

LEMMA SameWork == \A c : Device!Work(c) => D!Work(c)
  BY SameRead, SameWrite, SameIoctl, SameLlseek, SameKernel DEF Device!Work, D!Work

-----------------------------------------------------------------------------
(***************************************************************************)
(* Packets.  As long as no call fails, packet_buf holds no newline while   *)
(* more is received, and then one packet: a command.                       *)
(***************************************************************************)
NoNewline(s) == \A i \in DOMAIN s : s[i] # Newline

Collected(k) ==
  /\ k.got \in Nat /\ k.rest \in Seq(Bytes) /\ k.packet \in Seq(Bytes)
  /\ k.pc \in {"recv", "parse"} => NoNewline(k.packet)
  /\ k.pc \in Turn \cup {"lock"} => k.packet \in D!Commands

LEMMA UpToNewline ==
  ASSUME NEW p \in Seq(Bytes), NEW r \in Seq(Bytes), NEW n \in 0 .. Len(r),
         NoNewline(p), \A i \in 1 .. n - 1 : r[i] # Newline
  PROVE  LET t == p \o SubSeq(r, 1, n)
         IN  /\ t \in Seq(Bytes) /\ SubSeq(r, n + 1, Len(r)) \in Seq(Bytes)
             /\ n > 0 /\ r[n] = Newline => t \in D!Commands
             /\ (n > 0 => r[n] # Newline) => NoNewline(t)
<1> DEFINE x == SubSeq(r, 1, n)
           t == p \o x
<1>1. /\ x \in Seq(Bytes) /\ Len(x) = n /\ n \in Nat
      /\ \A i \in 1 .. n : x[i] = r[i]
      /\ SubSeq(r, n + 1, Len(r)) \in Seq(Bytes)
  OBVIOUS
<1> HIDE DEF x
<1>2. /\ Len(t) = Len(p) + n /\ Len(p) \in Nat /\ DOMAIN t = 1 .. Len(p) + n
      /\ \A j \in 1 .. Len(p) : t[j] = p[j]
      /\ \A j \in 1 .. n : t[Len(p) + j] = r[j]
      /\ t \in Seq(Bytes)
  BY <1>1, ConcatElements
<1>3. \A j \in 1 .. Len(p) : p[j] # Newline
  BY DEF NoNewline
<1> HIDE DEF t
<1>4. ASSUME NEW j \in DOMAIN t, t[j] = Newline PROVE j = Len(t) /\ n > 0 /\ r[n] = Newline
  <2>1. j \in Nat /\ j > Len(p) /\ j <= Len(p) + n
    BY <1>2, <1>3, <1>4
  <2>2. j - Len(p) \in 1 .. n /\ Len(p) + (j - Len(p)) = j
    BY <1>2, <2>1
  <2>3. r[j - Len(p)] = Newline
    BY <1>2, <1>4, <2>2
  <2>4. j - Len(p) = n
    BY <2>2, <2>3
  <2>5. QED
    BY <1>2, <2>1, <2>3, <2>4
<1>5. n > 0 /\ r[n] = Newline => t \in D!Commands
  <2> SUFFICES ASSUME n > 0, r[n] = Newline PROVE t \in D!Commands
    OBVIOUS
  <2>1. n \in 1 .. n /\ Len(t) \in DOMAIN t
    BY <1>1, <1>2
  <2>2. t[Len(t)] = Newline /\ t # << >>
    BY <1>2, <2>1
  <2>3. \A j \in DOMAIN t : t[j] = Newline <=> j = Len(t)
    BY <1>4, <2>2
  <2>4. QED
    BY <1>2, <2>2, <2>3 DEF D!Commands
<1>6. (n > 0 => r[n] # Newline) => NoNewline(t)
  BY <1>4 DEF NoNewline
<1>7. QED
  BY <1>1, <1>2, <1>5, <1>6 DEF t, x

-----------------------------------------------------------------------------
(***************************************************************************)
(* The invariant.  As long as no call fails, no thread leaves anything     *)
(* unfinished in the driver, and the one that has its turn has             *)
(***************************************************************************)
Quiet == D!Unfinished = << >> /\ working_size = 0

Asks(c) == IsSeek(conn[c].packet)

\* told the driver what it is to do,
ToldOK(c) ==
  pc[c] # "user" =>
    /\ call[c].op = conn[c].pc /\ call[c].file = conn[c].fd
    /\ call[c].op = "write" => call[c].buf = conn[c].packet
    /\ call[c].op = "ioctl" => call[c].arg = seekto(c)

\* a command that is the last one in the device, or a byte there to seek to,
IsThere(c) ==
  IF Asks(c)
  THEN seekto(c).write_cmd < Len(Stored)
       /\ seekto(c).write_cmd_offset < Len(Stored[seekto(c).write_cmd + 1])
  ELSE Stored # << >> /\ Last(Stored) = conn[c].packet

StartOf(c) ==
  IF Asks(c)
  THEN Len(FlattenSeq(SubSeq(Stored, 1, seekto(c).write_cmd))) + seekto(c).write_cmd_offset
  ELSE 0

\* sent what the device holds from there to where it reads on,
ReadsOn(c) ==
  LET pos == f_pos[conn[c].fd]
  IN  /\ conn[c].sent \in Seq(Bytes)
      /\ Trails(D!Flat, StartOf(c), conn[c].sent)
      /\ pos = StartOf(c) + Len(conn[c].sent)
      /\ pc[c] \in {"enter", "locked"} => call[c].pos = pos
      /\ pc[c] = "return" => /\ call[c].data \in Seq(Bytes)
                             /\ Trails(D!Flat, pos, call[c].data)
                             /\ call[c].pos = pos + Len(call[c].data)
                             /\ call[c].data = << >> => pos >= Len(D!Flat)

\* and in the end all of it.
SentAll(c) == conn[c].sent = SubSeq(D!Flat, StartOf(c) + 1, Len(D!Flat))

Stage(c) ==
  /\ conn[c].pc \in {"append", "write", "saved"} => ~Asks(c)
  /\ conn[c].pc = "reply" => ~Asks(c)
  /\ conn[c].pc \in {"seek", "ioctl"} => Asks(c)
  /\ conn[c].pc \in Turn \ {"append", "reply", "seek"} => conn[c].fd \in Fds
  /\ \/ conn[c].pc \in {"saved", "reply", "read", "close"}
     \/ conn[c].pc = "write" /\ pc[c] = "return"
     => IsThere(c)
  /\ conn[c].pc = "ioctl" => conn[c].sent = << >>
  /\ conn[c].pc = "read" => ReadsOn(c)
  /\ conn[c].pc = "close" => SentAll(c)

HolderOK(c) == conn[c].pc \in Turn => ToldOK(c) /\ Stage(c)

ReplyOK ==
  /\ D!DriverInv /\ Quiet
  /\ \A c \in Clients : Collected(conn[c]) /\ HolderOK(c)

ReplyInv == clean => ReplyOK

-----------------------------------------------------------------------------
(***************************************************************************)
(* What the steps of the threads do in the driver.                         *)
(***************************************************************************)
LEMMA CleanBefore ==
  ASSUME ThreadsOK, [Next]_vars, clean'
  PROVE  clean
<1>1. ASSUME NEW c \in Clients, HangUp(c) \/ handle_connection(c) PROVE clean
  <2>1. CASE Recv(c) \/ HangUp(c) \/ Parse(c) \/ Lock(c) \/ EnterKernel(c) \/ InCall(c)
             \/ ReadReturns(c)
    BY <2>1 DEF Recv, HangUp, Parse, Lock, EnterKernel, InCall, ReadReturns
  <2>2. CASE Open(c) \/ CloseWritten(c) \/ CloseReply(c)
    BY <2>2 DEF Open, OpenFor, CloseWritten, CloseReply
  <2>3. CASE OpenFails(c)
    BY <2>3 DEF OpenFails, CannotOpen
  <2>4. CASE WriteReturns(c) \/ ReadEnds(c) \/ IoctlReturns(c)
    BY <2>4, CleanOn DEF WriteReturns, ReadEnds, IoctlReturns
  <2>5. QED
    BY <1>1, <2>1, <2>2, <2>3, <2>4 DEF handle_connection
<1>2. QED
  BY <1>1 DEF Next, vars

LEMMA EnterIs ==
  ASSUME DriverServerAssumption, ReplyOK, NEW c \in Clients, EnterKernel(c)
  PROVE  D!Enter(c)
<1>1. conn[c].pc \in InKernel /\ D!EnterCall(c, SystemCall(c)) /\ conn[c].pc \in Turn
  BY SameEnter DEF EnterKernel, InKernel, Turn
<1>2. conn[c].fd \in Fds /\ conn[c].packet \in Seq(Bytes)
  BY <1>1 DEF ReplyOK, HolderOK, Stage, Collected, Turn, InKernel
<1>3. CASE At(c, "write")
  <2>1. SystemCall(c) = [op |-> "write", file |-> conn[c].fd, buf |-> conn[c].packet,
                         pos |-> f_pos[conn[c].fd]]
    BY <1>3 DEF SystemCall, At
  <2>2. QED
    BY <1>1, <1>2, <2>1 DEF D!Enter, D!EnterWrite, ReplyOK, Quiet
<1>4. CASE At(c, "read")
  <2>1. SystemCall(c) = D!ReadCall(conn[c].fd, FILE_BUF_SIZE, f_pos[conn[c].fd], << >>)
    BY <1>4 DEF SystemCall, At, D!ReadCall, Device!ReadCall
  <2>2. FILE_BUF_SIZE \in {FILE_BUF_SIZE}
    OBVIOUS
  <2>3. QED
    BY <1>1, <1>2, <2>1, <2>2 DEF D!Enter, D!EnterRead
<1>5. CASE At(c, "ioctl")
  <2>1. SystemCall(c) = [op |-> "ioctl", file |-> conn[c].fd, arg |-> seekto(c)]
    BY <1>5 DEF SystemCall, At
  <2>2. seekto(c) \in Range(SeekText)
    BY <1>1, <1>5 DEF ReplyOK, HolderOK, Stage, Asks, IsSeek, At, seekto, Range
  <2>3. QED
    BY <1>1, <1>2, <2>1, <2>2 DEF D!Enter, D!EnterIoctl
<1>6. QED
  BY <1>1, <1>3, <1>4, <1>5 DEF At, InKernel

LEMMA DriverDoes ==
  ASSUME DriverServerAssumption, ThreadsOK, ReplyOK, [Next]_vars, clean'
  PROVE  [D!Next]_(D!vars)
<1>1. ASSUME NEW c \in Clients, HangUp(c) \/ handle_connection(c) PROVE [D!Next]_(D!vars)
  <2>1. CASE Recv(c) \/ HangUp(c) \/ Parse(c) \/ Lock(c)
    <3>1. UNCHANGED device
      BY <2>1 DEF Recv, HangUp, Parse, Lock
    <3>2. QED
      BY <3>1 DEF device, D!vars, D!dev
  <2>2. CASE Open(c)
    <3>1. PICK fd : fd = Min(Fds \ opened) /\ Device!aesd_open(fd) /\ opened # Fds
      BY <2>2 DEF Open, OpenFor
    <3>2. fd \in Fds
      BY <3>1, LowestIsFree
    <3>3. QED
      BY <3>1, <3>2, SameOpen DEF D!Next
  <2>3. CASE OpenFails(c)
    BY <2>3 DEF OpenFails, CannotOpen
  <2>4. CASE CloseWritten(c) \/ CloseReply(c)
    <3>1. Device!aesd_release(conn[c].fd)
      BY <2>4 DEF CloseWritten, CloseReply, CloseFd
    <3>2. conn[c].fd \in Fds
      BY <3>1 DEF Device!aesd_release, ThreadsOK
    <3>3. QED
      BY <3>1, <3>2, SameRelease DEF D!Next
  <2>5. CASE EnterKernel(c)
    BY <2>5, EnterIs DEF D!Next
  <2>6. CASE InCall(c) \/ WriteReturns(c) \/ ReadReturns(c) \/ ReadEnds(c) \/ IoctlReturns(c)
    <3>1. Device!mutex_lock(c) \/ Device!Work(c)
      BY <2>6 DEF InCall, WriteReturns, ReadReturns, ReadEnds, IoctlReturns, Returns
    <3>2. QED
      BY <3>1, SameKernel, SameWork DEF D!Next
  <2>7. QED
    BY <1>1, <2>1, <2>2, <2>3, <2>4, <2>5, <2>6 DEF handle_connection
<1>2. CASE UNCHANGED vars
  BY <1>2 DEF vars, device, D!vars, D!dev
<1>3. QED
  BY <1>1, <1>2 DEF Next

LEMMA DriverGoesOn ==
  ASSUME DriverServerAssumption, Capacity > 1, ThreadsOK, ReplyOK, [Next]_vars, clean'
  PROVE  D!DriverInv'
<1>1. D!CapacityAssumption /\ D!DriverAssumption /\ D!HistoryAssumption
  BY DriverMeets
<1>2. [D!Next]_(D!vars)
  BY DriverDoes
<1>3. D!ControlOK /\ D!DeviceOK /\ D!PlacesOK
  BY DEF ReplyOK, D!DriverInv
<1>4. D!ControlOK'
  BY <1>1, <1>2, <1>3, D!ControlStep
<1>5. D!DeviceOK'
  BY <1>1, <1>2, <1>3, D!DeviceStep
<1>6. D!PlacesOK'
  BY <1>1, <1>2, <1>3, D!PlacesStep
<1>7. QED
  BY <1>4, <1>5, <1>6 DEF D!DriverInv

\* The device, and what is read off it, stays.
LEMMA DeviceStays ==
  ASSUME UNCHANGED <<circ_buffer, working_entry, working_size>>, Quiet
  PROVE  Quiet' /\ Stored' = Stored /\ (D!Flat)' = D!Flat
BY DEF Quiet, D!Unfinished, Stored, Device!Contents, D!Flat, D!Contents

\* A packet that is written is stored as it is, and nothing stays behind.
LEMMA WriteStores ==
  ASSUME DriverServerAssumption, Capacity > 1, D!DriverInv, Quiet, NEW c \in Clients,
         D!aesd_write(c), call[c].buf \in D!Commands, pc'[c] # "user"
  PROVE  /\ D!UnlockAndReturn(c, call[c]) /\ Quiet'
         /\ circ_buffer' = D!aesd_circular_buffer_add_entry(circ_buffer, call[c].buf)
<1> DEFINE buf == call[c].buf
<1>0. D!ControlOK /\ D!DeviceOK /\ D!CapacityAssumption /\ D!DriverAssumption /\ D!HistoryAssumption
  BY DriverMeets DEF D!DriverInv
<1>1. DOMAIN pc = Clients
  BY <1>0 DEF D!ControlOK
<1>2. ~D!FailAndUnlock(c)
  BY <1>1 DEF D!FailAndUnlock, D!GoBack
<1>3. /\ buf \in Seq(Bytes) /\ buf # << >> /\ Len(buf) \in DOMAIN buf /\ buf[Len(buf)] = Newline
      /\ \A i \in DOMAIN buf : buf[i] = Newline => i = Len(buf)
  BY DEF D!Commands
<1>4. PICK old \in D!OldBytes :
        LET grown == old \o buf
        IN  IF \E i \in DOMAIN grown : grown[i] = Newline
            THEN D!StoreCommand(c, grown) \/ D!KeepButFail(c, grown)
            ELSE D!KeepForLater(c, grown)
  BY <1>2, <1>3 DEF D!aesd_write, D!RefuseData, D!LoseWorkingEntry
<1>5. old = << >>
  BY <1>0, D!OldIsUnfinished DEF Quiet, D!NothingInFresh
<1>6. old \o buf = buf
  BY <1>3, <1>5
<1>7. D!StoreCommand(c, buf)
  <2>1. D!StoreCommand(c, buf) \/ D!KeepButFail(c, buf)
    BY <1>3, <1>4, <1>6
  <2>2. QED
    BY <1>2, <2>1 DEF D!KeepButFail
<1>8. D!entry_size(buf) = Len(buf)
  <2> DEFINE newlines == {i \in DOMAIN buf : buf[i] = Newline}
  <2>1. newlines \subseteq Nat /\ newlines # {}
    BY <1>3
  <2>2. Min(newlines) \in newlines
    BY <2>1, MinOfNaturals
  <2>3. D!Min(newlines) = Min(newlines)
    BY DEF D!Min, Min
  <2>4. QED
    BY <1>3, <2>2, <2>3 DEF D!entry_size
<1>9. SubSeq(buf, 1, D!entry_size(buf)) = buf /\ D!leftover(buf) = << >>
  BY <1>3, <1>8 DEF D!leftover
<1> HIDE DEF buf
<1>10. /\ circ_buffer' = D!aesd_circular_buffer_add_entry(circ_buffer, buf)
       /\ working_entry' = << >> /\ working_size' = 0 /\ D!UnlockAndReturn(c, call[c])
  BY <1>7, <1>9 DEF D!StoreCommand, D!SetWorking, D!Written
<1>11. << >> # NULL
  <2>1. << >> \in Seq(Bytes)
    OBVIOUS
  <2>2. QED
    BY <2>1 DEF DriverServerAssumption
<1>12. Quiet'
  BY <1>10, <1>11 DEF Quiet, D!Unfinished
<1>13. QED
  BY <1>10, <1>12 DEF buf

\* The newest command is the last one of the contents.
LEMMA StoredLast ==
  ASSUME DriverServerAssumption, Capacity > 1, D!DriverInv, NEW e \in D!Commands,
         circ_buffer' = D!aesd_circular_buffer_add_entry(circ_buffer, e)
  PROVE  Stored' # << >> /\ Last(Stored') = e
<1> DEFINE s == D!Contents(circ_buffer)
<1>0. D!DeviceOK /\ D!CapacityAssumption /\ D!DriverAssumption /\ D!HistoryAssumption
  BY DriverMeets DEF D!DriverInv
<1>1. circ_buffer \in D!Buffers(D!Commands) /\ D!WellFormed(circ_buffer)
  BY <1>0 DEF D!DeviceOK, D!RingShape
<1>2. Stored' = D!Latest(Append(s, e))
  <2>1. D!Contents(circ_buffer') = D!Latest(Append(s, e))
    BY <1>0, <1>1, D!AddEntryRemembers
  <2>2. QED
    BY <2>1, SameContents DEF Stored
<1>3. s \in Seq(D!Commands \cup {D!ZeroSlot}) /\ e \in D!Commands \cup {D!ZeroSlot}
  BY <1>0, <1>1, D!ContentsIsSeq
<1> HIDE DEF s
<1> DEFINE n == D!Latest(Append(s, e))
<1>4. n # << >> /\ n[Len(n)] = e
  BY <1>0, <1>3, D!NewestEndsWithNewElement
<1>5. Last(n) = n[Len(n)]
  BY DEF Last
<1>6. QED
  BY <1>2, <1>4, <1>5

-----------------------------------------------------------------------------
(***************************************************************************)
(* How the invariant is kept: by a step outside of all turns, and by one   *)
(* in the only turn there is.                                              *)
(***************************************************************************)
OthersStay(c) == \A d \in Clients \ {c} : conn'[d] = conn[d]

LEMMA Changed ==
  ASSUME ThreadsOK, NEW c \in Clients, NEW state, Becomes(c, state)
  PROVE  conn'[c] = state /\ OthersStay(c)
BY DEF ThreadsOK, Becomes, OthersStay

LEMMA SameHolder ==
  ASSUME NEW d \in Clients, conn'[d] = conn[d], UNCHANGED device, Quiet, HolderOK(d)
  PROVE  HolderOK(d)'
<1>1. Stored' = Stored /\ (D!Flat)' = D!Flat
  BY DeviceStays DEF device
<1>2. Asks(d)' = Asks(d) /\ seekto(d)' = seekto(d)
  BY DEF Asks, seekto
<1>3. StartOf(d)' = StartOf(d) /\ (IsThere(d)' <=> IsThere(d))
  BY <1>1, <1>2 DEF StartOf, IsThere
<1>4. /\ f_pos' = f_pos /\ pc' = pc /\ call' = call
  BY DEF device
<1>5. ToldOK(d)' <=> ToldOK(d)
  BY <1>2, <1>4 DEF ToldOK
<1>6. /\ ReadsOn(d)' <=> ReadsOn(d)
      /\ SentAll(d)' <=> SentAll(d)
  BY <1>1, <1>3, <1>4 DEF ReadsOn, SentAll
<1>7. Stage(d)' <=> Stage(d)
  BY <1>2, <1>3, <1>4, <1>6 DEF Stage
<1>8. QED
  BY <1>5, <1>7 DEF HolderOK

LEMMA OutsideKept ==
  ASSUME ReplyOK, NEW c \in Clients, OthersStay(c), UNCHANGED device, D!DriverInv',
         Collected(conn'[c]), conn'[c].pc \notin Turn
  PROVE  ReplyOK'
<1>1. Quiet'
  BY DeviceStays DEF ReplyOK, device
<1>2. ASSUME NEW d \in Clients PROVE Collected(conn'[d]) /\ HolderOK(d)'
  <2>1. CASE d = c
    BY <2>1 DEF HolderOK
  <2>2. CASE d # c
    BY <2>2, SameHolder DEF ReplyOK, OthersStay
  <2>3. QED
    BY <2>1, <2>2
<1>3. QED
  BY <1>1, <1>2 DEF ReplyOK

LEMMA HolderKept ==
  ASSUME DriverServerAssumption, TurnsOK, clean, ReplyOK, NEW c \in Clients,
         conn[c].pc \in Turn \/ mutex = Free, OthersStay(c), D!DriverInv', Quiet',
         Collected(conn'[c]), HolderOK(c)'
  PROVE  ReplyOK'
<1>1. \A d \in Clients : conn[d].pc \in Turn => mutex = d
  BY DEF TurnsOK, TurnOK
<1>2. mutex \in {c, Free} /\ Free \notin Clients
  BY <1>1 DEF DriverServerAssumption
<1>3. ASSUME NEW d \in Clients PROVE Collected(conn'[d]) /\ HolderOK(d)'
  <2>1. CASE d = c
    BY <2>1
  <2>2. CASE d # c
    BY <1>1, <1>2, <2>2 DEF ReplyOK, OthersStay, HolderOK
  <2>3. QED
    BY <2>1, <2>2
<1>4. QED
  BY <1>3 DEF ReplyOK

-----------------------------------------------------------------------------
(***************************************************************************)
(* The steps.                                                              *)
(***************************************************************************)
LEMMA RecvReply ==
  ASSUME DriverServerAssumption, ThreadsOK, ReplyOK, NEW c \in Clients, D!DriverInv',
         Recv(c) \/ HangUp(c) \/ Parse(c)
  PROVE  ReplyOK'
<1>0. /\ DOMAIN conn[c] = Fields /\ Collected(conn[c]) /\ UNCHANGED device
      /\ Stream[c] \in Seq(Bytes)
  BY DEF ThreadsOK, ThreadOK, ReplyOK, Recv, HangUp, Parse, DriverServerAssumption
<1>1. CASE Recv(c)
  <2>1. PICK upto, state :
          /\ upto \in conn[c].got + 1 .. Len(Stream[c])
          /\ state = [conn[c] EXCEPT !.rest = SubSeq(Stream[c], conn[c].got + 1, upto),
                                     !.got = upto, !.pc = "parse"]
          /\ Becomes(c, state)
    BY <1>1 DEF Recv
  <2>2. /\ state.pc = "parse" /\ state.got = upto /\ state.packet = conn[c].packet
        /\ state.rest = SubSeq(Stream[c], conn[c].got + 1, upto)
    BY <1>0, <2>1 DEF Fields
  <2>3. upto \in Nat /\ SubSeq(Stream[c], conn[c].got + 1, upto) \in Seq(Bytes)
    BY <1>0, <2>1 DEF Collected
  <2>4. Collected(state) /\ state.pc \notin Turn
    BY <1>0, <1>1, <2>2, <2>3 DEF Collected, Recv, At, Turn, InKernel
  <2>5. QED
    BY <1>0, <2>1, <2>4, Changed, OutsideKept
<1>2. CASE HangUp(c)
  <2>1. PICK state : state = [conn[c] EXCEPT !.pc = "ended"] /\ Becomes(c, state)
    BY <1>2 DEF HangUp, Goes
  <2>2. /\ state.pc = "ended" /\ state.got = conn[c].got /\ state.packet = conn[c].packet
        /\ state.rest = conn[c].rest
    BY <1>0, <2>1 DEF Fields
  <2>3. Collected(state) /\ state.pc \notin Turn
    BY <1>0, <2>2 DEF Collected, Turn, InKernel
  <2>4. QED
    BY <1>0, <2>1, <2>3, Changed, OutsideKept
<1>3. CASE Parse(c)
  <2> DEFINE rest == conn[c].rest
             ends == {i \in DOMAIN rest : rest[i] = Newline}
             n    == IF ends = {} THEN Len(rest) ELSE Min(ends)
             t    == conn[c].packet \o SubSeq(rest, 1, n)
             left == SubSeq(rest, n + 1, Len(rest))
             label == IF ends = {} THEN "recv" ELSE "lock"
  <2>1. PICK state : /\ state = [conn[c] EXCEPT !.packet = @ \o SubSeq(rest, 1, n),
                                                !.rest = left, !.pc = label]
                     /\ Becomes(c, state)
    BY <1>3 DEF Parse
  <2>2. /\ state.pc = label /\ state.got = conn[c].got /\ state.packet = t
        /\ state.rest = left
    BY <1>0, <2>1 DEF Fields
  <2>3. rest \in Seq(Bytes) /\ conn[c].packet \in Seq(Bytes) /\ NoNewline(conn[c].packet)
    BY <1>0, <1>3 DEF Collected, Parse, At
  <2>4. ends # {} => Min(ends) \in ends /\ \A i \in ends : Min(ends) <= i
    <3>1. ends \subseteq Nat
      BY <2>3
    <3>2. QED
      BY <3>1, MinOfNaturals
  <2>5. /\ n \in 0 .. Len(rest) /\ \A i \in 1 .. n - 1 : rest[i] # Newline
        /\ ends # {} => n > 0 /\ rest[n] = Newline
        /\ ends = {} => (n > 0 => rest[n] # Newline)
    <3>1. CASE ends = {}
      BY <2>3, <3>1
    <3>2. CASE ends # {}
      <4>1. n \in ends /\ \A i \in ends : n <= i
        BY <2>4, <3>2
      <4> HIDE DEF n
      <4>2. QED
        BY <2>3, <3>2, <4>1
    <3>3. QED
      BY <3>1, <3>2
  <2> HIDE DEF rest, ends, n
  <2>6. /\ t \in Seq(Bytes) /\ left \in Seq(Bytes)
        /\ ends # {} => t \in D!Commands
        /\ ends = {} => NoNewline(t)
    BY <2>3, <2>5, UpToNewline
  <2> HIDE DEF t, left
  <2>7. Collected(state) /\ state.pc \notin Turn
    BY <1>0, <2>2, <2>6 DEF Collected, Turn, InKernel
  <2>8. QED
    BY <1>0, <2>1, <2>7, Changed, OutsideKept
<1>4. QED
  BY <1>1, <1>2, <1>3

LEMMA LockReply ==
  ASSUME DriverServerAssumption, TurnInv, clean, ReplyOK, NEW c \in Clients, D!DriverInv', Lock(c)
  PROVE  ReplyOK'
<1> DEFINE label == IF Asks(c) THEN "seek" ELSE "append"
<1>0. /\ DOMAIN conn[c] = Fields /\ Collected(conn[c]) /\ UNCHANGED device /\ mutex = Free
      /\ conn[c].pc = "lock" /\ ThreadsOK /\ TurnsOK /\ Quiet
  BY DEF TurnInv, ThreadsOK, ThreadOK, ReplyOK, Lock, At
<1>1. PICK state : state = [conn[c] EXCEPT !.pc = label] /\ Becomes(c, state)
  BY DEF Lock, Goes, Asks
<1>2. /\ state.pc = label /\ state.got = conn[c].got /\ state.packet = conn[c].packet
      /\ state.rest = conn[c].rest
  BY <1>0, <1>1 DEF Fields
<1>3. Collected(state)
  BY <1>0, <1>2 DEF Collected
<1>4. conn'[c] = state /\ OthersStay(c)
  BY <1>0, <1>1, Changed
<1>5. HolderOK(c)'
  <2>1. pc'[c] = "user"
    BY <1>0 DEF device, ThreadsOK, ThreadOK, InKernel
  <2>2. Asks(c)' <=> Asks(c)
    BY <1>2, <1>4 DEF Asks
  <2>3. Stage(c)'
    BY <1>2, <1>4, <2>2 DEF Stage
  <2>4. QED
    BY <2>1, <2>3 DEF HolderOK, ToldOK
<1>6. Quiet'
  BY <1>0, DeviceStays DEF device
<1>7. QED
  BY <1>0, <1>3, <1>4, <1>5, <1>6, HolderKept

\* A step outside the kernel, after which c reads from the beginning or not yet.
LEMMA OpenReply ==
  ASSUME DriverServerAssumption, Capacity > 1, TurnInv, clean, ReplyOK, NEW c \in Clients,
         D!DriverInv', Open(c)
  PROVE  ReplyOK'
<1>0. /\ DOMAIN conn[c] = Fields /\ Collected(conn[c]) /\ Quiet
      /\ ThreadsOK /\ TurnsOK /\ D!PlacesOK /\ D!DeviceOK
  BY DEF TurnInv, ThreadsOK, ThreadOK, ReplyOK, D!DriverInv
<1> PICK fd : fd = Min(Fds \ opened)
  OBVIOUS
<1>1. PICK label, next :
        /\ \/ label = "append" /\ next = "write"
           \/ label = "reply" /\ next = "read"
           \/ label = "seek" /\ next = "ioctl"
        /\ At(c, label) /\ opened # Fds /\ Device!aesd_open(fd)
        /\ Becomes(c, [conn[c] EXCEPT !.fd = fd, !.sent = << >>, !.pc = next])
  <2>1. PICK label, next :
          /\ \/ label = "append" /\ next = "write"
             \/ label = "reply" /\ next = "read"
             \/ label = "seek" /\ next = "ioctl"
          /\ OpenFor(c, label, next)
    BY DEF Open
  <2>2. QED
    BY <2>1 DEF OpenFor
<1>2. fd \in Fds /\ HolderOK(c) /\ conn[c].pc \in Turn
  BY <1>0, <1>1, LowestIsFree DEF ReplyOK, Turn, At
<1>3. PICK state : /\ state = [conn[c] EXCEPT !.fd = fd, !.sent = << >>, !.pc = next]
                   /\ Becomes(c, state)
  BY <1>1
<1>4. /\ state.pc = next /\ state.got = conn[c].got /\ state.packet = conn[c].packet
      /\ state.rest = conn[c].rest /\ state.fd = fd /\ state.sent = << >>
  BY <1>0, <1>3 DEF Fields
<1>5. Collected(state)
  BY <1>0, <1>1, <1>2, <1>4 DEF Collected, Turn, InKernel
<1>6. conn'[c] = state /\ OthersStay(c)
  BY <1>0, <1>3, Changed
<1>7. /\ UNCHANGED <<circ_buffer, working_entry, working_size, pc, call>>
      /\ f_pos' = [f_pos EXCEPT ![fd] = 0]
  BY <1>1 DEF Device!aesd_open, Device!dev
<1>8. Quiet' /\ Stored' = Stored /\ (D!Flat)' = D!Flat
  BY <1>0, <1>7, DeviceStays
<1>9. f_pos'[fd] = 0
  BY <1>0, <1>2, <1>7 DEF D!PlacesOK
<1>10. pc'[c] = "user"
  BY <1>0, <1>1, <1>7 DEF ThreadsOK, ThreadOK, InKernel, At
<1>11. Asks(c)' = Asks(c) /\ seekto(c)' = seekto(c)
  BY <1>4, <1>6 DEF Asks, seekto
<1>12. /\ label \in {"append", "reply"} => ~Asks(c)
       /\ label = "seek" => Asks(c)
       /\ label = "reply" => IsThere(c)
  BY <1>1, <1>2 DEF HolderOK, Stage, At
<1>13. IsThere(c)' <=> IsThere(c)
  BY <1>4, <1>6, <1>8, <1>11 DEF IsThere
<1>14. next = "read" => ReadsOn(c)'
  <2> SUFFICES ASSUME next = "read" PROVE ReadsOn(c)'
    OBVIOUS
  <2>1. StartOf(c)' = 0
    BY <1>1, <1>11, <1>12 DEF StartOf
  <2>2. D!Flat \in Seq(Bytes)
    BY <1>0, DriverMeets, D!FlatIsBytes
  <2>3. Trails(D!Flat, 0, << >>)
    BY <2>2, TrailEmpty
  <2>4. << >> \in Seq(Bytes) /\ Len(<< >>) = 0
    OBVIOUS
  <2>5. conn'[c].fd = fd /\ conn'[c].sent = << >>
    BY <1>4, <1>6
  <2>6. f_pos'[conn'[c].fd] = StartOf(c)' + Len(conn'[c].sent)
    BY <1>9, <2>1, <2>4, <2>5
  <2>7. Trails((D!Flat)', StartOf(c)', conn'[c].sent) /\ conn'[c].sent \in Seq(Bytes)
    BY <1>8, <2>1, <2>3, <2>4, <2>5
  <2>8. QED
    BY <1>10, <2>6, <2>7 DEF ReadsOn
<1>15. Stage(c)'
  BY <1>1, <1>2, <1>4, <1>6, <1>10, <1>11, <1>12, <1>13, <1>14 DEF Stage
<1>16. HolderOK(c)'
  BY <1>10, <1>15 DEF HolderOK, ToldOK
<1>17. QED
  BY <1>0, <1>2, <1>5, <1>6, <1>8, <1>16, HolderKept

LEMMA CloseReplies ==
  ASSUME DriverServerAssumption, TurnInv, clean, ReplyOK, NEW c \in Clients, D!DriverInv',
         CloseWritten(c) \/ CloseReply(c)
  PROVE  ReplyOK'
<1>0. /\ DOMAIN conn[c] = Fields /\ Collected(conn[c]) /\ Quiet /\ ThreadsOK /\ TurnsOK
      /\ conn[c].pc # "unsaved"
  BY DEF TurnInv, ThreadsOK, ThreadOK, TurnsOK, TurnOK, ReplyOK
<1>1. conn[c].pc \in {"saved", "close"} /\ conn[c].pc \in Turn /\ HolderOK(c)
  BY <1>0 DEF CloseWritten, CloseReply, At, Turn, ReplyOK
<1>2. UNCHANGED <<circ_buffer, working_entry, working_size, pc, call>>
  BY DEF CloseWritten, CloseReply, CloseFd, Device!aesd_release, Device!dev
<1>3. Quiet' /\ Stored' = Stored
  BY <1>0, <1>2, DeviceStays
<1>4. CASE CloseWritten(c)
  <2>1. PICK state : state = [conn[c] EXCEPT !.fd = NULL, !.pc = "reply"] /\ Becomes(c, state)
    BY <1>4 DEF CloseWritten
  <2>2. /\ state.pc = "reply" /\ state.got = conn[c].got /\ state.packet = conn[c].packet
        /\ state.rest = conn[c].rest
    BY <1>0, <2>1 DEF Fields
  <2>3. conn'[c] = state /\ OthersStay(c) /\ Collected(state)
    BY <1>0, <1>1, <2>1, <2>2, Changed DEF Collected
  <2>4. Asks(c)' = Asks(c) /\ conn[c].pc = "saved"
    BY <1>0, <1>4, <2>2, <2>3 DEF Asks, CloseWritten, At
  <2>5. ~Asks(c) /\ IsThere(c)
    BY <1>1, <2>4 DEF HolderOK, Stage
  <2>6. ~Asks(c)' /\ IsThere(c)'
    BY <1>3, <2>2, <2>3, <2>4, <2>5 DEF IsThere
  <2>7. pc'[c] = "user"
    BY <1>0, <1>2, <2>4 DEF ThreadsOK, ThreadOK, InKernel
  <2>8. Stage(c)'
    BY <2>2, <2>3, <2>6 DEF Stage
  <2>9. HolderOK(c)'
    BY <2>7, <2>8 DEF HolderOK, ToldOK
  <2>10. QED
    BY <1>0, <1>1, <1>3, <2>3, <2>9, HolderKept
<1>5. CASE CloseReply(c)
  <2>1. PICK state : /\ state = [conn[c] EXCEPT !.fd = NULL, !.packet = << >>, !.pc = "parse"]
                     /\ Becomes(c, state)
    BY <1>5 DEF CloseReply, AfterReply
  <2>2. /\ state.pc = "parse" /\ state.got = conn[c].got /\ state.packet = << >>
        /\ state.rest = conn[c].rest
    BY <1>0, <2>1 DEF Fields
  <2>3. << >> \in Seq(Bytes) /\ NoNewline(<< >>)
    BY DEF NoNewline
  <2>4. conn'[c] = state /\ OthersStay(c) /\ Collected(state) /\ state.pc \notin Turn
    BY <1>0, <2>1, <2>2, <2>3, Changed DEF Collected, Turn, InKernel
  <2>5. HolderOK(c)'
    BY <2>4 DEF HolderOK
  <2>6. QED
    BY <1>0, <1>1, <1>3, <2>4, <2>5, HolderKept
<1>6. QED
  BY <1>4, <1>5

LEMMA EnterReply ==
  ASSUME DriverServerAssumption, TurnInv, clean, ReplyOK, NEW c \in Clients, D!DriverInv',
         EnterKernel(c)
  PROVE  ReplyOK'
<1>0. /\ Quiet /\ ThreadsOK /\ TurnsOK /\ D!ControlOK /\ Collected(conn[c])
      /\ D!PlacesOK /\ DOMAIN conn[c] = Fields
  BY DEF TurnInv, ThreadsOK, ThreadOK, ReplyOK, D!DriverInv
<1>1. /\ conn[c].pc \in InKernel /\ conn[c].pc \in Turn /\ HolderOK(c)
      /\ UNCHANGED <<circ_buffer, working_entry, working_size, conn, f_pos>>
      /\ pc' = [pc EXCEPT ![c] = "enter"] /\ call' = [call EXCEPT ![c] = SystemCall(c)]
  BY DEF EnterKernel, Device!EnterCall, Device!dev, InKernel, Turn, ReplyOK
<1>2. pc'[c] = "enter" /\ call'[c] = SystemCall(c)
  BY <1>0, <1>1 DEF D!ControlOK
<1>3. Quiet' /\ Stored' = Stored /\ (D!Flat)' = D!Flat
  BY <1>0, <1>1, DeviceStays
<1>4. conn' = conn /\ Asks(c)' = Asks(c) /\ seekto(c)' = seekto(c)
  BY <1>1 DEF Asks, seekto
<1>5. StartOf(c)' = StartOf(c) /\ (IsThere(c)' <=> IsThere(c)) /\ OthersStay(c)
  BY <1>3, <1>4 DEF StartOf, IsThere, OthersStay
<1>6. ToldOK(c)'
  <2>1. CASE conn[c].pc = "write"
    <3>1. call'[c] = [op |-> "write", file |-> conn[c].fd, buf |-> conn[c].packet,
                      pos |-> f_pos[conn[c].fd]]
      BY <1>2, <2>1 DEF SystemCall, At
    <3>2. QED
      BY <1>4, <2>1, <3>1 DEF ToldOK
  <2>2. CASE conn[c].pc = "read"
    <3>1. call'[c].op = "read" /\ call'[c].file = conn[c].fd
      BY <1>2, <2>2 DEF SystemCall, At, Device!ReadCall
    <3>2. QED
      BY <1>4, <2>2, <3>1 DEF ToldOK
  <2>3. CASE conn[c].pc = "ioctl"
    <3>1. call'[c] = [op |-> "ioctl", file |-> conn[c].fd, arg |-> seekto(c)]
      BY <1>2, <2>3 DEF SystemCall, At
    <3>2. QED
      BY <1>4, <2>3, <3>1 DEF ToldOK
  <2>4. QED
    BY <1>1, <2>1, <2>2, <2>3 DEF InKernel
<1>7. conn[c].pc = "read" => ReadsOn(c)'
  <2> SUFFICES ASSUME conn[c].pc = "read" PROVE ReadsOn(c)'
    OBVIOUS
  <2>1. ReadsOn(c)
    BY <1>1 DEF HolderOK, Stage
  <2>2. call'[c].pos = f_pos[conn[c].fd]
    BY <1>2 DEF SystemCall, At, Device!ReadCall
  <2>3. QED
    BY <1>1, <1>2, <1>3, <1>4, <1>5, <2>1, <2>2 DEF ReadsOn
<1>8. Stage(c)'
  BY <1>1, <1>2, <1>4, <1>5, <1>7 DEF HolderOK, Stage, InKernel
<1>9. HolderOK(c)'
  BY <1>6, <1>8 DEF HolderOK
<1>10. Collected(conn'[c])
  BY <1>0, <1>4
<1>11. QED
  BY <1>0, <1>1, <1>3, <1>5, <1>9, <1>10, HolderKept

-----------------------------------------------------------------------------
(***************************************************************************)
(* Where a reply starts.                                                   *)
(***************************************************************************)
LEMMA StoredIs ==
  ASSUME DriverServerAssumption, Capacity > 1, ReplyOK
  PROVE  /\ Stored \in Seq(Seq(Bytes)) /\ D!Flat = FlattenSeq(Stored)
         /\ D!Flat \in Seq(Bytes)
<1>0. /\ D!DeviceOK /\ D!CapacityAssumption /\ D!DriverAssumption /\ D!HistoryAssumption
  BY DriverMeets DEF ReplyOK, D!DriverInv
<1>1. D!EntriesInPlace(Bytes, circ_buffer)
  BY <1>0, D!CommandsBytes, D!EntryBytes DEF D!DeviceOK, D!RingShape, D!CommandsAreBytes
<1>2. Stored \in Seq(Seq(Bytes))
  BY <1>1, SameContents DEF D!EntriesInPlace, Stored
<1>3. D!Flat = FlattenSeq(Stored)
  BY SameFlatten, SameContents DEF D!Flat, Stored
<1>4. D!Flat \in Seq(Bytes)
  BY <1>0, D!FlatIsBytes
<1>5. QED
  BY <1>2, <1>3, <1>4

LEMMA SeekToIs ==
  ASSUME DriverServerAssumption, NEW c \in Clients, Asks(c)
  PROVE  seekto(c).write_cmd \in Nat /\ seekto(c).write_cmd_offset \in Nat
BY DEF DriverServerAssumption, Asks, IsSeek, seekto

LEMMA FromIs ==
  ASSUME DriverServerAssumption, Capacity > 1, ReplyOK, NEW c \in Clients, IsThere(c)
  PROVE  StartOf(c) \in Nat
<1> DEFINE cmd   == seekto(c).write_cmd
           front == SubSeq(Stored, 1, cmd)
<1>1. CASE Asks(c)
  <2>1. cmd \in Nat /\ seekto(c).write_cmd_offset \in Nat /\ cmd < Len(Stored)
    BY <1>1, SeekToIs DEF IsThere
  <2>2. Stored \in Seq(Seq(Bytes))
    BY StoredIs
  <2>3. front \in Seq(Seq(Bytes)) /\ << >> \in Seq(Bytes)
    BY <2>1, <2>2
  <2> HIDE DEF front
  <2>4. FlattenSeq(front) \in Seq(Bytes)
    BY <2>3, FlattenAppend
  <2>5. Len(FlattenSeq(front)) \in Nat
    BY <2>4
  <2>6. QED
    BY <1>1, <2>1, <2>5 DEF StartOf, front
<1>2. CASE ~Asks(c)
  BY <1>2 DEF StartOf
<1>3. QED
  BY <1>1, <1>2

-----------------------------------------------------------------------------
(***************************************************************************)
(* In the kernel: which of the driver's steps a step of a thread is, when  *)
(* no call fails.                                                          *)
(***************************************************************************)
LEMMA InACall ==
  ASSUME ThreadsOK, ReplyOK, NEW c \in Clients, Device!mutex_lock(c) \/ Device!Work(c)
  PROVE  /\ pc[c] # "user" /\ conn[c].pc \in InKernel /\ conn[c].pc \in Turn
         /\ call[c].op = conn[c].pc /\ call[c].file = conn[c].fd /\ conn[c].fd \in Fds
         /\ HolderOK(c)
<1>1. pc[c] # "user" /\ conn[c].pc \in InKernel
  BY DeviceMoves DEF ThreadsOK, ThreadOK
<1>2. conn[c].pc \in Turn /\ HolderOK(c)
  BY <1>1 DEF Turn, ReplyOK
<1>3. QED
  BY <1>1, <1>2 DEF HolderOK, ToldOK, Stage, Turn, InKernel

LEMMA InCallIs ==
  ASSUME ThreadsOK, ReplyOK, NEW c \in Clients, InCall(c)
  PROVE  \/ D!mutex_lock(c)
         \/ D!aesd_read(c) /\ ~D!FailAndUnlock(c) /\ conn[c].pc = "read"
         \/ D!aesd_write(c) /\ conn[c].pc = "write"
<1>1. /\ pc'[c] # "user" /\ DOMAIN pc = Clients
      /\ call[c].op = conn[c].pc /\ conn[c].pc \in InKernel
      /\ D!mutex_lock(c) \/ D!Work(c)
  BY InACall, SameKernel, SameWork DEF InCall, ThreadsOK
<1>2. ~D!GoBack(c) /\ ~D!FailAndUnlock(c)
  BY <1>1 DEF D!GoBack, D!FailAndUnlock
<1>3. ~D!RefuseSeekTo(c) /\ ~D!StoreNewPos(c) /\ ~D!StorePosition(c) /\ ~D!aesd_ioctl(c)
  BY <1>1, <1>2 DEF D!RefuseSeekTo, D!StoreNewPos, D!StorePosition, D!aesd_ioctl
<1>4. ~D!aesd_llseek(c)
  BY <1>1 DEF D!aesd_llseek, D!Locked, InKernel
<1>5. /\ D!aesd_read(c) => conn[c].pc = "read"
      /\ D!aesd_write(c) => conn[c].pc = "write"
  BY <1>1 DEF D!aesd_read, D!aesd_write, D!Locked
<1>6. QED
  BY <1>1, <1>2, <1>3, <1>4, <1>5 DEF D!Work

LEMMA ReturnsIs ==
  ASSUME ThreadsOK, ReplyOK, NEW c \in Clients, NEW label \in InKernel, Returns(c, label),
         ~Failed(c)
  PROVE  /\ label \in {"read", "write"} => D!StorePosition(c)
         /\ label = "ioctl" => D!aesd_ioctl(c) /\ ~D!NoSuchByte(c)
<1>1. /\ D!Work(c) /\ call[c].op = label /\ conn[c].pc = label
  BY InACall, SameWork DEF Returns, At
<1>2. CASE label \in {"read", "write"}
  <2>1. pc[c] = "return"
    BY <1>1, <1>2 DEF Failed
  <2>2. QED
    BY <1>1, <1>2, <2>1
       DEF D!Work, D!RefuseSeekTo, D!aesd_read, D!aesd_write, D!aesd_llseek, D!StoreNewPos,
           D!aesd_ioctl, D!Locked
<1>3. CASE label = "ioctl"
  <2>1. ~D!OutOfRange(c) /\ ~D!NoSuchByte(c)
    BY <1>1, <1>3, SameIoctl DEF Failed
  <2>2. pc[c] \notin {"return", "store"}
    BY <1>1, <1>3, InACall, SameWork DEF ReplyOK, D!DriverInv, D!PlacesOK, D!Shape, Returns
  <2>3. QED
    BY <1>1, <1>3, <2>1, <2>2
       DEF D!Work, D!RefuseSeekTo, D!aesd_read, D!aesd_write, D!aesd_llseek, D!StoreNewPos,
           D!StorePosition, D!Locked
<1>4. QED
  BY <1>2, <1>3 DEF InKernel

LEMMA InCallReply ==
  ASSUME DriverServerAssumption, Capacity > 1, TurnInv, clean, ReplyOK, NEW c \in Clients,
         [Next]_vars, clean', D!DriverInv', InCall(c)
  PROVE  ReplyOK'
<1>0. /\ Quiet /\ ThreadsOK /\ TurnsOK /\ D!ControlOK /\ D!PlacesOK /\ D!DeviceOK
      /\ D!DriverInv /\ Collected(conn[c]) /\ conn' = conn /\ pc'[c] # "user"
  BY DEF TurnInv, ReplyOK, D!DriverInv, InCall
<1>1. /\ pc[c] # "user" /\ conn[c].pc \in InKernel /\ conn[c].pc \in Turn
      /\ call[c].op = conn[c].pc /\ call[c].file = conn[c].fd /\ conn[c].fd \in Fds
      /\ HolderOK(c)
  BY <1>0, InACall DEF InCall
<1>2. D!CapacityAssumption /\ D!DriverAssumption /\ D!HistoryAssumption
  BY DriverMeets
<1>3. /\ OthersStay(c) /\ Collected(conn'[c]) /\ Asks(c)' = Asks(c) /\ seekto(c)' = seekto(c)
      /\ conn[c].pc \in Turn /\ ToldOK(c) /\ Stage(c)
  BY <1>0, <1>1 DEF OthersStay, Asks, seekto, HolderOK
<1>4. CASE D!mutex_lock(c)
  <2>1. /\ UNCHANGED <<circ_buffer, working_entry, working_size, f_pos, call>>
        /\ pc[c] = "enter" /\ pc'[c] = "locked"
    BY <1>0, <1>4 DEF D!mutex_lock, D!dev, D!ControlOK
  <2>2. Quiet' /\ Stored' = Stored /\ (D!Flat)' = D!Flat
    BY <1>0, <2>1, DeviceStays
  <2>3. StartOf(c)' = StartOf(c) /\ (IsThere(c)' <=> IsThere(c))
    BY <1>0, <1>3, <2>2 DEF StartOf, IsThere
  <2>4. ReadsOn(c) => ReadsOn(c)'
    BY <1>0, <2>1, <2>2, <2>3 DEF ReadsOn
  <2>5. ToldOK(c)'
    BY <1>0, <1>3, <2>1 DEF ToldOK
  <2>6. Stage(c)'
    BY <1>0, <1>1, <1>3, <2>1, <2>3, <2>4 DEF Stage, InKernel
  <2>7. QED
    BY <1>0, <1>1, <1>3, <2>2, <2>5, <2>6, HolderKept DEF HolderOK
<1>5. CASE D!aesd_read(c) /\ ~D!FailAndUnlock(c) /\ conn[c].pc = "read"
  <2>1. PICK d : /\ D!UnlockAndReturn(c, d) /\ d.file = call[c].file /\ d.op = "read"
                 /\ d.data \in Seq(Bytes) /\ d.pos = call[c].pos + Len(d.data)
                 /\ Trails(D!Flat, call[c].pos, d.data)
    <3>1. \E d : /\ D!UnlockAndReturn(c, d) /\ d.file = call[c].file /\ d.op = "read"
                 /\ d.data \in Seq(Bytes) /\ d.pos = call[c].pos + Len(d.data)
                 /\ D!Trails(D!Flat, call[c].pos, d.data)
      BY <1>0, <1>2, <1>5, D!ReadMoves
    <3>2. QED
      BY <3>1 DEF D!Trails, Trails
  <2>2. /\ UNCHANGED <<circ_buffer, working_entry, working_size, f_pos>>
        /\ pc'[c] = "return" /\ call'[c] = d /\ D!Locked(c, "read")
    BY <1>0, <1>5, <2>1 DEF D!aesd_read, D!UnlockAndReturn, D!dev, D!ControlOK
  <2>3. Quiet' /\ Stored' = Stored /\ (D!Flat)' = D!Flat
    BY <1>0, <2>2, DeviceStays
  <2>4. StartOf(c)' = StartOf(c) /\ (IsThere(c)' <=> IsThere(c)) /\ ReadsOn(c) /\ IsThere(c)
    BY <1>0, <1>3, <1>5, <2>3 DEF StartOf, IsThere, Stage
  <2>5. call[c].pos = f_pos[conn[c].fd]
    BY <2>2, <2>4 DEF ReadsOn, D!Locked
  <2>6. d.data = << >> => call[c].pos >= Len(D!Flat)
    <3>1. [D!Next]_(D!vars)
      BY <1>0, DriverDoes
    <3>2. D!ReadCopiesWhatIsThere(c)
      BY <1>0, <1>2, <2>2, <3>1, D!ReadStep
    <3>3. call[c] \in D!Calls /\ call[c].op = "read"
      BY <1>0, <1>2, <2>2, D!LockedCall
    <3>4. call[c].count \in {FILE_BUF_SIZE}
      BY <1>2, <3>3, D!CallFields
    <3>5. call[c].count # 0
      BY <3>4 DEF DriverServerAssumption
    <3>6. QED
      BY <2>2, <3>2, <3>5 DEF D!ReadCopiesWhatIsThere
  <2>7. ReadsOn(c)'
    BY <1>0, <2>1, <2>2, <2>3, <2>4, <2>5, <2>6 DEF ReadsOn
  <2>8. ToldOK(c)'
    BY <1>0, <1>1, <1>5, <2>1, <2>2 DEF ToldOK
  <2>9. Stage(c)'
    BY <1>0, <1>1, <1>5, <2>4, <2>7 DEF Stage
  <2>10. QED
    BY <1>0, <1>1, <1>3, <2>3, <2>8, <2>9, HolderKept DEF HolderOK
<1>6. CASE D!aesd_write(c) /\ conn[c].pc = "write"
  <2>1. call[c].buf = conn[c].packet /\ conn[c].packet \in D!Commands /\ ~Asks(c)
    BY <1>0, <1>1, <1>3, <1>6 DEF ToldOK, Collected, Stage
  <2>2. /\ D!UnlockAndReturn(c, call[c]) /\ Quiet'
        /\ circ_buffer' = D!aesd_circular_buffer_add_entry(circ_buffer, call[c].buf)
    BY <1>0, <1>6, <2>1, WriteStores
  <2>3. Stored' # << >> /\ Last(Stored') = call[c].buf
    BY <1>0, <2>1, <2>2, StoredLast
  <2>4. IsThere(c)'
    BY <1>0, <1>3, <2>1, <2>3 DEF IsThere
  <2>5. pc'[c] = "return" /\ call'[c] = call[c]
    BY <1>0, <2>2 DEF D!UnlockAndReturn, D!ControlOK, D!PlacesOK
  <2>6. ToldOK(c)'
    BY <1>0, <1>1, <1>3, <1>6, <2>1, <2>5 DEF ToldOK
  <2>7. Stage(c)'
    BY <1>0, <1>1, <1>3, <1>6, <2>1, <2>4 DEF Stage
  <2>8. QED
    BY <1>0, <1>1, <1>3, <2>2, <2>6, <2>7, HolderKept DEF HolderOK
<1>7. QED
  BY <1>0, <1>4, <1>5, <1>6, InCallIs

\* The kernel stores the position; the device stays.
LEMMA PositionStored ==
  ASSUME ThreadsOK, ReplyOK, NEW c \in Clients, conn[c].fd \in Fds, call[c].file = conn[c].fd,
         D!StorePosition(c)
  PROVE  /\ Quiet' /\ Stored' = Stored /\ (D!Flat)' = D!Flat /\ pc[c] = "return"
         /\ pc'[c] = "user" /\ f_pos'[conn[c].fd] = call[c].pos
<1>1. D!ControlOK /\ D!PlacesOK /\ Quiet
  BY DEF ReplyOK, D!DriverInv
<1>2. UNCHANGED <<circ_buffer, working_entry, working_size>>
  BY DEF D!StorePosition, D!dev
<1>3. Quiet' /\ Stored' = Stored /\ (D!Flat)' = D!Flat
  BY <1>1, <1>2, DeviceStays
<1>4. QED
  BY <1>1, <1>3 DEF D!StorePosition, D!ControlOK, D!PlacesOK

LEMMA WriteReply ==
  ASSUME DriverServerAssumption, TurnInv, clean, ReplyOK, NEW c \in Clients, clean',
         D!DriverInv', WriteReturns(c)
  PROVE  ReplyOK'
<1>0. /\ DOMAIN conn[c] = Fields /\ Collected(conn[c]) /\ ThreadsOK /\ TurnsOK
      /\ Returns(c, "write") /\ ~Failed(c) /\ Device!Work(c)
  BY CleanOn DEF TurnInv, ThreadsOK, ThreadOK, ReplyOK, WriteReturns, Returns
<1>1. /\ conn[c].pc \in Turn /\ conn[c].pc = "write" /\ conn[c].fd \in Fds /\ HolderOK(c)
      /\ call[c].file = conn[c].fd
  BY <1>0, InACall DEF Returns, At
<1>2. D!StorePosition(c)
  BY <1>0, ReturnsIs DEF InKernel
<1>3. /\ Quiet' /\ Stored' = Stored /\ pc[c] = "return" /\ pc'[c] = "user"
  BY <1>0, <1>1, <1>2, PositionStored
<1>4. PICK state : state = [conn[c] EXCEPT !.pc = "saved"] /\ Becomes(c, state)
  BY <1>0 DEF WriteReturns, Goes
<1>5. /\ state.pc = "saved" /\ state.got = conn[c].got /\ state.packet = conn[c].packet
      /\ state.rest = conn[c].rest /\ state.fd = conn[c].fd
  BY <1>0, <1>4 DEF Fields
<1>6. conn'[c] = state /\ OthersStay(c) /\ Collected(state)
  BY <1>0, <1>1, <1>4, <1>5, Changed DEF Collected
<1>7. ~Asks(c) /\ IsThere(c) /\ Asks(c)' = Asks(c)
  BY <1>1, <1>3, <1>5, <1>6 DEF HolderOK, Stage, Asks
<1>8. ~Asks(c)' /\ IsThere(c)'
  BY <1>3, <1>5, <1>6, <1>7 DEF IsThere
<1>9. Stage(c)'
  BY <1>1, <1>5, <1>6, <1>8 DEF Stage
<1>10. HolderOK(c)'
  BY <1>3, <1>9 DEF HolderOK, ToldOK
<1>11. QED
  BY <1>0, <1>1, <1>3, <1>6, <1>10, HolderKept

\* What is read on until there is no more is all there was.
LEMMA TrailToTheEnd ==
  ASSUME NEW T, NEW flat \in Seq(T), NEW from \in Nat, NEW bytes \in Seq(T),
         Trails(flat, from, bytes), from + Len(bytes) >= Len(flat)
  PROVE  bytes = SubSeq(flat, from + 1, Len(flat))
<1>1. CASE bytes = << >>
  <2>1. Len(bytes) = 0 /\ from + 1 > Len(flat) /\ Len(flat) \in Nat
    BY <1>1
  <2>2. SubSeq(flat, from + 1, Len(flat)) = << >>
    BY <2>1
  <2>3. QED
    BY <1>1, <2>2
<1>2. CASE bytes # << >>
  <2>1. from + Len(bytes) = Len(flat) /\ bytes = SubSeq(flat, from + 1, from + Len(bytes))
    BY <1>2 DEF Trails
  <2>2. QED
    BY <2>1
<1>3. QED
  BY <1>1, <1>2

\* What has been sent grows by what was read.
LEMMA ReadReply ==
  ASSUME DriverServerAssumption, Capacity > 1, TurnInv, clean, ReplyOK, NEW c \in Clients,
         D!DriverInv', ReadReturns(c)
  PROVE  ReplyOK'
<1>0. /\ DOMAIN conn[c] = Fields /\ Collected(conn[c]) /\ ThreadsOK /\ TurnsOK
      /\ Returns(c, "read") /\ ~Failed(c) /\ Device!Work(c)
      /\ D!DeviceOK
  BY DEF TurnInv, ThreadsOK, ThreadOK, ReplyOK, ReadReturns, Returns, D!DriverInv
<1>1. /\ conn[c].pc \in Turn /\ conn[c].pc = "read" /\ conn[c].fd \in Fds /\ HolderOK(c)
      /\ call[c].file = conn[c].fd
  BY <1>0, InACall DEF Returns, At
<1>2. D!StorePosition(c)
  BY <1>0, ReturnsIs DEF InKernel
<1>3. /\ Quiet' /\ Stored' = Stored /\ (D!Flat)' = D!Flat /\ pc[c] = "return"
      /\ pc'[c] = "user" /\ f_pos'[conn[c].fd] = call[c].pos
  BY <1>0, <1>1, <1>2, PositionStored
<1> DEFINE sent == conn[c].sent
           bytes == call[c].data
           from == StartOf(c)
           pos  == f_pos[conn[c].fd]
<1>4. PICK state : state = [conn[c] EXCEPT !.sent = @ \o bytes] /\ Becomes(c, state)
  BY DEF ReadReturns
<1>5. /\ state.pc = "read" /\ state.got = conn[c].got /\ state.packet = conn[c].packet
      /\ state.rest = conn[c].rest /\ state.fd = conn[c].fd /\ state.sent = Cat(sent, bytes)
  BY <1>0, <1>1, <1>4 DEF Fields, Cat
<1>6. conn'[c] = state /\ OthersStay(c) /\ Collected(state)
  BY <1>0, <1>1, <1>4, <1>5, Changed DEF Collected
<1>7. IsThere(c) /\ Asks(c)' = Asks(c) /\ seekto(c)' = seekto(c)
  BY <1>1, <1>5, <1>6 DEF HolderOK, Stage, Asks, seekto
<1>8. IsThere(c)' /\ StartOf(c)' = from
  BY <1>3, <1>5, <1>6, <1>7 DEF IsThere, StartOf
<1>9. /\ sent \in Seq(Bytes) /\ Trails(D!Flat, from, sent) /\ pos = from + Len(sent)
      /\ bytes \in Seq(Bytes) /\ Trails(D!Flat, pos, bytes) /\ call[c].pos = pos + Len(bytes)
  BY <1>1, <1>3 DEF HolderOK, Stage, ReadsOn
<1>10. D!Flat \in Seq(Bytes) /\ from \in Nat
  <2>1. D!Flat \in Seq(Bytes)
    BY <1>0, DriverMeets, D!FlatIsBytes
  <2>2. from \in Nat
    BY <1>7, FromIs
  <2>3. QED
    BY <2>1, <2>2
<1> HIDE DEF sent, bytes, from, pos
<1>11. /\ Trails(D!Flat, from, Cat(sent, bytes)) /\ Cat(sent, bytes) \in Seq(Bytes)
       /\ from + Len(Cat(sent, bytes)) = call[c].pos
  <2>1. /\ Trails(D!Flat, from, Cat(sent, bytes)) /\ Cat(sent, bytes) \in Seq(Bytes)
        /\ from + Len(Cat(sent, bytes)) = (from + Len(sent)) + Len(bytes)
    BY <1>9, <1>10, TrailGoesOn
  <2>2. QED
    BY <1>9, <2>1
<1>12. ReadsOn(c)'
  BY <1>3, <1>5, <1>6, <1>8, <1>11 DEF ReadsOn
<1>13. Stage(c)'
  BY <1>1, <1>5, <1>6, <1>8, <1>12 DEF Stage
<1>14. HolderOK(c)'
  BY <1>3, <1>13 DEF HolderOK, ToldOK
<1>15. QED
  BY <1>0, <1>1, <1>3, <1>6, <1>14, HolderKept

LEMMA ReadEndReply ==
  ASSUME DriverServerAssumption, Capacity > 1, TurnInv, clean, ReplyOK, NEW c \in Clients,
         clean', D!DriverInv', ReadEnds(c)
  PROVE  ReplyOK'
<1>0. /\ DOMAIN conn[c] = Fields /\ Collected(conn[c]) /\ ThreadsOK /\ TurnsOK
      /\ Returns(c, "read") /\ ~Failed(c) /\ Device!Work(c)
  BY CleanOn DEF TurnInv, ThreadsOK, ThreadOK, ReplyOK, ReadEnds, Returns
<1>1. /\ conn[c].pc \in Turn /\ conn[c].pc = "read" /\ conn[c].fd \in Fds /\ HolderOK(c)
      /\ call[c].file = conn[c].fd
  BY <1>0, InACall DEF Returns, At
<1>2. D!StorePosition(c)
  BY <1>0, ReturnsIs DEF InKernel
<1>3. /\ Quiet' /\ Stored' = Stored /\ (D!Flat)' = D!Flat /\ pc[c] = "return"
      /\ pc'[c] = "user"
  BY <1>0, <1>1, <1>2, PositionStored
<1> DEFINE sent == conn[c].sent
           from == StartOf(c)
<1>4. PICK state : state = [conn[c] EXCEPT !.pc = "close"] /\ Becomes(c, state)
  BY DEF ReadEnds, Goes
<1>5. /\ state.pc = "close" /\ state.got = conn[c].got /\ state.packet = conn[c].packet
      /\ state.rest = conn[c].rest /\ state.fd = conn[c].fd /\ state.sent = sent
  BY <1>0, <1>1, <1>4 DEF Fields
<1>6. conn'[c] = state /\ OthersStay(c) /\ Collected(state)
  BY <1>0, <1>1, <1>4, <1>5, Changed DEF Collected
<1>7. IsThere(c) /\ Asks(c)' = Asks(c) /\ seekto(c)' = seekto(c)
  BY <1>1, <1>5, <1>6 DEF HolderOK, Stage, Asks, seekto
<1>8. IsThere(c)' /\ StartOf(c)' = from
  BY <1>3, <1>5, <1>6, <1>7 DEF IsThere, StartOf
<1>9. /\ sent \in Seq(Bytes) /\ Trails(D!Flat, from, sent)
      /\ from + Len(sent) >= Len(D!Flat)
  BY <1>0, <1>1, <1>3 DEF HolderOK, Stage, ReadsOn, ReadEnds
<1>10. D!Flat \in Seq(Bytes) /\ from \in Nat
  BY <1>7, FromIs, StoredIs
<1> HIDE DEF sent, from
<1>11. sent = SubSeq(D!Flat, from + 1, Len(D!Flat))
  BY <1>9, <1>10, TrailToTheEnd
<1>12. SentAll(c)'
  BY <1>3, <1>5, <1>6, <1>8, <1>11 DEF SentAll
<1>13. Stage(c)'
  BY <1>1, <1>5, <1>6, <1>8, <1>12 DEF Stage
<1>14. HolderOK(c)'
  BY <1>3, <1>13 DEF HolderOK, ToldOK
<1>15. QED
  BY <1>0, <1>1, <1>3, <1>6, <1>14, HolderKept

\* The position is on the byte that was asked for, and the device has that byte.
LEMMA IoctlReply ==
  ASSUME DriverServerAssumption, Capacity > 1, TurnInv, clean, ReplyOK, NEW c \in Clients,
         clean', D!DriverInv', IoctlReturns(c)
  PROVE  ReplyOK'
<1>0. /\ DOMAIN conn[c] = Fields /\ Collected(conn[c]) /\ ThreadsOK /\ TurnsOK /\ Quiet
      /\ Returns(c, "ioctl") /\ ~Failed(c) /\ Device!Work(c)
      /\ D!DriverInv /\ D!ControlOK /\ D!DeviceOK /\ D!PlacesOK
  BY CleanOn DEF TurnInv, ThreadsOK, ThreadOK, ReplyOK, IoctlReturns, Returns, D!DriverInv
<1>1. /\ conn[c].pc \in Turn /\ conn[c].pc = "ioctl" /\ conn[c].fd \in Fds /\ HolderOK(c)
      /\ call[c].file = conn[c].fd /\ pc[c] # "user"
  BY <1>0, InACall DEF Returns, At
<1>2. D!aesd_ioctl(c) /\ ~D!NoSuchByte(c)
  BY <1>0, ReturnsIs DEF InKernel
<1>3. D!CapacityAssumption /\ D!DriverAssumption /\ D!HistoryAssumption
  BY DriverMeets
<1> DEFINE cmd    == seekto(c).write_cmd
           offset == seekto(c).write_cmd_offset
           before == FlattenSeq(SubSeq(Stored, 1, cmd))
<1>4. /\ call[c].arg = seekto(c) /\ call[c].op = "ioctl" /\ Asks(c) /\ conn[c].sent = << >>
  BY <1>1 DEF HolderOK, ToldOK, Stage
<1>5. D!Contents(circ_buffer) = Stored /\ D!FlattenSeq(SubSeq(Stored, 1, cmd)) = before
  BY SameContents, SameFlatten DEF Stored
<1>6. cmd < Len(Stored) /\ offset < Len(Stored[cmd + 1])
  <2>1. /\ offset \in Nat
        /\ cmd < Len(Stored) => D!Sought(c) = Stored[cmd + 1] /\ Len(D!Sought(c)) \in Nat
        /\ ~(cmd < Len(Stored)) => Len(D!Sought(c)) = 0
    BY <1>0, <1>2, <1>3, <1>4, <1>5, D!SoughtIs
  <2>2. ~(offset >= Len(D!Sought(c)))
    BY <1>2, <1>4 DEF D!NoSuchByte, D!OffsetTooFar
  <2> HIDE DEF cmd, offset
  <2>3. QED
    BY <2>1, <2>2
<1>7. f_pos' = [f_pos EXCEPT ![conn[c].fd] = Len(before) + offset]
  <2>1. D!SeekToLands(c)
    BY <1>0, <1>2, <1>3, D!SeekToStep
  <2>2. QED
    BY <1>1, <1>4, <1>5, <1>6, <2>1 DEF D!SeekToLands
<1>8. /\ UNCHANGED <<circ_buffer, working_entry, working_size>> /\ pc'[c] = "user"
      /\ f_pos'[conn[c].fd] = Len(before) + offset
  BY <1>0, <1>1, <1>2, <1>7
     DEF D!aesd_ioctl, D!dev, D!GoBack, D!FailAndUnlock, D!ControlOK, D!PlacesOK
<1>9. Quiet' /\ Stored' = Stored /\ (D!Flat)' = D!Flat
  BY <1>0, <1>8, DeviceStays
<1>10. PICK state : state = [conn[c] EXCEPT !.pc = "read"] /\ Becomes(c, state)
  BY <1>0 DEF IoctlReturns, Goes
<1>11. /\ state.pc = "read" /\ state.got = conn[c].got /\ state.packet = conn[c].packet
       /\ state.rest = conn[c].rest /\ state.fd = conn[c].fd /\ state.sent = << >>
  BY <1>0, <1>4, <1>10 DEF Fields
<1>12. conn'[c] = state /\ OthersStay(c) /\ Collected(state)
  BY <1>0, <1>1, <1>10, <1>11, Changed DEF Collected
<1>13. Asks(c)' = Asks(c) /\ seekto(c)' = seekto(c) /\ IsThere(c)
  BY <1>4, <1>6, <1>11, <1>12 DEF Asks, seekto, IsThere
<1>14. IsThere(c)' /\ StartOf(c)' = StartOf(c) /\ StartOf(c) = Len(before) + offset
  BY <1>4, <1>9, <1>11, <1>12, <1>13 DEF IsThere, StartOf
<1>15. ReadsOn(c)'
  <2>1. StartOf(c) \in Nat /\ D!Flat \in Seq(Bytes)
    BY <1>13, FromIs, StoredIs
  <2>2. Trails(D!Flat, StartOf(c), << >>)
    BY <2>1, TrailEmpty
  <2>3. << >> \in Seq(Bytes) /\ Len(<< >>) = 0
    OBVIOUS
  <2>4. conn'[c].fd = conn[c].fd /\ conn'[c].sent = << >>
    BY <1>11, <1>12
  <2>5. StartOf(c) + 0 = StartOf(c)
    BY <2>1
  <2>6. f_pos'[conn'[c].fd] = StartOf(c)' + Len(conn'[c].sent)
    BY <1>8, <1>14, <2>3, <2>4, <2>5
  <2>7. Trails((D!Flat)', StartOf(c)', conn'[c].sent) /\ conn'[c].sent \in Seq(Bytes)
    BY <1>9, <1>14, <2>2, <2>3, <2>4
  <2>8. QED
    BY <1>8, <2>6, <2>7 DEF ReadsOn
<1>16. Stage(c)'
  BY <1>1, <1>11, <1>12, <1>14, <1>15 DEF Stage
<1>17. HolderOK(c)'
  BY <1>8, <1>16 DEF HolderOK, ToldOK
<1>18. QED
  BY <1>0, <1>1, <1>9, <1>12, <1>17, HolderKept

-----------------------------------------------------------------------------
LEMMA ReplyInit ==
  ASSUME DriverServerAssumption, Capacity > 1, Init
  PROVE  ReplyInv
<1>0. D!CapacityAssumption /\ D!DriverAssumption /\ D!HistoryAssumption
  BY DriverMeets
<1>1. D!Init /\ working_entry = NULL /\ working_size = 0
  BY SameInit DEF Init, Device!Init
<1>2. D!DriverInv
  BY <1>0, <1>1, D!ControlInit, D!DeviceInit, D!PlacesInit DEF D!DriverInv
<1>3. Quiet
  BY <1>1 DEF Quiet, D!Unfinished
<1>4. ASSUME NEW c \in Clients PROVE Collected(conn[c]) /\ HolderOK(c)
  <2>1. conn[c] = [pc |-> "recv", got |-> 0, rest |-> << >>, packet |-> << >>,
                   sent |-> << >>, fd |-> NULL]
    BY DEF Init
  <2>2. << >> \in Seq(Bytes) /\ NoNewline(<< >>)
    BY DEF NoNewline
  <2>3. QED
    BY <2>1, <2>2 DEF Collected, HolderOK, Turn, InKernel
<1>5. QED
  BY <1>2, <1>3, <1>4 DEF ReplyInv, ReplyOK

LEMMA ReplySame ==
  ASSUME ReplyOK, UNCHANGED vars, D!DriverInv'
  PROVE  ReplyOK'
<1>1. UNCHANGED device /\ conn' = conn /\ Quiet'
  BY DeviceStays DEF vars, device, ReplyOK
<1>2. ASSUME NEW c \in Clients PROVE Collected(conn'[c]) /\ HolderOK(c)'
  BY <1>1, SameHolder DEF ReplyOK
<1>3. QED
  BY <1>1, <1>2 DEF ReplyOK

LEMMA ReplyStep ==
  ASSUME DriverServerAssumption, Capacity > 1, TurnInv, ReplyInv, [Next]_vars
  PROVE  ReplyInv'
<1> SUFFICES ASSUME clean' PROVE ReplyOK'
  BY DEF ReplyInv
<1>1. clean /\ ReplyOK /\ ThreadsOK
  BY CleanBefore DEF TurnInv, ReplyInv
<1>2. D!DriverInv'
  BY <1>1, DriverGoesOn
<1>3. ASSUME NEW c \in Clients, HangUp(c) \/ handle_connection(c) PROVE ReplyOK'
  <2>1. CASE Recv(c) \/ HangUp(c) \/ Parse(c)
    BY <1>1, <1>2, <2>1, RecvReply
  <2>2. CASE Lock(c)
    BY <1>1, <1>2, <2>2, LockReply
  <2>3. CASE Open(c)
    BY <1>1, <1>2, <2>3, OpenReply
  <2>4. CASE OpenFails(c)
    BY <2>4 DEF OpenFails, CannotOpen
  <2>5. CASE CloseWritten(c) \/ CloseReply(c)
    BY <1>1, <1>2, <2>5, CloseReplies
  <2>6. CASE EnterKernel(c)
    BY <1>1, <1>2, <2>6, EnterReply
  <2>7. CASE InCall(c)
    BY <1>1, <1>2, <2>7, InCallReply
  <2>8. CASE WriteReturns(c)
    BY <1>1, <1>2, <2>8, WriteReply
  <2>9. CASE ReadReturns(c)
    BY <1>1, <1>2, <2>9, ReadReply
  <2>10. CASE ReadEnds(c)
    BY <1>1, <1>2, <2>10, ReadEndReply
  <2>11. CASE IoctlReturns(c)
    BY <1>1, <1>2, <2>11, IoctlReply
  <2>12. QED
    BY <1>3, <2>1, <2>2, <2>3, <2>4, <2>5, <2>6, <2>7, <2>8, <2>9, <2>10, <2>11
       DEF handle_connection
<1>4. CASE UNCHANGED vars
  BY <1>1, <1>2, <1>4, ReplySame
<1>5. QED
  BY <1>3, <1>4 DEF Next

\* What follows a place in the contents, counted over all of them or from a
\* command on.
LEMMA FromCommandOn ==
  ASSUME NEW B, NEW s \in Seq(Seq(B)), NEW cmd \in Nat, cmd < Len(s), NEW offset \in Nat
  PROVE  LET before  == FlattenSeq(SubSeq(s, 1, cmd))
             onwards == FlattenSeq(SubSeq(s, cmd + 1, Len(s)))
             flat    == FlattenSeq(s)
         IN  SubSeq(flat, Len(before) + offset + 1, Len(flat))
               = SubSeq(onwards, offset + 1, Len(onwards))
<1> DEFINE front   == SubSeq(s, 1, cmd)
           back    == SubSeq(s, cmd + 1, Len(s))
           before  == FlattenSeq(front)
           onwards == FlattenSeq(back)
           flat    == FlattenSeq(s)
           start   == Len(before) + offset
           n       == Len(onwards) - offset
<1>1. front \in Seq(Seq(B)) /\ back \in Seq(Seq(B)) /\ << >> \in Seq(B)
  OBVIOUS
<1>2. s = front \o back
  <2>1. cmd \in 0 .. Len(s) /\ Len(s) \in 0 .. Len(s) /\ SubSeq(s, 1, Len(s)) = s
    OBVIOUS
  <2>2. QED
    BY <2>1, SplitAt
<1> HIDE DEF front, back
<1>3. flat = before \o onwards
  BY <1>1, <1>2, FlattenConcat
<1>4. before \in Seq(B) /\ onwards \in Seq(B)
  BY <1>1, FlattenAppend
<1> HIDE DEF before, onwards, flat
<1>5. /\ flat \in Seq(B) /\ Len(flat) = Len(before) + Len(onwards)
      /\ Len(before) \in Nat /\ Len(onwards) \in Nat
      /\ \A j \in 1 .. Len(onwards) : flat[Len(before) + j] = onwards[j]
  BY <1>3, <1>4, ConcatElements
<1>6. CASE offset <= Len(onwards)
  <2> DEFINE x == SubSeq(flat, start + 1, start + n)
             y == SubSeq(onwards, offset + 1, offset + n)
  <2>1. /\ start \in Nat /\ n \in Nat /\ start + n = Len(flat) /\ offset + n = Len(onwards)
        /\ start + n <= Len(flat) /\ offset + n <= Len(onwards)
        /\ start = Len(before) + offset
    <3> DEFINE p == Len(before)
               m == Len(onwards)
    <3>1. p \in Nat /\ m \in Nat /\ offset <= m /\ Len(flat) = p + m
      BY <1>5, <1>6
    <3> HIDE DEF p, m
    <3>2. QED
      BY <3>1 DEF p, m
  <2> HIDE DEF start, n
  <2>2. /\ x \in Seq(B) /\ Len(x) = n /\ \A k \in 1 .. n : x[k] = flat[start + k]
    <3>1. flat \in Seq(B) /\ start \in Nat /\ n \in Nat /\ start + n <= Len(flat)
      BY <1>5, <2>1
    <3>2. QED
      BY <3>1, SliceElements
  <2>3. /\ y \in Seq(B) /\ Len(y) = n /\ \A k \in 1 .. n : y[k] = onwards[offset + k]
    <3>1. onwards \in Seq(B) /\ offset \in Nat /\ n \in Nat /\ offset + n <= Len(onwards)
      BY <1>4, <2>1
    <3>2. QED
      BY <3>1, SliceElements
  <2> HIDE DEF x, y
  <2>4. ASSUME NEW k \in 1 .. n PROVE flat[start + k] = onwards[offset + k]
    <3> DEFINE p == Len(before)
               m == Len(onwards)
    <3>0. /\ p \in Nat /\ m \in Nat /\ n \in Nat /\ k \in 1 .. n
          /\ offset + n = m /\ start = p + offset
      BY <1>5, <2>1
    <3> HIDE DEF p, m
    <3>1. offset + k \in 1 .. m /\ p + (offset + k) = start + k
      BY <3>0
    <3>2. flat[p + (offset + k)] = onwards[offset + k]
      BY <1>5, <3>1 DEF p, m
    <3>3. QED
      BY <3>1, <3>2
  <2>5. x = y
    <3>1. Len(x) = Len(y) /\ \A k \in 1 .. Len(x) : x[k] = y[k]
      BY <2>2, <2>3, <2>4
    <3>2. QED
      BY <2>2, <2>3, <3>1, SeqEqual
  <2>6. QED
    BY <2>1, <2>5 DEF x, y, start, before, onwards, flat, front, back
<1>7. CASE ~(offset <= Len(onwards))
  <2>1. SubSeq(flat, start + 1, Len(flat)) = << >>
    BY <1>5, <1>7
  <2>2. SubSeq(onwards, offset + 1, Len(onwards)) = << >>
    BY <1>4, <1>5, <1>7
  <2>3. QED
    BY <2>1, <2>2 DEF start, before, onwards, flat, front, back
<1>8. QED
  BY <1>6, <1>7

LEMMA AllIsAnswered ==
  ASSUME DriverServerAssumption, Capacity > 1, ReplyOK, NEW c \in Clients, At(c, "close")
  PROVE  Answers(c)
<1>1. SentAll(c) /\ IsThere(c)
  BY DEF ReplyOK, HolderOK, Stage, At, Turn
<1>2. Stored \in Seq(Seq(Bytes)) /\ D!Flat = FlattenSeq(Stored) /\ D!Flat \in Seq(Bytes)
  BY StoredIs
<1>3. Device!Flat = D!Flat
  BY SameContents, SameFlatten DEF Device!Flat, D!Flat
<1>4. CASE Asks(c)
  <2> DEFINE arg     == seekto(c)
             onwards == FlattenSeq(SubSeq(Stored, arg.write_cmd + 1, Len(Stored)))
  <2>1. arg.write_cmd \in Nat /\ arg.write_cmd_offset \in Nat /\ arg.write_cmd < Len(Stored)
    BY <1>1, <1>4, SeekToIs DEF IsThere
  <2>2. StartOf(c) = Len(FlattenSeq(SubSeq(Stored, 1, arg.write_cmd))) + arg.write_cmd_offset
    BY <1>4 DEF StartOf
  <2> HIDE DEF arg
  <2>3. conn[c].sent = SubSeq(onwards, arg.write_cmd_offset + 1, Len(onwards))
    <3> DEFINE flat  == FlattenSeq(Stored)
               start == Len(FlattenSeq(SubSeq(Stored, 1, arg.write_cmd)))
    <3>1. conn[c].sent = SubSeq(flat, start + arg.write_cmd_offset + 1, Len(flat))
      BY <1>1, <1>2, <2>2 DEF SentAll
    <3>2. SubSeq(flat, start + arg.write_cmd_offset + 1, Len(flat))
            = SubSeq(onwards, arg.write_cmd_offset + 1, Len(onwards))
      BY <1>2, <2>1, FromCommandOn
    <3>3. QED
      BY <3>1, <3>2
  <2>4. QED
    BY <1>4, <2>3 DEF Answers, ReplyToSeek, Asks, seekto, arg
<1>5. CASE ~Asks(c)
  <2>1. conn[c].sent = SubSeq(D!Flat, 1, Len(D!Flat))
    BY <1>1, <1>5 DEF SentAll, StartOf
  <2>2. conn[c].sent = D!Flat
    BY <1>2, <2>1
  <2>3. QED
    BY <1>1, <1>3, <1>5, <2>2 DEF Answers, Asks, IsThere
<1>6. QED
  BY <1>4, <1>5

(***************************************************************************)
(* As long as no call on the device fails, the whole reply is right: for   *)
(* any clients and everything they send, whoever else writes, a packet is  *)
(* answered with all that the device holds, the packet itself the last     *)
(* command of it, and a request to seek with what the device holds from    *)
(* the byte asked for on.                                                  *)
(***************************************************************************)
THEOREM EveryReplyAnswers ==
  ASSUME Capacity > 1
  PROVE  Spec => RepliesAnswer
<1>1. DriverServerAssumption
  BY DriverServerAssumption
<1>2. Init => ReplyInv
  BY <1>1, ReplyInit
<1>3. TurnInv /\ ReplyInv /\ [Next]_vars => ReplyInv'
  BY <1>1, ReplyStep
<1>4. ReplyInv /\ [Next]_vars => [\A c \in Clients : CloseReply(c) /\ clean => Answers(c)]_vars
  <2> SUFFICES ASSUME ReplyInv, NEW c \in Clients, CloseReply(c), clean
               PROVE  Answers(c)
    OBVIOUS
  <2>1. At(c, "close") /\ ReplyOK
    BY DEF CloseReply, ReplyInv
  <2>2. QED
    BY <1>1, <2>1, AllIsAnswered
<1>5. QED
  BY <1>2, <1>3, <1>4, TurnInvariant, PTL DEF Spec, RepliesAnswer

-----------------------------------------------------------------------------
(***************************************************************************)
(* What clients send is stored.  Selected takes bytes out of a sequence,   *)
(* and does so part by part.                                               *)
(***************************************************************************)
\* What a part that begins with p begins with, and what is left of it.
IsSlice(s, i, j, p, q) == p \o q = SubSeq(s, i + 1, j)

LEMMA SliceSplits ==
  ASSUME NEW T, NEW s \in Seq(T), NEW j \in 0 .. Len(s), NEW i \in 0 .. j,
         NEW p \in Seq(T), NEW q \in Seq(T), IsSlice(s, i, j, p, q)
  PROVE  /\ i + Len(p) \in i .. j /\ q = SubSeq(s, i + Len(p) + 1, j)
         /\ SubSeq(s, 1, i + Len(p)) = SubSeq(s, 1, i) \o p
         /\ \A k \in 1 .. Len(p) : p[k] = s[i + k]
<1> DEFINE y == p \o q
<1>0. /\ Len(y) = Len(p) + Len(q) /\ Len(p) \in Nat /\ Len(q) \in Nat
      /\ \A k \in 1 .. Len(p) : y[k] = p[k]
      /\ \A k \in 1 .. Len(q) : y[Len(p) + k] = q[k]
  BY ConcatElements
<1>00. y = SubSeq(s, i + 1, j)
  BY DEF IsSlice
<1> HIDE DEF y
<1> DEFINE x == SubSeq(s, i + 1, j)
           m == i + Len(p)
<1>1. /\ x \in Seq(T) /\ Len(x) = j - i /\ \A k \in 1 .. j - i : x[k] = s[i + k]
  <2>1. i + (j - i) = j /\ j - i \in Nat
    OBVIOUS
  <2>2. QED
    BY <2>1, SliceElements
<1>2. /\ Len(p) + Len(q) = j - i /\ Len(p) \in Nat /\ Len(q) \in Nat
      /\ \A k \in 1 .. Len(p) : x[k] = p[k]
      /\ \A k \in 1 .. Len(q) : x[Len(p) + k] = q[k]
  <2>1. x = y
    BY <1>00
  <2> HIDE DEF x
  <2>2. QED
    BY <1>0, <1>1, <2>1
<1> HIDE DEF x
<1>3. m \in i .. j /\ m \in Nat /\ i + Len(p) = m /\ m + Len(q) = j
  BY <1>2
<1>4. \A k \in 1 .. Len(p) : p[k] = s[i + k]
  BY <1>1, <1>2
<1>5. \A k \in 1 .. Len(q) : q[k] = s[m + k]
  <2> SUFFICES ASSUME NEW k \in 1 .. Len(q) PROVE q[k] = s[m + k]
    OBVIOUS
  <2>1. Len(p) + k \in 1 .. j - i /\ i + (Len(p) + k) = m + k
    BY <1>2
  <2>2. QED
    BY <1>1, <1>2, <2>1
<1> HIDE DEF m
<1>6. p = SubSeq(s, i + 1, m)
  <2>1. /\ SubSeq(s, i + 1, m) \in Seq(T) /\ Len(SubSeq(s, i + 1, m)) = Len(p)
        /\ \A k \in 1 .. Len(p) : SubSeq(s, i + 1, m)[k] = s[i + k]
    <3>1. i + Len(p) <= Len(s)
      BY <1>3
    <3>2. QED
      BY <1>2, <1>3, <3>1, SliceElements
  <2>2. QED
    BY <1>2, <1>4, <2>1, SeqEqual
<1>7. q = SubSeq(s, m + 1, j)
  <2>1. /\ SubSeq(s, m + 1, j) \in Seq(T) /\ Len(SubSeq(s, m + 1, j)) = Len(q)
        /\ \A k \in 1 .. Len(q) : SubSeq(s, m + 1, j)[k] = s[m + k]
    <3>1. m + Len(q) <= Len(s)
      BY <1>3
    <3>2. QED
      BY <1>2, <1>3, <3>1, SliceElements
  <2> DEFINE r == SubSeq(s, m + 1, j)
  <2>2. r \in Seq(T) /\ Len(r) = Len(q) /\ \A k \in 1 .. Len(q) : r[k] = q[k]
    BY <1>5, <2>1
  <2> HIDE DEF r
  <2>3. q = r
    BY <2>2, SeqEqual
  <2>4. QED
    BY <2>3 DEF r
<1>8. SubSeq(s, 1, m) = SubSeq(s, 1, i) \o SubSeq(s, i + 1, m)
  <2>1. m \in 0 .. Len(s) /\ i \in 0 .. m
    BY <1>3
  <2>2. QED
    BY <2>1, SplitAt
<1>9. QED
  BY <1>3, <1>4, <1>6, <1>7, <1>8 DEF m

-----------------------------------------------------------------------------
\* The pieces that Selected joins.
Picked(s, kept) == [i \in DOMAIN s |-> IF s[i] \in kept THEN <<s[i]>> ELSE << >>]

LEMMA PickedIs ==
  ASSUME NEW T, NEW s \in Seq(T), NEW K
  PROVE  /\ Picked(s, K) \in Seq(Seq(T)) /\ Len(Picked(s, K)) = Len(s)
         /\ \A i \in 1 .. Len(s) : Picked(s, K)[i] = IF s[i] \in K THEN <<s[i]>> ELSE << >>
<1>1. DOMAIN s = 1 .. Len(s) /\ Len(s) \in Nat /\ \A i \in 1 .. Len(s) : s[i] \in T
  OBVIOUS
<1>2. \A i \in 1 .. Len(s) : (IF s[i] \in K THEN <<s[i]>> ELSE << >>) \in Seq(T)
  <2>1. \A e \in T : <<e>> \in Seq(T)
    OBVIOUS
  <2>2. << >> \in Seq(T)
    OBVIOUS
  <2>3. QED
    BY <1>1, <2>1, <2>2
<1>3. Picked(s, K) = [i \in 1 .. Len(s) |-> IF s[i] \in K THEN <<s[i]>> ELSE << >>]
  BY <1>1 DEF Picked
<1>4. Picked(s, K) \in [1 .. Len(s) -> Seq(T)]
  BY <1>2, <1>3
<1>5. Picked(s, K) \in Seq(Seq(T)) /\ Len(Picked(s, K)) = Len(s)
  BY <1>1, <1>4, IsASeq
<1>6. QED
  BY <1>3, <1>5

LEMMA SelectedIsSeq ==
  ASSUME NEW T, NEW s \in Seq(T), NEW K
  PROVE  Selected(s, K) = FlattenSeq(Picked(s, K)) /\ Selected(s, K) \in Seq(T)
<1>1. Picked(s, K) \in Seq(Seq(T)) /\ << >> \in Seq(T)
  BY PickedIs
<1>2. FlattenSeq(Picked(s, K)) \in Seq(T)
  BY <1>1, FlattenAppend
<1>3. QED
  BY <1>2 DEF Selected, Picked

LEMMA SelectedConcat ==
  ASSUME NEW T, NEW s \in Seq(T), NEW t \in Seq(T), NEW K
  PROVE  Selected(s \o t, K) = Selected(s, K) \o Selected(t, K)
<1> DEFINE w == s \o t
           x == Picked(s, K)
           y == Picked(t, K)
           z == Picked(w, K)
<1>1. /\ w \in Seq(T) /\ Len(w) = Len(s) + Len(t) /\ Len(s) \in Nat /\ Len(t) \in Nat
      /\ \A j \in 1 .. Len(s) : w[j] = s[j]
      /\ \A j \in 1 .. Len(t) : w[Len(s) + j] = t[j]
  BY ConcatElements
<1> HIDE DEF w
<1>2. /\ x \in Seq(Seq(T)) /\ Len(x) = Len(s)
      /\ \A i \in 1 .. Len(s) : x[i] = IF s[i] \in K THEN <<s[i]>> ELSE << >>
  BY PickedIs
<1>3. /\ y \in Seq(Seq(T)) /\ Len(y) = Len(t)
      /\ \A i \in 1 .. Len(t) : y[i] = IF t[i] \in K THEN <<t[i]>> ELSE << >>
  BY PickedIs
<1>4. /\ z \in Seq(Seq(T)) /\ Len(z) = Len(w)
      /\ \A i \in 1 .. Len(w) : z[i] = IF w[i] \in K THEN <<w[i]>> ELSE << >>
  <2>1. w \in Seq(T)
    BY <1>1
  <2>2. QED
    BY <2>1, PickedIs
<1> HIDE DEF x, y, z
<1> DEFINE v == x \o y
<1>5. /\ v \in Seq(Seq(T)) /\ Len(v) = Len(s) + Len(t)
      /\ \A j \in 1 .. Len(s) : v[j] = x[j]
      /\ \A j \in 1 .. Len(t) : v[Len(s) + j] = y[j]
  <2> DEFINE P == Seq(T)
  <2>1. x \in Seq(P) /\ y \in Seq(P)
    BY <1>2, <1>3
  <2> HIDE DEF P
  <2>2. /\ v \in Seq(P) /\ Len(v) = Len(x) + Len(y)
        /\ \A j \in 1 .. Len(x) : v[j] = x[j]
        /\ \A j \in 1 .. Len(y) : v[Len(x) + j] = y[j]
    BY <2>1, ConcatElements
  <2> HIDE DEF v
  <2>3. Len(x) = Len(s) /\ Len(y) = Len(t)
    BY <1>2, <1>3
  <2>4. QED
    BY <2>2, <2>3 DEF P
<1> HIDE DEF v
<1>6. ASSUME NEW i \in 1 .. Len(w) PROVE v[i] = z[i]
  <2>1. CASE i <= Len(s)
    <3>1. i \in 1 .. Len(s)
      BY <1>1, <2>1
    <3>2. QED
      BY <1>1, <1>2, <1>4, <1>5, <3>1
  <2>2. CASE i > Len(s)
    <3>1. i - Len(s) \in 1 .. Len(t) /\ Len(s) + (i - Len(s)) = i
      BY <1>1, <2>2
    <3>2. v[i] = y[i - Len(s)] /\ w[i] = t[i - Len(s)]
      BY <1>1, <1>5, <3>1
    <3>3. QED
      BY <1>3, <1>4, <3>1, <3>2
  <2>3. QED
    BY <1>1, <2>1, <2>2
<1>7. v = z
  BY <1>1, <1>4, <1>5, <1>6, SeqEqual
<1>8. FlattenSeq(v) = FlattenSeq(x) \o FlattenSeq(y)
  BY <1>2, <1>3, FlattenConcat DEF v
<1>9. /\ Selected(w, K) = FlattenSeq(z)
      /\ Selected(s, K) = FlattenSeq(x) /\ Selected(t, K) = FlattenSeq(y)
  BY <1>1, SelectedIsSeq DEF x, y, z
<1>10. QED
  BY <1>7, <1>8, <1>9 DEF w

LEMMA SelectedNone ==
  ASSUME NEW T, NEW s \in Seq(T), NEW K, \A i \in 1 .. Len(s) : s[i] \notin K
  PROVE  Selected(s, K) = << >>
<1> DEFINE x == Picked(s, K)
           f == [i \in 1 .. Len(x) |-> << >>]
<1>1. /\ x \in Seq(Seq(T)) /\ Len(x) = Len(s)
      /\ \A i \in 1 .. Len(s) : x[i] = << >>
  <2>1. /\ x \in Seq(Seq(T)) /\ Len(x) = Len(s)
        /\ \A i \in 1 .. Len(s) : x[i] = IF s[i] \in K THEN <<s[i]>> ELSE << >>
    BY PickedIs
  <2> HIDE DEF x
  <2>2. QED
    BY <2>1
<1>2. Selected(s, K) = FlattenSeq(x)
  BY SelectedIsSeq
<1> HIDE DEF x
<1>3. CASE x = << >>
  BY <1>2, <1>3, FlattenEmpty
<1>4. CASE x # << >>
  <2>1. << >> \in Seq(T) /\ << >> \o << >> = << >>
    OBVIOUS
  <2>2. f \in [1 .. Len(x) -> Seq(T)]
    BY <2>1
  <2>3. Flattening(x, f)
    <3> DEFINE g == [i \in 1 .. Len(x) |-> IF i = 1 THEN x[i] ELSE f[i - 1] \o x[i]]
    <3>1. ASSUME NEW i \in 1 .. Len(x) PROVE g[i] = << >>
      <4>1. x[i] = << >>
        BY <1>1
      <4>2. i # 1 => i - 1 \in 1 .. Len(x)
        BY <1>1
      <4>3. i # 1 => f[i - 1] = << >>
        BY <4>2
      <4> HIDE DEF f
      <4>4. QED
        BY <2>1, <4>1, <4>3
    <3>2. f = g
      BY <3>1
    <3>3. QED
      BY <3>2 DEF Flattening
  <2>4. FlattenSeq(x) = f[Len(x)]
    BY <1>1, <1>4, <2>2, <2>3, FlattenIs
  <2>5. Len(x) \in 1 .. Len(x)
    BY <1>1, <1>4
  <2>6. QED
    BY <1>2, <2>4, <2>5
<1>5. QED
  BY <1>3, <1>4

-----------------------------------------------------------------------------
(***************************************************************************)
(* The lines.  done says for each client how much of what it has sent has  *)
(* been dealt with: up to the end of a line, and the text of it is in the  *)
(* device.  What recv has brought beyond that is in packet_buf and buf.    *)
(***************************************************************************)
PacketDone(c) == \/ conn[c].pc \in {"saved", "reply", "read", "close"}
                 \/ conn[c].pc = "write" /\ pc[c] = "return"

LeftOver(c) == (IF PacketDone(c) THEN << >> ELSE conn[c].packet) \o conn[c].rest

InPlace(c, done) ==
  /\ done \in 0 .. conn[c].got /\ conn[c].got <= Len(Stream[c])
  /\ LeftOver(c) = SubSeq(Stream[c], done + 1, conn[c].got)
  /\ conn[c].pc = "recv" => conn[c].rest = << >>

IsStored(c, done) ==
  /\ done > 0 => Stream[c][done] = Newline
  /\ Selected(SubSeq(Stream[c], 1, done), Text(c)) = Selected(FlattenSeq(Stored), Text(c))

DoneLines(done) == {l \in AllLines : l[2] <= done[l[1]]}

Follows(done) ==
  /\ \A c \in Clients : InPlace(c, done[c]) /\ IsStored(c, done[c])
  /\ Len(Stored) <= Cardinality(DoneLines(done))

LinesOK ==
  /\ \E done \in [Clients -> Nat] : Follows(done)
  /\ \A i \in DOMAIN Stored : Head(Stored[i]) \notin DOMAIN SeekText

LinesInv == clean => LinesOK

\* A step that only moves bytes between packet_buf and buf.
Keeps(c) ==
  /\ conn'[c].got = conn[c].got /\ LeftOver(c)' = LeftOver(c)
  /\ conn'[c].pc = "recv" => conn'[c].rest = << >>

LEMMA LinesKept ==
  ASSUME LinesOK, Stored' = Stored, \A c \in Clients : Keeps(c)
  PROVE  LinesOK'
<1>1. PICK done \in [Clients -> Nat] : Follows(done)
  BY DEF LinesOK
<1>2. ASSUME NEW c \in Clients PROVE InPlace(c, done[c])'
  BY <1>1 DEF Follows, InPlace, Keeps
<1>3. ASSUME NEW c \in Clients PROVE IsStored(c, done[c])'
  BY <1>1 DEF Follows, IsStored
<1>4. Len(Stored)' <= Cardinality(DoneLines(done))
  BY <1>1 DEF Follows
<1>5. Follows(done)'
  BY <1>2, <1>3, <1>4 DEF Follows, DoneLines, AllLines, LineEnds
<1>6. QED
  BY <1>5 DEF LinesOK

\* The other threads stay as they are.
LEMMA OthersKeep ==
  ASSUME ThreadsOK, LinesOK, NEW c \in Clients, OthersStay(c), NEW place, KernelMoves(c, place),
         Stored' = Stored, Keeps(c)
  PROVE  LinesOK'
<1>1. ASSUME NEW d \in Clients PROVE Keeps(d)
  <2>1. CASE d = c
    BY <2>1
  <2>2. CASE d # c
    <3>1. conn'[d] = conn[d] /\ pc'[d] = pc[d]
      BY <2>2 DEF OthersStay, KernelMoves
    <3>2. conn[d].pc = "recv" => conn[d].rest = << >>
      BY DEF LinesOK, Follows, InPlace
    <3>3. QED
      BY <3>1, <3>2 DEF Keeps, LeftOver, PacketDone
  <2>3. QED
    BY <2>1, <2>2
<1>2. QED
  BY <1>1, LinesKept

\* Most steps change neither packet_buf nor buf,
LEMMA LabelKeeps ==
  ASSUME ThreadsOK, LinesOK, NEW c \in Clients, OthersStay(c), NEW place,
         KernelMoves(c, place), Stored' = Stored,
         conn'[c].got = conn[c].got /\ conn'[c].rest = conn[c].rest
           /\ conn'[c].packet = conn[c].packet,
         PacketDone(c)' <=> PacketDone(c), conn'[c].pc = "recv" => conn[c].pc = "recv"
  PROVE  LinesOK'
<1>1. conn[c].pc = "recv" => conn[c].rest = << >>
  BY DEF LinesOK, Follows, InPlace
<1>2. Keeps(c)
  BY <1>1 DEF Keeps, LeftOver
<1>3. QED
  BY <1>2, OthersKeep

LEMMA LabelSteps ==
  ASSUME DriverServerAssumption, TurnInv, clean, ReplyOK, LinesOK, NEW c \in Clients, clean',
         HangUp(c) \/ Lock(c) \/ Open(c) \/ EnterKernel(c) \/ CloseWritten(c)
  PROVE  LinesOK'
<1>0. /\ ThreadsOK /\ TurnOK(c) /\ DOMAIN conn[c] = Fields
      /\ pc[c] # "user" => conn[c].pc \in InKernel
  BY DEF TurnInv, TurnsOK, ThreadsOK, ThreadOK
<1>1. CASE HangUp(c) \/ Lock(c)
  <2>1. PICK label \in {"ended", "seek", "append"} : Goes(c, label)
    <3>1. CASE HangUp(c)
      BY <3>1 DEF HangUp
    <3>2. CASE Lock(c) /\ IsSeek(conn[c].packet)
      BY <3>2 DEF Lock
    <3>3. CASE Lock(c) /\ ~IsSeek(conn[c].packet)
      BY <3>3 DEF Lock
    <3>4. QED
      BY <1>1, <3>1, <3>2, <3>3
  <2> DEFINE state == [conn[c] EXCEPT !.pc = label]
  <2>2. /\ state.pc = label /\ state.got = conn[c].got /\ state.packet = conn[c].packet
        /\ state.rest = conn[c].rest
    BY <1>0, <2>1 DEF Fields
  <2>3. /\ conn'[c] = state /\ OthersStay(c)
    BY <1>0, <2>1, Changed DEF Goes
  <2>4. conn[c].pc \in {"recv", "lock"} /\ UNCHANGED device
    BY <1>1 DEF HangUp, Lock, At
  <2>5. KernelMoves(c, pc[c]) /\ Stored' = Stored
    BY <1>0, <2>4, KernelSame DEF device, Stored, Device!Contents
  <2>6. ~PacketDone(c) /\ ~PacketDone(c)' /\ conn'[c].pc # "recv"
    BY <2>1, <2>2, <2>3, <2>4 DEF PacketDone
  <2>7. QED
    BY <1>0, <2>2, <2>3, <2>5, <2>6, LabelKeeps
<1>2. CASE Open(c)
  <2>1. PICK label, next : /\ OpenFor(c, label, next)
                           /\ label \in {"append", "reply", "seek"}
                           /\ next \in {"write", "read", "ioctl"}
                           /\ next = "read" <=> label = "reply"
    <3>1. CASE OpenFor(c, "append", "write")
      BY <3>1
    <3>2. CASE OpenFor(c, "reply", "read")
      BY <3>2
    <3>3. CASE OpenFor(c, "seek", "ioctl")
      BY <3>3
    <3>4. QED
      BY <1>2, <3>1, <3>2, <3>3 DEF Open
  <2> DEFINE fd == Min(Fds \ opened)
  <2>0. /\ conn[c].pc = label /\ Device!aesd_open(fd)
        /\ Becomes(c, [conn[c] EXCEPT !.fd = fd, !.sent = << >>, !.pc = next])
    BY <2>1 DEF OpenFor, At
  <2> HIDE DEF fd
  <2>2. PICK state : state = [conn[c] EXCEPT !.fd = fd, !.sent = << >>, !.pc = next]
                     /\ Becomes(c, state)
    BY <2>0
  <2>3. /\ state.pc = next /\ state.got = conn[c].got /\ state.packet = conn[c].packet
        /\ state.rest = conn[c].rest
    BY <1>0, <2>2 DEF Fields
  <2>4. conn'[c] = state /\ OthersStay(c)
    BY <1>0, <2>2, Changed
  <2>5. circ_buffer' = circ_buffer /\ pc' = pc
    BY <2>0 DEF Device!aesd_open, Device!dev
  <2>6. KernelMoves(c, pc[c]) /\ Stored' = Stored
    BY <1>0, <2>5, KernelSame DEF Stored, Device!Contents
  <2>7. pc[c] = "user"
    BY <1>0, <2>0, <2>1 DEF InKernel
  <2>8. (PacketDone(c)' <=> PacketDone(c)) /\ conn'[c].pc # "recv"
    BY <2>0, <2>1, <2>3, <2>4, <2>5, <2>7 DEF PacketDone
  <2>9. QED
    BY <1>0, <2>3, <2>4, <2>6, <2>8, LabelKeeps
<1>3. CASE EnterKernel(c)
  <2>1. /\ conn' = conn /\ circ_buffer' = circ_buffer
        /\ pc' = [pc EXCEPT ![c] = "enter"] /\ pc[c] = "user"
    BY <1>3 DEF EnterKernel, Device!EnterCall, Device!dev
  <2>2. pc'[c] = "enter" /\ KernelMoves(c, pc'[c]) /\ Stored' = Stored /\ OthersStay(c)
    BY <1>0, <2>1 DEF KernelMoves, ThreadsOK, Stored, Device!Contents, OthersStay
  <2>3. (PacketDone(c)' <=> PacketDone(c))
    BY <2>1, <2>2 DEF PacketDone
  <2>4. QED
    BY <1>0, <2>1, <2>2, <2>3, LabelKeeps
<1>4. CASE CloseWritten(c)
  <2>1. conn[c].pc = "saved"
    BY <1>0, <1>4 DEF TurnOK, CloseWritten, At
  <2>2. PICK state : state = [conn[c] EXCEPT !.fd = NULL, !.pc = "reply"] /\ Becomes(c, state)
    BY <1>4 DEF CloseWritten
  <2>3. /\ state.pc = "reply" /\ state.got = conn[c].got /\ state.packet = conn[c].packet
        /\ state.rest = conn[c].rest
    BY <1>0, <2>2 DEF Fields
  <2>4. conn'[c] = state /\ OthersStay(c)
    BY <1>0, <2>2, Changed
  <2>5. circ_buffer' = circ_buffer /\ pc' = pc
    BY <1>4 DEF CloseWritten, CloseFd, Device!aesd_release, Device!dev
  <2>6. KernelMoves(c, pc[c]) /\ Stored' = Stored
    BY <1>0, <2>5, KernelSame DEF Stored, Device!Contents
  <2>7. PacketDone(c)' /\ PacketDone(c) /\ conn'[c].pc # "recv"
    BY <2>1, <2>3, <2>4 DEF PacketDone
  <2>8. QED
    BY <1>0, <2>3, <2>4, <2>6, <2>7, LabelKeeps
<1>5. QED
  BY <1>1, <1>2, <1>3, <1>4

\* the steps that end a call neither, but for an ioctl,
LEMMA ReturnSteps ==
  ASSUME DriverServerAssumption, TurnInv, clean, ReplyOK, LinesOK, NEW c \in Clients, clean',
         WriteReturns(c) \/ ReadReturns(c) \/ ReadEnds(c)
  PROVE  LinesOK'
<1>0. /\ ThreadsOK /\ DOMAIN conn[c] = Fields
  BY DEF TurnInv, ThreadsOK, ThreadOK
<1> DEFINE op == conn[c].pc
<1>1. op \in {"write", "read"} /\ Returns(c, op) /\ ~Failed(c)
  <2>1. CASE WriteReturns(c)
    <3>1. Returns(c, "write") /\ ~Failed(c)
      BY <1>0, <2>1, CleanOn DEF WriteReturns
    <3>2. QED
      BY <3>1 DEF Returns, At
  <2>2. CASE ReadReturns(c)
    BY <2>2 DEF ReadReturns, Returns, At
  <2>3. CASE ReadEnds(c)
    <3>1. Returns(c, "read") /\ ~Failed(c)
      BY <1>0, <2>3, CleanOn DEF ReadEnds
    <3>2. QED
      BY <3>1 DEF Returns, At
  <2>4. QED
    BY <2>1, <2>2, <2>3
<1>2. Device!Work(c) /\ conn[c].pc = op
  BY <1>1 DEF Returns
<1>3. D!StorePosition(c) /\ conn[c].fd \in Fds /\ call[c].file = conn[c].fd
  BY <1>0, <1>1, <1>2, InACall, ReturnsIs DEF InKernel
<1>4. Stored' = Stored /\ pc[c] = "return" /\ pc'[c] = "user" /\ KernelMoves(c, pc'[c])
  BY <1>0, <1>2, <1>3, PositionStored, DeviceMoves
<1>5. PICK state : /\ Becomes(c, state)
                   /\ state.got = conn[c].got /\ state.packet = conn[c].packet
                   /\ state.rest = conn[c].rest
                   /\ state.pc \in {"saved", "read", "close"}
  <2>1. CASE WriteReturns(c)
    <3> DEFINE state == [conn[c] EXCEPT !.pc = "saved"]
    <3>1. Becomes(c, state)
      BY <2>1, <1>1 DEF WriteReturns, Goes
    <3>2. /\ state.pc = "saved" /\ state.got = conn[c].got /\ state.packet = conn[c].packet
          /\ state.rest = conn[c].rest
      BY <1>0 DEF Fields
    <3> HIDE DEF state
    <3>3. QED
      BY <3>1, <3>2
  <2>2. CASE ReadReturns(c)
    <3> DEFINE state == [conn[c] EXCEPT !.sent = @ \o call[c].data]
    <3>1. Becomes(c, state) /\ conn[c].pc = "read"
      BY <2>2 DEF ReadReturns, Returns, At
    <3>2. /\ state.pc = "read" /\ state.got = conn[c].got /\ state.packet = conn[c].packet
          /\ state.rest = conn[c].rest
      BY <1>0, <3>1 DEF Fields
    <3> HIDE DEF state
    <3>3. QED
      BY <3>1, <3>2
  <2>3. CASE ReadEnds(c)
    <3> DEFINE state == [conn[c] EXCEPT !.pc = "close"]
    <3>1. Becomes(c, state)
      BY <2>3 DEF ReadEnds, Goes
    <3>2. /\ state.pc = "close" /\ state.got = conn[c].got /\ state.packet = conn[c].packet
          /\ state.rest = conn[c].rest
      BY <1>0 DEF Fields
    <3> HIDE DEF state
    <3>3. QED
      BY <3>1, <3>2
  <2>4. QED
    BY <2>1, <2>2, <2>3
<1>6. conn'[c] = state /\ OthersStay(c)
  BY <1>0, <1>5, Changed
<1>7. PacketDone(c)' /\ PacketDone(c) /\ conn'[c].pc # "recv"
  BY <1>1, <1>4, <1>5, <1>6 DEF PacketDone
<1>8. QED
  BY <1>0, <1>4, <1>5, <1>6, <1>7, LabelKeeps

\* Parse moves bytes from buf to packet_buf,
LEMMA ParseLines ==
  ASSUME DriverServerAssumption, ThreadsOK, ReplyOK, LinesOK, NEW c \in Clients, Parse(c)
  PROVE  LinesOK'
<1> DEFINE rest == conn[c].rest
           packet == conn[c].packet
           ends == {i \in DOMAIN rest : rest[i] = Newline}
           n    == IF ends = {} THEN Len(rest) ELSE Min(ends)
           t    == packet \o SubSeq(rest, 1, n)
           left == SubSeq(rest, n + 1, Len(rest))
           label == IF ends = {} THEN "recv" ELSE "lock"
<1>0. /\ DOMAIN conn[c] = Fields /\ conn[c].pc = "parse" /\ UNCHANGED device
      /\ rest \in Seq(Bytes) /\ packet \in Seq(Bytes)
  BY DEF ThreadsOK, ThreadOK, ReplyOK, Parse, At, Collected
<1>1. PICK state : /\ state = [conn[c] EXCEPT !.packet = @ \o SubSeq(rest, 1, n),
                                              !.rest = left, !.pc = label]
                   /\ Becomes(c, state)
  BY DEF Parse
<1>2. /\ state.pc = label /\ state.got = conn[c].got /\ state.packet = t
      /\ state.rest = left
  BY <1>0, <1>1 DEF Fields
<1>3. n \in 0 .. Len(rest) /\ (ends = {} => n = Len(rest))
  <2>1. CASE ends = {}
    BY <1>0, <2>1
  <2>2. CASE ends # {}
    <3>1. ends \subseteq 1 .. Len(rest) /\ Len(rest) \in Nat /\ ends \subseteq Nat
      BY <1>0
    <3>2. Min(ends) \in ends
      BY <2>2, <3>1, MinOfNaturals
    <3>3. n \in ends
      BY <2>2, <3>2
    <3> HIDE DEF n
    <3>4. QED
      BY <2>2, <3>1, <3>3
  <2>3. QED
    BY <2>1, <2>2
<1> HIDE DEF rest, packet, ends, n
<1>4. rest = SubSeq(rest, 1, n) \o left
  <2>1. Len(rest) \in 0 .. Len(rest) /\ n \in 0 .. Len(rest)
    BY <1>0, <1>3
  <2>2. SubSeq(rest, 1, Len(rest)) = SubSeq(rest, 1, n) \o left
    BY <1>0, <2>1, SplitAt
  <2>3. SubSeq(rest, 1, Len(rest)) = rest
    BY <1>0
  <2>4. QED
    BY <2>2, <2>3
<1>5. SubSeq(rest, 1, n) \in Seq(Bytes) /\ left \in Seq(Bytes)
  BY <1>0, <1>3
<1>6. t \o left = packet \o rest
  <2> DEFINE front == SubSeq(rest, 1, n)
  <2>1. front \in Seq(Bytes) /\ left \in Seq(Bytes)
    BY <1>5
  <2> HIDE DEF front, left
  <2>2. Cat(Cat(packet, front), left) = Cat(packet, Cat(front, left))
    BY <1>0, <2>1, CatAssociative
  <2>3. QED
    BY <1>4, <2>2 DEF Cat, front
<1>7. ends = {} => left = << >>
  BY <1>0, <1>3
<1> HIDE DEF t, left
<1>8. conn'[c] = state /\ OthersStay(c)
  BY <1>1, Changed
<1>9. KernelMoves(c, pc[c]) /\ Stored' = Stored
  BY <1>0, KernelSame DEF device, Stored, Device!Contents
<1>10. ~PacketDone(c) /\ ~PacketDone(c)'
  BY <1>0, <1>2, <1>8 DEF PacketDone
<1>11. Keeps(c)
  BY <1>2, <1>6, <1>7, <1>8, <1>10 DEF Keeps, LeftOver, rest, packet
<1>12. QED
  BY <1>8, <1>9, <1>11, OthersKeep

\* the end of a reply empties packet_buf, and of what is in it nothing was left,
LEMMA CloseLines ==
  ASSUME DriverServerAssumption, TurnInv, clean, ReplyOK, LinesOK, NEW c \in Clients,
         CloseReply(c)
  PROVE  LinesOK'
<1>0. /\ ThreadsOK /\ DOMAIN conn[c] = Fields /\ conn[c].pc = "close"
  BY DEF TurnInv, ThreadsOK, ThreadOK, CloseReply, At
<1>1. PICK state : /\ state = [conn[c] EXCEPT !.fd = NULL, !.packet = << >>, !.pc = "parse"]
                   /\ Becomes(c, state)
  BY DEF CloseReply, AfterReply
<1>2. /\ state.pc = "parse" /\ state.got = conn[c].got /\ state.packet = << >>
      /\ state.rest = conn[c].rest
  BY <1>0, <1>1 DEF Fields
<1>3. conn'[c] = state /\ OthersStay(c)
  BY <1>0, <1>1, Changed
<1>4. circ_buffer' = circ_buffer /\ pc' = pc
  BY DEF CloseReply, CloseFd, Device!aesd_release, Device!dev
<1>5. KernelMoves(c, pc[c]) /\ Stored' = Stored
  BY <1>0, <1>4, KernelSame DEF Stored, Device!Contents
<1>6. PacketDone(c) /\ ~PacketDone(c)'
  BY <1>0, <1>2, <1>3 DEF PacketDone
<1>7. Keeps(c)
  BY <1>2, <1>3, <1>6 DEF Keeps, LeftOver
<1>8. QED
  BY <1>0, <1>3, <1>5, <1>7, OthersKeep

\* and in a call only one step does more than move the thread.
LEMMA CallLines ==
  ASSUME DriverServerAssumption, Capacity > 1, TurnInv, clean, ReplyOK, LinesOK,
         NEW c \in Clients, InCall(c), ~D!aesd_write(c)
  PROVE  LinesOK'
<1>0. /\ ThreadsOK /\ D!ControlOK /\ D!PlacesOK /\ D!DeviceOK /\ conn' = conn
  BY DEF TurnInv, ReplyOK, D!DriverInv, InCall
<1>1. D!CapacityAssumption /\ D!DriverAssumption /\ D!HistoryAssumption
  BY DriverMeets
<1>2. OthersStay(c)
  BY <1>0 DEF OthersStay
<1>3. CASE D!mutex_lock(c)
  <2>1. /\ circ_buffer' = circ_buffer /\ pc' = [pc EXCEPT ![c] = "locked"] /\ pc[c] = "enter"
    BY <1>0, <1>3 DEF D!mutex_lock, D!dev
  <2>2. KernelMoves(c, "locked") /\ Stored' = Stored /\ pc'[c] = "locked"
    BY <1>0, <2>1 DEF KernelMoves, ThreadsOK, Stored, Device!Contents
  <2>3. PacketDone(c)' <=> PacketDone(c)
    BY <1>0, <2>1, <2>2 DEF PacketDone
  <2>4. QED
    BY <1>0, <1>2, <2>2, <2>3, LabelKeeps
<1>4. CASE D!aesd_read(c) /\ ~D!FailAndUnlock(c) /\ conn[c].pc = "read"
  <2>1. circ_buffer' = circ_buffer
    BY <1>4 DEF D!aesd_read, D!dev
  <2>2. Stored' = Stored
    BY <2>1 DEF Stored, Device!Contents
  <2>3. KernelMoves(c, pc'[c])
    BY <1>0, DeviceMoves DEF InCall, KernelMoves, ThreadsOK
  <2>4. PacketDone(c)' <=> PacketDone(c)
    BY <1>0, <1>4 DEF PacketDone
  <2>5. QED
    BY <1>0, <1>2, <2>2, <2>3, <2>4, LabelKeeps
<1>5. QED
  BY <1>0, <1>3, <1>4, InCallIs

(***************************************************************************)
(* A packet that has been dealt with: its bytes are those that come next,  *)
(* up to the end of a line.                                                *)
(***************************************************************************)
LEMMA CommandIs ==
  ASSUME NEW p \in D!Commands
  PROVE  /\ p \in Seq(Bytes) /\ Len(p) \in Nat /\ Len(p) > 0 /\ Len(p) \in 1 .. Len(p)
         /\ p[Len(p)] = Newline
         /\ \A k \in 1 .. Len(p) : p[k] = Newline => k = Len(p)
<1>1. p \in Seq(Bytes) /\ p # << >> /\ \A k \in DOMAIN p : p[k] = Newline <=> k = Len(p)
  BY DEF D!Commands
<1>2. DOMAIN p = 1 .. Len(p) /\ Len(p) \in 1 .. Len(p) /\ Len(p) \in Nat /\ Len(p) > 0
  BY <1>1
<1>3. QED
  BY <1>1, <1>2

EndOf(done, c) == done[c] + Len(conn[c].packet)

LEMMA PacketIs ==
  ASSUME DriverServerAssumption, ReplyOK, NEW c \in Clients, NEW done \in [Clients -> Nat],
         Follows(done), ~PacketDone(c), conn[c].packet \in D!Commands
  PROVE  /\ EndOf(done, c) \in done[c] + 1 .. conn[c].got
         /\ Stream[c][EndOf(done, c)] = Newline
         /\ conn[c].rest = SubSeq(Stream[c], EndOf(done, c) + 1, conn[c].got)
         /\ SubSeq(Stream[c], 1, EndOf(done, c)) = SubSeq(Stream[c], 1, done[c]) \o conn[c].packet
         /\ \A k \in 1 .. Len(conn[c].packet) : conn[c].packet[k] = Stream[c][done[c] + k]
<1> DEFINE s == Stream[c]
           i == done[c]
           j == conn[c].got
           p == conn[c].packet
           q == conn[c].rest
<1>1. /\ s \in Seq(Bytes) /\ p \in Seq(Bytes) /\ q \in Seq(Bytes) /\ j \in Nat /\ i \in Nat
      /\ Len(p) \in 1 .. Len(p) /\ Len(p) \in Nat /\ Len(p) > 0 /\ p[Len(p)] = Newline
  BY CommandIs DEF DriverServerAssumption, ReplyOK, Collected
<1>2. i \in 0 .. j /\ j <= Len(s) /\ p \o q = SubSeq(s, i + 1, j)
  BY DEF Follows, InPlace, LeftOver
<1> HIDE DEF s, i, j, p, q
<1>3. j \in 0 .. Len(s) /\ i \in 0 .. j
  BY <1>1, <1>2
<1>5. IsSlice(s, i, j, p, q)
  BY <1>2 DEF IsSlice
<1>4. /\ i + Len(p) \in i .. j /\ q = SubSeq(s, i + Len(p) + 1, j)
      /\ SubSeq(s, 1, i + Len(p)) = SubSeq(s, 1, i) \o p
      /\ \A k \in 1 .. Len(p) : p[k] = s[i + k]
  BY <1>1, <1>3, <1>5, SliceSplits
<1>6. s[i + Len(p)] = Newline /\ i + Len(p) \in i + 1 .. j
  <2>1. i + Len(p) \in i .. j /\ \A k \in 1 .. Len(p) : p[k] = s[i + k]
    BY <1>4
  <2> DEFINE n == Len(p)
  <2>2. n \in Nat /\ n > 0 /\ n \in 1 .. n /\ p[n] = Newline /\ i + n \in i .. j
        /\ \A k \in 1 .. n : p[k] = s[i + k]
    BY <1>1, <2>1
  <2> HIDE DEF n
  <2>3. s[i + n] = Newline /\ i + n \in i + 1 .. j
    <3>1. i \in Nat /\ j \in Nat
      BY <1>1
    <3>2. QED
      BY <2>2, <3>1
  <2>4. QED
    BY <2>3 DEF n
<1>7. QED
  BY <1>4, <1>6 DEF s, i, j, p, q, EndOf

\* A request has nothing but itself on its line,
LEMMA RequestIs ==
  ASSUME DriverServerAssumption, OwnLines, ReplyOK, NEW c \in Clients,
         NEW done \in [Clients -> Nat], Follows(done), ~PacketDone(c),
         conn[c].packet \in D!Commands, Asks(c)
  PROVE  \A k \in 1 .. Len(conn[c].packet) : conn[c].packet[k] \notin Text(c)
<1> DEFINE s == Stream[c]
           i == done[c]
           p == conn[c].packet
<1>1. /\ p \in Seq(Bytes) /\ Len(p) \in 1 .. Len(p) /\ Len(p) \in Nat /\ Len(p) > 0
      /\ p[Len(p)] = Newline /\ s \in Seq(Bytes)
      /\ \A k \in 1 .. Len(p) : p[k] = Newline => k = Len(p)
      /\ Head(p) \in DOMAIN SeekText /\ Newline \notin DOMAIN SeekText
  BY CommandIs DEF DriverServerAssumption, Asks, IsSeek
<1>2. /\ \A k \in 1 .. Len(p) : p[k] = s[i + k]
      /\ i + Len(p) <= Len(s) /\ i \in Nat
  <2>1. /\ EndOf(done, c) \in done[c] + 1 .. conn[c].got
        /\ conn[c].got <= Len(s) /\ conn[c].got \in Nat
    BY PacketIs DEF Follows, InPlace, ReplyOK, Collected
  <2>2. \A k \in 1 .. Len(p) : p[k] = s[i + k]
    BY PacketIs
  <2>3. QED
    BY <1>1, <2>1, <2>2 DEF EndOf
<1>3. \A k \in 1 .. Len(s) - 1 : s[k] \in DOMAIN SeekText => s[k + 1] = Newline
  <2>1. DOMAIN s = 1 .. Len(s) /\ Len(s) \in Nat
    BY <1>1
  <2>2. \A k \in DOMAIN s : s[k] \in DOMAIN SeekText /\ k < Len(s) => s[k + 1] = Newline
    BY DEF OwnLines
  <2> HIDE DEF s
  <2>3. \A k \in 1 .. Len(s) - 1 : k \in DOMAIN s /\ k < Len(s)
    BY <2>1
  <2>4. QED
    BY <2>2, <2>3
<1>4. Text(c) \cap (DOMAIN SeekText \cup {Newline}) = {}
  BY DEF Text
<1> HIDE DEF s, i, p
<1>5. p[1] = Head(p) /\ Len(p) # 1
  BY <1>1
<1>6. Len(p) = 2
  <2>1. i + 1 \in 1 .. Len(s) - 1 /\ (i + 1) + 1 = i + 2 /\ 1 \in 1 .. Len(p) /\ 2 \in 1 .. Len(p)
    BY <1>1, <1>2, <1>5
  <2>2. s[i + 2] = Newline
    BY <1>1, <1>2, <1>3, <1>5, <2>1
  <2>3. QED
    BY <1>1, <1>2, <2>1, <2>2
<1>7. QED
  BY <1>1, <1>4, <1>5, <1>6 DEF p

\* and another line no request.
LEMMA LineIs ==
  ASSUME DriverServerAssumption, OwnLines, ReplyOK, NEW c \in Clients,
         NEW done \in [Clients -> Nat], Follows(done), ~PacketDone(c),
         conn[c].packet \in D!Commands, ~Asks(c)
  PROVE  EndOf(done, c) \in LineEnds(c)
<1> DEFINE s == Stream[c]
           i == done[c]
           p == conn[c].packet
           m == i + Len(p)
<1>1. /\ p \in Seq(Bytes) /\ Len(p) \in 1 .. Len(p) /\ Len(p) \in Nat /\ Len(p) > 0
      /\ p[Len(p)] = Newline /\ s \in Seq(Bytes)
      /\ \A k \in 1 .. Len(p) : p[k] = Newline => k = Len(p)
      /\ Head(p) \notin DOMAIN SeekText /\ Newline \notin DOMAIN SeekText
  BY CommandIs DEF DriverServerAssumption, Asks, IsSeek
<1>2. /\ \A k \in 1 .. Len(p) : p[k] = s[i + k]
      /\ m <= Len(s) /\ i \in Nat /\ s[m] = Newline
      /\ i > 0 => s[i] = Newline
  <2>1. /\ EndOf(done, c) \in done[c] + 1 .. conn[c].got
        /\ conn[c].got <= Len(s) /\ conn[c].got \in Nat
    BY PacketIs DEF Follows, InPlace, ReplyOK, Collected
  <2>2. (\A k \in 1 .. Len(p) : p[k] = s[i + k]) /\ s[m] = Newline
    BY PacketIs DEF EndOf
  <2>3. i > 0 => s[i] = Newline
    BY DEF Follows, IsStored
  <2>4. QED
    BY <1>1, <2>1, <2>2, <2>3 DEF EndOf
<1>3. \A k \in 2 .. Len(s) : s[k] \in DOMAIN SeekText => s[k - 1] = Newline
  <2>1. DOMAIN s = 1 .. Len(s) /\ Len(s) \in Nat
    BY <1>1
  <2>2. \A k \in DOMAIN s : s[k] \in DOMAIN SeekText /\ k > 1 => s[k - 1] = Newline
    BY DEF OwnLines
  <2> HIDE DEF s
  <2>3. \A k \in 2 .. Len(s) : k \in DOMAIN s /\ k > 1
    BY <2>1
  <2>4. QED
    BY <2>2, <2>3
<1> HIDE DEF s, i, p, m
<1>4. p[1] = Head(p) /\ m - 1 \in Nat /\ m = i + Len(p) /\ m \in 1 .. Len(s)
  BY <1>1, <1>2 DEF m
<1>5. s[m - 1] \notin DOMAIN SeekText \/ m = 1
  <2>1. CASE Len(p) = 1
    <3>1. m - 1 = i
      BY <1>2, <1>4, <2>1
    <3>2. QED
      BY <1>1, <1>2, <1>4, <3>1
  <2>2. CASE Len(p) # 1
    <3> DEFINE k == Len(p) - 1
    <3>0. k \in 1 .. Len(p) /\ k # Len(p) /\ i + k = m - 1
      <4>1. Len(p) \in Nat /\ Len(p) > 0 /\ i \in Nat /\ m = i + Len(p)
        BY <1>1, <1>2 DEF m
      <4> DEFINE n == Len(p)
      <4>2. n \in Nat /\ n > 0 /\ n # 1 /\ i \in Nat /\ m = i + n
        BY <2>2, <4>1
      <4> HIDE DEF n
      <4>3. n - 1 \in 1 .. n /\ n - 1 # n /\ i + (n - 1) = m - 1
        BY <4>2
      <4>4. QED
        BY <4>3 DEF n
    <3>1. k \in 1 .. Len(p) /\ k # Len(p) /\ i + k = m - 1 /\ s[m - 1] = p[k]
      BY <1>2, <3>0
    <3>2. CASE k = 1
      BY <1>1, <1>4, <3>1, <3>2
    <3>3. CASE k # 1
      <4>1. m - 1 \in 2 .. Len(s) /\ k - 1 \in 1 .. Len(p) /\ k - 1 # Len(p)
            /\ i + (k - 1) = (m - 1) - 1
        <5> DEFINE n == Len(p)
        <5>1. n \in Nat /\ n > 0 /\ n # 1 /\ n - 1 # 1 /\ i \in Nat /\ m = i + n
              /\ Len(s) \in Nat /\ m <= Len(s)
          BY <1>1, <1>2, <2>2, <3>3 DEF m
        <5> HIDE DEF n
        <5>2. m - 1 \in 2 .. Len(s) /\ (n - 1) - 1 \in 1 .. n /\ (n - 1) - 1 # n
              /\ i + ((n - 1) - 1) = (m - 1) - 1
          BY <5>1
        <5>3. QED
          BY <5>2 DEF n
      <4>2. p[k - 1] # Newline /\ p[k - 1] = s[(m - 1) - 1]
        BY <1>1, <1>2, <4>1
      <4>3. QED
        BY <1>3, <4>1, <4>2
    <3>4. QED
      BY <3>2, <3>3
  <2>3. QED
    BY <2>1, <2>2
<1>6. m \in DOMAIN s
  BY <1>1, <1>4
<1>7. QED
  BY <1>2, <1>5, <1>6 DEF LineEnds, EndOf, s, i, p, m

Beyond(done, c) == [done EXCEPT ![c] = EndOf(done, c)]

\* There is one more line then, if it was not a request.
LEMMA MoreLines ==
  ASSUME DriverServerAssumption, RoomForAll, NEW c \in Clients, NEW done \in [Clients -> Nat],
         EndOf(done, c) \in Nat, EndOf(done, c) > done[c]
  PROVE  /\ Cardinality(DoneLines(done)) \in Nat
         /\ Cardinality(DoneLines(Beyond(done, c))) \in Nat
         /\ Cardinality(DoneLines(done)) <= Cardinality(DoneLines(Beyond(done, c)))
         /\ EndOf(done, c) \in LineEnds(c) =>
              /\ Cardinality(DoneLines(done)) + 1 <= Cardinality(DoneLines(Beyond(done, c)))
              /\ Cardinality(DoneLines(done)) < Capacity
<1> DEFINE old  == DoneLines(done)
           new  == DoneLines(Beyond(done, c))
           line == <<c, EndOf(done, c)>>
<1>1. \A l \in AllLines : l[1] \in Clients /\ l[2] \in Nat
  <2>1. \A d \in Clients : LineEnds(d) \subseteq Nat
    BY DEF LineEnds, DriverServerAssumption
  <2>2. QED
    BY <2>1 DEF AllLines
<1>2. \A d \in Clients : done[d] <= Beyond(done, c)[d] /\ done[d] \in Nat
                        /\ Beyond(done, c)[d] \in Nat
  BY DEF Beyond
<1>3. old \subseteq new /\ new \subseteq AllLines
  BY <1>1, <1>2 DEF DoneLines
<1>4. line \notin old
  BY DEF DoneLines
<1>5. EndOf(done, c) \in LineEnds(c) => line \in new
  <2> SUFFICES ASSUME EndOf(done, c) \in LineEnds(c) PROVE line \in new
    OBVIOUS
  <2>1. line \in AllLines
    BY DEF AllLines
  <2>2. Beyond(done, c)[c] = EndOf(done, c)
    BY DEF Beyond
  <2>3. QED
    BY <2>1, <2>2 DEF DoneLines
<1> HIDE DEF old, new, line
<1>6. /\ IsFiniteSet(new) /\ Cardinality(new) <= Cardinality(AllLines)
      /\ Cardinality(AllLines) <= Capacity
  BY <1>3, FS_Subset DEF RoomForAll
<1>7. IsFiniteSet(old) /\ Cardinality(old) <= Cardinality(new)
  BY <1>3, <1>6, FS_Subset
<1>8. /\ Cardinality(old) \in Nat /\ Cardinality(new) \in Nat /\ Cardinality(AllLines) \in Nat
      /\ Capacity \in Nat
  BY <1>6, <1>7, FS_CardinalityType DEF RoomForAll, DriverServerAssumption
<1>9. line \in new => Cardinality(old) + 1 <= Cardinality(new)
  <2> SUFFICES ASSUME line \in new PROVE Cardinality(old) + 1 <= Cardinality(new)
    OBVIOUS
  <2>1. Cardinality(old \cup {line}) = Cardinality(old) + 1
    BY <1>4, <1>7, FS_AddElement
  <2>2. old \cup {line} \subseteq new
    BY <1>3
  <2>3. QED
    BY <1>6, <2>1, <2>2, FS_Subset
<1>10. QED
  BY <1>5, <1>6, <1>7, <1>8, <1>9 DEF old, new

\* Where there is room, the device keeps all it has.
LEMMA StoredGrows ==
  ASSUME DriverServerAssumption, Capacity > 1, D!DriverInv, NEW e \in D!Commands,
         circ_buffer' = D!aesd_circular_buffer_add_entry(circ_buffer, e),
         Stored \in Seq(Seq(Bytes)), Len(Stored) < Capacity
  PROVE  Stored' = Append(Stored, e)
<1> DEFINE s == D!Contents(circ_buffer)
<1>0. D!DeviceOK /\ D!CapacityAssumption /\ D!DriverAssumption /\ D!HistoryAssumption
  BY DriverMeets DEF D!DriverInv
<1>1. circ_buffer \in D!Buffers(D!Commands) /\ D!WellFormed(circ_buffer)
  BY <1>0 DEF D!DeviceOK, D!RingShape
<1>2. Stored' = D!Latest(Append(s, e)) /\ Stored = s
  <2>1. D!Contents(circ_buffer') = D!Latest(Append(s, e))
    BY <1>0, <1>1, D!AddEntryRemembers
  <2>2. QED
    BY <2>1, SameContents DEF Stored
<1>3. e \in Seq(Bytes)
  BY DEF D!Commands
<1>4. Len(Append(Stored, e)) = Len(Stored) + 1 /\ Len(Stored) \in Nat /\ Capacity \in Nat
  BY <1>3 DEF DriverServerAssumption
<1> HIDE DEF s
<1>5. QED
  BY <1>2, <1>4 DEF D!Latest

Adds(after, before, packet, kept) ==
  Selected(FlattenSeq(after), kept) = Selected(FlattenSeq(before), kept) \o Selected(packet, kept)

\* When the packet of c has been dealt with, its text is stored, and no other.
LEMMA LineDone ==
  ASSUME DriverServerAssumption, ThreadsOK, ReplyOK, NEW c \in Clients,
         NEW done \in [Clients -> Nat], Follows(done), ~PacketDone(c),
         conn[c].packet \in D!Commands,
         OthersStay(c), NEW place, KernelMoves(c, place),
         PacketDone(c)', conn'[c].got = conn[c].got, conn'[c].rest = conn[c].rest,
         conn'[c].pc # "recv",
         Adds(Stored', Stored, conn[c].packet, Text(c)),
         \A d \in Clients \ {c} :
           Selected(FlattenSeq(Stored'), Text(d)) = Selected(FlattenSeq(Stored), Text(d)),
         Len(Stored') <= Cardinality(DoneLines(Beyond(done, c))),
         \A i \in DOMAIN Stored' : Head(Stored'[i]) \notin DOMAIN SeekText
  PROVE  LinesOK'
<1> PICK m : m = EndOf(done, c)
  OBVIOUS
<1> PICK next : next = Beyond(done, c)
  OBVIOUS
<1> DEFINE s == Stream[c]
           p == conn[c].packet
<1>1. /\ m \in done[c] + 1 .. conn[c].got /\ s[m] = Newline
      /\ conn[c].rest = SubSeq(s, m + 1, conn[c].got)
      /\ SubSeq(s, 1, m) = SubSeq(s, 1, done[c]) \o p
  BY PacketIs
<1>2. /\ done[c] \in Nat /\ conn[c].got \in Nat /\ s \in Seq(Bytes) /\ p \in Seq(Bytes)
      /\ conn[c].rest \in Seq(Bytes)
      /\ conn[c].got <= Len(s)
  BY DEF DriverServerAssumption, ReplyOK, Collected, Follows, InPlace
<1>3. next \in [Clients -> Nat] /\ next[c] = m /\ \A d \in Clients \ {c} : next[d] = done[d]
  <2>1. m \in Nat
    BY <1>1, <1>2
  <2>2. next = [done EXCEPT ![c] = m]
    BY DEF Beyond
  <2>3. QED
    BY <2>1, <2>2
<1>4. InPlace(c, m)'
  <2>1. m \in 0 .. conn[c].got
    BY <1>1, <1>2
  <2>2. LeftOver(c)' = << >> \o conn[c].rest
    BY DEF LeftOver
  <2> DEFINE q == conn[c].rest
  <2>3. << >> \o q = q
    <3>1. q \in Seq(Bytes)
      BY <1>2
    <3> HIDE DEF q
    <3>2. QED
      BY <3>1
  <2>4. LeftOver(c)' = SubSeq(s, m + 1, conn[c].got)
    BY <1>1, <2>2, <2>3
  <2>5. QED
    BY <1>2, <2>1, <2>4 DEF InPlace
<1>5. IsStored(c, m)'
  <2>1. Selected(SubSeq(s, 1, done[c]), Text(c)) = Selected(FlattenSeq(Stored), Text(c))
    BY DEF Follows, IsStored
  <2>2. SubSeq(s, 1, done[c]) \in Seq(Bytes)
    BY <1>1, <1>2
  <2>3. Selected(SubSeq(s, 1, m), Text(c)) = Selected(FlattenSeq(Stored'), Text(c))
    <3>1. Selected(SubSeq(s, 1, done[c]) \o p, Text(c))
            = Selected(SubSeq(s, 1, done[c]), Text(c)) \o Selected(p, Text(c))
      <4> DEFINE x == SubSeq(s, 1, done[c])
      <4>1. x \in Seq(Bytes) /\ p \in Seq(Bytes)
        BY <1>2, <2>2
      <4> HIDE DEF x, p
      <4>2. Selected(x \o p, Text(c)) = Selected(x, Text(c)) \o Selected(p, Text(c))
        BY <4>1, SelectedConcat
      <4>3. QED
        BY <4>2 DEF x
    <3>2. QED
      BY <1>1, <2>1, <3>1 DEF Adds
  <2>4. QED
    BY <1>1, <2>3 DEF IsStored
<1>6. ASSUME NEW d \in Clients \ {c} PROVE InPlace(d, done[d])' /\ IsStored(d, done[d])'
  <2>1. conn'[d] = conn[d] /\ pc'[d] = pc[d]
    BY DEF OthersStay, KernelMoves
  <2>2. InPlace(d, done[d])'
    <3>1. InPlace(d, done[d])
      BY DEF Follows
    <3>2. LeftOver(d)' = LeftOver(d)
      BY <2>1 DEF LeftOver, PacketDone
    <3>3. QED
      BY <2>1, <3>1, <3>2 DEF InPlace
  <2>3. QED
    BY <2>2 DEF Follows, IsStored
<1> HIDE DEF s, p
<1>7. ASSUME NEW d \in Clients PROVE InPlace(d, next[d])' /\ IsStored(d, next[d])'
  BY <1>3, <1>4, <1>5, <1>6
<1>8. Follows(next)'
  BY <1>7 DEF Follows, DoneLines, AllLines, LineEnds
<1>9. QED
  BY <1>3, <1>8 DEF LinesOK

\* What recv brings comes next.
LEMMA RecvLines ==
  ASSUME DriverServerAssumption, ThreadsOK, ReplyOK, LinesOK, NEW c \in Clients, Recv(c)
  PROVE  LinesOK'
<1> DEFINE s == Stream[c]
           got == conn[c].got
           packet == conn[c].packet
<1>0. /\ DOMAIN conn[c] = Fields /\ conn[c].pc = "recv" /\ UNCHANGED device
      /\ s \in Seq(Bytes) /\ got \in Nat /\ packet \in Seq(Bytes)
  BY DEF ThreadsOK, ThreadOK, ReplyOK, Recv, At, Collected, DriverServerAssumption
<1>1. PICK upto \in got + 1 .. Len(s) :
        Becomes(c, [conn[c] EXCEPT !.rest = SubSeq(s, got + 1, upto), !.got = upto,
                                   !.pc = "parse"])
  BY DEF Recv
<1> DEFINE state == [conn[c] EXCEPT !.rest = SubSeq(s, got + 1, upto), !.got = upto,
                                    !.pc = "parse"]
<1>2. /\ state.pc = "parse" /\ state.got = upto /\ state.packet = packet
      /\ state.rest = SubSeq(s, got + 1, upto)
  BY <1>0 DEF Fields
<1>3. conn'[c] = state /\ OthersStay(c)
  BY <1>1, Changed
<1> HIDE DEF state
<1>4. Stored' = Stored /\ pc' = pc
  BY <1>0 DEF device, Stored, Device!Contents
<1>5. PICK done \in [Clients -> Nat] : Follows(done)
  BY DEF LinesOK
<1>6. /\ InPlace(c, done[c]) /\ ~PacketDone(c) /\ conn[c].rest = << >> /\ ~PacketDone(c)'
  BY <1>0, <1>2, <1>3, <1>5 DEF Follows, InPlace, PacketDone
<1>7. /\ done[c] \in 0 .. got /\ got <= Len(s) /\ packet = SubSeq(s, done[c] + 1, got)
  <2>1. packet \o << >> = packet
    BY <1>0
  <2>2. QED
    BY <1>6, <2>1 DEF InPlace, LeftOver
<1>8. LeftOver(c)' = packet \o SubSeq(s, got + 1, upto)
  BY <1>2, <1>3, <1>6 DEF LeftOver
<1> HIDE DEF s, got, packet
<1>9. SubSeq(s, done[c] + 1, got) \o SubSeq(s, got + 1, upto) = SubSeq(s, done[c] + 1, upto)
  <2> DEFINE m == done[c] + 1
  <2>1. m \in 1 .. Len(s) + 1 /\ got \in m - 1 .. Len(s) /\ upto \in got .. Len(s)
    BY <1>0, <1>1, <1>7
  <2> HIDE DEF m
  <2>2. SubSeq(s, m, got) \o SubSeq(s, got + 1, upto) = SubSeq(s, m, upto)
    BY <1>0, <2>1, ConcatAdjacentSubSeq
  <2>3. QED
    BY <2>2 DEF m
<1>10. InPlace(c, done[c])'
  <2>1. done[c] \in 0 .. upto /\ upto <= Len(s)
    BY <1>0, <1>1, <1>7
  <2>2. LeftOver(c)' = SubSeq(s, done[c] + 1, upto)
    BY <1>7, <1>8, <1>9
  <2>3. QED
    BY <1>2, <1>3, <2>1, <2>2 DEF InPlace, s
<1>11. ASSUME NEW d \in Clients PROVE InPlace(d, done[d])' /\ IsStored(d, done[d])'
  <2>1. IsStored(d, done[d])'
    BY <1>4, <1>5 DEF Follows, IsStored
  <2>2. CASE d = c
    BY <1>10, <2>1, <2>2
  <2>3. CASE d # c
    <3>1. conn'[d] = conn[d] /\ InPlace(d, done[d])
      BY <1>3, <1>5, <2>3 DEF OthersStay, Follows
    <3>2. QED
      BY <1>4, <2>1, <3>1 DEF InPlace, LeftOver, PacketDone
  <2>4. QED
    BY <2>2, <2>3
<1>12. Follows(done)'
  BY <1>4, <1>5, <1>11 DEF Follows, DoneLines, AllLines, LineEnds
<1>13. QED
  BY <1>4, <1>12 DEF LinesOK

\* A request that the driver has taken leaves no text behind.
LEMMA IoctlLines ==
  ASSUME DriverServerAssumption, Capacity > 1, OwnLines, RoomForAll, TurnInv, clean,
         ReplyOK, LinesOK,
         NEW c \in Clients, clean', IoctlReturns(c)
  PROVE  LinesOK'
<1>0. /\ DOMAIN conn[c] = Fields /\ Collected(conn[c]) /\ ThreadsOK
      /\ Returns(c, "ioctl") /\ ~Failed(c) /\ Device!Work(c) /\ conn[c].pc = "ioctl"
  BY CleanOn DEF TurnInv, ThreadsOK, ThreadOK, ReplyOK, IoctlReturns, Returns, At
<1>1. conn[c].pc \in Turn /\ HolderOK(c) /\ Asks(c) /\ conn[c].packet \in D!Commands
  BY <1>0, InACall DEF HolderOK, Stage, Collected
<1>2. D!aesd_ioctl(c)
  BY <1>0, ReturnsIs DEF InKernel
<1>3. Stored' = Stored
  BY <1>2 DEF D!aesd_ioctl, D!dev, Stored, Device!Contents
<1>4. KernelMoves(c, pc'[c])
  BY <1>0, DeviceMoves
<1>5. PICK state : state = [conn[c] EXCEPT !.pc = "read"] /\ Becomes(c, state)
  BY <1>0 DEF IoctlReturns, Goes
<1>6. /\ state.pc = "read" /\ state.got = conn[c].got /\ state.packet = conn[c].packet
      /\ state.rest = conn[c].rest
  BY <1>0, <1>5 DEF Fields
<1>7. conn'[c] = state /\ OthersStay(c)
  BY <1>0, <1>5, Changed
<1>8. ~PacketDone(c) /\ PacketDone(c)'
  BY <1>0, <1>6, <1>7 DEF PacketDone
<1>9. PICK done \in [Clients -> Nat] : Follows(done)
  BY DEF LinesOK
<1>10. Selected(conn[c].packet, Text(c)) = << >>
  <2>1. \A k \in 1 .. Len(conn[c].packet) : conn[c].packet[k] \notin Text(c)
    BY <1>1, <1>8, <1>9, RequestIs
  <2>2. conn[c].packet \in Seq(Bytes)
    BY <1>0 DEF Collected
  <2>3. QED
    BY <2>1, <2>2, SelectedNone
<1>11. Selected(FlattenSeq(Stored), Text(c)) \o << >> = Selected(FlattenSeq(Stored), Text(c))
  <2>1. FlattenSeq(Stored) \in Seq(Bytes)
    BY StoredIs
  <2>2. Selected(FlattenSeq(Stored), Text(c)) \in Seq(Bytes)
    BY <2>1, SelectedIsSeq
  <2> DEFINE x == Selected(FlattenSeq(Stored), Text(c))
  <2> HIDE DEF x
  <2>3. x \in Seq(Bytes) => x \o << >> = x
    OBVIOUS
  <2>4. QED
    BY <2>2, <2>3 DEF x
<1>12. Len(Stored) <= Cardinality(DoneLines(Beyond(done, c)))
  <2>1. EndOf(done, c) \in done[c] + 1 .. conn[c].got /\ done[c] \in Nat
    BY <1>1, <1>8, <1>9, PacketIs
  <2>2. EndOf(done, c) \in Nat /\ EndOf(done, c) > done[c]
    BY <2>1
  <2>3. /\ Cardinality(DoneLines(done)) <= Cardinality(DoneLines(Beyond(done, c)))
        /\ Cardinality(DoneLines(done)) \in Nat
        /\ Cardinality(DoneLines(Beyond(done, c))) \in Nat
    BY <2>2, MoreLines
  <2>4. Len(Stored) \in Nat /\ Len(Stored) <= Cardinality(DoneLines(done))
    BY <1>9, StoredIs DEF Follows
  <2>5. QED
    BY <2>3, <2>4
<1>13. Adds(Stored', Stored, conn[c].packet, Text(c))
  BY <1>3, <1>10, <1>11 DEF Adds
<1>14. /\ Len(Stored') <= Cardinality(DoneLines(Beyond(done, c)))
       /\ \A i \in DOMAIN Stored' : Head(Stored'[i]) \notin DOMAIN SeekText
       /\ \A d \in Clients \ {c} :
            Selected(FlattenSeq(Stored'), Text(d)) = Selected(FlattenSeq(Stored), Text(d))
  BY <1>3, <1>12 DEF LinesOK
<1>15. conn'[c].got = conn[c].got /\ conn'[c].rest = conn[c].rest /\ conn'[c].pc # "recv"
  BY <1>6, <1>7
<1>16. QED
  BY <1>0, <1>1, <1>4, <1>7, <1>8, <1>9, <1>13, <1>14, <1>15, LineDone

\* A packet that the driver has written is a line that is stored, and at the end.
LEMMA WriteLines ==
  ASSUME DriverServerAssumption, Capacity > 1, TextsDiffer, OwnLines, RoomForAll, TurnInv, clean,
         ReplyOK, LinesOK, NEW c \in Clients, InCall(c), D!aesd_write(c), conn[c].pc = "write"
  PROVE  LinesOK'
<1> DEFINE packet == conn[c].packet
<1>0. /\ ThreadsOK /\ D!DriverInv /\ Quiet /\ Collected(conn[c]) /\ conn' = conn
      /\ pc'[c] # "user" /\ D!ControlOK
  BY DEF TurnInv, ReplyOK, InCall, D!DriverInv
<1>1. /\ pc[c] # "user" /\ conn[c].pc \in Turn /\ call[c].op = "write" /\ HolderOK(c)
  BY <1>0, InACall DEF InCall
<1>2. call[c].buf = packet /\ packet \in D!Commands /\ ~Asks(c) /\ packet \in Seq(Bytes)
  BY <1>0, <1>1 DEF HolderOK, ToldOK, Collected, Stage
<1>3. /\ D!UnlockAndReturn(c, call[c])
      /\ circ_buffer' = D!aesd_circular_buffer_add_entry(circ_buffer, packet)
  <2>1. call[c].buf \in D!Commands
    BY <1>2
  <2>2. /\ D!UnlockAndReturn(c, call[c])
        /\ circ_buffer' = D!aesd_circular_buffer_add_entry(circ_buffer, call[c].buf)
    BY <1>0, <2>1, WriteStores
  <2>3. QED
    BY <1>2, <2>2
<1>4. pc'[c] = "return" /\ pc[c] = "locked"
  BY <1>0, <1>3 DEF D!UnlockAndReturn, D!ControlOK, D!aesd_write, D!Locked
<1>5. KernelMoves(c, pc'[c]) /\ OthersStay(c)
  BY <1>0, DeviceMoves DEF InCall, OthersStay
<1>6. ~PacketDone(c) /\ PacketDone(c)'
  BY <1>0, <1>4 DEF PacketDone
<1>7. PICK done \in [Clients -> Nat] : Follows(done)
  BY DEF LinesOK
<1>8. /\ EndOf(done, c) \in done[c] + 1 .. conn[c].got /\ EndOf(done, c) \in LineEnds(c)
      /\ \A k \in 1 .. Len(packet) : packet[k] = Stream[c][done[c] + k]
  BY <1>2, <1>6, <1>7, PacketIs, LineIs
<1>9. /\ Cardinality(DoneLines(done)) \in Nat
      /\ Cardinality(DoneLines(done)) + 1 <= Cardinality(DoneLines(Beyond(done, c)))
      /\ Cardinality(DoneLines(Beyond(done, c))) \in Nat
      /\ Cardinality(DoneLines(done)) < Capacity
  <2>1. EndOf(done, c) \in Nat /\ EndOf(done, c) > done[c]
    BY <1>8
  <2>2. QED
    BY <1>8, <2>1, MoreLines
<1>10. Stored \in Seq(Seq(Bytes)) /\ Len(Stored) \in Nat /\ Len(Stored) < Capacity
       /\ Len(Stored) <= Cardinality(DoneLines(done))
  <2>1. Stored \in Seq(Seq(Bytes)) /\ Len(Stored) \in Nat
    BY StoredIs
  <2>2. Capacity \in Nat
    BY DEF DriverServerAssumption
  <2>3. QED
    BY <1>7, <1>9, <2>1, <2>2 DEF Follows
<1> HIDE DEF packet
<1>11. Stored' = Append(Stored, packet)
  BY <1>0, <1>2, <1>3, <1>10, StoredGrows
<1>12. /\ Len(Stored') = Len(Stored) + 1 /\ DOMAIN Stored' = 1 .. Len(Stored) + 1
       /\ \A i \in 1 .. Len(Stored) : Stored'[i] = Stored[i]
       /\ Stored'[Len(Stored) + 1] = packet
  BY <1>2, <1>10, <1>11
<1>13. Len(Stored') <= Cardinality(DoneLines(Beyond(done, c)))
  BY <1>9, <1>10, <1>12
<1>14. \A i \in DOMAIN Stored' : Head(Stored'[i]) \notin DOMAIN SeekText
  <2>1. Head(packet) \notin DOMAIN SeekText
    BY <1>2 DEF Asks, IsSeek, packet
  <2>2. DOMAIN Stored = 1 .. Len(Stored)
    BY <1>10
  <2>3. \A i \in 1 .. Len(Stored) : Head(Stored[i]) \notin DOMAIN SeekText
    BY <2>2 DEF LinesOK
  <2>4. \A i \in 1 .. Len(Stored) + 1 : i \in 1 .. Len(Stored) \/ i = Len(Stored) + 1
    BY <1>10
  <2>5. QED
    BY <1>12, <2>1, <2>3, <2>4
<1>15. FlattenSeq(Stored') = FlattenSeq(Stored) \o packet /\ FlattenSeq(Stored) \in Seq(Bytes)
  BY <1>2, <1>10, <1>11, FlattenAppend
<1>16. \A K : Selected(FlattenSeq(Stored'), K)
                = Selected(FlattenSeq(Stored), K) \o Selected(packet, K)
  <2> SUFFICES ASSUME NEW K
               PROVE  Selected(FlattenSeq(Stored'), K)
                        = Selected(FlattenSeq(Stored), K) \o Selected(packet, K)
    OBVIOUS
  <2>1. Selected(FlattenSeq(Stored) \o packet, K)
          = Selected(FlattenSeq(Stored), K) \o Selected(packet, K)
    BY <1>2, <1>15, SelectedConcat
  <2>2. QED
    BY <1>15, <2>1
<1>17. ASSUME NEW d \in Clients \ {c}
       PROVE  Selected(FlattenSeq(Stored'), Text(d)) = Selected(FlattenSeq(Stored), Text(d))
  <2>1. \A k \in 1 .. Len(packet) : packet[k] \in Range(Stream[c])
    <3>1. \A k \in 1 .. Len(packet) : done[c] + k \in DOMAIN Stream[c]
      <4>1. /\ done[c] \in Nat /\ conn[c].got \in Nat /\ conn[c].got <= Len(Stream[c])
            /\ Stream[c] \in Seq(Bytes) /\ Len(packet) \in Nat
        BY <1>0, <1>2, <1>7 DEF Follows, InPlace, Collected, DriverServerAssumption
      <4>2. done[c] + Len(packet) <= conn[c].got
        BY <1>8 DEF EndOf, packet
      <4>3. QED
        BY <4>1, <4>2
    <3>2. QED
      BY <1>8, <3>1 DEF Range
  <2>2. \A k \in 1 .. Len(packet) : packet[k] \notin Text(d)
    BY <2>1 DEF TextsDiffer
  <2>3. Selected(packet, Text(d)) = << >>
    BY <1>2, <2>2, SelectedNone
  <2> DEFINE x == Selected(FlattenSeq(Stored), Text(d))
  <2>4. x \in Seq(Bytes)
    BY <1>15, SelectedIsSeq
  <2>5. Selected(FlattenSeq(Stored'), Text(d)) = x \o << >>
    BY <1>16, <2>3
  <2> HIDE DEF x
  <2>6. x \o << >> = x
    BY <2>4
  <2>7. QED
    BY <2>5, <2>6 DEF x
<1>18. conn'[c].got = conn[c].got /\ conn'[c].rest = conn[c].rest /\ conn'[c].pc # "recv"
  BY <1>0
<1>19. conn[c].packet \in D!Commands
       /\ Adds(Stored', Stored, conn[c].packet, Text(c))
  BY <1>2, <1>16 DEF packet, Adds
<1>20. QED
  BY <1>0, <1>5, <1>6, <1>7, <1>13, <1>14, <1>17, <1>18, <1>19, LineDone

LEMMA LinesInit ==
  ASSUME DriverServerAssumption, Capacity > 1, RoomForAll, Init
  PROVE  LinesInv
<1> DEFINE done == [c \in Clients |-> 0]
<1>0. D!CapacityAssumption /\ D!DriverAssumption /\ D!HistoryAssumption
  BY DriverMeets
<1>1. Stored = << >>
  <2>1. circ_buffer = D!aesd_circular_buffer_init
    BY SameInit DEF Init, D!Init
  <2>2. QED
    BY <1>0, <2>1, D!InitShape, SameContents DEF Stored
<1>2. ASSUME NEW c \in Clients PROVE InPlace(c, done[c]) /\ IsStored(c, done[c])
  <2>1. /\ conn[c].got = 0 /\ conn[c].rest = << >> /\ conn[c].packet = << >>
        /\ conn[c].pc = "recv"
    BY DEF Init
  <2>2. Stream[c] \in Seq(Bytes)
    BY DEF DriverServerAssumption
  <2>3. SubSeq(Stream[c], 1, 0) = << >> /\ << >> \o << >> = << >> /\ Len(Stream[c]) \in Nat
    BY <2>2
  <2>4. LeftOver(c) = << >>
    BY <2>1, <2>3 DEF LeftOver, PacketDone
  <2>5. InPlace(c, 0)
    BY <2>1, <2>3, <2>4 DEF InPlace
  <2>6. IsStored(c, 0)
    <3>1. FlattenSeq(Stored) = << >>
      BY <1>1, FlattenEmpty
    <3>2. ~(0 > 0)
      OBVIOUS
    <3>3. SubSeq(Stream[c], 1, 0) = FlattenSeq(Stored)
      BY <2>3, <3>1
    <3>4. QED
      BY <3>2, <3>3 DEF IsStored
  <2>7. QED
    BY <2>5, <2>6
<1>3. Len(Stored) <= Cardinality(DoneLines(done))
  <2>1. DoneLines(done) \subseteq AllLines
    BY DEF DoneLines
  <2>2. Cardinality(DoneLines(done)) \in Nat
    BY <2>1, FS_Subset, FS_CardinalityType DEF RoomForAll
  <2>3. Len(Stored) = 0
    BY <1>1
  <2>4. QED
    BY <2>2, <2>3
<1>4. Follows(done)
  BY <1>2, <1>3 DEF Follows
<1>5. done \in [Clients -> Nat]
  OBVIOUS
<1>6. DOMAIN Stored = {}
  BY <1>1
<1> HIDE DEF done
<1>7. QED
  BY <1>4, <1>5, <1>6 DEF LinesInv, LinesOK

LEMMA LinesSame ==
  ASSUME LinesOK, UNCHANGED vars
  PROVE  LinesOK'
<1>1. Stored' = Stored /\ conn' = conn /\ pc' = pc
  BY DEF vars, device, Stored, Device!Contents
<1>2. ASSUME NEW c \in Clients PROVE Keeps(c)
  <2>1. conn[c].pc = "recv" => conn[c].rest = << >>
    BY DEF LinesOK, Follows, InPlace
  <2>2. QED
    BY <1>1, <2>1 DEF Keeps, LeftOver, PacketDone
<1>3. QED
  BY <1>1, <1>2, LinesKept

LEMMA LinesStep ==
  ASSUME DriverServerAssumption, Capacity > 1, TextsDiffer, OwnLines, RoomForAll,
         TurnInv, ReplyInv, LinesInv, [Next]_vars
  PROVE  LinesInv'
<1> SUFFICES ASSUME clean' PROVE LinesOK'
  BY DEF LinesInv
<1>1. clean /\ ReplyOK /\ ThreadsOK /\ LinesOK
  BY CleanBefore DEF TurnInv, ReplyInv, LinesInv
<1>2. ASSUME NEW c \in Clients, HangUp(c) \/ handle_connection(c) PROVE LinesOK'
  <2>1. CASE Recv(c)
    BY <1>1, <2>1, RecvLines
  <2>2. CASE Parse(c)
    BY <1>1, <2>2, ParseLines
  <2>3. CASE HangUp(c) \/ Lock(c) \/ Open(c) \/ EnterKernel(c) \/ CloseWritten(c)
    BY <1>1, <2>3, LabelSteps
  <2>4. CASE OpenFails(c)
    BY <2>4 DEF OpenFails, CannotOpen
  <2>5. CASE CloseReply(c)
    BY <1>1, <2>5, CloseLines
  <2>6. CASE InCall(c)
    <3>1. D!aesd_write(c) => conn[c].pc = "write"
      <4>1. conn[c].pc \in InKernel /\ call[c].op = conn[c].pc
        BY <1>1, <2>6, InACall DEF InCall
      <4>2. QED
        BY <4>1 DEF D!aesd_write, D!Locked
    <3>2. CASE D!aesd_write(c)
      BY <1>1, <2>6, <3>1, <3>2, WriteLines
    <3>3. CASE ~D!aesd_write(c)
      BY <1>1, <2>6, <3>3, CallLines
    <3>4. QED
      BY <3>2, <3>3
  <2>7. CASE WriteReturns(c) \/ ReadReturns(c) \/ ReadEnds(c)
    BY <1>1, <2>7, ReturnSteps
  <2>8. CASE IoctlReturns(c)
    BY <1>1, <2>8, IoctlLines
  <2>9. QED
    BY <1>2, <2>1, <2>2, <2>3, <2>4, <2>5, <2>6, <2>7, <2>8 DEF handle_connection
<1>3. CASE UNCHANGED vars
  BY <1>1, <1>3, LinesSame
<1>4. QED
  BY <1>2, <1>3 DEF Next

\* What has been dealt with is stored, and what has not is left over.
LEMMA LinesThere ==
  ASSUME DriverServerAssumption, Capacity > 1, TurnInv, ReplyOK, LinesOK, clean
  PROVE  EveryLineStored
<1>1. PICK done \in [Clients -> Nat] : Follows(done)
  BY DEF LinesOK
<1>2. Stored \in Seq(Seq(Bytes)) /\ FlattenSeq(Stored) \in Seq(Bytes)
      /\ Device!Flat = FlattenSeq(Stored)
  <2>1. Device!Flat = D!Flat
    BY SameContents, SameFlatten DEF Device!Flat, D!Flat
  <2>2. QED
    BY <2>1, StoredIs
<1>3. ASSUME NEW c \in Clients, conn[c].pc # "write"
      PROVE  LET written == conn[c].pc \in {"saved", "unsaved", "reply", "read", "close"}
                 pending == IF written THEN << >> ELSE conn[c].packet
             IN  Selected(SubSeq(Stream[c], 1, conn[c].got), Text(c))
                   = Selected(Device!Flat \o pending \o conn[c].rest, Text(c))
  <2> DEFINE written == conn[c].pc \in {"saved", "unsaved", "reply", "read", "close"}
             pending == IF written THEN << >> ELSE conn[c].packet
             rest    == conn[c].rest
             s       == Stream[c]
             got     == conn[c].got
             flat    == FlattenSeq(Stored)
             K       == Text(c)
             left    == SubSeq(s, done[c] + 1, got)
             front   == SubSeq(s, 1, done[c])
  <2>1. written <=> PacketDone(c)
    BY <1>3 DEF TurnInv, TurnsOK, TurnOK, PacketDone
  <2>2. /\ s \in Seq(Bytes) /\ rest \in Seq(Bytes) /\ conn[c].packet \in Seq(Bytes)
        /\ got \in Nat /\ << >> \in Seq(Bytes)
    BY DEF DriverServerAssumption, ReplyOK, Collected
  <2>3. pending \in Seq(Bytes)
    BY <2>2
  <2>4. /\ done[c] \in 0 .. got /\ got <= Len(s) /\ left = pending \o rest
        /\ Selected(front, K) = Selected(flat, K)
    BY <1>1, <2>1 DEF Follows, InPlace, IsStored, LeftOver
  <2> HIDE DEF written, pending, rest, s, got, flat, K
  <2>5. got \in 0 .. Len(s) /\ done[c] \in 0 .. got
    BY <2>2, <2>4
  <2>6. SubSeq(s, 1, got) = front \o left /\ front \in Seq(Bytes) /\ left \in Seq(Bytes)
    <3>1. SubSeq(s, 1, got) = front \o left
      BY <2>2, <2>5, SplitAt
    <3>2. left \in Seq(Bytes)
      <4>1. \A x, y \in Seq(Bytes) : x \o y \in Seq(Bytes)
        OBVIOUS
      <4> HIDE DEF left
      <4>2. QED
        BY <2>2, <2>3, <2>4, <4>1
    <3> DEFINE n == done[c]
    <3>3. n \in 0 .. Len(s)
      BY <2>2, <2>4
    <3> HIDE DEF n
    <3>4. SubSeq(s, 1, n) \in Seq(Bytes)
      BY <2>2, <3>3
    <3>5. QED
      BY <3>1, <3>2, <3>4 DEF n
  <2> HIDE DEF front, left
  <2>7. Selected(front \o left, K) = Selected(front, K) \o Selected(left, K)
    BY <2>6, SelectedConcat
  <2>8. flat \in Seq(Bytes)
    BY <1>2 DEF flat
  <2>9. Selected(flat \o left, K) = Selected(flat, K) \o Selected(left, K)
    BY <2>6, <2>8, SelectedConcat
  <2>10. Cat(Cat(flat, pending), rest) = Cat(flat, Cat(pending, rest))
    BY <2>2, <2>3, <2>8, CatAssociative
  <2>11. (flat \o pending) \o rest = flat \o left
    BY <2>4, <2>10 DEF Cat
  <2>12. Selected(SubSeq(s, 1, got), K) = Selected((flat \o pending) \o rest, K)
    BY <2>4, <2>6, <2>7, <2>9, <2>11
  <2>13. QED
    BY <1>2, <2>12 DEF written, pending, rest, s, got, flat, K
<1>4. \A i \in DOMAIN Stored : Head(Stored[i]) \notin DOMAIN SeekText
  BY DEF LinesOK
<1>5. QED
  BY <1>3, <1>4 DEF EveryLineStored

(***************************************************************************)
(* As long as no call on the device fails, nothing that a client sends is  *)
(* lost, stored twice, reordered or mixed with what others send: for any   *)
(* clients and everything they send, whatever the chunks it arrives in, if *)
(* their text can be told apart, requests have lines of their own and the  *)
(* device has room for the lines.                                          *)
(***************************************************************************)
THEOREM LinesAreStored ==
  ASSUME Capacity > 1, TextsDiffer, OwnLines, RoomForAll
  PROVE  Spec => []EveryLineStored
<1>1. DriverServerAssumption
  BY DriverServerAssumption
<1>2. Init => ReplyInv /\ LinesInv
  BY <1>1, ReplyInit, LinesInit
<1>3. TurnInv /\ ReplyInv /\ LinesInv /\ [Next]_vars => ReplyInv' /\ LinesInv'
  BY <1>1, ReplyStep, LinesStep
<1>4. TurnInv /\ ReplyInv /\ LinesInv => EveryLineStored
  <2> SUFFICES ASSUME TurnInv, ReplyInv, LinesInv, clean PROVE EveryLineStored
    BY DEF EveryLineStored
  <2>1. ReplyOK /\ LinesOK
    BY DEF ReplyInv, LinesInv
  <2>2. QED
    BY <1>1, <2>1, LinesThere
<1>5. QED
  BY <1>2, <1>3, <1>4, TurnInvariant, PTL DEF Spec
=============================================================================
