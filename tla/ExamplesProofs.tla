--------------------------- MODULE ExamplesProofs ---------------------------
(***************************************************************************)
(* The two examples.  SystemCalls, for any number of children and          *)
(* descriptors, and whatever fails: which children do_exec and             *)
(* do_exec_redirect wait for, and what they report of them; and where a    *)
(* redirected command writes, for a caller that has its standard output    *)
(* open.  ThreadingExample, for any threads and mutexes: what holding the  *)
(* mutex means, and what the success in a thread's record.                 *)
(***************************************************************************)
EXTENDS SystemCalls, DataLemmas

CONSTANTS Threads, Mutexes, Caller, Free, ThreadFaults   \* as in ThreadingExample

VARIABLES thread, holder

T == INSTANCE ThreadingExample WITH Faults <- ThreadFaults

-----------------------------------------------------------------------------
(***************************************************************************)
(* The inductive invariant, first for the children: only one that has been *)
(* forked can be the call's own, and success is the status of a command.   *)
(***************************************************************************)
Sound(c) ==
  /\ c.pc = "none" => ~c.own
  /\ c.pc = "running" => c.executed
  /\ c.executed => c.pc \in {"running", "zombie"}
  /\ c.status = "success" => c.executed
  /\ c.pc \in {"dup2", "close"} => c.fd \in Fds

ChildOK(p) == Sound(child[p])

(***************************************************************************)
(* Before fork a call has no child and no trouble.  When it waits, its     *)
(* only child is the one it waits for, unless there was trouble.           *)
(***************************************************************************)
BeforeFork == {"idle", "open", "fork", "aborted"}

CallOK ==
  /\ Is("wait") /\ ~caller.trouble =>
       /\ caller.pid \in Pids /\ child[caller.pid].own
       /\ \A p \in Pids : child[p].own => p = caller.pid
  /\ Is("wait") /\ caller.trouble => caller.pid = AnyChild
  /\ caller.pc \in BeforeFork => ~caller.trouble
  /\ caller.pc \in BeforeFork \/ (Is("wait") /\ caller.trouble) =>
       \A p \in Pids : ~child[p].own

CallInv == TypeOK /\ (\A p \in Pids : ChildOK(p)) /\ CallOK /\ NoChildIsLeft

LEMMA CallInit == Init => CallInv
<1> SUFFICES ASSUME Init PROVE CallInv
  OBVIOUS
<1>1. NoChild \in Children /\ [NoChild EXCEPT !.pc = "running", !.executed = TRUE] \in Children
  BY DEF NoChild, Children, Files
<1>2. TypeOK
  BY <1>1, SystemCallsAssumption DEF Init, TypeOK, Callers, Files
<1>3. \A p \in Pids :
        /\ child[p].own = FALSE /\ child[p].status = None
        /\ child[p].pc = "running" => child[p].executed
        /\ child[p].pc # "none" \/ ~child[p].own
  BY DEF Init, NoChild
<1>4. \A p \in Pids : ChildOK(p)
  BY <1>3, SystemCallsAssumption DEF ChildOK, Sound, Init, NoChild
<1> QED
  BY <1>2, <1>3, <1>4 DEF CallInv, CallOK, NoChildIsLeft, Init, Is, BeforeFork

-----------------------------------------------------------------------------
\* Steps of the caller that leave its children alone.
LEMMA CallStarts ==
  ASSUME CallInv, do_system \/ do_exec \/ do_exec_redirect
  PROVE  CallInv'
<1>1. /\ UNCHANGED <<files, child>> /\ Is("idle")
      /\ caller'.pc \in {"returned", "fork", "open"} /\ caller' \in Callers
      /\ caller'.trouble = caller.trouble
  BY DEF CallInv, TypeOK, Callers, do_system, do_exec, do_exec_redirect, Returns, Is
<1> QED
  BY <1>1 DEF CallInv, TypeOK, ChildOK, CallOK, NoChildIsLeft, Is, BeforeFork

LEMMA OpenKeeps ==
  ASSUME CallInv, Open
  PROVE  CallInv'
<1> DEFINE free == {d \in Fds : files[d] = "closed"}
<1>1. free # {} => Min(free) \in Fds
  BY MinOfNaturals DEF Fds
<1>2. /\ caller' \in Callers /\ caller'.pc \in {"fork", "aborted"} /\ Is("open")
      /\ caller'.trouble = caller.trouble
  BY <1>1 DEF Open, CallInv, TypeOK, Callers, Is
<1>3. files' \in [Fds -> Files] /\ UNCHANGED child
  BY <1>1 DEF Open, CallInv, TypeOK, Files
<1> QED
  BY <1>2, <1>3 DEF CallInv, TypeOK, ChildOK, CallOK, NoChildIsLeft, Is, BeforeFork

LEMMA WaitFailsKeeps ==
  ASSUME CallInv, WaitPidFails
  PROVE  CallInv'
<1>1. /\ UNCHANGED <<files, child>> /\ caller'.pc = "returned" /\ caller'.trouble
      /\ caller' \in Callers
  BY DEF CallInv, TypeOK, Callers, WaitPidFails
<1> QED
  BY <1>1 DEF CallInv, TypeOK, ChildOK, CallOK, NoChildIsLeft, Is, BeforeFork

-----------------------------------------------------------------------------
LEMMA ForkKeeps ==
  ASSUME CallInv, Fork
  PROVE  CallInv'
<1>1. ASSUME NEW p \in Pids, child[p].pc = "none",
             child' = [child EXCEPT ![p] = ForkedChild],
             caller' = [caller EXCEPT !.pc = "wait", !.pid = PidToWaitFor(p)],
             UNCHANGED files
      PROVE  CallInv'
  <2>1. /\ caller' \in Callers /\ caller'.pc = "wait" /\ caller'.pid = p
        /\ caller'.trouble = caller.trouble
    BY <1>1 DEF CallInv, TypeOK, Callers, PidToWaitFor
  <2>2. /\ ForkedChild \in Children /\ ForkedChild.own /\ ForkedChild.status = None
        /\ ~ForkedChild.executed
        /\ ForkedChild.pc \in {"execv", "dup2"}
        /\ ForkedChild.pc = "dup2" => ForkedChild.fd \in Fds
    BY DEF ForkedChild, NoChild, Children, Files, CallInv, TypeOK, Callers
  <2>3. ~caller.trouble /\ \A q \in Pids : ~child[q].own
    BY DEF Fork, CallInv, CallOK, Is, BeforeFork
  <2>4. /\ child' \in [Pids -> Children] /\ child'[p] = ForkedChild
        /\ \A q \in Pids : q # p => child'[q] = child[q]
    BY <1>1, <2>2 DEF CallInv, TypeOK
  <2>5. TypeOK'
    BY <1>1, <2>1, <2>4 DEF CallInv, TypeOK
  <2>6. \A q \in Pids : ChildOK(q)'
    BY <2>2, <2>4, SystemCallsAssumption DEF CallInv, ChildOK, Sound
  <2>7. CallOK' /\ NoChildIsLeft'
    BY <2>1, <2>2, <2>3, <2>4 DEF CallOK, NoChildIsLeft, Is, BeforeFork
  <2> QED
    BY <2>5, <2>6, <2>7 DEF CallInv
<1>2. ASSUME caller' = [caller EXCEPT !.pc = "wait", !.pid = AnyChild, !.trouble = TRUE],
             UNCHANGED <<files, child>>
      PROVE  CallInv'
  <2>1. caller' \in Callers /\ caller'.pc = "wait" /\ caller'.trouble
    BY <1>2 DEF CallInv, TypeOK, Callers
  <2>2. \A q \in Pids : ~child[q].own
    BY DEF Fork, CallInv, CallOK, Is, BeforeFork
  <2> QED
    BY <1>2, <2>1, <2>2
       DEF CallInv, TypeOK, ChildOK, CallOK, NoChildIsLeft, Is, BeforeFork
<1> QED
  BY <1>1, <1>2 DEF Fork

\* What waitpid and GoOn find: the calls' own child is the one that is awaited.
LEMMA WaitPidKeeps ==
  ASSUME CallInv, WaitPid
  PROVE  CallInv'
<1>1. PICK p \in Waited :
        /\ child' = [child EXCEPT ![p] = NoChild]
        /\ Returns(Succeeded(child[p].status))
  BY DEF WaitPid
<1>2. p \in Pids /\ (~caller.trouble => p = caller.pid)
  BY SystemCallsAssumption DEF Waited, CallInv, CallOK, WaitPid
<1>3. /\ NoChild \in Children /\ ~NoChild.own /\ NoChild.status = None
      /\ NoChild.pc = "none" /\ ~NoChild.executed
  BY DEF NoChild, Children, Files
<1>4. /\ child' \in [Pids -> Children] /\ child'[p] = NoChild
      /\ \A q \in Pids : q # p => child'[q] = child[q]
  BY <1>1, <1>2, <1>3 DEF CallInv, TypeOK
<1>5. /\ caller' \in Callers /\ caller'.pc = "returned"
      /\ caller'.trouble = caller.trouble
  BY <1>1 DEF Returns, Succeeded, CallInv, TypeOK, Callers
<1>6. TypeOK'
  BY <1>4, <1>5 DEF WaitPid, CallInv, TypeOK
<1>7. \A q \in Pids : ChildOK(q)'
  BY <1>3, <1>4, SystemCallsAssumption DEF CallInv, ChildOK, Sound
<1>8. CallOK'
  BY <1>5 DEF CallOK, Is, BeforeFork
<1>9. NoChildIsLeft'
  BY <1>2, <1>3, <1>4, <1>5 DEF WaitPid, NoChildIsLeft, CallInv, CallOK, Is
<1> QED
  BY <1>6, <1>7, <1>8, <1>9 DEF CallInv

LEMMA GoOnKeeps ==
  ASSUME CallInv, GoOn
  PROVE  CallInv'
<1>1. caller' \in Callers /\ caller'.pc = "idle" /\ ~caller'.trouble
  BY DEF GoOn, CallInv, TypeOK, Callers
<1>2. /\ child' \in [Pids -> Children]
      /\ \A p \in Pids : /\ ~child'[p].own /\ child'[p].pc = child[p].pc
                         /\ child'[p].executed = child[p].executed
                         /\ child'[p].status = child[p].status
                         /\ child'[p].fd = child[p].fd
  BY DEF GoOn, CallInv, TypeOK, Children
<1> QED
  BY <1>1, <1>2 DEF GoOn, CallInv, TypeOK, ChildOK, Sound, CallOK, NoChildIsLeft, Is, BeforeFork

-----------------------------------------------------------------------------
(***************************************************************************)
(* For the descriptors: what a child has on its way from fork to execv.    *)
(***************************************************************************)
Redirected(c) ==
  c.fd # None =>
    /\ c.fd # 1
    /\ c.pc = "dup2" => c.files[c.fd] = "output"
    /\ c.pc \in {"close", "execv"} \/ c.executed => c.files[1] = "output"
    /\ c.pc = "execv" \/ c.executed => c.files[c.fd] = "closed"

\* How a step changes the child that takes it, from b to c.
Evolves(b, c) ==
  /\ b.pc \notin {"none", "zombie"} /\ c.pc # "none" /\ c.own = b.own
  /\ Sound(c)
  /\ Redirected(b) => Redirected(c)

\* "abort", "exit" and the end of the command.
LEMMA DyingEvolves ==
  ASSUME NEW b \in Children, Sound(b), b.pc \notin {"none", "zombie"},
         NEW status \in {"success", "failure", "signal"},
         status = "success" => b.pc = "running"
  PROVE  LET c == [b EXCEPT !.pc = "zombie", !.status = status]
         IN  c \in Children /\ Evolves(b, c)
  BY DEF Children, Evolves, Sound, Redirected

LEMMA Dup2Evolves ==
  ASSUME NEW b \in Children, Sound(b), b.pc = "dup2"
  PROVE  LET c == [b EXCEPT !.pc = "close", !.files[1] = b.files[b.fd]]
         IN  c \in Children /\ Evolves(b, c)
<1> DEFINE f == [b.files EXCEPT ![1] = b.files[b.fd]]
           c == [b EXCEPT !.pc = "close", !.files[1] = b.files[b.fd]]
<1>1. b.fd \in Fds /\ 1 \in Fds /\ b.files \in [Fds -> Files]
  BY SystemCallsAssumption DEF Sound, Children, Fds
<1>2. f \in [Fds -> Files] /\ f[1] = b.files[b.fd]
  BY <1>1
<1>3. /\ c.pc = "close" /\ c.files = f /\ c.fd = b.fd /\ c.own = b.own
      /\ c.executed = b.executed /\ c.status = b.status
  BY DEF Children
<1>4. c \in Children
  <2>1. c = [b EXCEPT !.pc = "close", !.files = f]
    BY DEF Children
  <2> QED
    BY <1>2, <2>1 DEF Children
<1> HIDE DEF c, f
<1>5. Sound(c) /\ (Redirected(b) => Redirected(c))
  BY <1>1, <1>2, <1>3 DEF Sound, Redirected
<1> QED
  BY <1>3, <1>4, <1>5 DEF Evolves, c

LEMMA CloseEvolves ==
  ASSUME NEW b \in Children, Sound(b), b.pc = "close"
  PROVE  LET c == [b EXCEPT !.pc = "execv", !.files = [b.files EXCEPT ![b.fd] = "closed"]]
         IN  c \in Children /\ Evolves(b, c)
<1> DEFINE f == [b.files EXCEPT ![b.fd] = "closed"]
           c == [b EXCEPT !.pc = "execv", !.files = f]
<1>1. b.fd \in Fds /\ 1 \in Fds /\ b.files \in [Fds -> Files]
  BY SystemCallsAssumption DEF Sound, Children, Fds
<1>2. /\ f \in [Fds -> Files] /\ f[b.fd] = "closed"
      /\ b.fd # 1 => f[1] = b.files[1]
  BY <1>1 DEF Files
<1> HIDE DEF f
<1>3. /\ c.pc = "execv" /\ c.files = f /\ c.fd = b.fd /\ c.own = b.own
      /\ c.executed = b.executed /\ c.status = b.status
  BY DEF Children
<1>4. c \in Children
  BY <1>2 DEF Children
<1> HIDE DEF c
<1>5. Sound(c) /\ (Redirected(b) => Redirected(c))
  BY <1>1, <1>2, <1>3 DEF Sound, Redirected
<1> QED
  BY <1>3, <1>4, <1>5 DEF Evolves, c, f

LEMMA ExecvEvolves ==
  ASSUME NEW b \in Children, Sound(b), b.pc = "execv"
  PROVE  LET c == [b EXCEPT !.pc = "running", !.executed = TRUE]
         IN  c \in Children /\ Evolves(b, c)
  BY DEF Children, Evolves, Sound, Redirected

LEMMA ChildEvolves ==
  ASSUME CallInv, NEW p \in Pids, ChildStep(p)
  PROVE  /\ UNCHANGED <<caller, files>>
         /\ \E c \in Children : Becomes(p, c) /\ Evolves(child[p], c)
<1>1. child[p] \in Children /\ Sound(child[p])
  BY DEF CallInv, TypeOK, ChildOK
<1>2. CASE Dup2(p)
  BY <1>1, <1>2, Dup2Evolves, DyingEvolves DEF Dup2, Child, Dies
<1>3. CASE Close(p)
  BY <1>1, <1>3, CloseEvolves DEF Close, Child, Closed
<1>4. CASE Execv(p)
  BY <1>1, <1>4, ExecvEvolves, DyingEvolves DEF Execv, Child, AfterFailedExec, Dies
<1>5. CASE CommandEnds(p)
  BY <1>1, <1>5, DyingEvolves DEF CommandEnds, Child, Dies
<1> QED
  BY <1>2, <1>3, <1>4, <1>5 DEF ChildStep

LEMMA ChildKeeps ==
  ASSUME CallInv, NEW p \in Pids, ChildStep(p)
  PROVE  CallInv'
<1>1. PICK c \in Children : Becomes(p, c) /\ Evolves(child[p], c)
  BY ChildEvolves
<1>2. UNCHANGED <<caller, files>>
  BY ChildEvolves
<1>3. /\ child' \in [Pids -> Children] /\ child'[p] = c
      /\ \A q \in Pids : q # p => child'[q] = child[q]
  BY <1>1 DEF Becomes, CallInv, TypeOK
<1>4. TypeOK' /\ \A q \in Pids : ChildOK(q)'
  BY <1>1, <1>2, <1>3 DEF CallInv, TypeOK, ChildOK, Evolves
<1>5. \A q \in Pids : child'[q].own = child[q].own
  BY <1>1, <1>3 DEF Evolves
<1>6. CallOK' /\ NoChildIsLeft'
  BY <1>2, <1>5 DEF CallInv, CallOK, NoChildIsLeft, Is, BeforeFork
<1> QED
  BY <1>4, <1>6 DEF CallInv

-----------------------------------------------------------------------------
LEMMA CallStep == CallInv /\ [Next]_vars => CallInv'
<1> SUFFICES ASSUME CallInv, [Next]_vars PROVE CallInv'
  OBVIOUS
<1>1. CASE UNCHANGED vars
  BY <1>1 DEF vars, CallInv, TypeOK, ChildOK, CallOK, NoChildIsLeft, Is, BeforeFork
<1> QED
  BY <1>1, CallStarts, OpenKeeps, ForkKeeps, WaitPidKeeps, WaitFailsKeeps, GoOnKeeps,
     ChildKeeps DEF Next, CallerStep, NothingToWaitFor, WaitInterrupted

LEMMA CallInvariance == Spec => []CallInv
  BY CallInit, CallStep, PTL DEF Spec

(***************************************************************************)
(* A call leaves no child behind, unless its fork or its waitpid fails     *)
(* (systemcalls.c:55-84, 105-141).                                         *)
(***************************************************************************)
THEOREM ChildIsAwaited == Spec => []NoChildIsLeft
<1>1. CallInv => NoChildIsLeft
  BY DEF CallInv
<1> QED
  BY <1>1, CallInvariance, PTL

\* Of the calls that wait, waitpid or its failure ends each; one whose fork has
\* not failed waits for its own child and for no other.
LEMMA ResultIsOwn ==
  ASSUME CallInv, Next, Is("wait"), caller'.pc = "returned", ~caller.trouble
  PROVE  caller'.result = (~caller'.trouble /\ OwnCommandSucceeded)
<1>1. PICK own \in Pids : /\ own = caller.pid /\ child[own].own
                          /\ \A p \in Pids : child[p].own => p = own
  BY DEF CallInv, CallOK
<1>2. OwnCommandSucceeded <=> child[own].status = "success"
  <2>1. child[own].status = "success" => child[own].executed
    BY <1>1 DEF CallInv, ChildOK, Sound
  <2> QED
    BY <1>1, <2>1 DEF OwnCommandSucceeded
<1>3. OwnCommandSucceeded \in BOOLEAN /\ caller'.trouble \in BOOLEAN
  BY CallStep DEF OwnCommandSucceeded, CallInv, TypeOK, Callers
<1>4. CASE WaitPid
  <2>1. Waited = {own}
    BY <1>1, SystemCallsAssumption DEF Waited
  <2>2. /\ caller'.result = (child[own].status = "success")
        /\ caller'.trouble = caller.trouble
    BY <1>4, <2>1 DEF WaitPid, Returns, Succeeded, CallInv, TypeOK, Callers
  <2> QED
    BY <1>2, <1>3, <2>2
<1>5. CASE WaitPidFails
  <2>1. caller'.result = FALSE /\ caller'.trouble
    BY <1>5 DEF WaitPidFails, CallInv, TypeOK, Callers
  <2> QED
    BY <2>1
<1>6. WaitPid \/ WaitPidFails
  <2>1. \A p \in Pids : ChildStep(p) => caller' = caller
    BY ChildEvolves
  <2> QED
    BY <2>1 DEF Next, CallerStep, NothingToWaitFor, WaitInterrupted, Is, do_system, do_exec,
                do_exec_redirect, Open, Fork, GoOn
<1> QED
  BY <1>4, <1>5, <1>6

(***************************************************************************)
(* A call whose fork has not failed returns true just when its own command *)
(* has succeeded, and its waitpid has not failed (systemcalls.c:38-42).    *)
(***************************************************************************)
THEOREM OwnCommandIsReported == Spec => ReportsItsOwnCommand
<1>1. CallInv /\ [Next]_vars =>
        [Is("wait") /\ caller'.pc = "returned" /\ ~caller.trouble =>
           caller'.result = (~caller'.trouble /\ OwnCommandSucceeded)]_vars
  BY ResultIsOwn
<1> QED
  BY <1>1, CallInvariance, PTL DEF Spec, ReportsItsOwnCommand

(***************************************************************************)
(* Nobody but the caller, or a call whose fork or waitpid has failed,      *)
(* collects a child that the caller has from elsewhere.                    *)
(***************************************************************************)
THEOREM OtherChildrenAreLeft == Spec => OtherChildrenStay
<1>1. ASSUME CallInv, Next, NEW p \in Pids,
             child[p].pc = "zombie", ~child[p].own, child'[p] # child[p]
      PROVE  caller.trouble
  <2>1. CASE WaitPid
    <3>1. PICK q \in Waited : child' = [child EXCEPT ![q] = NoChild]
      BY <2>1 DEF WaitPid
    <3>2. SUFFICES ASSUME ~caller.trouble PROVE FALSE
      OBVIOUS
    <3>3. Waited = {caller.pid} /\ child[caller.pid].own
      BY <1>1, <2>1, <3>2, SystemCallsAssumption DEF CallInv, CallOK, WaitPid, Waited
    <3> QED
      BY <1>1, <3>1, <3>3 DEF CallInv, TypeOK
  <2>2. CASE GoOn
    <3>1. child[p] \in Children
      BY <1>1 DEF CallInv, TypeOK
    <3>2. [child[p] EXCEPT !.own = FALSE] = child[p]
      BY <1>1, <3>1 DEF Children
    <3> QED
      BY <1>1, <2>2, <3>2 DEF GoOn
  <2>3. CASE Fork
    BY <1>1, <2>3 DEF Fork, CallInv, TypeOK
  <2>4. CASE \E q \in Pids : ChildStep(q)
    <3>1. PICK q \in Pids : ChildStep(q)
      BY <2>4
    <3>2. PICK c \in Children : Becomes(q, c) /\ Evolves(child[q], c)
      BY <1>1, <3>1, ChildEvolves
    <3> QED
      BY <1>1, <3>2 DEF Becomes, Evolves, CallInv, TypeOK
  <2>5. CASE UNCHANGED child
    BY <1>1, <2>5
  <2> QED
    BY <1>1, <2>1, <2>2, <2>3, <2>4, <2>5
       DEF Next, CallerStep, do_system, do_exec, do_exec_redirect, Open,
           NothingToWaitFor, WaitInterrupted, WaitPidFails
<1>2. CallInv /\ [Next]_vars =>
        [\A p \in Pids :
           child[p].pc = "zombie" /\ ~child[p].own /\ child'[p] # child[p]
             => caller.trouble]_vars
  BY <1>1
<1> QED
  BY <1>2, CallInvariance, PTL DEF Spec, OtherChildrenStay

-----------------------------------------------------------------------------
(***************************************************************************)
(* Where a redirected command writes.  The caller's standard output stays  *)
(* open, so open never gives descriptor 1 to the file, and dup2 and close  *)
(* do what they are meant to.                                              *)
(***************************************************************************)
StdoutIsOpen == 1 \in OpenAtStart

OutputInv ==
  /\ files[1] # "closed"
  /\ Is("idle") \/ Is("open") => caller.fd = None
  /\ Is("fork") /\ caller.fd # None => caller.fd # 1 /\ files[caller.fd] = "output"
  /\ \A p \in Pids : Redirected(child[p])

LEMMA OutputInit ==
  ASSUME StdoutIsOpen, Init
  PROVE  OutputInv
<1>1. \A p \in Pids : child[p].fd = None
  BY DEF Init, NoChild
<1> QED
  BY <1>1, SystemCallsAssumption
     DEF Init, OutputInv, StdoutIsOpen, Is, Redirected, Fds

LEMMA OutputOpen ==
  ASSUME CallInv, OutputInv, Open
  PROVE  OutputInv'
<1> DEFINE free == {d \in Fds : files[d] = "closed"}
           given == /\ free # {}
                    /\ caller' = [caller EXCEPT !.pc = "fork", !.fd = Min(free)]
                    /\ files' = [files EXCEPT ![Min(free)] = "output"]
<1>1. CASE caller' = [caller EXCEPT !.pc = "aborted"] /\ UNCHANGED files
  BY <1>1 DEF Open, OutputInv, Is, Redirected, CallInv, TypeOK, Callers
<1>2. CASE given
  <2>1. Min(free) \in free
    BY <1>2, MinOfNaturals DEF Fds
  <2>2. Min(free) \in Fds /\ Min(free) # 1
    BY <2>1 DEF OutputInv
  <2>3. /\ caller'.pc = "fork" /\ caller'.fd = Min(free) /\ UNCHANGED child
        /\ files' = [files EXCEPT ![Min(free)] = "output"]
    BY <1>2 DEF Open, CallInv, TypeOK, Callers
  <2>4. files'[1] = files[1] /\ files'[Min(free)] = "output"
    BY <2>2, <2>3 DEF CallInv, TypeOK
  <2> QED
    BY <2>2, <2>3, <2>4 DEF OutputInv, Is, Redirected
<1> QED
  BY <1>1, <1>2 DEF Open

LEMMA OutputFork ==
  ASSUME CallInv, OutputInv, Fork
  PROVE  OutputInv'
<1>1. Redirected(ForkedChild)
  <2>1. /\ ForkedChild.fd = caller.fd /\ ForkedChild.files = files
        /\ ForkedChild.pc = IF caller.fd = None THEN "execv" ELSE "dup2"
        /\ ~ForkedChild.executed
    BY DEF ForkedChild, NoChild
  <2> QED
    BY <2>1 DEF Fork, OutputInv, Redirected
<1>2. caller'.pc = "wait" /\ UNCHANGED files
  BY DEF Fork, CallInv, TypeOK, Callers
<1>3. \A p \in Pids : child'[p] \in {child[p], ForkedChild}
  BY DEF Fork, CallInv, TypeOK
<1>4. \A p \in Pids : Redirected(child'[p])
  BY <1>1, <1>3 DEF OutputInv
<1> QED
  BY <1>2, <1>4 DEF OutputInv, Is, Redirected

\* The other steps of the caller leave its files alone.
LEMMA OutputCaller ==
  ASSUME CallInv, OutputInv,
         \/ do_system \/ do_exec \/ do_exec_redirect
         \/ WaitPid \/ WaitPidFails \/ GoOn \/ UNCHANGED vars
  PROVE  OutputInv'
<1>1. UNCHANGED files
  BY DEF do_system, do_exec, do_exec_redirect, WaitPid, WaitPidFails, GoOn, vars
<1>2. ASSUME NEW p \in Pids PROVE Redirected(child'[p])
  <2>1. NoChild.fd = None
    BY DEF NoChild
  <2>2. Redirected(NoChild)
    BY <2>1 DEF Redirected
  <2>3. Redirected(child[p])
    BY DEF OutputInv
  <2>4. CASE GoOn
    <3>1. child'[p] = [child[p] EXCEPT !.own = FALSE] /\ child[p] \in Children
      BY <2>4 DEF GoOn, CallInv, TypeOK
    <3> QED
      BY <2>3, <3>1 DEF Redirected, Children
  <2>5. CASE WaitPid
    BY <2>2, <2>3, <2>5 DEF WaitPid, CallInv, TypeOK
  <2>6. CASE UNCHANGED child
    BY <2>3, <2>6
  <2> QED
    BY <2>4, <2>5, <2>6 DEF do_system, do_exec, do_exec_redirect, WaitPidFails, vars
<1>3. caller \in Callers
  BY DEF CallInv, TypeOK
<1>4. /\ Is("idle")' \/ Is("open")' => caller'.fd = None
      /\ Is("fork")' => Is("fork") \/ caller'.fd = None
      /\ Is("fork")' /\ Is("fork") => caller' = caller
  BY <1>3 DEF do_system, do_exec, do_exec_redirect, WaitPid, WaitPidFails, GoOn, vars,
              Returns, Is, OutputInv, Callers
<1> QED
  BY <1>1, <1>2, <1>4 DEF OutputInv, Is

LEMMA OutputChild ==
  ASSUME CallInv, OutputInv, NEW p \in Pids, ChildStep(p)
  PROVE  OutputInv'
<1>1. PICK c \in Children : Becomes(p, c) /\ Evolves(child[p], c)
  BY ChildEvolves
<1>2. UNCHANGED <<caller, files>>
  BY ChildEvolves
<1>3. \A q \in Pids : child'[q] = child[q] \/ (q = p /\ child'[q] = c)
  BY <1>1 DEF Becomes, CallInv, TypeOK
<1>4. \A q \in Pids : Redirected(child'[q])
  BY <1>1, <1>3 DEF Evolves, OutputInv
<1> QED
  BY <1>2, <1>4 DEF OutputInv, Is

(***************************************************************************)
(* A redirected command has the file as its standard output and not as a   *)
(* descriptor of its own, for every caller with an open standard output    *)
(* (systemcalls.c:110-131).                                                *)
(***************************************************************************)
THEOREM RedirectionWorks == StdoutIsOpen /\ Spec => []CommandWritesToTheFile
<1>1. StdoutIsOpen /\ Init => CallInv /\ OutputInv
  BY CallInit, OutputInit
<1>2. CallInv /\ OutputInv /\ [Next]_vars => CallInv' /\ OutputInv'
  BY CallStep, OutputOpen, OutputFork, OutputCaller, OutputChild
     DEF Next, CallerStep, NothingToWaitFor, WaitInterrupted
<1>3. CallInv /\ OutputInv => CommandWritesToTheFile
  BY DEF OutputInv, Redirected, CommandWritesToTheFile
<1> QED
  BY <1>1, <1>2, <1>3, PTL DEF Spec

-----------------------------------------------------------------------------
(***************************************************************************)
(* ThreadingExample: what has been started, and what has succeeded.        *)
(***************************************************************************)
Started(t)  == thread[t].pc # "none"
Succeeds(t) == thread[t].thread_complete_success

\* A record is filled before its thread runs, with a mutex there is.
RecordOK ==
  \A t \in Threads :
    Started(t) => T!Mutex(t) \in Mutexes

\* Who has a mutex is between lock and unlock with it, or has failed to unlock it.
HolderOK ==
  \A t \in Threads :
    /\ Succeeds(t) => T!At(t, "ended")
    /\ \A m \in Mutexes : holder[m] = t =>
         /\ T!Mutex(t) = m
         /\ T!At(t, "release") \/ (T!At(t, "ended") /\ ~Succeeds(t))

\* The inductive invariant: none of the properties is one by itself.
ThreadingInv ==
  T!TypeOK /\ RecordOK /\ T!HoldsItsMutex /\ HolderOK

-----------------------------------------------------------------------------
LEMMA InitEstablishes ==
  ASSUME T!ThreadingAssumption, T!Init
  PROVE  ThreadingInv
  BY DEF T!ThreadingAssumption, T!Init, ThreadingInv, T!TypeOK, RecordOK,
         T!HoldsItsMutex, HolderOK, Started, Succeeds, T!At, T!Labels

LEMMA FillRecordKeeps ==
  ASSUME T!ThreadingAssumption, ThreadingInv, NEW t \in Threads, NEW m \in Mutexes,
         T!FillRecord(t, m)
  PROVE  ThreadingInv'
<1> DEFINE filled == [thread[t] EXCEPT !.pc = "malloced", !.mutex = m]
<1>1. /\ thread' = [thread EXCEPT ![t] = filled]
      /\ holder' = holder
  BY DEF T!FillRecord, ThreadingInv, T!TypeOK
<1>2. /\ T!At(t, "none") /\ ~Succeeds(t)
      /\ filled.pc = "malloced" /\ filled.mutex = m /\ ~filled.thread_complete_success
  BY DEF T!FillRecord, ThreadingInv, HolderOK, T!TypeOK, T!At, Succeeds
<1>3. T!TypeOK'
  BY <1>1 DEF ThreadingInv, T!TypeOK, T!Labels
<1>4. \A u \in Threads : u # t => thread'[u] = thread[u]
  BY <1>1 DEF ThreadingInv, T!TypeOK
<1>5. thread'[t] = filled
  BY <1>1 DEF ThreadingInv, T!TypeOK
<1>6. (RecordOK /\ T!HoldsItsMutex)'
  BY <1>1, <1>2, <1>4, <1>5
     DEF ThreadingInv, RecordOK, T!HoldsItsMutex, Started, T!At, T!Mutex
<1>7. HolderOK'
  BY <1>1, <1>2, <1>4, <1>5 DEF ThreadingInv, HolderOK, Succeeds, T!At, T!Mutex
<1> QED
  BY <1>3, <1>6, <1>7 DEF ThreadingInv

LEMMA PthreadCreateKeeps ==
  ASSUME T!ThreadingAssumption, ThreadingInv, NEW t \in Threads, T!PthreadCreate(t)
  PROVE  ThreadingInv'
  BY DEF T!ThreadingAssumption, T!PthreadCreate, ThreadingInv, T!TypeOK, RecordOK,
         T!HoldsItsMutex, HolderOK, Started, Succeeds, T!At, T!Labels, T!Mutex, T!Goes

LEMMA LockKeeps ==
  ASSUME T!ThreadingAssumption, ThreadingInv, NEW t \in Threads, T!Lock(t)
  PROVE  ThreadingInv'
  BY DEF T!ThreadingAssumption, T!Lock, ThreadingInv, T!TypeOK, RecordOK, T!HoldsItsMutex, HolderOK,
         Started, Succeeds, T!At, T!Labels, T!Mutex, T!Goes

LEMMA LockFailsKeeps ==
  ASSUME T!ThreadingAssumption, ThreadingInv, NEW t \in Threads, T!LockFails(t)
  PROVE  ThreadingInv'
<1> DEFINE failed == [thread[t] EXCEPT !.pc = "ended", !.thread_complete_success = FALSE]
<1>1. /\ thread' = [thread EXCEPT ![t] = failed]
      /\ holder' = holder
  BY DEF T!LockFails, T!Ends, ThreadingInv, T!TypeOK
<1>2. /\ T!At(t, "obtain")
      /\ failed.pc = "ended" /\ failed.mutex = T!Mutex(t) /\ ~failed.thread_complete_success
  BY DEF T!LockFails, ThreadingInv, T!TypeOK, T!At, T!Mutex
<1>3. T!TypeOK'
  BY <1>1 DEF ThreadingInv, T!TypeOK, T!Labels
<1>4. /\ \A u \in Threads : u # t => thread'[u] = thread[u]
      /\ thread'[t] = failed
  BY <1>1 DEF ThreadingInv, T!TypeOK
<1>5. (RecordOK /\ T!HoldsItsMutex)'
  BY <1>1, <1>2, <1>4
     DEF ThreadingInv, RecordOK, T!HoldsItsMutex, Started, T!At, T!Mutex
<1>6. HolderOK'
  BY <1>1, <1>2, <1>4 DEF ThreadingInv, HolderOK, Succeeds, T!At, T!Mutex
<1> QED
  BY <1>3, <1>5, <1>6 DEF ThreadingInv

LEMMA UnlockKeeps ==
  ASSUME T!ThreadingAssumption, ThreadingInv, NEW t \in Threads, T!Unlock(t)
  PROVE  ThreadingInv'
  BY DEF T!ThreadingAssumption, T!Unlock, ThreadingInv, T!TypeOK, RecordOK,
         T!HoldsItsMutex, HolderOK, Started, Succeeds, T!At,
         T!Labels, T!Mutex, T!Goes, T!Ends, T!UnlockFails, T!Released

LEMMA ExitKeeps ==
  ASSUME T!ThreadingAssumption, ThreadingInv, NEW t \in Threads, T!Exit(t)
  PROVE  ThreadingInv'
  BY DEF T!ThreadingAssumption, T!Exit, ThreadingInv, T!TypeOK, RecordOK, T!HoldsItsMutex, HolderOK,
         Started, Succeeds, T!At, T!Labels, T!Mutex, T!Ends

LEMMA CallerKeeps ==
  ASSUME T!ThreadingAssumption, ThreadingInv, NEW m \in Mutexes,
         T!CallerLocks(m) \/ T!CallerUnlocks(m)
  PROVE  ThreadingInv'
  BY DEF T!ThreadingAssumption, T!CallerLocks, T!CallerUnlocks, ThreadingInv, T!TypeOK, RecordOK,
         T!HoldsItsMutex, HolderOK, Started, Succeeds, T!At, T!Mutex

-----------------------------------------------------------------------------
LEMMA StepKeeps ==
  T!ThreadingAssumption /\ ThreadingInv /\ [T!Next]_(T!vars) => ThreadingInv'
<1> SUFFICES ASSUME T!ThreadingAssumption, ThreadingInv, [T!Next]_(T!vars) PROVE ThreadingInv'
  OBVIOUS
<1>1. CASE \E t \in Threads, m \in Mutexes : T!FillRecord(t, m)
  BY <1>1, FillRecordKeeps
<1>2. ASSUME NEW t \in Threads,
             T!PthreadCreate(t) \/ T!threadfunc(t)
      PROVE  ThreadingInv'
  BY <1>2, PthreadCreateKeeps, LockKeeps, LockFailsKeeps, UnlockKeeps, ExitKeeps
     DEF T!threadfunc
<1>3. CASE \E m \in Mutexes : T!CallerLocks(m) \/ T!CallerUnlocks(m)
  BY <1>3, CallerKeeps
<1>4. CASE UNCHANGED T!vars
  BY <1>4 DEF T!vars, ThreadingInv, T!TypeOK, RecordOK, T!HoldsItsMutex, HolderOK,
              Started, Succeeds, T!At, T!Mutex
<1> QED
  BY <1>1, <1>2, <1>3, <1>4 DEF T!Next

LEMMA Invariance ==
  ASSUME T!ThreadingAssumption
  PROVE  T!Spec => []ThreadingInv
  BY InitEstablishes, StepKeeps, PTL DEF T!Spec

(***************************************************************************)
(* Between its lock and its unlock threadfunc has the mutex, also when     *)
(* others fail to lock or to unlock theirs.                                *)
(***************************************************************************)
THEOREM MutexIsHeld ==
  ASSUME T!ThreadingAssumption
  PROVE  T!Spec => []T!HoldsItsMutex
<1>1. ThreadingInv => T!HoldsItsMutex
  BY DEF ThreadingInv
<1> QED
  BY <1>1, Invariance, PTL

(***************************************************************************)
(* No thread that has ended still holds its mutex, unless its record says  *)
(* that it failed (threading.c:34-47).                                     *)
(***************************************************************************)
THEOREM SuccessIsRelease ==
  ASSUME T!ThreadingAssumption
  PROVE  T!Spec => []T!SuccessMeansReleased
<1>1. ThreadingInv => T!SuccessMeansReleased
  <2> SUFFICES ASSUME ThreadingInv, NEW t \in Threads, Succeeds(t)
               PROVE  T!At(t, "ended") /\ holder[T!Mutex(t)] # t
    BY DEF T!SuccessMeansReleased, Succeeds
  <2>1. T!At(t, "ended") /\ T!Mutex(t) \in Mutexes
    BY DEF ThreadingInv, HolderOK, RecordOK, Started, T!At
  <2> QED
    BY <2>1 DEF ThreadingInv, HolderOK, T!At
<1> QED
  BY <1>1, Invariance, PTL
=============================================================================
