----------------------------- MODULE SystemCalls -----------------------------
(***************************************************************************)
(* do_system, do_exec and do_exec_redirect, called again and again by a    *)
(* process that may have other children and need not have its standard     *)
(* output open.  The child that fork makes runs the same code until execv  *)
(* replaces it; what it has got, and what it shares with its parent, are   *)
(* the descriptors.                                                        *)
(***************************************************************************)
EXTENDS Integers, FiniteSetsExt

CONSTANTS
  Pids,           \* the process ids there are for children
  Others,         \* those of children the caller has from elsewhere
  MaxFd,          \* the highest descriptor
  OpenAtStart,    \* the descriptors the caller has open
  Faults,         \* what may fail: "open", "fork", "execv", "dup2", "waitpid"
  AnyChild, None  \* the pid -1; no pid, no status

Fds == 0 .. MaxFd

ASSUME SystemCallsAssumption ==
  /\ Others \subseteq Pids /\ AnyChild \notin Pids
  /\ None \notin Pids /\ None \notin Fds
  /\ None \notin {"success", "failure", "signal"}
  /\ MaxFd \in Nat /\ 1 <= MaxFd /\ OpenAtStart \subseteq Fds
  /\ Faults \subseteq {"open", "fork", "execv", "dup2", "waitpid"}

VARIABLES
  caller,  \* where it is, and the locals of the function it has called
  files,   \* what its descriptors lead to
  child    \* its children

vars == <<caller, files, child>>

May(fault) == fault \in Faults

Files == {"closed", "terminal", "output"}

\* trouble, for the properties: in this call, fork or waitpid has failed.
Callers ==
  [pc : {"idle", "open", "fork", "wait", "returned", "aborted"},
   fd : Fds \cup {None}, pid : Pids \cup {AnyChild, None}, result : BOOLEAN, trouble : BOOLEAN]

\* own: it was made by the call that is running; executed: execv succeeded.
Children ==
  [pc : {"none", "dup2", "close", "execv", "running", "zombie"},
   files : [Fds -> Files], fd : Fds \cup {None}, own : BOOLEAN, executed : BOOLEAN,
   status : {None, "success", "failure", "signal"}]

TypeOK ==
  /\ caller \in Callers
  /\ files \in [Fds -> Files]
  /\ child \in [Pids -> Children]

NoChild == [pc |-> "none", files |-> [d \in Fds |-> "closed"], fd |-> None,
            own |-> FALSE, executed |-> FALSE, status |-> None]

Init ==
  /\ caller = [pc |-> "idle", fd |-> None, pid |-> None, result |-> FALSE,
               trouble |-> FALSE]
  /\ files = [d \in Fds |-> IF d \in OpenAtStart THEN "terminal" ELSE "closed"]
  /\ child = [p \in Pids |->
                IF p \in Others THEN [NoChild EXCEPT !.pc = "running", !.executed = TRUE]
                ELSE NoChild]

-----------------------------------------------------------------------------
(***************************************************************************)
(* The caller.                                                             *)
(***************************************************************************)
Is(label) == caller.pc = label

\* waitpid, and everything that follows it.
Returns(result) == caller' = [caller EXCEPT !.pc = "returned", !.result = result]

\* system() starts and awaits its own child; returnCode is its status, or -1.
do_system ==
  /\ Is("idle")
  /\ \E returnCode \in {-1, 0, 1} : Returns(returnCode = 0)
  /\ UNCHANGED <<files, child>>

do_exec == Is("idle") /\ caller' = [caller EXCEPT !.pc = "fork"] /\ UNCHANGED <<files, child>>

do_exec_redirect ==
  /\ Is("idle")
  /\ caller' = [caller EXCEPT !.pc = "open"]
  /\ UNCHANGED <<files, child>>

\* open takes the lowest free descriptor; when there is none, or the file cannot
\* be opened, abort ends the caller.
Open ==
  LET free == {d \in Fds : files[d] = "closed"}
  IN  /\ Is("open")
      /\ \/ /\ free # {}
            /\ caller' = [caller EXCEPT !.pc = "fork", !.fd = Min(free)]
            /\ files' = [files EXCEPT ![Min(free)] = "output"]
         \/ /\ free = {} \/ May("open")
            /\ caller' = [caller EXCEPT !.pc = "aborted"]
            /\ UNCHANGED files
      /\ UNCHANGED child

ForkedChild ==
  [NoChild EXCEPT !.pc = IF caller.fd = None THEN "execv" ELSE "dup2",
                  !.files = files, !.fd = caller.fd, !.own = TRUE]

\* Mutant: the parent waits for whatever child ends.
any_child(p) == AnyChild

PidToWaitFor(p) == p

\* "if (pid == -1) perror": and on to waitpid with it.
Fork ==
  /\ Is("fork")
  /\ \/ \E p \in Pids :
          /\ child[p].pc = "none"
          /\ child' = [child EXCEPT ![p] = ForkedChild]
          /\ caller' = [caller EXCEPT !.pc = "wait", !.pid = PidToWaitFor(p)]
     \/ /\ May("fork")
        /\ caller' = [caller EXCEPT !.pc = "wait", !.pid = AnyChild, !.trouble = TRUE]
        /\ UNCHANGED child
  /\ UNCHANGED files

Waited == IF caller.pid = AnyChild THEN {p \in Pids : child[p].pc # "none"} ELSE {caller.pid}

\* Mutant: only the exit code is looked at, which is 0 after a signal.
exit_code_is_zero(status) == status \in {"success", "signal"}

\* WIFEXITED(status) && (WEXITSTATUS(status) == 0)
Succeeded(status) == status = "success"

WaitPid ==
  /\ Is("wait")
  /\ \E p \in Waited :
       /\ child[p].pc = "zombie"
       /\ child' = [child EXCEPT ![p] = NoChild]
       /\ Returns(Succeeded(child[p].status))
  /\ UNCHANGED files

WaitPidFails ==
  /\ Is("wait")
  /\ caller' = [caller EXCEPT !.pc = "returned", !.result = FALSE, !.trouble = TRUE]
  /\ UNCHANGED <<files, child>>

NothingToWaitFor == Waited = {} /\ WaitPidFails

\* EINTR
WaitInterrupted == May("waitpid") /\ WaitPidFails

\* The call is over; its descriptor stays open.
GoOn ==
  /\ Is("returned")
  /\ caller' = [caller EXCEPT !.pc = "idle", !.fd = None, !.pid = None, !.trouble = FALSE]
  /\ child' = [p \in Pids |-> [child[p] EXCEPT !.own = FALSE]]
  /\ UNCHANGED files

-----------------------------------------------------------------------------
(***************************************************************************)
(* A child.                                                                *)
(***************************************************************************)
Child(p, label) == child[p].pc = label /\ UNCHANGED <<caller, files>>

Becomes(p, state) == child' = [child EXCEPT ![p] = state]

Dies(p, status) == Becomes(p, [child[p] EXCEPT !.pc = "zombie", !.status = status])

\* "perror("dup2"); abort();" if it fails.
Dup2(p) ==
  /\ Child(p, "dup2")
  /\ \/ Becomes(p, [child[p] EXCEPT !.pc = "close",
                                    !.files[1] = child[p].files[child[p].fd]])
     \/ May("dup2") /\ Dies(p, "signal")

\* Mutant: the descriptor is left to the command.
leave_open(p) == child[p].files

Closed(p) == [child[p].files EXCEPT ![child[p].fd] = "closed"]

Close(p) ==
  /\ Child(p, "close")
  /\ Becomes(p, [child[p] EXCEPT !.pc = "execv", !.files = Closed(p)])

\* Mutant: the child does not exit, and returns from the call like its parent.
child_goes_on(p) == Becomes(p, [child[p] EXCEPT !.pc = "in caller"])

\* exit(EXIT_FAILURE)
AfterFailedExec(p) == Dies(p, "failure")

Execv(p) ==
  /\ Child(p, "execv")
  /\ \/ Becomes(p, [child[p] EXCEPT !.pc = "running", !.executed = TRUE])
     \/ May("execv") /\ AfterFailedExec(p)

\* The command ends.
CommandEnds(p) ==
  /\ Child(p, "running")
  /\ \E status \in {"success", "failure", "signal"} : Dies(p, status)

-----------------------------------------------------------------------------
CallerStep == Open \/ Fork \/ WaitPid \/ NothingToWaitFor \/ GoOn
ChildStep(p) == Dup2(p) \/ Close(p) \/ Execv(p) \/ CommandEnds(p)

Next == do_system \/ do_exec \/ do_exec_redirect \/ CallerStep \/ WaitInterrupted
          \/ \E p \in Pids : ChildStep(p)

Spec == Init /\ [][Next]_vars

\* Processes are scheduled, and every command comes to an end; no signal has to
\* come.
FairSpec == Spec /\ WF_vars(CallerStep) /\ \A p \in Pids : WF_vars(ChildStep(p))

-----------------------------------------------------------------------------
(***************************************************************************)
(* "true if the command ... executed successfully using the execv() call,  *)
(* false if an error occurred": every call that has got its child returns  *)
(* true just when its own command has succeeded and waitpid has told it    *)
(* so, also when calls before it have left children behind.  The one       *)
(* exception is a call whose fork has failed: it waits for any child, and  *)
(* may return true for one that is not its own, where this comment of the  *)
(* source has false.                                                       *)
(***************************************************************************)
OwnCommandSucceeded ==
  \E p \in Pids : child[p].own /\ child[p].executed /\ child[p].status = "success"

ReportsItsOwnCommand ==
  [][Is("wait") /\ caller'.pc = "returned" /\ ~caller.trouble =>
       caller'.result = (~caller'.trouble /\ OwnCommandSucceeded)]_vars

(***************************************************************************)
(* A call awaits its own child and leaves no zombie behind, unless fork or *)
(* waitpid fails in it.                                                    *)
(***************************************************************************)
NoChildIsLeft ==
  Is("returned") /\ ~caller.trouble => \A p \in Pids : ~child[p].own

(***************************************************************************)
(* The caller's other children are left for it to wait for.  (After a      *)
(* failed fork, waitpid takes any of them.)                                *)
(***************************************************************************)
OtherChildrenStay ==
  [][\A p \in Pids :
       child[p].pc = "zombie" /\ ~child[p].own /\ child'[p] # child[p]
         => caller.trouble]_vars

(***************************************************************************)
(* "redirect standard out to a file": a redirected command has the file as *)
(* its standard output, and has no other descriptor for it but those that  *)
(* the caller has left open in earlier calls.  True as long as the caller  *)
(* itself has a standard output.                                           *)
(***************************************************************************)
CommandWritesToTheFile ==
  \A p \in Pids : child[p].own /\ child[p].executed /\ child[p].fd # None =>
    /\ child[p].files[1] = "output"
    /\ child[p].files[child[p].fd] = "closed"

(***************************************************************************)
(* Every call returns, or ends the caller with abort, whatever fails, as   *)
(* long as the commands end.                                               *)
(***************************************************************************)
EveryCallReturns ==
  Is("fork") \/ Is("open") ~> Is("returned") \/ Is("aborted")
=============================================================================
