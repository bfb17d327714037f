-------------------------- MODULE ThreadingExample --------------------------
(***************************************************************************)
(* start_thread_obtaining_mutex and the threads it starts, on mutexes that *)
(* its caller may itself be holding.  The sleeps may take any time, so     *)
(* they are nothing but the steps around them.  (The records are not freed *)
(* in threading.c: that is left to whoever joins the threads.)             *)
(***************************************************************************)
CONSTANTS
  Threads,   \* the threads that are started
  Mutexes,   \* the mutexes they are given
  Caller,    \* holds a mutex as the threads do
  Free,      \* a mutex that nobody holds
  Faults     \* what may fail: "pthread_create", "lock", "unlock"

ASSUME ThreadingAssumption ==
  /\ Caller \notin Threads /\ Free \notin Threads /\ Caller # Free
  /\ Faults \subseteq {"pthread_create", "lock", "unlock"}

VARIABLES
  thread,   \* where each thread is, and its record, struct thread_data
  holder    \* who holds each mutex

vars == <<thread, holder>>

May(fault) == fault \in Faults

Labels == {"none", "malloced", "obtain", "release", "exit", "ended", "failed"}

TypeOK ==
  /\ thread \in [Threads -> [pc : Labels, mutex : Mutexes \cup {Free},
                             thread_complete_success : BOOLEAN]]
  /\ holder \in [Mutexes -> Threads \cup {Caller, Free}]

Init ==
  /\ thread = [t \in Threads |-> [pc |-> "none", mutex |-> Free,
                                  thread_complete_success |-> FALSE]]
  /\ holder = [m \in Mutexes |-> Free]

At(t, label) == thread[t].pc = label

Goes(t, label) == thread' = [thread EXCEPT ![t].pc = label]

-----------------------------------------------------------------------------
\* start_thread_obtaining_mutex: malloc and the assignments, then pthread_create.
FillRecord(t, m) ==
  /\ At(t, "none") /\ \A u \in Threads : ~At(u, "malloced")
  /\ thread' = [thread EXCEPT ![t].pc = "malloced", ![t].mutex = m]
  /\ UNCHANGED holder

PthreadCreate(t) ==
  /\ At(t, "malloced")
  /\ Goes(t, "obtain") \/ (May("pthread_create") /\ Goes(t, "failed"))
  /\ UNCHANGED holder

-----------------------------------------------------------------------------
\* threadfunc, from one sleep to the next.
Mutex(t) == thread[t].mutex

\* pthread_exit(thread_func_args), with what the record says then.
Ends(t, success) ==
  thread' = [thread EXCEPT ![t].pc = "ended", ![t].thread_complete_success = success]

Lock(t) ==
  /\ At(t, "obtain")
  /\ holder[Mutex(t)] = Free
  /\ holder' = [holder EXCEPT ![Mutex(t)] = t]
  /\ Goes(t, "release")

LockFails(t) ==
  /\ At(t, "obtain") /\ May("lock")
  /\ Ends(t, FALSE)
  /\ UNCHANGED holder

\* Mutant: the mutex is never released.
never_released(t) == holder

Released(t) == [holder EXCEPT ![Mutex(t)] = Free]

\* Mutant: nobody looks at what pthread_mutex_unlock returns.
unlock_unchecked(t) == Goes(t, "exit")

UnlockFails(t) == Ends(t, FALSE)

Unlock(t) ==
  /\ At(t, "release")
  /\ \/ holder' = Released(t) /\ Goes(t, "exit")
     \/ May("unlock") /\ UnlockFails(t) /\ UNCHANGED holder

Exit(t) ==
  /\ At(t, "exit")
  /\ Ends(t, TRUE)
  /\ UNCHANGED holder

-----------------------------------------------------------------------------
CallerLocks(m) ==
  /\ holder[m] = Free
  /\ holder' = [holder EXCEPT ![m] = Caller]
  /\ UNCHANGED thread

CallerUnlocks(m) ==
  /\ holder[m] = Caller
  /\ holder' = [holder EXCEPT ![m] = Free]
  /\ UNCHANGED thread

-----------------------------------------------------------------------------
threadfunc(t) == Lock(t) \/ LockFails(t) \/ Unlock(t) \/ Exit(t)

Next ==
  \/ \E t \in Threads, m \in Mutexes : FillRecord(t, m)
  \/ \E t \in Threads : PthreadCreate(t) \/ threadfunc(t)
  \/ \E m \in Mutexes : CallerLocks(m) \/ CallerUnlocks(m)

Spec == Init /\ [][Next]_vars

(***************************************************************************)
(* Threads are scheduled, sleeps end, and whoever waits for a mutex that   *)
(* is free again and again gets it at last.  The caller lets go of what it *)
(* has locked, and joins nobody while it holds a mutex.                    *)
(***************************************************************************)
FairSpec ==
  /\ Spec
  /\ \A t \in Threads : SF_vars(Lock(t)) /\ WF_vars(Unlock(t)) /\ WF_vars(Exit(t))
  /\ \A m \in Mutexes : WF_vars(CallerUnlocks(m))

-----------------------------------------------------------------------------
(***************************************************************************)
(* "then obtains the mutex ..., then holds for ... milliseconds, then      *)
(* releases": from lock to unlock a thread has the mutex, whoever else is  *)
(* after it.                                                               *)
(***************************************************************************)
HoldsItsMutex == \A t \in Threads : At(t, "release") => holder[Mutex(t)] = t

(***************************************************************************)
(* "Set to true if the thread completed with success": no thread that has  *)
(* ended still holds its mutex, unless its record says that it failed; and *)
(* a record says success only of a thread that has ended.                  *)
(***************************************************************************)
SuccessMeansReleased ==
  \A t \in Threads : thread[t].thread_complete_success =>
    At(t, "ended") /\ holder[Mutex(t)] # t

(***************************************************************************)
(* Every thread that was started comes to its end, whichever of the others *)
(* fail to lock, unless a failing unlock has left its mutex locked.        *)
(***************************************************************************)
LeftLocked(m) ==
  \E t \in Threads :
    holder[m] = t /\ At(t, "ended") /\ ~thread[t].thread_complete_success

EveryThreadEnds ==
  \A t \in Threads, m \in Mutexes :
    At(t, "obtain") /\ Mutex(t) = m ~> At(t, "ended") \/ LeftLocked(m)
=============================================================================
