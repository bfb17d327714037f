---------------------------- MODULE ServerStartup ----------------------------
(***************************************************************************)
(* main of the server up to its first accept: one or more instances of     *)
(* aesdsocket, started by hand or by aesdsocket-start-stop.sh, with or     *)
(* without -d, that share the port and the data file.  A signal ends a     *)
(* server at any point.  (The socket is followed in main's own sockfd; the *)
(* global one of the same name, which the handler looks at, stays -1.)     *)
(***************************************************************************)
EXTENDS Integers, SequencesExt, FiniteSetsExt

CONSTANTS
  Servers,       \* the instances
  OpenAtStart,   \* the descriptors that an instance is started with
  MaxFd,         \* the highest descriptor
  Free, None

Fds == 0 .. MaxFd

ASSUME StartupAssumption ==
  /\ Free \notin Servers /\ None \notin Fds
  /\ MaxFd \in Nat /\ OpenAtStart \subseteq Fds /\ MaxFd >= 2 + Cardinality(OpenAtStart)

VARIABLES
  server,  \* the instances
  port,    \* who has bound port 9000
  data,    \* the data file: empty, or with what clients have sent
  unseen   \* history: the servers started since the script of each has looked

vars == <<server, port, data, unseen>>

Files == {"closed", "inherited", "log", "listener", "null"}

\* reported: what the program that started it has got from it.
TypeOK ==
  /\ server \in [Servers ->
       [pc : {"off", "checked", "clear", "handlers", "getaddrinfo", "bind", "fork", "setsid",
              "detach", "listen", "pthread_create", "accept"},
        by_script : BOOLEAN, daemon : BOOLEAN,
        fds : [Fds -> Files], sockfd : Fds \cup {None},
        reported : {"nothing", "success", "failure", "signal"}]]
  /\ port \in Servers \cup {Free}
  /\ data \in {"empty", "text"}
  /\ unseen \in [Servers -> SUBSET Servers]

Off == [pc |-> "off", by_script |-> FALSE, daemon |-> FALSE,
        fds |-> [d \in Fds |-> "closed"], sockfd |-> None, reported |-> "nothing"]

Init ==
  /\ server = [s \in Servers |-> Off]
  /\ port = Free
  /\ data = "empty"
  /\ unseen = [s \in Servers |-> {}]

At(s, label) == server[s].pc = label

Becomes(s, state) == server' = [server EXCEPT ![s] = state]

\* open and socket take the lowest free descriptor.
Opened(fds, file) == [fds EXCEPT ![Min({d \in Fds : fds[d] = "closed"})] = file]

-----------------------------------------------------------------------------
\* Mutant: start-stop-daemon without -S -n.
start_another == TRUE

\* start-stop-daemon looks for a process with the name of aesdsocket, which its
\* own becomes with exec, and starts nothing when there is one.
NoneRuns == \A s \in Servers : server[s].pc \in {"off", "checked"}

Check(s) ==
  /\ At(s, "off") /\ NoneRuns
  /\ Becomes(s, [Off EXCEPT !.pc = "checked", !.by_script = TRUE, !.daemon = TRUE])
  /\ unseen' = [unseen EXCEPT ![s] = {}]
  /\ UNCHANGED <<port, data>>

\* aesdsocket starts: in the script after its check, and with -d; or by hand.
\* The first syslog connects to the log.
Start(s) ==
  /\ \E by_script, daemon \in BOOLEAN :
       /\ IF by_script THEN At(s, "checked") /\ daemon ELSE At(s, "off")
       /\ Becomes(s, [Off EXCEPT !.pc = "clear", !.by_script = by_script, !.daemon = daemon,
            !.fds = Opened([d \in Fds |-> IF d \in OpenAtStart THEN "inherited"
                                          ELSE "closed"], "log")])
  /\ unseen' = [t \in Servers |-> unseen[t] \cup {s}]
  /\ UNCHANGED <<port, data>>

(***************************************************************************)
(* The steps of main in their order, those in braces only with -d.         *)
(***************************************************************************)
\* Mutant: the daemon is forked before the port is bound.
fork_early(s) == <<"clear", "handlers", "fork", "getaddrinfo", "bind", "setsid",
                   "detach", "listen", "pthread_create", "accept">>

Order(s) == <<"clear", "handlers", "getaddrinfo", "bind", "fork", "setsid",
              "detach", "listen", "pthread_create", "accept">>

OnlyDaemon == {"fork", "setsid", "detach"}

NextLabel(s) ==
  LET steps == Order(s)
      here  == CHOOSE i \in DOMAIN steps : steps[i] = server[s].pc
      later == {i \in DOMAIN steps : /\ here < i
                                     /\ server[s].daemon \/ steps[i] \notin OnlyDaemon}
  IN  steps[Min(later)]

\* The process ends, and the kernel closes what it had open.
Ends(s, status) ==
  /\ Becomes(s, [Off EXCEPT !.reported =
                   IF server[s].reported = "nothing" THEN status
                   ELSE server[s].reported])
  /\ port' = IF port = s THEN Free ELSE port

\* The file is cleared, or cannot be opened.
Clear(s) ==
  /\ At(s, "clear")
  /\ data' \in {"empty", data}
  /\ Becomes(s, [server[s] EXCEPT !.pc = NextLabel(s)])
  /\ UNCHANGED <<port, unseen>>

\* sigaction, getaddrinfo, setsid, chdir, listen, pthread_create: they succeed,
\* or the process exits with an error.  listen needs the socket.
StepOrExit(s) ==
  /\ server[s].pc \in {"handlers", "getaddrinfo", "setsid", "listen", "pthread_create"}
  /\ \/ /\ At(s, "listen") => server[s].fds[server[s].sockfd] = "listener"
        /\ Becomes(s, [server[s] EXCEPT !.pc = NextLabel(s)])
        /\ UNCHANGED port
     \/ Ends(s, "failure")
  /\ UNCHANGED <<data, unseen>>

\* socket and bind.
Bind(s) ==
  LET with == Opened(server[s].fds, "listener")
      fd   == CHOOSE d \in Fds : with[d] = "listener"
  IN  /\ At(s, "bind")
      /\ \/ /\ port = Free
            /\ port' = s
            /\ Becomes(s, [server[s] EXCEPT !.fds = with, !.sockfd = fd,
                                            !.pc = NextLabel(s)])
         \/ Ends(s, "failure")
      /\ UNCHANGED <<data, unseen>>

\* The parent exits with success, and the child goes on in its place.
Fork(s) ==
  /\ At(s, "fork")
  /\ \/ /\ Becomes(s, [server[s] EXCEPT !.reported = "success", !.pc = NextLabel(s)])
        /\ UNCHANGED port
     \/ Ends(s, "failure")
  /\ UNCHANGED <<data, unseen>>

\* Mutant: all descriptors are closed, as daemons are often told to do.
all_descriptors == Fds

DescriptorsToClose == 0 .. 2

\* close and open /dev/null three times.
Detach(s) ==
  LET closed == [d \in Fds |-> IF d \in DescriptorsToClose THEN "closed"
                               ELSE server[s].fds[d]]
  IN  /\ At(s, "detach")
      /\ Becomes(s, [server[s] EXCEPT
           !.fds = Opened(Opened(Opened(closed, "null"), "null"), "null"),
           !.pc = NextLabel(s)])
      /\ UNCHANGED <<port, data, unseen>>

\* A client sends something.
Serve(s) == At(s, "accept") /\ data' = "text" /\ UNCHANGED <<server, port, unseen>>

\* SIGINT or SIGTERM: the default action, or exit(0) once the handler for it is
\* installed; between the two calls of sigaction that is so for one of them.
StatusAfterSignal(s) ==
  (IF server[s].pc \in {"checked", "clear", "handlers"} THEN {"signal"} ELSE {})
    \cup (IF server[s].pc \in {"checked", "clear"} THEN {} ELSE {"success"})

handle_signal(s) ==
  /\ ~At(s, "off")
  /\ \E status \in StatusAfterSignal(s) : Ends(s, status)
  /\ UNCHANGED <<data, unseen>>

Next ==
  \E s \in Servers :
    \/ Check(s) \/ Start(s) \/ Clear(s) \/ StepOrExit(s) \/ Bind(s) \/ Fork(s) \/ Detach(s)
    \/ Serve(s) \/ handle_signal(s)

Spec == Init /\ [][Next]_vars

-----------------------------------------------------------------------------
(***************************************************************************)
(* "fork after binding": who starts the server is told of success only by  *)
(* one that has the port, however many servers are started at once, unless *)
(* a signal ends it: from setup_signal_handlers on, the handler's exit(0)  *)
(* is a success to whoever waits for it, whether anything is bound or not. *)
(***************************************************************************)
SuccessMeansBound ==
  [][\A s \in Servers :
       server'[s].reported = "success" /\ server[s].reported # "success"
         => port' = s \/ handle_signal(s)]_vars

(***************************************************************************)
(* From bind on a server keeps the socket it has bound, and as a daemon    *)
(* that accepts it has nothing of its starter's input and output.  True if *)
(* it is started with exactly descriptors 0, 1 and 2 open.                 *)
(***************************************************************************)
KeepsItsSocketOnly ==
  \A s \in Servers :
    /\ server[s].sockfd # None =>
         port = s /\ server[s].fds[server[s].sockfd] = "listener"
    /\ At(s, "accept") /\ server[s].daemon =>
         \A d \in Fds : server[s].fds[d] # "inherited"

(***************************************************************************)
(* The file is cleared before bind tells whether another server is using   *)
(* it.  What spares the data of a server, however it was started and       *)
(* whoever else starts, ends or has looked at the same time, is that the   *)
(* script looks first: it clears nobody's data but that of a server that   *)
(* has come between its look and its own start.                            *)
(***************************************************************************)
DataOutlivesOtherStarts ==
  [][\A s, t \in Servers :
       Clear(t) /\ server[t].by_script /\ At(s, "accept") /\ s \notin unseen[t]
         => data' = data]_vars
=============================================================================
