----------------------------- MODULE VirglHost ------------------------------
(***************************************************************************)
(* The VirGL vtest host of the native library: one server process in a     *)
(* slot, replaced when it has exited or its socket is not where the caller *)
(* looks.  Dropping a Child neither kills nor waits for the process.       *)
(***************************************************************************)
EXTENDS Integers, FiniteSets

CONSTANTS
  Directories,   \* runtime directories start is called with
  MaxSpawned,    \* bound on servers ever spawned
  None

\* Process ids are interchangeable, so they are handed out in order.
Pids == 1..MaxSpawned

VARIABLES
  slot,      \* the server, or None
  job,       \* None, or the start that holds the mutex
  proc,      \* per pid: "unused", "running", "serving" once it made its socket,
             \* "zombie", "reaped"
  home,      \* per pid: the directory of its socket
  socket,    \* per directory: the pid that made vtest.sock, or None
  answer     \* what the last call returned

vars == <<slot, job, proc, home, socket, answer>>

Alive(p) == proc[p] \in {"running", "serving"}
Fresh(p) == proc[p] = "unused" /\ \A q \in 1..(p - 1) : proc[q] # "unused"

-----------------------------------------------------------------------------
Reusable(d) == slot # None /\ socket[d] # None /\ \A p \in {slot} \cap Pids : Alive(p)

start_again(d) ==
  /\ job = None /\ Reusable(d)
  /\ answer' = d
  /\ UNCHANGED <<slot, job, proc, home, socket>>

\* try_wait reaps a server that has exited; *slot = None drops any other.
start(d) ==
  /\ job = None /\ ~Reusable(d)
  /\ slot' = None
  /\ proc' = [p \in Pids |-> IF p = slot /\ proc[p] = "zombie" THEN "reaped" ELSE proc[p]]
  /\ job' = [directory |-> d, child |-> None]
  /\ UNCHANGED <<home, socket, answer>>

Job == job # None /\ job.child # None
Fail == job' = None /\ answer' = None

\* A file is missing, or something fails before or after the old socket was removed.
start_refused ==
  /\ job # None /\ ~Job
  /\ Fail
  /\ socket' \in {socket, [socket EXCEPT ![job.directory] = None]}
  /\ UNCHANGED <<slot, proc, home>>

MutKeepOldSocket ==
  /\ job # None /\ ~Job
  /\ \E p \in Pids :
       /\ Fresh(p)
       /\ proc' = [proc EXCEPT ![p] = "running"]
       /\ home' = [home EXCEPT ![p] = job.directory]
       /\ job' = [job EXCEPT !.child = p]
  /\ UNCHANGED <<slot, socket, answer>>

\* The old socket is removed, then the server is spawned.
start_spawn ==
  /\ job # None /\ ~Job
  /\ socket' = [socket EXCEPT ![job.directory] = None]
  /\ \E p \in Pids :
       /\ Fresh(p)
       /\ proc' = [proc EXCEPT ![p] = "running"]
       /\ home' = [home EXCEPT ![p] = job.directory]
       /\ job' = [job EXCEPT !.child = p]
  /\ UNCHANGED <<slot, answer>>

start_ready ==
  /\ Job /\ socket[job.directory] # None
  /\ slot' = job.child
  /\ answer' = job.directory
  /\ job' = None
  /\ UNCHANGED <<proc, home, socket>>

start_exited ==
  /\ Job /\ socket[job.directory] = None /\ proc[job.child] = "zombie"
  /\ proc' = [proc EXCEPT ![job.child] = "reaped"]
  /\ Fail
  /\ UNCHANGED <<slot, home, socket>>

start_timeout ==
  /\ Job
  /\ proc' = [proc EXCEPT ![job.child] = "reaped"]
  /\ Fail
  /\ UNCHANGED <<slot, home, socket>>

stop ==
  /\ job = None /\ slot # None
  /\ proc' = [proc EXCEPT ![slot] = "reaped"]
  /\ slot' = None
  /\ answer' = None
  /\ UNCHANGED <<job, home, socket>>

\* A server binds its socket, once.
MakesSocket(p) ==
  /\ proc[p] = "running" /\ socket[home[p]] = None
  /\ socket' = [socket EXCEPT ![home[p]] = p]
  /\ proc' = [proc EXCEPT ![p] = "serving"]
  /\ UNCHANGED <<slot, job, home, answer>>

Exits(p) ==
  /\ Alive(p)
  /\ proc' = [proc EXCEPT ![p] = "zombie"]
  /\ UNCHANGED <<slot, job, home, socket, answer>>

Init ==
  /\ slot = None /\ job = None /\ answer = None
  /\ proc = [p \in Pids |-> "unused"] /\ home = [p \in Pids |-> None]
  /\ socket \in [Directories -> {None}]

Next ==
  \/ \E d \in Directories : start_again(d) \/ start(d)
  \/ start_refused \/ start_spawn \/ start_ready \/ start_exited \/ start_timeout \/ stop
  \/ \E p \in Pids : MakesSocket(p) \/ Exits(p)

Spec == Init /\ [][Next]_vars

-----------------------------------------------------------------------------
(* Properties.                                                             *)

\* The state is well typed.
TypeOK ==
  /\ slot \in Pids \cup {None} /\ answer \in Directories \cup {None}
  /\ job = None \/ job \in [directory : Directories, child : Pids \cup {None}]
  /\ proc \in [Pids -> {"unused", "running", "serving", "zombie", "reaped"}]
  /\ home \in [Pids -> Directories \cup {None}]
  /\ socket \in [Directories -> Pids \cup {None}]

\* start reports success only with a server that was spawned for that directory and
\* made the socket there, never on the strength of a socket left by an older one.
ReportsThisServer == job # None /\ answer' # None /\ job' = None => socket[answer'] = slot'

\* There is never more than one server.
OneServer == Cardinality({p \in Pids : Alive(p)}) <= 1
=============================================================================
