---------------------------- MODULE PipewireHost ----------------------------
(***************************************************************************)
(* The PipeWire host of the native library: start and stop under the slot  *)
(* mutex, four child processes started one after another with a check each *)
(* and the sockets two of them create.  Children exit at any time.         *)
(***************************************************************************)
EXTENDS Integers, Sequences, FiniteSets, Functions

CONSTANTS
  Directories,   \* runtime directories start is called with
  MaxSpawned,    \* bound on processes ever spawned
  None

\* Process ids are interchangeable, so they are handed out in order.
Pids == 1..MaxSpawned

\* pipewire, wireplumber, aaudio-sink, pipewire-pulse
Components == 1..4
SocketOwners == {1, 4}

VARIABLES
  slot,      \* None, or the Host: its directory and its children in order
  job,       \* None, or the start that holds the mutex, at a stage
  proc,      \* per pid: "unused", "running", "zombie", "reaped"
  sockets,   \* per directory and socket owner: the pid that made the file, or None
  answer     \* what the last call returned

vars == <<slot, job, proc, sockets, answer>>

NoSockets == [c \in SocketOwners |-> None]
Kids(h) == IF h = None THEN {} ELSE Range(h.children)
Fresh(p) == proc[p] = "unused" /\ \A q \in 1..(p - 1) : proc[q] # "unused"

-----------------------------------------------------------------------------
(* Effects of the helpers.                                                 *)

MutKillWithoutWait(kids) ==
  proc' = [p \in Pids |-> IF p \in kids /\ proc[p] = "running" THEN "zombie" ELSE proc[p]]

\* kill and wait every child
stop_children(kids) ==
  proc' = [p \in Pids |-> IF p \in kids THEN "reaped" ELSE proc[p]]

cleanup_sockets(d) == sockets' = [sockets EXCEPT ![d] = NoSockets]

stop_host ==
  /\ slot' = None
  /\ stop_children(Kids(slot))
  /\ IF slot = None THEN UNCHANGED sockets ELSE cleanup_sockets(slot.directory)

\* try_wait of the children in order, until one has exited
is_running == \A p \in Kids(slot) : proc[p] = "running"

sockets_ready(d) == \A c \in SocketOwners : sockets[d][c] # None

-----------------------------------------------------------------------------
(* start.                                                                  *)

Reusable(d) ==
  /\ slot # None
  /\ slot.directory = d /\ is_running /\ sockets_ready(d)

start_again(d) ==
  /\ job = None /\ Reusable(d)
  /\ answer' = [ok |-> TRUE, directory |-> d]
  /\ UNCHANGED <<slot, job, proc, sockets>>

start(d) ==
  /\ job = None /\ ~Reusable(d)
  /\ stop_host
  /\ job' = [directory |-> d, stage |-> "prepare", children |-> <<>>]
  /\ UNCHANGED answer

\* A missing payload, directory or configuration file: an early return.
start_refused ==
  /\ job # None /\ job.stage = "prepare"
  /\ job' = None
  /\ answer' = [ok |-> FALSE, directory |-> job.directory]
  /\ UNCHANGED <<slot, proc, sockets>>

start_prepare ==
  /\ job # None /\ job.stage = "prepare"
  /\ cleanup_sockets(job.directory)
  /\ job' = [job EXCEPT !.stage = "spawn"]
  /\ UNCHANGED <<slot, proc, answer>>

spawn_component ==
  /\ job # None /\ job.stage = "spawn"
  /\ \E p \in Pids :
       /\ Fresh(p)
       /\ proc' = [proc EXCEPT ![p] = "running"]
       /\ job' = [job EXCEPT !.stage = "check", !.children = Append(@, p)]
  /\ UNCHANGED <<slot, sockets, answer>>

\* wait_for_socket connects to the path; ensure_child_running looks once.
ChildIsUp ==
  LET c == Len(job.children) IN
    IF c \in SocketOwners
    THEN LET owner == sockets[job.directory][c] IN owner # None /\ proc[owner] = "running"
    ELSE proc[job.children[c]] = "running"

child_checked ==
  /\ job # None /\ job.stage = "check" /\ ChildIsUp
  /\ job' = [job EXCEPT !.stage = IF Len(job.children) = 4 THEN "ready" ELSE "spawn"]
  /\ UNCHANGED <<slot, proc, sockets, answer>>

\* spawn fails, the child exits early, or the deadline passes.
start_fails ==
  /\ job # None /\ job.stage \in {"spawn", "check"}
  /\ job.stage = "check" /\ Len(job.children) \notin SocketOwners => ~ChildIsUp
  /\ stop_children(Kids(job))
  /\ cleanup_sockets(job.directory)
  /\ job' = None
  /\ answer' = [ok |-> FALSE, directory |-> job.directory]
  /\ UNCHANGED slot

start_succeeds ==
  /\ job # None /\ job.stage = "ready"
  /\ slot' = [directory |-> job.directory, children |-> job.children]
  /\ job' = None
  /\ answer' = [ok |-> TRUE, directory |-> job.directory]
  /\ UNCHANGED <<proc, sockets>>

stop ==
  /\ job = None
  /\ stop_host
  /\ answer' = None
  /\ UNCHANGED job

-----------------------------------------------------------------------------
(* The children.                                                           *)

ComponentOf(h, p) == CHOOSE c \in Components : c <= Len(h.children) /\ h.children[c] = p

MakesSocket(p) ==
  /\ proc[p] = "running"
  /\ \E h \in {slot, job} \ {None} :
       /\ p \in Kids(h) /\ ComponentOf(h, p) \in SocketOwners
       /\ sockets' = [sockets EXCEPT ![h.directory][ComponentOf(h, p)] = p]
  /\ UNCHANGED <<slot, job, proc, answer>>

Exits(p) ==
  /\ proc[p] = "running"
  /\ proc' = [proc EXCEPT ![p] = "zombie"]
  /\ UNCHANGED <<slot, job, sockets, answer>>

Init ==
  /\ slot = None /\ job = None /\ answer = None
  /\ proc = [p \in Pids |-> "unused"]
  /\ sockets = [d \in Directories |-> NoSockets]

Start ==
  \/ start_refused \/ start_prepare \/ spawn_component \/ child_checked \/ start_fails
  \/ start_succeeds

Next ==
  \/ \E d \in Directories : start_again(d) \/ start(d)
  \/ Start \/ stop
  \/ \E p \in Pids : MakesSocket(p) \/ Exits(p)

Spec == Init /\ [][Next]_vars

-----------------------------------------------------------------------------
(* Properties.                                                             *)

Host == [directory : Directories, children : Seq(Pids)]

\* The state is well typed.
TypeOK ==
  /\ slot = None \/ slot \in Host
  /\ job = None \/ job \in [directory : Directories, children : Seq(Pids),
                            stage : {"prepare", "spawn", "check", "ready"}]
  /\ proc \in [Pids -> {"unused", "running", "zombie", "reaped"}]
  /\ sockets \in [Directories -> [SocketOwners -> Pids \cup {None}]]

\* Every child that runs or waits to be reaped is held by the slot or by the start
\* in progress, so stop reaches it: no failure path forgets one.
NoOrphan ==
  \A p \in Pids : proc[p] \in {"running", "zombie"} => p \in Kids(slot) \cup Kids(job)

\* A socket file was made by a child that the slot or the start in progress holds:
\* no guest connects to the socket of a host that was stopped or failed to start.
SocketsAreServed ==
  \A d \in Directories : \A c \in SocketOwners :
     sockets[d][c] # None =>
       \E h \in {slot, job} \ {None} : h.directory = d /\ sockets[d][c] \in Kids(h)

\* pipewire.rs: no path out of start or stop leaves a process or a socket behind
\* that a later stop does not reach.
NothingLeftBehind == NoOrphan /\ SocketsAreServed

=============================================================================
