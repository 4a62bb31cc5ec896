---------------------------- MODULE DroidSpaces -----------------------------
(***************************************************************************)
(* Sessions in a DroidSpaces container.  The shell command of a session    *)
(* finds the container stopped, and starts it with the attachments the     *)
(* session needs and a watcher of the app; or finds it running, and checks *)
(* that they are attached; then it runs the session inside.  The commands  *)
(* of several sessions, the watchers, the app, which may die and come      *)
(* back, and the user work on the one container (droidspaces.rs;           *)
(* watch_owner of the session supervisor).                                 *)
(***************************************************************************)
EXTENDS Integers

CONSTANTS
  Sessions, Attachments,
  MaxApps,     \* bound on app processes one after another
  MaxLives,    \* bound on container starts
  None

VARIABLES
  app,         \* number of the app process; the previous ones are dead
  pc, owner,   \* the command of each session, and the app process that opened it
  need,        \* attachments the session requires
  watcher,     \* the watcher the command left behind: "none", "watching", "gone" after
               \* its stop, "failed" if the stop failed
  container,   \* state, starter, binds, and how often it was started
  checked,     \* container life in which the command made sure of the attachments
  covered      \* history: sessions whose app was alive when their container was up

vars == <<app, pc, owner, need, watcher, container, checked, covered>>

Running == container.state = "running"
Goto(s, where) == pc' = [pc EXCEPT ![s] = where]
OwnerAlive(s) == owner[s] = app

Stopped == [container EXCEPT !.state = "stopped", !.by = None, !.binds = {}]

\* droidspaces stop.  Sessions inside end with the container; one that is only
\* starting may be missed.
DroidspacesStop ==
  \/ /\ container.state # "stopped"
     /\ container' = Stopped
     /\ pc' = [s \in Sessions |-> IF pc[s] = "inside" THEN "ended" ELSE pc[s]]
  \/ ~Running /\ UNCHANGED <<container, pc>>

-----------------------------------------------------------------------------
(* session_command.                                                        *)

\* The attachments follow from the profile; one whose directory is missing is an error.
open_session(s) ==
  /\ pc[s] = "idle"
  /\ \E a \in SUBSET Attachments : need' = [need EXCEPT ![s] = a]
  /\ owner' = [owner EXCEPT ![s] = app]
  /\ Goto(s, "wait") \/ Goto(s, "ended")
  /\ UNCHANGED <<app, watcher, container, checked, covered>>

\* An X11 session first waits for the host's socket and may give up (exit 124).
wait_for_socket(s) ==
  /\ pc[s] = "wait"
  /\ Goto(s, "query") \/ (need[s] # {} /\ Goto(s, "ended"))
  /\ UNCHANGED <<app, owner, need, watcher, container, checked, covered>>

\* container_pid=$(droidspaces pid): a container that is starting has none yet.
query(s) ==
  /\ pc[s] = "query"
  /\ Goto(s, IF ~Running THEN "supervise" ELSE IF need[s] = {} THEN "setup" ELSE "check")
  /\ checked' = IF Running /\ need[s] = {} THEN [checked EXCEPT ![s] = container.life] ELSE checked
  /\ UNCHANGED <<app, owner, need, watcher, container, covered>>

\* Copying the watcher may fail and ends the command.  Without a configured watcher
\* nothing is started, and a watcher that fails to start in the background goes
\* unnoticed.
start_supervisor_command(s) ==
  /\ pc[s] = "supervise"
  /\ \/ Goto(s, "start") /\ watcher' = [watcher EXCEPT ![s] = "watching"]
     \/ Goto(s, "start") /\ UNCHANGED watcher
     \/ Goto(s, "ended") /\ UNCHANGED watcher
  /\ UNCHANGED <<app, owner, need, container, checked, covered>>

MutStartFailureIgnored(s) ==
  /\ pc[s] = "start"
  /\ \/ /\ container.state = "stopped" /\ container.life < MaxLives
        /\ container' = [state |-> "starting", by |-> s, binds |-> need[s],
                         life |-> container.life + 1]
        /\ Goto(s, "starting") /\ UNCHANGED checked
     \/ Goto(s, "setup") /\ checked' = [checked EXCEPT ![s] = container.life] /\ UNCHANGED container
  /\ UNCHANGED <<app, owner, need, watcher, covered>>

\* droidspaces start: refused unless the container is stopped, and it may fail.
start_command(s) ==
  /\ pc[s] = "start"
  /\ \/ /\ container.state = "stopped" /\ container.life < MaxLives
        /\ container' = [state |-> "starting", by |-> s, binds |-> need[s],
                         life |-> container.life + 1]
        /\ Goto(s, "starting")
     \/ Goto(s, "ended") /\ UNCHANGED container
  /\ UNCHANGED <<app, owner, need, watcher, checked, covered>>

\* The binds took effect; if the container was stopped meanwhile, start fails.
StartReturns(s) ==
  /\ pc[s] = "starting"
  /\ IF container.by = s
     THEN /\ container' = [container EXCEPT !.state = "running"]
          /\ Goto(s, "setup") /\ checked' = [checked EXCEPT ![s] = container.life]
          /\ covered' = IF OwnerAlive(s) THEN covered \cup {s} ELSE covered
     ELSE Goto(s, "ended") /\ UNCHANGED <<container, checked, covered>>
  /\ UNCHANGED <<app, owner, need, watcher>>

\* test -S for every socket inside the container, else exit 125.
existing_container_attachment_check(s) ==
  /\ pc[s] = "check"
  /\ IF Running /\ need[s] \subseteq container.binds
     THEN Goto(s, "setup") /\ checked' = [checked EXCEPT ![s] = container.life]
     ELSE Goto(s, "ended") /\ UNCHANGED checked
  /\ UNCHANGED <<app, owner, need, watcher, container, covered>>

\* runtime_setup_command needs the container too (exit 126).
runtime_setup_command(s) ==
  /\ pc[s] = "setup"
  /\ \/ Running /\ Goto(s, "run")
     \/ Goto(s, "ended")
  /\ UNCHANGED <<app, owner, need, watcher, container, checked, covered>>

\* terminal_command, x11_command or wayland_command: enter the namespace.
run_command(s) ==
  /\ pc[s] = "run"
  /\ Goto(s, IF Running THEN "inside" ELSE "ended")
  /\ UNCHANGED <<app, owner, need, watcher, container, checked, covered>>

SessionEnds(s) ==
  /\ pc[s] = "inside"
  /\ Goto(s, "ended")
  /\ UNCHANGED <<app, owner, need, watcher, container, checked, covered>>

-----------------------------------------------------------------------------
(* The watcher, the app and the user.                                      *)

\* The owner is gone: one droidspaces stop, not repeated if fork or the command fails.
watch_owner(s) ==
  /\ watcher[s] = "watching" /\ ~OwnerAlive(s)
  /\ \/ watcher' = [watcher EXCEPT ![s] = "gone"] /\ DroidspacesStop
     \/ watcher' = [watcher EXCEPT ![s] = "failed"] /\ UNCHANGED <<container, pc>>
  /\ UNCHANGED <<app, owner, need, checked, covered>>

\* The app process disappears; Android may start it again.
AppDies ==
  /\ app < MaxApps
  /\ app' = app + 1
  /\ UNCHANGED <<pc, owner, need, watcher, container, checked, covered>>

MutWatcherGoesWithShell(s) ==
  /\ ~OwnerAlive(s) /\ pc[s] \notin {"idle", "starting", "ended"}
  /\ Goto(s, "ended") /\ watcher' = [watcher EXCEPT ![s] = "gone"]
  /\ UNCHANGED <<app, owner, need, container, checked, covered>>

\* The shell of a session may go with the app; the watcher has a session of its own
\* (setsid).
ShellDies(s) ==
  /\ ~OwnerAlive(s) /\ pc[s] \notin {"idle", "starting", "ended"}
  /\ Goto(s, "ended")
  /\ UNCHANGED <<app, owner, need, watcher, container, checked, covered>>

\* From the app, or with DroidSpaces' own tools.
stop_container ==
  /\ DroidspacesStop
  /\ UNCHANGED <<app, owner, need, watcher, checked, covered>>

UserStartsContainer ==
  /\ container.state = "stopped" /\ container.life < MaxLives
  /\ container' = [state |-> "running", by |-> None, binds |-> {}, life |-> container.life + 1]
  /\ UNCHANGED <<app, pc, owner, need, watcher, checked, covered>>

-----------------------------------------------------------------------------

Init ==
  /\ app = 1
  /\ pc = [s \in Sessions |-> "idle"] /\ owner = [s \in Sessions |-> 0]
  /\ need = [s \in Sessions |-> {}] /\ watcher = [s \in Sessions |-> "none"]
  /\ container = [state |-> "stopped", by |-> None, binds |-> {}, life |-> 0]
  /\ checked = [s \in Sessions |-> 0] /\ covered = {}

Command(s) ==
  \/ wait_for_socket(s) \/ query(s) \/ start_supervisor_command(s) \/ start_command(s) \/ StartReturns(s)
  \/ existing_container_attachment_check(s) \/ runtime_setup_command(s) \/ run_command(s)

Next ==
  \/ \E s \in Sessions :
       open_session(s) \/ Command(s) \/ SessionEnds(s) \/ watch_owner(s) \/ ShellDies(s)
  \/ AppDies \/ stop_container \/ UserStartsContainer

Spec == Init /\ [][Next]_vars

\* Commands go on, and a watcher polls for as long as it lives.
Fairness == \A s \in Sessions : WF_vars(Command(s)) /\ WF_vars(watch_owner(s))

FairSpec == Spec /\ Fairness

-----------------------------------------------------------------------------

\* The shapes of sessions and container.
TypeOK ==
  /\ app \in 1..MaxApps /\ owner \in [Sessions -> 0..MaxApps]
  /\ pc \in [Sessions -> {"idle", "wait", "query", "supervise", "start", "starting", "check", "setup",
                          "run", "inside", "ended"}]
  /\ need \in [Sessions -> SUBSET Attachments]
  /\ watcher \in [Sessions -> {"none", "watching", "gone", "failed"}]
  /\ container \in [state : {"stopped", "starting", "running"}, by : Sessions \cup {None},
                    binds : SUBSET Attachments, life : 0..MaxLives]
  /\ checked \in [Sessions -> 0..MaxLives] /\ covered \subseteq Sessions

\* droidspaces.rs session_command: "start a stopped container with its requested
\* attachments, then open the requested terminal or graphical session".  A session
\* inside the container it started or checked has everything it requires there,
\* whichever of several commands started it.
AttachmentsPresent ==
  \A s \in Sessions : pc[s] = "inside" /\ checked[s] = container.life => need[s] \subseteq container.binds

OrphanedBy(s) == Running /\ container.by = s /\ ~OwnerAlive(s)

\* droidspaces.rs start_supervisor_command: a container whose start had returned before
\* the app died is stopped, if its session left a watcher and the watcher's one stop
\* works.
StartedContainerStops ==
  \A s \in Sessions :
    OrphanedBy(s) /\ watcher[s] # "none" /\ s \in covered ~> ~OrphanedBy(s) \/ watcher[s] = "failed"

\* droidspaces.rs session_supervisor: "Android-native supervisor used to stop a
\* Trierarch-started container when the app process disappears", whenever it runs
\* and its stop works.
OrphanedContainerStops ==
  \A s \in Sessions :
    OrphanedBy(s) /\ watcher[s] # "none" ~> ~OrphanedBy(s) \/ watcher[s] = "failed"
=============================================================================
