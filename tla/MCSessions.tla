----------------------------- MODULE MCSessions -----------------------------
(***************************************************************************)
(* Guest sessions: the chroot script with its watcher, the supervisor's    *)
(* observation mode and the PTY sessions of the native layer.  The models  *)
(* share no state, so a run lets one of them move, chosen in the initial   *)
(* state, and leaves the others where they start.                          *)
(***************************************************************************)
EXTENDS ChrootSession

CONSTANTS
  Sockets, MAX_KNOWN_SOCKETS, Observe, Grace, MaxKwin,  \* of the supervisor
  Ids, Pids, Fds, None                                  \* of the PTY sessions

VARIABLES
  part,       \* the component that moves
  pc, elapsed, known_sockets, socket_seen_at, plasma_adapter_finished, found,
  running, managed_child, shell, termed,
  sockets, plasma_session, kwin, plasmashell, started, observed, seen_kwin, missed,
  kind, pid, master_fd, child, signalled, registry, closed, writer,
  closer, reaper, caller, exited, otherPids, otherFds

Supervisor == INSTANCE SessionSupervisor WITH known <- known_sockets, child <- shell
Pty == INSTANCE PtySession WITH Kinds <- {"command", "proot"}, DupMayFail <- TRUE

ASSUME SessionsAssumption ==
  /\ IsFiniteSet(Sockets) /\ {MAX_KNOWN_SOCKETS, Observe, Grace, MaxKwin} \subseteq Nat
  /\ None \notin Ids \cup Pids \cup Fds

supervisorVars ==
  <<pc, elapsed, known_sockets, socket_seen_at, plasma_adapter_finished, found, running,
    managed_child, shell, termed, sockets, plasma_session, kwin, plasmashell, started,
    observed, seen_kwin, missed>>
ptyVars ==
  <<kind, pid, master_fd, child, signalled, registry, closed, writer, closer, reaper,
    caller, exited, otherPids, otherFds>>
sessionVars == <<part, vars, supervisorVars, ptyVars>>

SessionsInit ==
  /\ part \in {"chroot", "supervisor", "pty"}
  /\ Init /\ Supervisor!Init /\ Pty!Init
  /\ part # "chroot" => \A p \in Points : mounts[p] = <<>>

SessionsNext ==
  /\ UNCHANGED part
  /\ \/ part = "chroot" /\ Next /\ UNCHANGED <<supervisorVars, ptyVars>>
     \/ part = "supervisor" /\ Supervisor!Next /\ UNCHANGED <<vars, ptyVars>>
     \/ part = "pty" /\ Pty!Next /\ UNCHANGED <<vars, supervisorVars>>

\* The fairness of the components.  What is fair in the chroot and in the PTY
\* sessions is disabled as long as no session has begun.
SessionsSpec ==
  /\ SessionsInit /\ [][SessionsNext]_sessionVars
  /\ Fairness /\ Pty!Fairness
  /\ WF_supervisorVars(part = "supervisor" /\ Supervisor!Main)
  /\ WF_supervisorVars(part = "supervisor" /\ termed /\ Supervisor!ShellExits)

-----------------------------------------------------------------------------


\* session.rs: when on_exited reports a session, close finds it no more, its
\* child is reaped and its descriptor closed, however close and reaper interleave.
ExitedIsGone == Pty!ExitedIsGone

\* session.rs: a call of close returns, unless a write blocks for ever on a child that
\* was sent SIGTERM.
CloseReturns == Pty!CloseReturns

=============================================================================
