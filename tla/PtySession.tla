----------------------------- MODULE PtySession -----------------------------
(***************************************************************************)
(* PTY sessions of the native layer: the registry, the threads of callers  *)
(* (write, resize, close), one reaper thread per command session, and the  *)
(* kernel's reuse of process ids and descriptor numbers.  PRoot sessions   *)
(* have a ChildProcess guard and no reaper.                                *)
(***************************************************************************)
EXTENDS Naturals, FiniteSets

CONSTANTS
  Ids,        \* session identifiers, each used once
  Pids,       \* process ids
  Fds,        \* descriptor numbers
  None,
  Kinds,      \* which of "command" and "proot" are opened
  DupMayFail  \* duplicating the master descriptor may fail

VARIABLES
  kind, pid, master_fd,     \* immutable fields of a session
  child,                    \* "none", "running", "zombie" or "reaped"
  signalled,                \* sessions whose child was sent a signal
  registry,                 \* SessionManager.sessions
  closed, writer,           \* Session.closed; sessions whose writer is Some
  closer,                   \* progress of SessionManager::close per session
  reaper,                   \* progress of the reaper thread per session
  caller,                   \* the call a Java thread is in: [op, id]
  exited,                   \* sessions whose on_exited was called
  otherPids, otherFds       \* numbers the rest of the process uses

fixedVars == <<kind, pid, master_fd>>
kernelVars == <<child, signalled, otherPids, otherFds>>
sessionVars == <<registry, closed, writer>>
threadVars == <<closer, reaper, caller, exited>>
vars == <<fixedVars, kernelVars, sessionVars, threadVars>>

Idle == [op |-> "idle", id |-> None]

UsedPids == otherPids \cup {pid[i] : i \in {j \in Ids : child[j] \in {"running", "zombie"}}}
UsedFds == otherFds \cup {master_fd[i] : i \in writer}

-----------------------------------------------------------------------------
(* Opening.                                                                *)

\* pty::spawn_prepared: the child runs on the slave of a new PTY.
spawn_prepared(i, k) ==
  /\ child[i] = "none"
  /\ \E p \in Pids \ UsedPids, f \in Fds \ UsedFds :
       /\ pid' = [pid EXCEPT ![i] = p]
       /\ master_fd' = [master_fd EXCEPT ![i] = f]
  /\ kind' = [kind EXCEPT ![i] = k]
  /\ child' = [child EXCEPT ![i] = "running"]

\* Insertion into the registry; a command session gets a reaper.
open(i) ==
  /\ spawn_prepared(i, "command")
  /\ registry' = registry \cup {i}
  /\ writer' = writer \cup {i}
  /\ reaper' = [reaper EXCEPT ![i] = "wait"]
  /\ UNCHANGED <<signalled, otherPids, otherFds, closed, closer, caller, exited>>

open_proot(i) ==
  /\ spawn_prepared(i, "proot")
  /\ registry' = registry \cup {i}
  /\ writer' = writer \cup {i}
  /\ UNCHANGED <<signalled, otherPids, otherFds, closed, closer, reaper, caller, exited>>

\* Duplicating the master for the reader fails: the master is dropped, which
\* hangs the terminal up, and nobody keeps the child.
open_fails(i) ==
  /\ DupMayFail
  /\ spawn_prepared(i, "failed")
  /\ signalled' = signalled \cup {i}
  /\ UNCHANGED <<otherPids, otherFds, sessionVars, threadVars>>

-----------------------------------------------------------------------------
(* Calls of the Java side.                                                 *)

\* get_open_session: the registry lookup and the closed check.
get_open_session(op, i) ==
  /\ caller = Idle
  /\ i \in registry \ closed
  /\ caller' = [op |-> op, id |-> i]
  /\ UNCHANGED <<fixedVars, kernelVars, sessionVars, closer, reaper, exited>>

\* The ioctl on the raw descriptor number.
resize(i) ==
  /\ caller = [op |-> "resize", id |-> i]
  /\ caller' = Idle
  /\ UNCHANGED <<fixedVars, kernelVars, sessionVars, closer, reaper, exited>>

\* The writer lock is taken; a closed writer fails the call.
write(i) ==
  /\ caller = [op |-> "write", id |-> i]
  /\ caller' = IF i \in writer THEN [op |-> "write_all", id |-> i] ELSE Idle
  /\ UNCHANGED <<fixedVars, kernelVars, sessionVars, closer, reaper, exited>>

\* write_all holds the lock until the terminal accepts the bytes or hangs up, which
\* may be never.
write_all(i) ==
  /\ caller = [op |-> "write_all", id |-> i]
  /\ caller' = Idle
  /\ UNCHANGED <<fixedVars, kernelVars, sessionVars, closer, reaper, exited>>

WriterLockFree(i) == caller # [op |-> "write_all", id |-> i]

\* writer.lock().take(): drops, and so closes, the master descriptor.
take_writer(i) ==
  /\ WriterLockFree(i)
  /\ writer' = writer \ {i}

\* SessionManager::close, and the same loop in Drop: out of the registry ...
close(i) ==
  /\ i \in registry
  /\ registry' = registry \ {i}
  /\ closer' = [closer EXCEPT ![i] = "removed"]
  /\ UNCHANGED <<fixedVars, kernelVars, closed, writer, reaper, caller, exited>>

\* ... then Session::close: closed.swap, which ends the call if it was set,
close_swap(i) ==
  /\ closer[i] = "removed"
  /\ closer' = [closer EXCEPT ![i] = IF i \in closed THEN "done" ELSE "signal"]
  /\ closed' = closed \cup {i}
  /\ UNCHANGED <<fixedVars, kernelVars, registry, writer, reaper, caller, exited>>

MutCloseSignalsNobody(i) ==
  /\ closer[i] = "signal"
  /\ closer' = [closer EXCEPT ![i] = "take"]
  /\ UNCHANGED <<fixedVars, kernelVars, sessionVars, reaper, caller, exited>>

\* SIGHUP and SIGTERM to the group, or SIGTERM by dropping the PRoot child,
close_signal(i) ==
  /\ closer[i] = "signal"
  /\ closer' = [closer EXCEPT ![i] = "take"]
  /\ signalled' = signalled \cup {j \in Ids : pid[j] = pid[i] /\ child[j] = "running"}
  /\ UNCHANGED <<fixedVars, child, otherPids, otherFds, sessionVars, reaper, caller,
                 exited>>

\* and the writer.
close_take(i) ==
  /\ closer[i] = "take"
  /\ take_writer(i)
  /\ closer' = [closer EXCEPT ![i] = "done"]
  /\ UNCHANGED <<fixedVars, kernelVars, registry, closed, reaper, caller, exited>>

-----------------------------------------------------------------------------
(* The reaper thread.                                                      *)

wait_for_child(i) ==
  /\ reaper[i] = "wait"
  /\ child[i] = "zombie"
  /\ child' = [child EXCEPT ![i] = "reaped"]
  /\ reaper' = [reaper EXCEPT ![i] = "close"]
  /\ UNCHANGED <<fixedVars, signalled, otherPids, otherFds, sessionVars, closer, caller,
                 exited>>

reaper_close(i) ==
  /\ reaper[i] = "close"
  /\ closed' = closed \cup {i}
  /\ reaper' = [reaper EXCEPT ![i] = "take"]
  /\ UNCHANGED <<fixedVars, kernelVars, registry, writer, closer, caller, exited>>

reaper_take(i) ==
  /\ reaper[i] = "take"
  /\ take_writer(i)
  /\ reaper' = [reaper EXCEPT ![i] = "remove"]
  /\ UNCHANGED <<fixedVars, kernelVars, registry, closed, closer, caller, exited>>

MutReaperKeepsEntry(i) ==
  /\ reaper[i] = "remove"
  /\ reaper' = [reaper EXCEPT ![i] = "notify"]
  /\ UNCHANGED <<fixedVars, kernelVars, sessionVars, closer, caller, exited>>

reaper_remove(i) ==
  /\ reaper[i] = "remove"
  /\ registry' = registry \ {i}
  /\ reaper' = [reaper EXCEPT ![i] = "notify"]
  /\ UNCHANGED <<fixedVars, kernelVars, closed, writer, closer, caller, exited>>

on_exited(i) ==
  /\ reaper[i] = "notify"
  /\ exited' = exited \cup {i}
  /\ reaper' = [reaper EXCEPT ![i] = "done"]
  /\ UNCHANGED <<fixedVars, kernelVars, sessionVars, closer, caller>>

-----------------------------------------------------------------------------
(* The kernel and the rest of the process.                                 *)

child_exits(i) ==
  /\ child[i] = "running"
  /\ child' = [child EXCEPT ![i] = "zombie"]
  /\ UNCHANGED <<fixedVars, signalled, otherPids, otherFds, sessionVars, threadVars>>

OtherForkOrExit(p) ==
  /\ \/ p \notin UsedPids /\ otherPids' = otherPids \cup {p}
     \/ p \in otherPids /\ otherPids' = otherPids \ {p}
  /\ UNCHANGED <<fixedVars, child, signalled, otherFds, sessionVars, threadVars>>

OtherOpenOrClose(f) ==
  /\ \/ f \notin UsedFds /\ otherFds' = otherFds \cup {f}
     \/ f \in otherFds /\ otherFds' = otherFds \ {f}
  /\ UNCHANGED <<fixedVars, child, signalled, otherPids, sessionVars, threadVars>>

-----------------------------------------------------------------------------
Init ==
  /\ kind = [i \in Ids |-> "none"]
  /\ pid = [i \in Ids |-> None] /\ master_fd = [i \in Ids |-> None]
  /\ child = [i \in Ids |-> "none"]
  /\ signalled = {} /\ registry = {} /\ closed = {} /\ writer = {}
  /\ closer = [i \in Ids |-> "none"] /\ reaper = [i \in Ids |-> "none"]
  /\ caller = Idle /\ exited = {} /\ otherPids = {} /\ otherFds = {}

Call(i) ==
  \/ "command" \in Kinds /\ open(i)
  \/ "proot" \in Kinds /\ open_proot(i)
  \/ open_fails(i)
  \/ \E op \in {"resize", "write"} : get_open_session(op, i)
  \/ resize(i) \/ write(i) \/ write_all(i)
  \/ close(i) \/ close_swap(i) \/ close_signal(i) \/ close_take(i)

Reaper(i) ==
  wait_for_child(i) \/ reaper_close(i) \/ reaper_take(i) \/ reaper_remove(i) \/ on_exited(i)

Next ==
  \/ \E i \in Ids : Call(i) \/ Reaper(i) \/ child_exits(i)
  \/ \E p \in Pids : OtherForkOrExit(p)
  \/ \E f \in Fds : OtherOpenOrClose(f)

Spec == Init /\ [][Next]_vars

\* Started calls and reaper threads proceed.  Nothing is assumed of the child: it may
\* ignore SIGTERM and read nothing, so that a write_all never ends.
Fairness ==
  \A i \in Ids :
    /\ WF_vars(close_swap(i)) /\ WF_vars(close_signal(i)) /\ SF_vars(close_take(i))
    /\ WF_vars(resize(i)) /\ WF_vars(write(i))
    /\ WF_vars(wait_for_child(i)) /\ WF_vars(reaper_close(i)) /\ SF_vars(reaper_take(i))
    /\ WF_vars(reaper_remove(i)) /\ WF_vars(on_exited(i))

FairSpec == Spec /\ Fairness

-----------------------------------------------------------------------------
(* Properties.                                                             *)

\* The state is well typed, and a reported session is marked closed.
TypeOK ==
  /\ kind \in [Ids -> {"none", "command", "proot", "failed"}]
  /\ child \in [Ids -> {"none", "running", "zombie", "reaped"}]
  /\ pid \in [Ids -> Pids \cup {None}] /\ master_fd \in [Ids -> Fds \cup {None}]
  /\ registry \subseteq Ids /\ closed \subseteq Ids /\ writer \subseteq Ids
  /\ signalled \subseteq Ids /\ exited \subseteq closed
  /\ closer \in [Ids -> {"none", "removed", "signal", "take", "done"}]
  /\ reaper \in [Ids -> {"none", "wait", "close", "take", "remove", "notify", "done"}]
  /\ otherPids \subseteq Pids /\ otherFds \subseteq Fds

\* When on_exited reports a session, close finds it no more, its child is reaped
\* and its descriptor closed, however close and the reaper interleave.
ExitedIsGone ==
  \A i \in exited : i \notin registry \cup writer /\ child[i] = "reaped"

\* The descriptor of a registered session is its live PTY master.
RegisteredMasterIsLive == registry \subseteq writer

\* close signals the session's own process group, never a stranger's that got
\* the same number after the reaper's waitpid.
SignalsOwnGroup ==
  [][\A i \in Ids : 
       close_signal(i) =>
         child[i] \in {"running", "zombie"} \/ pid[i] \notin UsedPids]_vars

\* A write holds the lock although the child, if it still runs, was told to end.
WriteStuck(i) == ~WriterLockFree(i) /\ (child[i] = "running" => i \in signalled)

\* session.rs Session::close: close returns, however write, reaper and close overlap,
\* unless a write blocks for ever on a terminal whose child was sent SIGTERM or is
\* gone: close never waits for the writer lock before it has signalled the group whose
\* end would free it.
CloseReturns ==
  \A i \in Ids : closer[i] = "removed" ~> (closer[i] = "done" \/ []WriteStuck(i))

\* A child that exits is reaped.  This holds for command sessions only: PRoot
\* sessions and sessions whose opening failed have no reaper.
ChildIsReaped == \A i \in Ids : child[i] = "zombie" ~> child[i] = "reaped"
=============================================================================
