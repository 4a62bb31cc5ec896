--------------------------- MODULE ChrootSession ----------------------------
(***************************************************************************)
(* The shell script that guest_command builds for a chroot session, run by *)
(* several sessions of one rootfs, and the watcher (watch_owner) it starts *)
(* beside the guest.  A mount point is a stack of mounts, named by who     *)
(* made them; umount -l takes the top one.  Points are independent.        *)
(***************************************************************************)
EXTENDS Integers, Sequences, FiniteSets

CONSTANTS
  Sessions,
  Other,        \* whoever else mounts in the rootfs
  N,            \* the mount points are 1..N, in the order of the script
  MaxSignals,   \* bound on HUP, INT and TERM sent to the sessions' groups
  OwnerMayDie,  \* the app process may disappear
  Stubborn      \* the guest may ignore SIGTERM

ASSUME ChrootAssumption ==
  /\ Other \notin Sessions /\ N \in Nat /\ MaxSignals \in Nat
  /\ {OwnerMayDie, Stubborn} \subseteq BOOLEAN

Points == 1..N

VARIABLES
  phase,     \* per session: where the script is
  at,        \* per session: the mount point it is working on
  flags,     \* per session: the points whose trierarch_mount_ flag is 1
  known,     \* per session: $trierarch_chroot_supervisor is set
  pending,   \* per session: a trapped signal waits for the running command
  rounds,    \* per session: cleanup runs that follow this one
  told,      \* per session: the guest was sent a terminating signal
  watcher,   \* per session: "off", "watching", "dead", or "failed" to start
  owner,     \* the owning app process lives
  mounts,    \* per point: the stack of mounts
  signals,   \* signals sent so far
  removed,   \* history: mounts each session took from each point
  unflagged  \* history: points where a trap ran between a mount and its flag

scriptVars == <<phase, at, flags, known, rounds>>
historyVars == <<removed, unflagged>>
vars == <<scriptVars, pending, told, watcher, owner, mounts, signals, historyVars>>

-----------------------------------------------------------------------------
(* The script.                                                             *)

Begin(s) ==
  /\ phase[s] = "off" /\ owner
  /\ phase' = [phase EXCEPT ![s] = "check"]
  /\ UNCHANGED <<at, flags, known, rounds, pending, told, watcher, owner,
                 mounts, signals, historyVars>>

\* if ! mountpoint -q
mountpoint(s) ==
  /\ phase[s] = "check" /\ ~pending[s] /\ at[s] <= N
  /\ IF mounts[at[s]] # <<>>
     THEN at' = [at EXCEPT ![s] = @ + 1] /\ UNCHANGED phase
     ELSE phase' = [phase EXCEPT ![s] = "mount"] /\ UNCHANGED at
  /\ UNCHANGED <<flags, known, rounds, pending, told, watcher, owner, mounts,
                 signals, historyVars>>

\* mount --bind ...
mount(s) ==
  /\ phase[s] = "mount"
  /\ mounts' = [mounts EXCEPT ![at[s]] = Append(@, s)]
  /\ phase' = [phase EXCEPT ![s] = "mounted"]
  /\ UNCHANGED <<at, flags, known, rounds, pending, told, watcher, owner,
                 signals, historyVars>>

\* ... and, as a statement of its own, the flag.
set_flag(s) ==
  /\ phase[s] = "mounted" /\ ~pending[s]
  /\ flags' = [flags EXCEPT ![s] = @ \cup {at[s]}]
  /\ at' = [at EXCEPT ![s] = @ + 1]
  /\ phase' = [phase EXCEPT ![s] = "check"]
  /\ UNCHANGED <<known, rounds, pending, told, watcher, owner, mounts, signals,
                 historyVars>>

\* The cleanup function starts; so many runs of it follow.
StartCleanup(s, more) ==
  /\ phase' = [phase EXCEPT ![s] = "cleanup"]
  /\ rounds' = [rounds EXCEPT ![s] = more]
  /\ at' = [at EXCEPT ![s] = N]

MutExitWithoutTrap(s) ==
  /\ phase[s] = "mount"
  /\ phase' = [phase EXCEPT ![s] = "done"]
  /\ UNCHANGED <<at, flags, known, rounds, pending, told, watcher, owner,
                 mounts, signals, historyVars>>

\* "|| exit $?" runs the trap on 0.
mount_fails(s) ==
  /\ phase[s] = "mount"
  /\ StartCleanup(s, 0)
  /\ UNCHANGED <<flags, known, pending, told, watcher, owner, mounts, signals, historyVars>>

\* A background job: the script does not see it fail.
start_chroot_supervisor(s) ==
  /\ phase[s] = "check" /\ ~pending[s] /\ at[s] = N + 1 /\ watcher[s] = "off"
  /\ \E w \in {"watching", "failed"} : watcher' = [watcher EXCEPT ![s] = w]
  /\ UNCHANGED <<scriptVars, pending, told, owner, mounts, signals, historyVars>>

\* trierarch_chroot_supervisor=$!, then the guest in the foreground.
run_guest(s) ==
  /\ phase[s] = "check" /\ ~pending[s] /\ at[s] = N + 1 /\ watcher[s] # "off"
  /\ known' = [known EXCEPT ![s] = TRUE]
  /\ phase' = [phase EXCEPT ![s] = "guest"]
  /\ UNCHANGED <<at, flags, rounds, pending, told, watcher, owner, mounts,
                 signals, historyVars>>

\* With a signal pending the trap runs instead of the rest of the script.
guest_exits(s) ==
  /\ phase[s] = "guest"
  /\ StartCleanup(s, IF pending[s] THEN 1 ELSE 0)
  /\ pending' = [pending EXCEPT ![s] = FALSE]
  /\ UNCHANGED <<flags, known, told, watcher, owner, mounts, signals, historyVars>>

\* trap 'cleanup; exit 143': between two commands of the script or of cleanup,
\* a mount and its flag included, and exit then runs the trap on 0.
trap_signal(s) ==
  /\ pending[s] /\ phase[s] \in {"check", "mounted", "cleanup", "umount"}
  /\ unflagged' = IF phase[s] = "mounted" THEN unflagged \cup {at[s]} ELSE unflagged
  /\ pending' = [pending EXCEPT ![s] = FALSE]
  /\ StartCleanup(s, 1)
  /\ UNCHANGED <<flags, known, told, watcher, owner, mounts, signals, removed>>

cleanup_chroot_supervisor(s) ==
  /\ phase[s] = "cleanup" /\ ~pending[s]
  /\ watcher' = [watcher EXCEPT ![s] = IF known[s] THEN "dead" ELSE @]
  /\ phase' = [phase EXCEPT ![s] = "umount"]
  /\ UNCHANGED <<at, flags, known, rounds, pending, told, owner, mounts,
                 signals, historyVars>>

\* The points the script believes it mounted.
Own(s) == flags[s]

cleanup_mounts(s) ==
  /\ phase[s] = "umount" /\ ~pending[s] /\ at[s] > 0
  /\ IF at[s] \in Own(s) /\ mounts[at[s]] # <<>>
     THEN /\ mounts' = [mounts EXCEPT ![at[s]] = SubSeq(@, 1, Len(@) - 1)]
          /\ removed' = [removed EXCEPT ![s][at[s]] = @ + 1]
     ELSE UNCHANGED <<mounts, removed>>
  /\ at' = [at EXCEPT ![s] = @ - 1]
  /\ UNCHANGED <<phase, flags, known, rounds, pending, told, watcher, owner,
                 signals, unflagged>>

cleanup_ends(s) ==
  /\ phase[s] = "umount" /\ ~pending[s] /\ at[s] = 0
  /\ IF rounds[s] > 0 THEN StartCleanup(s, rounds[s] - 1)
     ELSE phase' = [phase EXCEPT ![s] = "done"] /\ UNCHANGED <<at, rounds>>
  /\ UNCHANGED <<flags, known, pending, told, watcher, owner, mounts, signals, historyVars>>

-----------------------------------------------------------------------------
(* Signals, the owner and the watcher.                                     *)

Live(s) == phase[s] \notin {"off", "done"}

\* A terminating signal to the whole group: the shell traps it, the guest gets
\* it, and the watcher, a background job of the same shell and so a member of
\* its group, dies of it.
GroupSignal(s) ==
  /\ pending' = [pending EXCEPT ![s] = Live(s)]
  /\ told' = [told EXCEPT ![s] = @ \/ phase[s] = "guest"]
  /\ watcher' = [watcher EXCEPT ![s] = IF @ = "watching" THEN "dead" ELSE @]

\* The PTY hangs up, or the terminal sends SIGINT.
Hangup(s) ==
  /\ Live(s) /\ signals < MaxSignals
  /\ signals' = signals + 1
  /\ GroupSignal(s)
  /\ UNCHANGED <<scriptVars, owner, mounts, historyVars>>

OwnerDies ==
  /\ owner /\ OwnerMayDie
  /\ owner' = FALSE
  /\ UNCHANGED <<scriptVars, pending, told, watcher, mounts, signals, historyVars>>

MutWatcherReturns(s) ==
  /\ watcher[s] = "watching" /\ ~owner
  /\ watcher' = [watcher EXCEPT ![s] = "dead"]
  /\ UNCHANGED <<scriptVars, pending, told, owner, mounts, signals, historyVars>>

\* kill(-session_pgid, SIGTERM).  The signal also ends the watcher, which does
\* not get to the SIGKILL that follows.
watch_owner(s) ==
  /\ watcher[s] = "watching" /\ ~owner
  /\ GroupSignal(s)
  /\ UNCHANGED <<scriptVars, owner, mounts, signals, historyVars>>

-----------------------------------------------------------------------------
Init ==
  /\ phase = [s \in Sessions |-> "off"] /\ at = [s \in Sessions |-> 1]
  /\ flags = [s \in Sessions |-> {}] /\ known = [s \in Sessions |-> FALSE]
  /\ pending = [s \in Sessions |-> FALSE] /\ rounds = [s \in Sessions |-> 0]
  /\ told = [s \in Sessions |-> FALSE] /\ watcher = [s \in Sessions |-> "off"]
  /\ owner = TRUE /\ signals = 0
  /\ mounts \in [Points -> {<<>>, <<Other>>}]
  /\ removed = [s \in Sessions |-> [p \in Points |-> 0]] /\ unflagged = {}

Script(s) ==
  \/ mountpoint(s) \/ mount(s) \/ set_flag(s) \/ mount_fails(s)
  \/ start_chroot_supervisor(s) \/ run_guest(s)
  \/ trap_signal(s) \/ cleanup_chroot_supervisor(s) \/ cleanup_mounts(s) \/ cleanup_ends(s)

Next ==
  \/ \E s \in Sessions : Begin(s) \/ Script(s) \/ guest_exits(s) \/ Hangup(s) \/ watch_owner(s)
  \/ OwnerDies

Spec == Init /\ [][Next]_vars

\* Script and watcher are scheduled; a guest that is told to stop does, unless stubborn.
Fairness ==
  \A s \in Sessions : /\ WF_vars(Script(s)) /\ WF_vars(watch_owner(s))
                      /\ WF_vars(told[s] /\ ~Stubborn /\ guest_exits(s))

FairSpec == Spec /\ Fairness

-----------------------------------------------------------------------------
(* Properties.                                                             *)

Idle == \A s \in Sessions : ~Live(s)

\* The state is well typed: the script walks the points within their bounds.
TypeOK ==
  /\ phase \in [Sessions -> {"off", "check", "mount", "mounted", "guest", "cleanup", "umount", "done"}]
  /\ at \in [Sessions -> 0..N + 1] /\ flags \in [Sessions -> SUBSET Points]
  /\ known \in [Sessions -> BOOLEAN] /\ pending \in [Sessions -> BOOLEAN]
  /\ rounds \in [Sessions -> 0..1] /\ told \in [Sessions -> BOOLEAN]
  /\ watcher \in [Sessions -> {"off", "watching", "dead", "failed"}]
  /\ owner \in BOOLEAN /\ signals \in 0..MaxSignals
  /\ mounts \in [Points -> Seq(Sessions \cup {Other})] /\ unflagged \subseteq Points

NothingOfTheSessions ==
  Idle => \A p \in Points \ unflagged : \A i \in 1..Len(mounts[p]) : mounts[p][i] = Other

KeepsForeign == \A p \in Points : mounts[p] # <<>> /\ mounts[p][1] = Other
                                   => mounts'[p] # <<>> /\ mounts'[p][1] = Other

\* cleanup in the chroot script: a point that was mounted before the sessions started
\* stays mounted throughout, and once every session of the rootfs has ended, by
\* itself, by a failed mount or by a trapped signal, none of their mounts is left,
\* except at a point where the signal was trapped after the mount and before its flag.
MountsAsBefore == [][NothingOfTheSessions' /\ KeepsForeign]_vars

\* start_chroot_supervisor: a session whose watcher could be started ends once its
\* owner is gone.
OrphanEnds ==
  \A s \in Sessions :
    phase[s] = "guest" /\ ~owner /\ watcher[s] # "failed" ~> phase[s] = "done"

\* While the guest runs, every point it was promised is mounted.
GuestHasItsMounts ==
  \A s \in Sessions : phase[s] = "guest" => \A p \in Points : mounts[p] # <<>>

\* A session removes at most the mounts it made.
RemovesOnlyItsOwn ==
  \A s \in Sessions : \A p \in Points :
     removed[s][p] <= IF p \in flags[s] THEN 1 ELSE 0
=============================================================================
