------------------------- MODULE SessionSupervisor --------------------------
(***************************************************************************)
(* The guest session supervisor in observation mode: a bounded loop that   *)
(* records sockets, looks for a Plasma session without a shell, starts one *)
(* as a fallback and supervises it.  Processes come and go and SIGTERM     *)
(* arrives between any two steps.  Time is counted in polls of 100 ms.     *)
(***************************************************************************)
EXTENDS Integers, FiniteSets

CONSTANTS
  Sockets,             \* names of sockets in the runtime directory
  MAX_KNOWN_SOCKETS,
  Observe,             \* observe_milliseconds in polls
  Grace,               \* PLASMA_GRACE_MS in polls
  MaxKwin              \* bound on KWin processes started one after another

VARIABLES
  pc, elapsed, known, socket_seen_at, plasma_adapter_finished,   \* main
  found,                 \* the KWin found by this poll, 0 for none
  running, managed_child,\* the variables the signal handler uses
  child,                 \* the fallback shell: "none", "running", "exited", "reaped"
  termed,                \* it was sent SIGTERM
  sockets, plasma_session, kwin, plasmashell,   \* what the guest runs
  started,               \* KWin processes so far
  observed,              \* history: sockets that some poll saw
  missed,                \* history: the last SIGTERM came inside a poll that may launch
  seen_kwin              \* history: the KWin that socket_seen_at is about

loopVars == <<elapsed, known, socket_seen_at, plasma_adapter_finished, found>>
signalVars == <<running, managed_child>>
childVars == <<child, termed>>
guestVars == <<sockets, plasma_session, kwin, plasmashell, started>>
historyVars == <<observed, seen_kwin, missed>>
vars == <<pc, loopVars, signalVars, childVars, guestVars, historyVars>>

SmallerOf(a, b) == IF a < b THEN a ELSE b

-----------------------------------------------------------------------------
(* main.                                                                   *)

\* readdir returns names in any order; the table has a fixed size.
observe_sockets(K) ==
  /\ known \subseteq K /\ K \subseteq known \cup sockets
  /\ Cardinality(K) = SmallerOf(MAX_KNOWN_SOCKETS, Cardinality(known \cup sockets))

\* The head of the loop and the socket scan.
Poll ==
  /\ pc = "poll"
  /\ IF running /\ elapsed <= Observe
     THEN /\ \E K \in SUBSET Sockets : observe_sockets(K) /\ known' = K
          /\ observed' = observed \cup sockets
          /\ pc' = IF plasma_adapter_finished THEN "sleep" ELSE "find"
     ELSE pc' = "end" /\ UNCHANGED <<known, observed>>
  /\ UNCHANGED <<elapsed, socket_seen_at, plasma_adapter_finished, found, signalVars,
                 childVars, guestVars, seen_kwin, missed>>

\* find_process_named("plasma_session"), then its descendant KWin.
find_nested_kwin_socket ==
  /\ pc = "find"
  /\ found' = IF plasma_session THEN kwin ELSE 0
  /\ IF found' > 0
     THEN /\ pc' = "decide"
          /\ socket_seen_at' = IF socket_seen_at < 0 THEN elapsed ELSE socket_seen_at
          /\ seen_kwin' = IF socket_seen_at < 0 THEN found' ELSE seen_kwin
     ELSE pc' = "sleep" /\ UNCHANGED <<socket_seen_at, seen_kwin>>
  /\ UNCHANGED <<elapsed, known, plasma_adapter_finished, signalVars, childVars, guestVars,
                 observed, missed>>

\* The shell is absent and the grace period is over.
FallbackDue == ~plasmashell /\ elapsed - socket_seen_at >= Grace

decide ==
  /\ pc = "decide"
  /\ pc' = IF FallbackDue THEN "launch" ELSE "sleep"
  /\ plasma_adapter_finished' = (FallbackDue \/ plasmashell)
  /\ UNCHANGED <<elapsed, known, socket_seen_at, found, signalVars, childVars, guestVars,
                 historyVars>>

\* The environment of plasma_session cannot be read or lacks D-Bus, or fork fails.
launch_refused ==
  /\ pc = "launch"
  /\ pc' = "end"
  /\ UNCHANGED <<loopVars, signalVars, childVars, guestVars, historyVars>>

launch_plasmashell ==
  /\ pc = "launch"
  /\ plasma_session
  /\ pc' = "forked"
  /\ child' = "running"
  /\ UNCHANGED <<loopVars, signalVars, termed, guestVars, historyVars>>

\* supervise_child: from here on the signal handler knows the child.
supervise_child ==
  /\ pc = "forked"
  /\ pc' = "supervise"
  /\ managed_child' = TRUE
  /\ UNCHANGED <<loopVars, running, childVars, guestVars, historyVars>>

\* The WNOHANG loop while running, then the blocking wait.
supervise_wait ==
  /\ pc = "supervise"
  /\ child = "exited"
  /\ child' = "reaped"
  /\ managed_child' = FALSE
  /\ pc' = "end"
  /\ UNCHANGED <<loopVars, running, termed, guestVars, historyVars>>

sleep_milliseconds ==
  /\ pc = "sleep"
  /\ IF elapsed = Observe THEN pc' = "end" /\ UNCHANGED elapsed
     ELSE pc' = "poll" /\ elapsed' = elapsed + 1
  /\ UNCHANGED <<known, socket_seen_at, plasma_adapter_finished, found, signalVars,
                 childVars, guestVars, historyVars>>

-----------------------------------------------------------------------------
(* The signal handler and the guest.                                       *)

InPoll == pc \in {"find", "decide", "launch", "forked"}


stop ==
  /\ pc # "end"
  /\ running' = FALSE
  /\ termed' = (termed \/ (managed_child /\ child = "running"))
  /\ missed' = InPoll
  /\ UNCHANGED <<pc, loopVars, managed_child, child, guestVars, observed, seen_kwin>>

ShellExits ==
  /\ child = "running"
  /\ child' = "exited"
  /\ UNCHANGED <<pc, loopVars, signalVars, termed, guestVars, historyVars>>

GuestChanges ==
  /\ \/ \E s \in Sockets :
          /\ sockets' \in {sockets \cup {s}, sockets \ {s}}
          /\ UNCHANGED <<plasma_session, kwin, plasmashell, started>>
     \/ plasma_session' = ~plasma_session
          /\ UNCHANGED <<sockets, kwin, plasmashell, started>>
     \/ plasmashell' = ~plasmashell
          /\ UNCHANGED <<sockets, plasma_session, kwin, started>>
     \/ kwin = 0 /\ started < MaxKwin /\ started' = started + 1 /\ kwin' = started'
          /\ UNCHANGED <<sockets, plasma_session, plasmashell>>
     \/ kwin > 0 /\ kwin' = 0 /\ UNCHANGED <<sockets, plasma_session, plasmashell, started>>
  /\ UNCHANGED <<pc, loopVars, signalVars, childVars, historyVars>>

-----------------------------------------------------------------------------
Init ==
  /\ pc = "poll" /\ elapsed = 0 /\ known = {} /\ socket_seen_at = -1
  /\ plasma_adapter_finished = FALSE /\ found = 0
  /\ running = TRUE /\ managed_child = FALSE
  /\ child = "none" /\ termed = FALSE
  /\ sockets = {} /\ plasma_session = FALSE /\ kwin = 0 /\ plasmashell = FALSE
  /\ started = 0 /\ observed = {} /\ seen_kwin = 0 /\ missed = FALSE

Main ==
  \/ Poll \/ find_nested_kwin_socket \/ decide \/ launch_refused \/ launch_plasmashell
  \/ supervise_child \/ supervise_wait \/ sleep_milliseconds

Next == Main \/ stop \/ ShellExits \/ GuestChanges

Spec == Init /\ [][Next]_vars

\* The supervisor keeps being scheduled and a shell that got SIGTERM exits.
FairSpec == Spec /\ WF_vars(Main) /\ WF_vars(termed /\ ShellExits)

-----------------------------------------------------------------------------
(* Properties.                                                             *)

\* The state is well typed: the table of known sockets does not overflow and the
\* observation never runs past its window.
TypeOK ==
  /\ pc \in {"poll", "find", "decide", "launch", "forked", "supervise", "sleep", "end"}
  /\ elapsed \in 0..Observe /\ socket_seen_at \in -1..Observe
  /\ known \subseteq Sockets /\ Cardinality(known) <= MAX_KNOWN_SOCKETS
  /\ plasma_adapter_finished \in BOOLEAN /\ found \in 0..MaxKwin
  /\ running \in BOOLEAN /\ managed_child \in BOOLEAN
  /\ child \in {"none", "running", "exited", "reaped"} /\ termed \in BOOLEAN


\* The KWin the fallback is started for has had its grace period.
GraceForThisKwin == [][launch_plasmashell => found = seen_kwin]_vars
=============================================================================
