------------------------------ MODULE MCDisplay ------------------------------
(***************************************************************************)
(* What the threads behind the display owe: the repaint loop, the scan-out *)
(* tokens it presents and the keyboard reader.  The models share no state, *)
(* so a run lets one of them move, chosen in the initial state, and leaves *)
(* the others where they start.                                            *)
(***************************************************************************)
EXTENDS OutputContent, Sequences

CONSTANTS
  Devices, External, NoPath, Keys, NoEvent, MAX_DEVICES, MaxEvents, MaxPlugs,   \* of the reader
  Tokens, Resources, Backlog,       \* of the scan-out tokens
  None

VARIABLES
  part,      \* the component that moves
  t_running, alive, token, res, registered, serving, dispatch, t_current, pending, inflight,
  sampling, fenced, up, presents, acquired, in_use, releases, t_late, forgotten,
  running, main, todo, slots, pressed, down, ownerAlive, stdinOpen, stdoutOpen, plugged, held,
  events, plugs, late, raced

Scanout == INSTANCE TvgScanout WITH
  running <- t_running, current <- t_current, late <- t_late

Reader == INSTANCE InputReader

ASSUME DisplayAssumption ==
  None \notin Tokens /\ Resources \subseteq Nat \ {0} /\ Backlog \in Nat

scanoutVars == <<t_running, alive, token, res, registered, serving, dispatch, t_current, pending,
                 inflight, sampling, fenced, up, presents, acquired, in_use, releases, t_late, forgotten>>
readerVars == <<running, main, todo, slots, pressed, down, ownerAlive, stdinOpen, stdoutOpen,
                plugged, held, events, plugs, late, raced>>
displayVars == <<part, contentVars, scanoutVars, readerVars>>

\* A part that does not move starts in one of its initial states only.
DisplayInit ==
  /\ part \in {"output", "scanout", "reader"}
  /\ ContentInit /\ Scanout!Init /\ Reader!Init
  /\ part # "scanout" => up
  /\ part # "reader" => plugged = {}

DisplayNext ==
  /\ UNCHANGED part
  /\ IF part = "output" THEN ContentNext ELSE UNCHANGED contentVars
  /\ IF part = "scanout" THEN Scanout!Next ELSE UNCHANGED scanoutVars
  /\ IF part = "reader" THEN Reader!Next ELSE UNCHANGED readerVars

\* SO_RCVTIMEO ends the dispatch thread's wait whatever the vtest server does, and
\* the thread then goes on by itself.
DispatchReturns ==
  /\ part = "scanout"
  /\ Scanout!DispatchGivesUp \/ Scanout!remember_presented

\* The fairness of the components, of the one that moves.
DisplaySpec ==
  /\ DisplayInit /\ [][DisplayNext]_displayVars
  /\ WF_vars(part = "output" /\ EndDispatch)
  /\ WF_vars(part = "output" /\ drain_counter_fd)
  /\ SF_vars(part = "output" /\ repaint_timer_fired)
  /\ WF_vars(part = "output" /\ EndCommands)
  /\ WF_vars(part = "output" /\ (BeginRepaint \/ SkipRepaint))
  /\ WF_vars(part = "output" /\ Compose)
  /\ WF_vars(part = "output" /\ SwapSucceeds)
  /\ WF_scanoutVars(DispatchReturns)
  /\ WF_readerVars(part = "reader" /\ Reader!Main)
  /\ \A s \in 1..MAX_DEVICES : WF_readerVars(part = "reader" /\ Reader!Reader(s))
  /\ \A d \in Devices : SF_readerVars(part = "reader" /\ Reader!Starts(d))

-----------------------------------------------------------------------------

\* tvg_scanout.c: whichever resource the vtest server holds for a commit is on a list
\* of the host, or its release is on the way, unless the host stopped waiting for it,
\* its token was registered anew before it was remembered, or a stop discarded it.
PresentedIsOwed == Scanout!PresentedIsOwed

\* tvg_scanout.c send_present: a commit's wait for the blit ends, although only
\* the waiting thread itself could send the release the vtest server waits for.
CommitReturns == Scanout!CommitReturns

\* input-reader main.c main: once the owner is gone the process ends, whatever its
\* readers are doing, and no device stays held.
OwnerGoneEndsReader == Reader!OwnerGoneEndsReader

\* input-reader main.c scan_devices: a keyboard that stays connected is taken again
\* and again however its earlier readers ended.
KeyboardIsTaken == Reader!KeyboardIsTaken
=============================================================================
