------------------------------- MODULE MCHost -------------------------------
(***************************************************************************)
(* What threads and programs owe each other across a queue, a socket or a  *)
(* shell: the device reports, the JNI bridge, the buffer objects of the    *)
(* token service and the sessions in a DroidSpaces container.  The models  *)
(* share no state, so a run lets one of them move, chosen in the initial   *)
(* state, and leaves the others where they start.                          *)
(***************************************************************************)
EXTENDS DmabufFeedback, WindowBridge, GuestLinks, FiniteSets

CONSTANTS d1, d2   \* the render nodes

TwoNodes == <<d1, d2>>

VARIABLE part      \* the component that moves

linkVars == <<part, vars, bridgeVars, shimVars, droidVars>>

HostInit ==
  /\ part \in {"report", "bridge", "shim", "droid"}
  /\ Init /\ Bridge!Init /\ Shim!Init /\ Droid!Init

HostNext ==
  /\ UNCHANGED part
  /\ IF part = "report" THEN Next ELSE UNCHANGED vars
  /\ IF part = "bridge" THEN Bridge!Next ELSE UNCHANGED bridgeVars
  /\ IF part = "shim" THEN Shim!Next ELSE UNCHANGED shimVars
  /\ IF part = "droid" THEN Droid!Next ELSE UNCHANGED droidVars

\* The fairness of the components: nothing that is fair is enabled where they start.
HostSpec ==
  /\ HostInit /\ [][HostNext]_linkVars
  /\ Fairness /\ Bridge!Fairness /\ Shim!Fairness /\ Droid!Fairness
=============================================================================
