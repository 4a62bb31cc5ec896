----------------------------- MODULE GuestLinks -----------------------------
(***************************************************************************)
(* The guest's side of the host: the buffer objects of the token service,  *)
(* which the GBM shim keeps in the guest, and the sessions in a DroidSpaces *)
(* container.  Absent stands for no object and no session.                   *)
(***************************************************************************)
EXTENDS Naturals

CONSTANTS
  Absent,
  Threads, Bos, MaxBacklog,                  \* of the GBM shim
  Sessions, Attachments, MaxApps, MaxLives   \* of DroidSpaces

VARIABLES
  g_pc, bo, reply, heap, token_bos, listening, stop, g_server, g_backlog, serving,
  app, s_pc, owner, need, watcher, container, checked, covered

Shim == INSTANCE GbmShim WITH
  None <- Absent, Backlog <- MaxBacklog, pc <- g_pc, server <- g_server, backlog <- g_backlog

Droid == INSTANCE DroidSpaces WITH None <- Absent, pc <- s_pc

ASSUME LinksAssumption == Absent \notin Bos \cup Sessions /\ {MaxApps, MaxLives} \subseteq Nat

shimVars == <<g_pc, bo, reply, heap, token_bos, listening, stop, g_server, g_backlog, serving>>
droidVars == <<app, s_pc, owner, need, watcher, container, checked, covered>>

-----------------------------------------------------------------------------

\* gbm_shim.c is_token_bo: every object an application holds is on the list exactly
\* if it is a token, although addresses are used again.
DispatchedToOwner == Shim!DispatchedToOwner

\* gbm_shim.c, tvg_scanout.c: a request for a token comes back, and so does the stop
\* of the service.
TokenCallsReturn == Shim!TokenCallsReturn

\* droidspaces.rs session_command: a session inside the container it started or
\* checked has everything it requires there, whichever of several commands started it.
AttachmentsPresent == Droid!AttachmentsPresent

\* droidspaces.rs start_supervisor_command: a container whose start had returned before
\* the app died is stopped, if its session left a watcher and the watcher's one stop
\* works.
StartedContainerStops == Droid!StartedContainerStops
=============================================================================
