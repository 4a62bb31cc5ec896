--------------------------- MODULE DmabufFeedback ---------------------------
(***************************************************************************)
(* The linux-dmabuf global of the Wayland host is published once a guest   *)
(* has reported its render device.  Each guest session first runs the      *)
(* report program, which tries the render nodes one by one over a socket   *)
(* and waits three seconds for each answer, and then starts its desktop,   *)
(* whatever the outcome.  The host serves one connection at a time in its  *)
(* event loop (dmabuf_feedback_device.c, linux_dmabuf.c,                   *)
(* dmabuf-device-report, and the launch script of droidspaces.rs).         *)
(***************************************************************************)
EXTENDS Integers, Sequences

CONSTANTS
  Reporters,   \* guest sessions, each with one run of the report program
  Devices,
  Nodes,       \* the usable render nodes, in directory order
  Backlog,     \* connections the listener queues before connect blocks
  None

\* sent: the report is in the socket; open: its sender has not closed its end.
Connection == [from : Reporters, device : Devices, sent : BOOLEAN, open : BOOLEAN]

ASSUME FeedbackAssumption ==
  /\ None \notin Connection \cup Devices \cup {"accepted", "invalid", "hangup"}
  /\ Nodes \in Seq(Devices)
  /\ Backlog \in Nat

VARIABLES
  up, dmabuf_enabled, listener,            \* the server and its listener
  backlog, client,                         \* connections; client is the one accepted, or None
  known, device, dmabuf_global,
  pc, node,                                \* report programs, and the node each is at
  answer,                                  \* what the host said on the current connection
  told                                     \* device the desktop found, or None

hostVars == <<up, dmabuf_enabled, listener, backlog, client, known, device, dmabuf_global>>
serverVars == <<up, dmabuf_enabled, listener>>
deviceVars == <<known, device, dmabuf_global>>
guestVars == <<pc, node, answer, told>>
vars == <<hostVars, guestVars>>

\* The connection r still holds, wherever the host has it.
Current(c, r) == c # None /\ c.from = r /\ c.open
Connected(r) == Current(client, r) \/ \E i \in DOMAIN backlog : Current(backlog[i], r)

\* The connection of r after r has sent on it, or closed its end.
Marked(c, sent, open) == [c EXCEPT !.sent = @ \/ sent, !.open = open]
Update(r, sent, open) ==
  /\ client' = IF Current(client, r) THEN Marked(client, sent, open) ELSE client
  /\ backlog' = [i \in DOMAIN backlog |->
                  IF Current(backlog[i], r) THEN Marked(backlog[i], sent, open) ELSE backlog[i]]

-----------------------------------------------------------------------------
(* The report program and the session that runs it.                        *)

\* report_device returns 1; report_first_render_node goes on with the next node.
Fail(r) ==
  /\ pc' = [pc EXCEPT ![r] = "next"]
  /\ node' = [node EXCEPT ![r] = @ + 1]
  /\ answer' = [answer EXCEPT ![r] = None]

\* The launch script of a session comes to the report.
wayland_command(r) ==
  /\ pc[r] = "idle"
  /\ pc' = [pc EXCEPT ![r] = "next"]
  /\ UNCHANGED <<hostVars, node, answer, told>>

connect(r) ==
  /\ pc[r] = "next" /\ node[r] <= Len(Nodes)
  /\ \/ /\ listener /\ Len(backlog) < Backlog
        /\ backlog' = Append(backlog, [from |-> r, device |-> Nodes[node[r]],
                                       sent |-> FALSE, open |-> TRUE])
        /\ pc' = [pc EXCEPT ![r] = "connected"]
        /\ UNCHANGED <<node, answer>>
     \/ ~listener /\ Fail(r) /\ UNCHANGED backlog
  /\ UNCHANGED <<serverVars, client, deviceVars, told>>

send(r) ==
  /\ pc[r] = "connected"
  /\ \/ /\ Connected(r)
        /\ Update(r, TRUE, TRUE)
        /\ pc' = [pc EXCEPT ![r] = "waiting"]
        /\ UNCHANGED <<node, answer>>
     \/ ~Connected(r) /\ Fail(r) /\ UNCHANGED <<backlog, client>>
  /\ UNCHANGED <<serverVars, deviceVars, told>>

poll_answered(r) ==
  /\ pc[r] = "waiting" /\ answer[r] # None
  /\ \/ /\ answer[r] = "accepted"
        /\ pc' = [pc EXCEPT ![r] = "accepted"]
        /\ UNCHANGED <<node, answer>>
     \/ answer[r] # "accepted" /\ Fail(r)
  /\ UNCHANGED <<hostVars, told>>

\* REPORT_ACK_TIMEOUT_MS have passed.
poll_timeout(r) ==
  /\ pc[r] = "waiting" /\ answer[r] = None
  /\ Update(r, FALSE, FALSE)
  /\ Fail(r)
  /\ UNCHANGED <<serverVars, deviceVars, told>>

report_first_render_node_fails(r) ==
  /\ pc[r] = "next" /\ node[r] > Len(Nodes)
  /\ pc' = [pc EXCEPT ![r] = "refused"]
  /\ UNCHANGED <<hostVars, node, answer, told>>

\* The session is killed while the program runs.
Killed(r) ==
  /\ pc[r] \in {"connected", "waiting"}
  /\ Update(r, FALSE, FALSE)
  /\ pc' = [pc EXCEPT ![r] = "killed"]
  /\ UNCHANGED <<serverVars, deviceVars, node, answer, told>>

\* The desktop starts and asks for feedback if it finds the global.
launch(r) ==
  /\ pc[r] \in {"accepted", "refused"}
  /\ pc' = [pc EXCEPT ![r] = "launched"]
  /\ told' = [told EXCEPT ![r] = IF dmabuf_global /\ known THEN device ELSE None]
  /\ UNCHANGED <<hostVars, node, answer>>

-----------------------------------------------------------------------------
(* The host.                                                               *)

\* The listener is created only with dmabuf enabled, and its creation may fail.
trierarch_wayland_create(enabled, listens) ==
  /\ ~up /\ (listens => enabled)
  /\ up' = TRUE /\ dmabuf_enabled' = enabled /\ listener' = listens
  /\ UNCHANGED <<backlog, client, deviceVars, guestVars>>

\* The peers of connections that are closed see the end of the stream.
HangUp(gone) ==
  answer' = [r \in Reporters |-> IF r \in gone /\ answer[r] = None THEN "hangup" ELSE answer[r]]

\* trierarch_wayland_destroy, or the end of the whole process.
trierarch_wayland_destroy ==
  /\ up
  /\ up' = FALSE /\ dmabuf_enabled' = FALSE /\ listener' = FALSE
  /\ backlog' = <<>> /\ client' = None
  /\ known' = FALSE /\ device' = None /\ dmabuf_global' = FALSE
  /\ HangUp({r \in Reporters : Connected(r)})
  /\ UNCHANGED <<pc, node, told>>

\* With a connection in hand the listener is ignored.
listener_readable(watched) ==
  /\ listener /\ backlog # <<>> /\ client = None
  /\ backlog' = Tail(backlog)
  /\ client' = IF watched THEN Head(backlog) ELSE None
  /\ HangUp(IF ~watched /\ Head(backlog).open THEN {Head(backlog).from} ELSE {})
  /\ UNCHANGED <<serverVars, deviceVars, pc, node, told>>

\* wl_global_create may fail; a global that exists already is not made again.
trierarch_dmabuf_global_create(created) == dmabuf_global \/ (dmabuf_enabled /\ created)

MutKnownAfterFailure(created) ==
  /\ client # None /\ (client.sent \/ ~client.open)
  /\ LET published == client.sent /\ trierarch_dmabuf_global_create(created)
         status == IF client.sent THEN "accepted" ELSE "invalid"
     IN /\ known' = IF client.sent THEN published ELSE known
        /\ device' = IF published THEN client.device ELSE IF client.sent THEN None ELSE device
        /\ dmabuf_global' = (dmabuf_global \/ published)
        /\ answer' = IF client.open THEN [answer EXCEPT ![client.from] = status] ELSE answer
  /\ client' = None
  /\ UNCHANGED <<serverVars, backlog, pc, node, told>>

MutMalformedKeepsClient(created) ==
  /\ client # None /\ client.sent
  /\ LET published == trierarch_dmabuf_global_create(created)
     IN /\ known' = published
        /\ device' = IF published THEN client.device ELSE None
        /\ dmabuf_global' = published
        /\ answer' = IF client.open
                     THEN [answer EXCEPT ![client.from] = IF published THEN "accepted" ELSE "invalid"]
                     ELSE answer
  /\ client' = None
  /\ UNCHANGED <<serverVars, backlog, pc, node, told>>

\* A report, even of a program that is gone by now, or the end of a connection
\* without one.
client_readable(created) ==
  /\ client # None /\ (client.sent \/ ~client.open)
  /\ LET published == client.sent /\ trierarch_dmabuf_global_create(created)
         status == IF published THEN "accepted" ELSE "invalid"
     IN /\ known' = IF client.sent THEN published ELSE known
        /\ device' = IF published THEN client.device ELSE IF client.sent THEN None ELSE device
        /\ dmabuf_global' = (dmabuf_global \/ published)
        /\ answer' = IF client.open THEN [answer EXCEPT ![client.from] = status] ELSE answer
  /\ client' = None
  /\ UNCHANGED <<serverVars, backlog, pc, node, told>>

-----------------------------------------------------------------------------

Init ==
  /\ up = FALSE /\ dmabuf_enabled = FALSE /\ listener = FALSE
  /\ backlog = <<>> /\ client = None
  /\ known = FALSE /\ device = None /\ dmabuf_global = FALSE
  /\ pc = [r \in Reporters |-> "idle"] /\ node = [r \in Reporters |-> 1]
  /\ answer = [r \in Reporters |-> None] /\ told = [r \in Reporters |-> None]

Report(r) ==
  \/ connect(r) \/ send(r) \/ poll_answered(r) \/ poll_timeout(r)
  \/ report_first_render_node_fails(r) \/ launch(r)

Host ==
  \/ \E watched \in BOOLEAN : listener_readable(watched)
  \/ \E created \in BOOLEAN : client_readable(created)

Next ==
  \/ \E r \in Reporters : wayland_command(r) \/ Report(r) \/ Killed(r)
  \/ Host
  \/ \E enabled, listens \in BOOLEAN : trierarch_wayland_create(enabled, listens)
  \/ trierarch_wayland_destroy

Spec == Init /\ [][Next]_vars

\* Every program keeps running and the event loop serves its sources.
Fairness == WF_vars(Host) /\ \A r \in Reporters : WF_vars(Report(r))

FairSpec == Spec /\ Fairness

-----------------------------------------------------------------------------

\* The state is well typed.
TypeOK ==
  /\ up \in BOOLEAN /\ dmabuf_enabled \in BOOLEAN /\ listener \in BOOLEAN
  /\ known \in BOOLEAN /\ dmabuf_global \in BOOLEAN
  /\ device \in Devices \cup {None}
  /\ backlog \in Seq(Connection) /\ client \in Connection \cup {None}
  /\ pc \in [Reporters -> {"idle", "next", "connected", "waiting", "accepted", "refused", "killed", "launched"}]
  /\ node \in [Reporters -> 1..Len(Nodes) + 1]
  /\ answer \in [Reporters -> {None, "accepted", "invalid", "hangup"}]
  /\ told \in [Reporters -> Devices \cup {None}]

\* The device the global names, and the one whose acceptance a program was told.
Announced == IF dmabuf_global THEN device ELSE None
Accepted == [r \in Reporters |-> IF answer[r] = "accepted" THEN Nodes[node[r]] ELSE None]

Announce == INSTANCE DeviceAnnounce WITH
  serving <- up, announced <- Announced, accepted <- Accepted

\* dmabuf-device-report README: "The host acknowledges the report after
\* registering it".  Whatever timeouts, late reports, failures to publish and
\* restarts of the host happen, the global names a reported device, an
\* acknowledged report has taken effect, and the global stays with the server.
AnnouncesAsPromised == Announce!Spec

\* droidspaces.rs wayland_command: the report "must not prevent a Wayland
\* launch".  The desktop of a session starts however the host, whose only slot
\* other sessions use, treats the report.
DesktopStarts == \A r \in Reporters : pc[r] = "next" ~> pc[r] \in {"launched", "killed"}

\* dmabuf_device_report_protocol.h: "The host acknowledges registration before
\* the guest starts its compositor."  No device of a guest is registered after
\* its desktop was started.
RegisteredBeforeDesktop ==
  [][client # None /\ client.sent /\ client' = None /\ known'
       => pc[client.from] # "launched"]_vars
=============================================================================
