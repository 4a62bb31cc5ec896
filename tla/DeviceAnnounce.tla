--------------------------- MODULE DeviceAnnounce ---------------------------
(***************************************************************************)
(* What the exchange of dma-buf device reports promises: the linux-dmabuf  *)
(* global of a server names a device some guest reported, a guest is told  *)
(* that its report was accepted only in the step that makes the global     *)
(* name its device, and the global stays as long as the server.            *)
(***************************************************************************)
CONSTANTS Reporters, Devices, None

VARIABLES
  serving,     \* a server is there
  announced,   \* the device the published global names, or None
  accepted     \* the device whose acceptance a reporter was told, or None

Init ==
  /\ serving = FALSE /\ announced = None
  /\ accepted = [r \in Reporters |-> None]

ServerStarts == ~serving /\ serving' = TRUE /\ UNCHANGED <<announced, accepted>>

\* The report of device d takes effect; r hears of it if it still listens.
Accept(r, d) ==
  /\ serving /\ UNCHANGED serving
  /\ announced' = d
  /\ accepted' \in {accepted, [accepted EXCEPT ![r] = d]}

ServerEnds == serving /\ serving' = FALSE /\ announced' = None /\ UNCHANGED accepted

Next ==
  \/ ServerStarts \/ ServerEnds
  \/ \E r \in Reporters, d \in Devices : Accept(r, d)

Spec == Init /\ [][Next]_<<serving, announced, accepted>>
=============================================================================
