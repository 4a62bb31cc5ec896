----------------------------- MODULE TvgScanout -----------------------------
(***************************************************************************)
(* Scan-out tokens: buffers the guest draws through VirGL and the Wayland  *)
(* host displays.  The token service is a thread of the host; every commit *)
(* of a token makes the dispatch thread ask the vtest server, another      *)
(* process, to blit the guest's resource into the token's AHardwareBuffer; *)
(* and every frame tells it which resources it may blit into again.        *)
(***************************************************************************)
EXTENDS Integers, Sequences

LOCAL INSTANCE SequencesExt

CONSTANTS
  Tokens,      \* tokens ever allocated
  Resources,   \* vtest resource ids; each texture has a fresh one
  Backlog,     \* connections a vtest socket queues before connect blocks
  None

VARIABLES
  running, alive,      \* the flag, and whether server_main still runs
  token, res,          \* "none" before a token is in the list, "freed" after; its res_id
  registered,          \* resources some token was registered with
  serving,             \* token whose registration waits for its present
  dispatch,            \* the dispatch thread: pc, the token and the id it presents
  current,             \* token of the buffer on the output
  pending, inflight,   \* presented_pending, presented_inflight
  sampling, fenced,    \* tokens unfinished GPU work samples; frame_fence_created
  up,                  \* the vtest server runs
  presents, acquired,  \* connections to present_thread, and how its head got the AHB
  in_use,              \* vtest: "free", or the thread of the host that presented last
  releases,            \* connections to release_thread
  late,                \* history: resources whose present the host stopped waiting for
  forgotten            \* history: resources presented under an id the token no longer had
                       \* when it was remembered, or on a list that a stop discarded

hostVars == <<running, alive, token, res, registered, serving, dispatch, current, pending,
              inflight, sampling, fenced>>
vtestVars == <<up, presents, acquired, in_use, releases>>
historyVars == <<late, forgotten>>
vars == <<hostVars, vtestVars, historyVars>>

Allocated(t) == token[t] = "live"
Idle == [pc |-> "idle", tok |-> None, id |-> 0]

-----------------------------------------------------------------------------
(* send_present, as seen by its caller: nothing for a token without a      *)
(* resource or a vtest server that is down, else a connection to wait on.  *)

Reaches(id) == id # 0 /\ up

send_present(t, id, from) ==
  /\ presents' = IF Reaches(id)
                 THEN Append(presents, [id |-> id, tok |-> t, from |-> from, late |-> FALSE])
                 ELSE presents
  /\ Len(presents') <= Backlog

\* recv returns after SO_RCVTIMEO; the request stays with the vtest server.
Abandon(from) ==
  /\ presents' = [i \in DOMAIN presents |->
                    IF presents[i].from = from THEN [presents[i] EXCEPT !.late = TRUE]
                    ELSE presents[i]]
  /\ late' = late \cup {presents[i].id : i \in {j \in DOMAIN presents : presents[j].from = from}}

-----------------------------------------------------------------------------
(* The token service.                                                      *)

alloc_token(t) ==
  /\ alive /\ serving = None /\ token[t] = "none"
  /\ token' = [token EXCEPT ![t] = "live"]
  /\ UNCHANGED <<running, alive, res, registered, serving, dispatch, current, pending, inflight,
                 sampling, fenced, vtestVars, historyVars>>

register_token(t, id) ==
  /\ alive /\ serving = None /\ Allocated(t) /\ id \notin registered
  /\ res' = [res EXCEPT ![t] = id]
  /\ registered' = registered \cup {id}
  /\ send_present(t, id, "server")
  /\ serving' = IF Reaches(id) THEN t ELSE None
  /\ UNCHANGED <<running, alive, token, dispatch, current, pending, inflight, sampling, fenced,
                 up, acquired, in_use, releases, historyVars>>

ServerGivesUp ==
  /\ serving # None
  /\ Abandon("server")
  /\ serving' = None
  /\ UNCHANGED <<running, alive, token, res, registered, dispatch, current, pending, inflight,
                 sampling, fenced, up, acquired, in_use, releases, forgotten>>

server_main_returns ==
  /\ alive /\ ~running /\ serving = None
  /\ alive' = FALSE
  /\ UNCHANGED <<running, token, res, registered, serving, dispatch, current, pending, inflight,
                 sampling, fenced, vtestVars, historyVars>>

tvg_scanout_start ==
  /\ ~running /\ dispatch.pc = "stopped"
  /\ running' = TRUE /\ alive' = TRUE
  /\ dispatch' = Idle
  /\ UNCHANGED <<token, res, registered, serving, current, pending, inflight, sampling, fenced,
                 vtestVars, historyVars>>

\* The renderer is gone by now, so the GPU is idle; then stop waits for the thread.
tvg_scanout_stop ==
  /\ running /\ dispatch.pc = "idle"
  /\ running' = FALSE
  /\ dispatch' = [Idle EXCEPT !.pc = "joining"]
  /\ current' = None /\ sampling' = {} /\ fenced' = FALSE
  /\ UNCHANGED <<alive, token, res, registered, serving, pending, inflight, vtestVars, historyVars>>

StopFrees ==
  /\ dispatch.pc = "joining" /\ ~alive
  /\ dispatch' = [Idle EXCEPT !.pc = "stopped"]
  /\ token' = [t \in Tokens |-> IF Allocated(t) THEN "freed" ELSE token[t]]
  /\ res' = [t \in Tokens |-> 0]
  /\ pending' = {} /\ inflight' = {} /\ forgotten' = forgotten \cup pending \cup inflight
  /\ UNCHANGED <<running, alive, registered, serving, current, sampling, fenced, vtestVars, late>>

-----------------------------------------------------------------------------
(* The dispatch thread: commits and frames.                                *)

\* A commit with a new token, or without a new buffer while a token is current.
tvg_scanout_present_fd(t) ==
  /\ dispatch.pc = "idle" /\ Allocated(t)
  /\ current' = t
  /\ send_present(t, res[t], "dispatch")
  /\ dispatch' = [pc |-> IF Reaches(res[t]) THEN "waiting" ELSE "remember", tok |-> t, id |-> res[t]]
  /\ UNCHANGED <<running, alive, token, res, registered, serving, pending, inflight, sampling, fenced,
                 up, acquired, in_use, releases, historyVars>>

CommitOtherBuffer ==
  /\ dispatch.pc = "idle" /\ current # None
  /\ current' = None
  /\ UNCHANGED <<running, alive, token, res, registered, serving, dispatch, pending, inflight,
                 sampling, fenced, vtestVars, historyVars>>

MutRecvForever == FALSE /\ UNCHANGED vars

DispatchGivesUp ==
  /\ dispatch.pc = "waiting"
  /\ Abandon("dispatch")
  /\ dispatch' = [dispatch EXCEPT !.pc = "remember"]
  /\ UNCHANGED <<running, alive, token, res, registered, serving, current, pending, inflight, sampling,
                 fenced, up, acquired, in_use, releases, forgotten>>

\* The id is read again from the token.
remember_presented ==
  /\ dispatch.pc = "remember"
  /\ pending' = pending \cup ({res[dispatch.tok]} \ {0})
  /\ forgotten' = forgotten \cup ({dispatch.id} \ {0, res[dispatch.tok]})
  /\ dispatch' = Idle
  /\ UNCHANGED <<running, alive, token, res, registered, serving, current, inflight, sampling, fenced,
                 vtestVars, late>>

\* A render pass begins: wait for the fence of the frame before, then release.
Release(ids) ==
  /\ releases' = IF up THEN releases \o SetToSeq(ids) ELSE releases
  /\ Len(releases') <= Backlog

tvg_scanout_begin_frame ==
  /\ running /\ dispatch.pc = "idle"
  /\ dispatch' = [Idle EXCEPT !.pc = "frame"]
  /\ sampling' = IF fenced THEN {} ELSE sampling
  /\ fenced' = FALSE
  /\ Release(inflight) /\ inflight' = {}
  /\ UNCHANGED <<running, alive, token, res, registered, serving, current, pending,
                 up, presents, acquired, in_use, historyVars>>

Drawn == IF current = None THEN {} ELSE {current}

MutEndFrameDropsPending ==
  /\ dispatch.pc = "frame"
  /\ dispatch' = Idle
  /\ sampling' = sampling \cup Drawn /\ fenced' = TRUE
  /\ inflight' = inflight /\ pending' = {}
  /\ UNCHANGED <<running, alive, token, res, registered, serving, current, vtestVars, historyVars>>

tvg_scanout_end_frame ==
  /\ dispatch.pc = "frame"
  /\ dispatch' = Idle
  /\ sampling' = sampling \cup Drawn /\ fenced' = TRUE
  /\ inflight' = inflight \cup pending /\ pending' = {}
  /\ UNCHANGED <<running, alive, token, res, registered, serving, current, vtestVars, historyVars>>

\* eglMakeCurrent fails before anything is drawn, or eglSwapBuffers after.
FrameFails ==
  /\ dispatch.pc = "frame"
  /\ dispatch' = Idle
  /\ sampling' \in {sampling, sampling \cup Drawn}
  /\ UNCHANGED <<running, alive, token, res, registered, serving, current, pending, inflight, fenced,
                 vtestVars, historyVars>>

GpuFinishes ==
  /\ sampling # {}
  /\ sampling' = {}
  /\ UNCHANGED <<running, alive, token, res, registered, serving, dispatch, current, pending, inflight,
                 fenced, vtestVars, historyVars>>

-----------------------------------------------------------------------------
(* The vtest server: one thread for presents, one for releases.            *)

\* The AHB is taken when it is free, or after 500 ms whoever has it.
vtest_server_present_acquire ==
  /\ presents # <<>> /\ acquired = "no"
  /\ LET p == Head(presents) IN
       /\ acquired' = IF in_use[p.id] = "free" THEN "free" ELSE "forced"
       /\ in_use' = [in_use EXCEPT ![p.id] = p.from]
  /\ UNCHANGED <<hostVars, up, presents, releases, historyVars>>

\* The blit, and the answer to a caller that still waits.
vtest_server_dispatch_presents ==
  /\ presents # <<>> /\ acquired # "no"
  /\ acquired' = "no" /\ presents' = Tail(presents)
  /\ LET p == Head(presents) IN
       /\ dispatch' = IF p.from = "dispatch" /\ ~p.late THEN [dispatch EXCEPT !.pc = "remember"]
                      ELSE dispatch
       /\ serving' = IF p.from = "server" /\ ~p.late THEN None ELSE serving
  /\ UNCHANGED <<running, alive, token, res, registered, current, pending, inflight, sampling, fenced,
                 up, in_use, releases, historyVars>>

vtest_server_release_ahb ==
  /\ releases # <<>>
  /\ in_use' = [in_use EXCEPT ![Head(releases)] = "free"]
  /\ releases' = Tail(releases)
  /\ UNCHANGED <<hostVars, up, presents, acquired, historyVars>>

\* Every connection is reset, so a waiting recv returns.
VtestDies ==
  /\ up
  /\ up' = FALSE
  /\ presents' = <<>> /\ releases' = <<>> /\ acquired' = "no"
  /\ in_use' = [id \in Resources |-> "free"]
  /\ dispatch' = IF dispatch.pc = "waiting" THEN [dispatch EXCEPT !.pc = "remember"] ELSE dispatch
  /\ serving' = None
  /\ UNCHANGED <<running, alive, token, res, registered, current, pending, inflight, sampling, fenced, historyVars>>

VtestStarts ==
  /\ ~up
  /\ up' = TRUE
  /\ UNCHANGED <<hostVars, presents, acquired, in_use, releases, historyVars>>

-----------------------------------------------------------------------------

Init ==
  /\ running = TRUE /\ alive = TRUE
  /\ token = [t \in Tokens |-> "none"] /\ res = [t \in Tokens |-> 0] /\ registered = {}
  /\ serving = None /\ dispatch = Idle /\ current = None
  /\ pending = {} /\ inflight = {} /\ sampling = {} /\ fenced = FALSE
  /\ up \in BOOLEAN /\ presents = <<>> /\ acquired = "no"
  /\ in_use = [id \in Resources |-> "free"] /\ releases = <<>>
  /\ late = {} /\ forgotten = {}

Service ==
  \/ \E t \in Tokens : alloc_token(t) \/ \E id \in Resources : register_token(t, id)
  \/ ServerGivesUp \/ server_main_returns

Dispatch ==
  \/ tvg_scanout_start \/ tvg_scanout_stop \/ StopFrees
  \/ \E t \in Tokens : tvg_scanout_present_fd(t)
  \/ CommitOtherBuffer \/ DispatchGivesUp \/ remember_presented
  \/ tvg_scanout_begin_frame \/ tvg_scanout_end_frame \/ FrameFails

Vtest ==
  \/ vtest_server_present_acquire \/ vtest_server_dispatch_presents
  \/ vtest_server_release_ahb \/ VtestDies \/ VtestStarts

Next == Service \/ Dispatch \/ GpuFinishes \/ Vtest

Spec == Init /\ [][Next]_vars

-----------------------------------------------------------------------------

\* The shapes of the service's and of the vtest server's state.
TypeOK ==
  /\ {running, alive, fenced, up} \subseteq BOOLEAN
  /\ token \in [Tokens -> {"none", "live", "freed"}] /\ res \in [Tokens -> {0} \cup Resources]
  /\ serving \in Tokens \cup {None} /\ current \in Tokens \cup {None}
  /\ dispatch.pc \in {"idle", "waiting", "remember", "frame", "joining", "stopped"}
  /\ sampling \subseteq Tokens
  /\ pending \cup inflight \cup registered \cup late \cup forgotten \subseteq Resources
  /\ in_use \in [Resources -> {"free", "dispatch", "server"}]
  /\ acquired \in {"no", "free", "forced"} /\ Len(releases) <= Backlog

\* tvg_scanout.c present_fd, remember_presented: whichever resource the vtest server
\* holds for a commit is on a list of the host, or about to be, or its release is on
\* the way, so its next blit need not time out.  The code breaks this in three ways,
\* and the histories name the resources: the host stopped waiting for the present,
\* the token got another id between the present and remember_presented, which reads
\* the id again, or a stop discarded the lists.
PresentedIsOwed ==
  \A id \in Resources \ (late \cup forgotten) :
    in_use[id] = "dispatch" =>
      \/ id \in pending \cup inflight
      \/ dispatch.pc \in {"waiting", "remember"} /\ dispatch.id = id
      \/ \E i \in DOMAIN releases : releases[i] = id

\* tvg_scanout.c send_present: a commit's wait for the blit ends, although only
\* the waiting thread itself could send the release the vtest server waits for.
CommitReturns == dispatch.pc = "waiting" ~> dispatch.pc = "idle"

\* virgl-host patch 0013, vtest_server.h: vtest_server_release_ahb is "Called by the
\* present service when the host has finished sampling the AHB."
ReleasedIsUnsampled ==
  [][\A t \in sampling : ~(vtest_server_release_ahb /\ Head(releases) = res[t])]_vars
=============================================================================
