---------------------------- MODULE OutputRepaint ----------------------------
(***************************************************************************)
(* Output repaint and wl_surface.frame delivery of the Wayland host.       *)
(*                                                                         *)
(* One thread, dispatch_loop(), owns everything here.  An iteration drains *)
(* the Wayland event loop, drains the command queue filled by JNI threads, *)
(* and then composes one frame if a repaint is needed and ready.  The four *)
(* repaint_* flags of struct wayland_server are the record `repaint'.      *)
(* Buffers are reduced to whether a surface has one: SurfaceBuffers models *)
(* their life cycle.                                                       *)
(***************************************************************************)
EXTENDS Naturals, FiniteSets

CONSTANTS
  Surfaces,         \* wl_surface objects, all created at the start
  Children,         \* the ones that may be given the subsurface role
  Callbacks,        \* wl_callback ids a client may have outstanding
  NoSurface,        \* the NULL struct compositor_surface pointer
  MaxEglFailures    \* bound on failing eglMakeCurrent/eglSwapBuffers calls

ASSUME OutputAssumption ==
  /\ NoSurface \notin Surfaces
  /\ Children \subseteq Surfaces
  /\ MaxEglFailures \in Nat

VARIABLES
  phase,            \* where dispatch_loop stands
  woken,            \* the event loop has handled an event in this call
  repaint,          \* repaint_needed, _scheduled, _ready, _rendering
  renderer,         \* a renderer is attached to an Android window
  live,             \* surfaces whose resource exists
  current,          \* surfaces with a committed buffer
  mapped,           \* surfaces whose mapped flag is set
  attached,         \* what wl_surface.attach left pending, per surface
  parent,           \* subsurface parent, per surface
  cursor_surface, cursor_visible,
  damaged,          \* surfaces whose damaged flag is set
  pending_cb, committed_cb, presented_cb,   \* the three callback lists
  failures          \* EGL failures so far

flowVars == <<phase, woken>>
roleVars == <<parent, cursor_surface, cursor_visible>>
bufferVars == <<live, current, mapped, attached>>
callbackVars == <<pending_cb, committed_cb, presented_cb>>
vars == <<flowVars, repaint, renderer, bufferVars, roleVars, damaged,
          callbackVars, failures>>

Attachments == {"none", "same", "other", "null"}
Flags == [needed : BOOLEAN, scheduled : BOOLEAN, ready : BOOLEAN,
          rendering : BOOLEAN]

-----------------------------------------------------------------------------
(* Repaint scheduling: compositor.c.  timerfd_settime may fail, so the     *)
(* operators return the set of possible outcomes.                          *)

\* Definitions named Mut... are faulty variants, used only to show that the
\* properties notice them.
MutScheduleTrustsTimer(r) ==
  IF r.scheduled \/ r.ready \/ r.rendering THEN {r}
  ELSE {r, [r EXCEPT !.scheduled = TRUE]}

schedule_repaint(r) ==
  IF r.scheduled \/ r.ready \/ r.rendering
  THEN {r}
  ELSE {[r EXCEPT !.scheduled = TRUE], [r EXCEPT !.ready = TRUE]}

MutRequestWithoutSchedule(r) == {[r EXCEPT !.needed = TRUE]}

request_render(r) == schedule_repaint([r EXCEPT !.needed = TRUE])

repaint_failed(r) ==
  schedule_repaint([r EXCEPT !.rendering = FALSE, !.ready = FALSE])

frame_presented(r) ==
  LET idle == [r EXCEPT !.rendering = FALSE, !.ready = FALSE]
  IN IF r.needed THEN schedule_repaint(idle) ELSE {idle}

begin_repaint(r) ==
  [r EXCEPT !.needed = FALSE, !.ready = FALSE, !.rendering = TRUE]

-----------------------------------------------------------------------------
(* Which surfaces an output composition contains.                          *)

\* The smallest set that holds the parent of s and the parents of its members.
Ancestors(s) ==
  {p \in Surfaces : \A C \in SUBSET Surfaces :
     (\A q \in C \cup {s} : parent[q] # NoSurface => parent[q] \in C) => p \in C}

surface_participates_in_output(s) ==
  /\ s \in mapped \cap current
  /\ \/ s = cursor_surface /\ cursor_visible
     \/ /\ s # cursor_surface
        /\ \A p \in Ancestors(s) : p \in mapped \cap current /\ p # cursor_surface

-----------------------------------------------------------------------------
(* Client requests and other sources handled by wl_event_loop_dispatch.    *)

InDispatch == phase = "dispatch" /\ woken' = TRUE /\ UNCHANGED phase

create_surface(s) ==
  /\ InDispatch
  /\ s \notin live
  /\ live' = live \cup {s}
  /\ UNCHANGED <<repaint, renderer, current, mapped, attached, roleVars, damaged,
                 callbackVars, failures>>

\* "same" is a buffer equal to the committed one, "other" any other buffer.
surface_attach(s, what) ==
  /\ InDispatch
  /\ s \in live
  /\ what = "same" => s \in current
  /\ attached' = [attached EXCEPT ![s] = what]
  /\ UNCHANGED <<repaint, renderer, live, current, mapped, roleVars, damaged,
                 callbackVars, failures>>

surface_damage(s) ==
  /\ InDispatch
  /\ s \in live
  /\ damaged' = damaged \cup {s}
  /\ UNCHANGED <<repaint, renderer, bufferVars, roleVars, callbackVars, failures>>

InFlight == UNION {pending_cb[s] \cup committed_cb[s] \cup presented_cb[s] :
                     s \in Surfaces}

surface_frame(s, c) ==
  /\ InDispatch
  /\ s \in live
  /\ c \notin InFlight
  /\ pending_cb' = [pending_cb EXCEPT ![s] = @ \cup {c}]
  /\ UNCHANGED <<repaint, renderer, bufferVars, roleVars, damaged, committed_cb,
                 presented_cb, failures>>

\* buffer_changed of trierarch_surface_commit: the pending state differs from
\* the committed one.
BufferChanged(s) ==
  \/ attached[s] = "other"
  \/ attached[s] = "null" /\ s \in current

MutCommitForgetsCallbacks(s) == s \in damaged \/ BufferChanged(s)

CommitNeedsRender(s) ==
  s \in damaged \/ BufferChanged(s) \/ pending_cb[s] # {}

trierarch_surface_commit(s) ==
  /\ InDispatch
  /\ s \in live
  /\ committed_cb' = [committed_cb EXCEPT ![s] = @ \cup pending_cb[s]]
  /\ pending_cb' = [pending_cb EXCEPT ![s] = {}]
  /\ attached' = [attached EXCEPT ![s] = "none"]
  /\ IF BufferChanged(s)
     THEN /\ current' = IF attached[s] = "null" THEN current \ {s} ELSE current \cup {s}
          /\ mapped' = IF attached[s] = "null" THEN mapped \ {s} ELSE mapped \cup {s}
          /\ damaged' = damaged \cup {s}
     ELSE UNCHANGED <<current, mapped, damaged>>
  /\ repaint' \in IF CommitNeedsRender(s) THEN request_render(repaint) ELSE {repaint}
  /\ UNCHANGED <<renderer, live, roleVars, presented_cb, failures>>

surface_resource_destroy(s) ==
  /\ InDispatch
  /\ s \in live
  /\ live' = live \ {s}
  /\ current' = current \ {s}
  /\ mapped' = mapped \ {s}
  /\ damaged' = damaged \ {s}
  /\ attached' = [attached EXCEPT ![s] = "none"]
  /\ parent' = [p \in Surfaces |-> IF p = s \/ parent[p] = s THEN NoSurface
                                  ELSE parent[p]]
  /\ cursor_surface' = IF cursor_surface = s THEN NoSurface ELSE cursor_surface
  /\ pending_cb' = [pending_cb EXCEPT ![s] = {}]
  /\ committed_cb' = [committed_cb EXCEPT ![s] = {}]
  /\ presented_cb' = [presented_cb EXCEPT ![s] = {}]
  /\ repaint' \in request_render(repaint)
  /\ UNCHANGED <<renderer, cursor_visible, failures>>

\* A layer surface that loses its role is unmapped but keeps its buffer.
layer_surface_resource_destroy(s) ==
  /\ InDispatch
  /\ s \in live
  /\ mapped' = mapped \ {s}
  /\ repaint' \in request_render(repaint)
  /\ UNCHANGED <<renderer, live, current, attached, roleVars, damaged,
                 callbackVars, failures>>

\* The client keeps the parent relation acyclic, as the protocol requires;
\* get_subsurface itself only refuses a surface that is its own parent.
subcompositor_get_subsurface(s, p) ==
  /\ InDispatch
  /\ s \in live \cap Children
  /\ p \in live \ {s}
  /\ parent[s] = NoSurface
  /\ s \notin Ancestors(p)
  /\ parent' = [parent EXCEPT ![s] = p]
  /\ UNCHANGED <<repaint, renderer, bufferVars, cursor_surface, cursor_visible,
                 damaged, callbackVars, failures>>

subsurface_resource_destroy(s) ==
  /\ InDispatch
  /\ parent[s] # NoSurface
  /\ parent' = [parent EXCEPT ![s] = NoSurface]
  /\ UNCHANGED <<repaint, renderer, bufferVars, cursor_surface, cursor_visible,
                 damaged, callbackVars, failures>>

\* c is NoSurface for a hidden cursor or a surface of another client.
pointer_set_cursor(c) ==
  /\ InDispatch
  /\ c \in live \cup {NoSurface}
  /\ cursor_surface' = c
  /\ repaint' \in request_render(repaint)
  /\ UNCHANGED <<renderer, bufferVars, parent, cursor_visible, damaged,
                 callbackVars, failures>>

repaint_timer_fired ==
  /\ InDispatch
  /\ repaint.scheduled
  /\ repaint' = [repaint EXCEPT !.scheduled = FALSE,
                   !.ready = @ \/ (repaint.needed /\ ~repaint.rendering)]
  /\ UNCHANGED <<renderer, bufferVars, roleVars, damaged, callbackVars, failures>>

\* The one-second telemetry timer and the eventfd written by JNI threads:
\* neither changes state, both let a blocked dispatch return.
drain_counter_fd ==
  /\ InDispatch
  /\ ~woken
  /\ UNCHANGED <<repaint, renderer, bufferVars, roleVars, damaged, callbackVars,
                 failures>>

-----------------------------------------------------------------------------
(* dispatch_loop: commands queued by JNI threads, then at most one frame.  *)

EndDispatch ==
  /\ phase = "dispatch" /\ woken
  /\ phase' = "commands" /\ woken' = FALSE
  /\ UNCHANGED <<repaint, renderer, bufferVars, roleVars, damaged, callbackVars,
                 failures>>

\* A new window may fail to give a renderer; detaching never gives one.
replace_renderer(ok) ==
  /\ phase = "commands"
  /\ renderer' = ok
  /\ repaint' \in IF ok THEN request_render(repaint) ELSE {repaint}
  /\ UNCHANGED <<flowVars, bufferVars, roleVars, damaged, callbackVars, failures>>

\* Pointer motion and output resizing only ask for a repaint.
HostRequestsRender ==
  /\ phase = "commands"
  /\ repaint' \in request_render(repaint)
  /\ UNCHANGED <<flowVars, renderer, bufferVars, roleVars, damaged, callbackVars,
                 failures>>

MutCursorVisibleNoRepaint(v) ==
  /\ phase = "commands"
  /\ v # cursor_visible
  /\ cursor_visible' = v
  /\ UNCHANGED <<flowVars, renderer, repaint, bufferVars, parent, cursor_surface,
                 damaged, callbackVars, failures>>

pointer_set_cursor_visible(v) ==
  /\ phase = "commands"
  /\ v # cursor_visible
  /\ cursor_visible' = v
  /\ repaint' \in request_render(repaint)
  /\ UNCHANGED <<flowVars, renderer, bufferVars, parent, cursor_surface, damaged,
                 callbackVars, failures>>

EndCommands ==
  /\ phase = "commands"
  /\ phase' = "repaint"
  /\ UNCHANGED <<woken, repaint, renderer, bufferVars, roleVars, damaged,
                 callbackVars, failures>>

MayBegin == renderer /\ repaint.needed /\ repaint.ready /\ ~repaint.rendering

BeginRepaint ==
  /\ phase = "repaint" /\ MayBegin
  /\ phase' = "compose"
  /\ repaint' = begin_repaint(repaint)
  /\ UNCHANGED <<woken, renderer, bufferVars, roleVars, damaged, callbackVars,
                 failures>>

SkipRepaint ==
  /\ phase = "repaint" /\ ~MayBegin
  /\ phase' = "dispatch"
  /\ UNCHANGED <<woken, repaint, renderer, bufferVars, roleVars, damaged,
                 callbackVars, failures>>

MakeCurrentFails ==
  /\ phase = "compose" /\ failures < MaxEglFailures
  /\ phase' = "dispatch"
  /\ failures' = failures + 1
  /\ repaint' \in repaint_failed(repaint)
  /\ UNCHANGED <<woken, renderer, bufferVars, roleVars, damaged, callbackVars>>

MutComposeLatchesAll ==
  /\ phase = "compose"
  /\ phase' = "swap"
  /\ presented_cb' = [s \in Surfaces |-> presented_cb[s] \cup committed_cb[s]]
  /\ committed_cb' = [s \in Surfaces |-> {}]
  /\ UNCHANGED <<woken, repaint, renderer, bufferVars, roleVars, damaged,
                 pending_cb, failures>>

\* Draw every participating surface, then latch their committed callbacks.
Compose ==
  /\ phase = "compose"
  /\ phase' = "swap"
  /\ presented_cb' = [s \in Surfaces |->
       IF surface_participates_in_output(s) THEN presented_cb[s] \cup committed_cb[s]
       ELSE presented_cb[s]]
  /\ committed_cb' = [s \in Surfaces |->
       IF surface_participates_in_output(s) THEN {} ELSE committed_cb[s]]
  /\ UNCHANGED <<woken, repaint, renderer, bufferVars, roleVars, damaged,
                 pending_cb, failures>>

SwapFails ==
  /\ phase = "swap" /\ failures < MaxEglFailures
  /\ phase' = "dispatch"
  /\ failures' = failures + 1
  /\ committed_cb' = [s \in Surfaces |-> committed_cb[s] \cup presented_cb[s]]
  /\ presented_cb' = [s \in Surfaces |-> {}]
  /\ repaint' \in repaint_failed(repaint)
  /\ UNCHANGED <<woken, renderer, bufferVars, roleVars, damaged, pending_cb>>

SwapSucceeds ==
  /\ phase = "swap"
  /\ phase' = "dispatch"
  /\ damaged' = {}
  /\ presented_cb' = [s \in Surfaces |-> {}]
  /\ repaint' \in frame_presented(repaint)
  /\ UNCHANGED <<woken, renderer, bufferVars, roleVars, pending_cb, committed_cb,
                 failures>>

-----------------------------------------------------------------------------
Init ==
  /\ phase = "dispatch" /\ woken = FALSE
  /\ repaint = [needed |-> FALSE, scheduled |-> FALSE, ready |-> FALSE,
                rendering |-> FALSE]
  /\ renderer = FALSE
  /\ live = {} /\ current = {} /\ mapped = {}
  /\ attached = [s \in Surfaces |-> "none"]
  /\ parent = [s \in Surfaces |-> NoSurface]
  /\ cursor_surface = NoSurface /\ cursor_visible = TRUE
  /\ damaged = {}
  /\ pending_cb = [s \in Surfaces |-> {}]
  /\ committed_cb = [s \in Surfaces |-> {}]
  /\ presented_cb = [s \in Surfaces |-> {}]
  /\ failures = 0

ClientRequest ==
  \E s \in Surfaces :
    \/ create_surface(s)
    \/ \E what \in Attachments \ {"none"} : surface_attach(s, what)
    \/ surface_damage(s)
    \/ \E c \in Callbacks : surface_frame(s, c)
    \/ trierarch_surface_commit(s)
    \/ surface_resource_destroy(s)
    \/ layer_surface_resource_destroy(s)
    \/ \E p \in Surfaces : subcompositor_get_subsurface(s, p)
    \/ subsurface_resource_destroy(s)

HostCommand ==
  \/ \E ok \in BOOLEAN : replace_renderer(ok)
  \/ HostRequestsRender
  \/ \E v \in BOOLEAN : pointer_set_cursor_visible(v)

Next ==
  \/ ClientRequest
  \/ \E c \in Surfaces \cup {NoSurface} : pointer_set_cursor(c)
  \/ repaint_timer_fired
  \/ drain_counter_fd
  \/ EndDispatch
  \/ HostCommand
  \/ EndCommands
  \/ BeginRepaint
  \/ SkipRepaint
  \/ MakeCurrentFails
  \/ Compose
  \/ SwapFails
  \/ SwapSucceeds

Spec == Init /\ [][Next]_vars

\* The dispatcher never stops between two steps of an iteration, the event
\* loop hands over an expired repaint timer in the call that finds it, and the
\* telemetry timer expires every second.  Nothing is assumed of clients, of
\* JNI threads or of EGL.
Fairness ==
  /\ WF_vars(EndDispatch)
  /\ WF_vars(drain_counter_fd)
  /\ SF_vars(repaint_timer_fired)
  /\ WF_vars(EndCommands)
  /\ WF_vars(BeginRepaint \/ SkipRepaint)
  /\ WF_vars(Compose)
  /\ WF_vars(SwapSucceeds)

FairSpec == Spec /\ Fairness

-----------------------------------------------------------------------------
\* The repaint flags and callback lists keep the shapes the structs declare.
TypeOK ==
  /\ phase \in {"dispatch", "commands", "repaint", "compose", "swap"}
  /\ woken \in BOOLEAN
  /\ repaint \in Flags
  /\ renderer \in BOOLEAN
  /\ live \subseteq Surfaces /\ current \subseteq live /\ mapped \subseteq current
  /\ attached \in [Surfaces -> Attachments]
  /\ parent \in [Surfaces -> Surfaces \cup {NoSurface}]
  /\ cursor_surface \in Surfaces \cup {NoSurface}
  /\ cursor_visible \in BOOLEAN
  /\ damaged \subseteq live
  /\ pending_cb \in [Surfaces -> SUBSET Callbacks]
  /\ committed_cb \in [Surfaces -> SUBSET Callbacks]
  /\ presented_cb \in [Surfaces -> SUBSET Callbacks]
  /\ failures \in 0..MaxEglFailures

\* A repaint somebody asked for is never forgotten: while repaint_needed is
\* set, a timer is armed, a frame is ready, or one is being rendered, whatever
\* mixture of commits, timer expiries, timer failures and failed swaps led
\* there (request_render, repaint_timer_fired, frame_presented).
NeverForgotten ==
  repaint.needed => repaint.scheduled \/ repaint.ready \/ repaint.rendering

\* repaint_rendering is set exactly while trierarch_renderer_render runs; both
\* of its exits clear it, so a failed frame cannot block every later one.
RenderingOnlyInRender == repaint.rendering <=> phase \in {"compose", "swap"}

\* Callbacks latched for a composition are completed or put back before the
\* dispatcher looks at client requests again: none stays captured by a frame
\* that is over (latch, requeue and send_frame_callbacks in surface.c).
NothingLeftLatched ==
  phase # "swap" => \A s \in Surfaces : presented_cb[s] = {}

\* A surface that takes part in the output and still owes its client a frame
\* callback has a repaint coming (request_render calls of commit, set_cursor,
\* set_cursor_visible, surface and layer destruction).
FrameOwedIsScheduled ==
  \A s \in Surfaces :
    surface_participates_in_output(s) /\ committed_cb[s] \cup presented_cb[s] # {} =>
      repaint.needed \/ repaint.rendering

\* "A later commit cannot be completed by this swap": a callback leaves the
\* committed list for its done event only in a frame that composed its surface.
DoneOnlyWhenComposed ==
  [][\A s \in Surfaces :
       SwapSucceeds /\ presented_cb[s] # {} => surface_participates_in_output(s)]_vars

\* A client waiting for a frame callback of a surface that stays on the output
\* gets it, even when it sends nothing more.
CallbackIsDelivered ==
  \A s \in Surfaces : \A c \in Callbacks :
    c \in committed_cb[s] ~>
      c \notin committed_cb[s] \cup presented_cb[s]
        \/ ~surface_participates_in_output(s) \/ ~renderer
=============================================================================
