------------------------- MODULE OutputRepaintProofs -------------------------
(***************************************************************************)
(* Proofs about OutputRepaint for any number of surfaces, callbacks and    *)
(* EGL failures.                                                           *)
(***************************************************************************)
EXTENDS OutputContent, TLAPS

-----------------------------------------------------------------------------
(* The repaint flag operators.                                             *)

\* What schedule_repaint guarantees: the other flags keep their values, and a
\* frame that is not already under way ends up scheduled or ready.
LEMMA ScheduleResult ==
  ASSUME NEW r \in Flags, NEW q \in schedule_repaint(r)
  PROVE  /\ q \in Flags
         /\ q.needed = r.needed /\ q.rendering = r.rendering
         /\ q.scheduled \/ q.ready \/ q.rendering
<1>1. CASE r.scheduled \/ r.ready \/ r.rendering
  BY <1>1 DEF schedule_repaint, Flags
<1>2. CASE ~(r.scheduled \/ r.ready \/ r.rendering)
  BY <1>2 DEF schedule_repaint, Flags
<1> QED BY <1>1, <1>2

\* What request_render guarantees: the request is recorded and under way.
LEMMA RequestResult ==
  ASSUME NEW r \in Flags, NEW q \in request_render(r)
  PROVE  /\ q \in Flags
         /\ q.needed /\ q.rendering = r.rendering
         /\ q.scheduled \/ q.ready \/ q.rendering
<1> DEFINE n == [r EXCEPT !.needed = TRUE]
<1>1. n \in Flags /\ n.needed /\ n.rendering = r.rendering
  BY DEF Flags
<1>2. q \in schedule_repaint(n)
  BY DEF request_render
<1> HIDE DEF n
<1> QED BY <1>1, <1>2, ScheduleResult

\* A failed frame clears repaint_rendering and keeps repaint_needed.
LEMMA FailedResult ==
  ASSUME NEW r \in Flags, NEW q \in repaint_failed(r)
  PROVE  /\ q \in Flags
         /\ q.needed = r.needed /\ ~q.rendering
         /\ q.scheduled \/ q.ready
<1> DEFINE n == [r EXCEPT !.rendering = FALSE, !.ready = FALSE]
<1>1. n \in Flags /\ n.needed = r.needed /\ ~n.rendering
  BY DEF Flags
<1>2. q \in schedule_repaint(n)
  BY DEF repaint_failed
<1> HIDE DEF n
<1> QED BY <1>1, <1>2, ScheduleResult

\* A presented frame clears repaint_rendering; a request that is still
\* pending is under way again.
LEMMA PresentedResult ==
  ASSUME NEW r \in Flags, NEW q \in frame_presented(r)
  PROVE  /\ q \in Flags
         /\ q.needed = r.needed /\ ~q.rendering
         /\ q.needed => q.scheduled \/ q.ready
<1> DEFINE n == [r EXCEPT !.rendering = FALSE, !.ready = FALSE]
<1>1. n \in Flags /\ n.needed = r.needed /\ ~n.rendering
  BY DEF Flags
<1>2. q \in IF r.needed THEN schedule_repaint(n) ELSE {n}
  BY DEF frame_presented
<1> HIDE DEF n
<1> QED BY <1>1, <1>2, ScheduleResult

-----------------------------------------------------------------------------
(* Type correctness.                                                       *)

\* Every variable keeps its type; in particular a mapped surface has a buffer
\* and a damaged or buffered surface is alive.
THEOREM TypeCorrect == Spec => []TypeOK
<1>1. Init => TypeOK
  <2> SUFFICES ASSUME Init PROVE TypeOK
    OBVIOUS
  <2>1. repaint \in Flags
    BY DEF Init, Flags
  <2>2. attached \in [Surfaces -> Attachments]
    BY DEF Init, Attachments
  <2>3. failures \in 0..MaxEglFailures
    BY OutputAssumption DEF Init
  <2> QED BY <2>1, <2>2, <2>3 DEF Init, TypeOK
<1>2. TypeOK /\ [Next]_vars => TypeOK'
  <2> SUFFICES ASSUME TypeOK, [Next]_vars PROVE TypeOK'
    OBVIOUS
  <2> USE OutputAssumption DEF bufferVars, roleVars, callbackVars, flowVars
  <2>1. ASSUME NEW s \in Surfaces, create_surface(s) PROVE TypeOK'
    BY <2>1 DEF TypeOK, create_surface, InDispatch
  <2>2. ASSUME NEW s \in Surfaces, NEW what \in Attachments \ {"none"},
               surface_attach(s, what)
        PROVE  TypeOK'
    BY <2>2 DEF TypeOK, surface_attach, InDispatch
  <2>3. ASSUME NEW s \in Surfaces, surface_damage(s) PROVE TypeOK'
    BY <2>3 DEF TypeOK, surface_damage, InDispatch
  <2>4. ASSUME NEW s \in Surfaces, NEW c \in Callbacks, surface_frame(s, c)
        PROVE  TypeOK'
    BY <2>4 DEF TypeOK, surface_frame, InDispatch
  <2>5. ASSUME NEW s \in Surfaces, trierarch_surface_commit(s) PROVE TypeOK'
    <3>1. repaint' \in Flags
      BY <2>5, RequestResult DEF trierarch_surface_commit, TypeOK
    <3>2. /\ current' \subseteq live' /\ mapped' \subseteq current'
          /\ damaged' \subseteq live' /\ live' \subseteq Surfaces
      BY <2>5 DEF TypeOK, trierarch_surface_commit
    <3>3. /\ attached' \in [Surfaces -> Attachments]
          /\ pending_cb' \in [Surfaces -> SUBSET Callbacks]
          /\ committed_cb' \in [Surfaces -> SUBSET Callbacks]
      BY <2>5 DEF TypeOK, trierarch_surface_commit, Attachments
    <3> QED
      BY <2>5, <3>1, <3>2, <3>3 DEF TypeOK, trierarch_surface_commit, InDispatch
  <2>6. ASSUME NEW s \in Surfaces, surface_resource_destroy(s) PROVE TypeOK'
    <3>1. repaint' \in Flags
      BY <2>6, RequestResult DEF surface_resource_destroy, TypeOK
    <3>2. /\ current' \subseteq live' /\ mapped' \subseteq current'
          /\ damaged' \subseteq live' /\ live' \subseteq Surfaces
      BY <2>6 DEF TypeOK, surface_resource_destroy
    <3>3. /\ attached' \in [Surfaces -> Attachments]
          /\ parent' \in [Surfaces -> Surfaces \cup {NoSurface}]
          /\ pending_cb' \in [Surfaces -> SUBSET Callbacks]
          /\ committed_cb' \in [Surfaces -> SUBSET Callbacks]
          /\ presented_cb' \in [Surfaces -> SUBSET Callbacks]
      BY <2>6 DEF TypeOK, surface_resource_destroy, Attachments
    <3> QED
      BY <2>6, <3>1, <3>2, <3>3 DEF TypeOK, surface_resource_destroy, InDispatch
  <2>7. ASSUME NEW s \in Surfaces, layer_surface_resource_destroy(s) PROVE TypeOK'
    BY <2>7, RequestResult DEF TypeOK, layer_surface_resource_destroy, InDispatch
  <2>8. ASSUME NEW s \in Surfaces, NEW p \in Surfaces,
               subcompositor_get_subsurface(s, p)
        PROVE  TypeOK'
    BY <2>8 DEF TypeOK, subcompositor_get_subsurface, InDispatch
  <2>9. ASSUME NEW s \in Surfaces, subsurface_resource_destroy(s) PROVE TypeOK'
    BY <2>9 DEF TypeOK, subsurface_resource_destroy, InDispatch
  <2>10. ASSUME NEW c \in Surfaces \cup {NoSurface}, pointer_set_cursor(c)
         PROVE  TypeOK'
    BY <2>10, RequestResult DEF TypeOK, pointer_set_cursor, InDispatch
  <2>11. ASSUME repaint_timer_fired PROVE TypeOK'
    <3>1. repaint' \in Flags
      BY <2>11 DEF repaint_timer_fired, TypeOK, Flags
    <3> QED BY <2>11, <3>1 DEF TypeOK, repaint_timer_fired, InDispatch
  <2>12. ASSUME drain_counter_fd \/ EndDispatch \/ EndCommands \/ SkipRepaint
         PROVE  TypeOK'
    BY <2>12 DEF TypeOK, drain_counter_fd, EndDispatch, EndCommands, SkipRepaint,
                 InDispatch
  <2>13. ASSUME HostCommand PROVE TypeOK'
    BY <2>13, RequestResult DEF TypeOK, HostCommand, replace_renderer,
       HostRequestsRender, pointer_set_cursor_visible
  <2>14. ASSUME BeginRepaint PROVE TypeOK'
    <3>1. repaint' \in Flags
      BY <2>14 DEF BeginRepaint, begin_repaint, TypeOK, Flags
    <3> QED BY <2>14, <3>1 DEF TypeOK, BeginRepaint
  <2>15. ASSUME MakeCurrentFails PROVE TypeOK'
    BY <2>15, FailedResult DEF TypeOK, MakeCurrentFails
  <2>16. ASSUME Compose PROVE TypeOK'
    BY <2>16 DEF TypeOK, Compose
  <2>17. ASSUME SwapFails PROVE TypeOK'
    BY <2>17, FailedResult DEF TypeOK, SwapFails
  <2>18. ASSUME SwapSucceeds PROVE TypeOK'
    BY <2>18, PresentedResult DEF TypeOK, SwapSucceeds
  <2>19. ASSUME UNCHANGED vars PROVE TypeOK'
    BY <2>19 DEF TypeOK, vars
  <2> QED
    BY <2>1, <2>2, <2>3, <2>4, <2>5, <2>6, <2>7, <2>8, <2>9, <2>10, <2>11, <2>12,
       <2>13, <2>14, <2>15, <2>16, <2>17, <2>18, <2>19 DEF Next, ClientRequest
<1> QED BY <1>1, <1>2, PTL DEF Spec

-----------------------------------------------------------------------------
(* Repaint requests.                                                       *)

RepaintInv == NeverForgotten /\ RenderingOnlyInRender

\* The two facts about the flags support each other: begin_repaint may clear
\* repaint_needed because a frame is then being rendered, and that frame ends
\* in the two operations that look at repaint_needed again.
LEMMA RepaintInvCorrect == Spec => []RepaintInv
<1>1. Init => RepaintInv
  BY DEF Init, RepaintInv, NeverForgotten, RenderingOnlyInRender
<1>2. TypeOK /\ RepaintInv /\ [Next]_vars => RepaintInv'
  <2> SUFFICES ASSUME TypeOK, RepaintInv, [Next]_vars PROVE RepaintInv'
    OBVIOUS
  <2>t. repaint \in Flags
    BY DEF TypeOK
  <2> USE DEF RepaintInv, NeverForgotten, RenderingOnlyInRender
  <2>1. ASSUME repaint' = repaint \/ repaint' \in request_render(repaint),
               UNCHANGED phase
        PROVE  RepaintInv'
    <3>1. CASE repaint' = repaint
      BY <2>1, <3>1
    <3>2. CASE repaint' \in request_render(repaint)
      BY <2>1, <2>t, <3>2, RequestResult
    <3> QED BY <2>1, <3>1, <3>2
  <2>2. ASSUME ClientRequest PROVE RepaintInv'
    <3>1. (repaint' = repaint \/ repaint' \in request_render(repaint)) /\ UNCHANGED phase
      BY <2>2 DEF ClientRequest, create_surface, surface_attach, surface_damage,
         surface_frame, trierarch_surface_commit, surface_resource_destroy,
         layer_surface_resource_destroy, subcompositor_get_subsurface,
         subsurface_resource_destroy, InDispatch
    <3> QED BY <2>1, <3>1
  <2>3. ASSUME NEW c \in Surfaces \cup {NoSurface}, pointer_set_cursor(c)
        PROVE  RepaintInv'
    BY <2>1, <2>3 DEF pointer_set_cursor, InDispatch
  <2>4. ASSUME repaint_timer_fired PROVE RepaintInv'
    BY <2>4, <2>t DEF repaint_timer_fired, InDispatch, Flags
  <2>5. ASSUME drain_counter_fd \/ EndDispatch \/ EndCommands \/ SkipRepaint
        PROVE  RepaintInv'
    BY <2>5 DEF drain_counter_fd, EndDispatch, EndCommands, SkipRepaint, InDispatch
  <2>6. ASSUME HostCommand PROVE RepaintInv'
    <3>1. (repaint' = repaint \/ repaint' \in request_render(repaint)) /\ UNCHANGED phase
      BY <2>6 DEF HostCommand, replace_renderer, HostRequestsRender,
         pointer_set_cursor_visible, flowVars
    <3> QED BY <2>1, <3>1
  <2>7. ASSUME BeginRepaint PROVE RepaintInv'
    BY <2>7, <2>t DEF BeginRepaint, begin_repaint, Flags
  <2>8. ASSUME MakeCurrentFails \/ SwapFails PROVE RepaintInv'
    <3>1. repaint' \in repaint_failed(repaint) /\ phase' = "dispatch"
      BY <2>8 DEF MakeCurrentFails, SwapFails
    <3> QED BY <3>1, <2>t, FailedResult
  <2>9. ASSUME Compose PROVE RepaintInv'
    BY <2>9 DEF Compose
  <2>10. ASSUME SwapSucceeds PROVE RepaintInv'
    <3>1. repaint' \in frame_presented(repaint) /\ phase' = "dispatch"
      BY <2>10 DEF SwapSucceeds
    <3> QED BY <3>1, <2>t, PresentedResult
  <2>11. ASSUME UNCHANGED vars PROVE RepaintInv'
    BY <2>11 DEF vars, flowVars
  <2> QED
    BY <2>2, <2>3, <2>4, <2>5, <2>6, <2>7, <2>8, <2>9, <2>10, <2>11 DEF Next
<1> QED BY <1>1, <1>2, TypeCorrect, PTL DEF Spec

\* No sequence of commits, timer events, timer failures and failed frames lets
\* the host forget a repaint that was requested (repaint_needed).
THEOREM RepaintNeverForgotten == Spec => []NeverForgotten
<1>1. RepaintInv => NeverForgotten
  BY DEF RepaintInv
<1> QED BY <1>1, RepaintInvCorrect, PTL

\* repaint_rendering is set exactly while trierarch_renderer_render runs.
THEOREM RenderingFlagCorrect == Spec => []RenderingOnlyInRender
<1>1. RepaintInv => RenderingOnlyInRender
  BY DEF RepaintInv
<1> QED BY <1>1, RepaintInvCorrect, PTL

-----------------------------------------------------------------------------
(* Frame callbacks.                                                        *)

\* Callbacks never stay latched once the frame that captured them is over.
THEOREM LatchedOnlyInFrame == Spec => []NothingLeftLatched
<1>1. Init => NothingLeftLatched
  BY DEF Init, NothingLeftLatched
<1>2. TypeOK /\ NothingLeftLatched /\ [Next]_vars => NothingLeftLatched'
  <2> SUFFICES ASSUME TypeOK, NothingLeftLatched, [Next]_vars
               PROVE  NothingLeftLatched'
    OBVIOUS
  <2> USE DEF NothingLeftLatched
  <2>1. ASSUME phase' # "swap", phase # "swap", UNCHANGED presented_cb
        PROVE  NothingLeftLatched'
    BY <2>1
  <2>2. ASSUME NEW s \in Surfaces, surface_resource_destroy(s)
        PROVE  NothingLeftLatched'
    BY <2>2 DEF surface_resource_destroy, TypeOK, InDispatch
  <2>3. ASSUME ClientRequest, ~\E s \in Surfaces : surface_resource_destroy(s)
        PROVE  NothingLeftLatched'
    BY <2>1, <2>3 DEF ClientRequest, create_surface, surface_attach, surface_damage,
       surface_frame, trierarch_surface_commit, layer_surface_resource_destroy,
       subcompositor_get_subsurface, subsurface_resource_destroy, InDispatch,
       callbackVars
  <2>4. ASSUME HostCommand PROVE NothingLeftLatched'
    BY <2>1, <2>4 DEF HostCommand, replace_renderer, HostRequestsRender,
       pointer_set_cursor_visible, flowVars, callbackVars
  <2>5. ASSUME SwapFails \/ SwapSucceeds PROVE NothingLeftLatched'
    BY <2>5 DEF SwapFails, SwapSucceeds
  <2>6. ASSUME Compose PROVE NothingLeftLatched'
    BY <2>6 DEF Compose
  <2>7. ASSUME \/ \E c \in Surfaces \cup {NoSurface} : pointer_set_cursor(c)
               \/ repaint_timer_fired \/ drain_counter_fd \/ EndDispatch
               \/ EndCommands \/ BeginRepaint \/ SkipRepaint \/ MakeCurrentFails
        PROVE  NothingLeftLatched'
    BY <2>1, <2>7 DEF pointer_set_cursor, repaint_timer_fired, drain_counter_fd,
       EndDispatch, EndCommands, BeginRepaint, SkipRepaint, MakeCurrentFails,
       InDispatch, callbackVars
  <2>8. ASSUME UNCHANGED vars PROVE NothingLeftLatched'
    BY <2>8 DEF vars, flowVars, callbackVars
  <2> QED BY <2>2, <2>3, <2>4, <2>5, <2>6, <2>7, <2>8 DEF Next
<1> QED BY <1>1, <1>2, TypeCorrect, PTL DEF Spec

\* What surface_participates_in_output says when no surface has a parent.
OnOutput(s) == s \in mapped \cap current /\ (s = cursor_surface => cursor_visible)

OwedInv ==
  /\ \A s \in Surfaces : parent[s] = NoSurface
  /\ \A s \in Surfaces : OnOutput(s) /\ committed_cb[s] # {} => repaint.needed
                                                          \/ repaint.rendering
  /\ phase = "swap" => \A s \in Surfaces : OnOutput(s) => committed_cb[s] = {}

\* A surface without a parent takes part in the output when it is mapped and is
\* not the hidden cursor.
LEMMA RootParticipates ==
  ASSUME \A q \in Surfaces : parent[q] = NoSurface, NEW s \in Surfaces
  PROVE  surface_participates_in_output(s) <=> OnOutput(s)
<1>1. Ancestors(s) = {}
  <2> SUFFICES ASSUME NEW p \in Ancestors(s) PROVE FALSE
    OBVIOUS
  <2>1. \A C \in SUBSET Surfaces :
          (\A q \in C \cup {s} : parent[q] # NoSurface => parent[q] \in C) => p \in C
    BY DEF Ancestors
  <2>2. {} \in SUBSET Surfaces
    OBVIOUS
  <2>3. \A q \in {} \cup {s} : parent[q] # NoSurface => parent[q] \in {}
    OBVIOUS
  <2>4. p \in {}
    BY <2>1, <2>2, <2>3
  <2> QED BY <2>4
<1> QED BY <1>1 DEF surface_participates_in_output, OnOutput

\* While EGL works and no subsurface is involved, a surface on the output that
\* owes its client a frame callback always has a repaint coming: the client of
\* wl_surface.frame never has to send anything else to be woken.
THEOREM OwedFrameScheduled ==
  ASSUME MaxEglFailures = 0, Children = {}
  PROVE  Spec => []FrameOwedIsScheduled
<1>1. Init => OwedInv
  BY DEF Init, OwedInv, OnOutput
<1>2. /\ TypeOK /\ RepaintInv /\ NothingLeftLatched /\ OwedInv
      /\ [Next]_vars
      => OwedInv'
  <2> SUFFICES ASSUME TypeOK, RepaintInv, NothingLeftLatched, OwedInv, [Next]_vars
               PROVE  OwedInv'
    OBVIOUS
  <2>t. repaint \in Flags
    BY DEF TypeOK
  <2>p. ASSUME UNCHANGED parent PROVE \A s \in Surfaces : parent'[s] = NoSurface
    BY <2>p DEF OwedInv
  \* A step that asks for a repaint settles the obligation of every surface.
  <2>1. ASSUME repaint' \in request_render(repaint), phase' # "swap",
               \A s \in Surfaces : parent'[s] = NoSurface
        PROVE  OwedInv'
    BY <2>1, <2>t, RequestResult DEF OwedInv
  \* So does a step that changes nothing the obligation depends on.
  <2>2. ASSUME UNCHANGED <<repaint, mapped, current, roleVars, committed_cb>>,
               phase' # "swap"
        PROVE  OwedInv'
    BY <2>2 DEF OwedInv, OnOutput, roleVars
  <2>3. ASSUME NEW s \in Surfaces, trierarch_surface_commit(s) PROVE OwedInv'
    <3>1. phase' # "swap" /\ UNCHANGED roleVars /\ UNCHANGED parent
      BY <2>3 DEF trierarch_surface_commit, InDispatch, roleVars
    <3>2. CASE CommitNeedsRender(s)
      BY <2>1, <2>3, <2>p, <3>1, <3>2 DEF trierarch_surface_commit
    <3>3. CASE ~CommitNeedsRender(s)
      <4>1. UNCHANGED <<repaint, mapped, current>>
        BY <2>3, <3>3 DEF trierarch_surface_commit, CommitNeedsRender
      <4>2. committed_cb' = committed_cb
        BY <2>3, <3>3 DEF trierarch_surface_commit, CommitNeedsRender, TypeOK
      <4> QED BY <2>2, <3>1, <4>1, <4>2
    <3> QED BY <3>2, <3>3
  <2>4. ASSUME NEW s \in Surfaces, surface_resource_destroy(s) PROVE OwedInv'
    <3>1. \A q \in Surfaces : parent'[q] = NoSurface
      BY <2>4 DEF surface_resource_destroy, OwedInv
    <3> QED BY <2>1, <2>4, <3>1 DEF surface_resource_destroy, InDispatch
  <2>5. ASSUME NEW s \in Surfaces, layer_surface_resource_destroy(s) PROVE OwedInv'
    BY <2>1, <2>5, <2>p DEF layer_surface_resource_destroy, InDispatch, roleVars
  <2>6. ASSUME NEW s \in Surfaces,
               \/ create_surface(s) \/ surface_damage(s)
               \/ \E what \in Attachments \ {"none"} : surface_attach(s, what)
               \/ \E c \in Callbacks : surface_frame(s, c)
        PROVE  OwedInv'
    BY <2>2, <2>6 DEF create_surface, surface_damage, surface_attach, surface_frame,
       InDispatch, bufferVars, callbackVars
  <2>7. ASSUME NEW s \in Surfaces,
               \/ \E p \in Surfaces : subcompositor_get_subsurface(s, p)
               \/ subsurface_resource_destroy(s)
        PROVE  FALSE
    BY <2>7 DEF subcompositor_get_subsurface, subsurface_resource_destroy, OwedInv
  <2>8. ASSUME NEW c \in Surfaces \cup {NoSurface}, pointer_set_cursor(c)
        PROVE  OwedInv'
    BY <2>1, <2>8, <2>p DEF pointer_set_cursor, InDispatch
  <2>9. ASSUME repaint_timer_fired PROVE OwedInv'
    <3>1. repaint'.needed = repaint.needed /\ repaint'.rendering = repaint.rendering
      BY <2>9, <2>t DEF repaint_timer_fired, Flags
    <3> QED BY <2>9, <3>1 DEF repaint_timer_fired, InDispatch, OwedInv, OnOutput,
               bufferVars, roleVars, callbackVars
  <2>10. ASSUME drain_counter_fd \/ EndDispatch \/ EndCommands \/ SkipRepaint
         PROVE  OwedInv'
    BY <2>2, <2>10 DEF drain_counter_fd, EndDispatch, EndCommands, SkipRepaint,
       InDispatch, bufferVars, callbackVars
  <2>11. ASSUME HostCommand PROVE OwedInv'
    <3>1. phase' # "swap" /\ UNCHANGED parent
      BY <2>11 DEF HostCommand, replace_renderer, HostRequestsRender,
         pointer_set_cursor_visible, flowVars, roleVars
    <3>2. CASE repaint' \in request_render(repaint)
      BY <2>1, <2>p, <3>1, <3>2
    <3>3. CASE replace_renderer(FALSE)
      BY <2>2, <3>1, <3>3 DEF replace_renderer, bufferVars, callbackVars
    <3> QED BY <2>11, <3>2, <3>3 DEF HostCommand, replace_renderer,
               HostRequestsRender, pointer_set_cursor_visible
  <2>12. ASSUME BeginRepaint PROVE OwedInv'
    <3>1. repaint'.rendering
      BY <2>12, <2>t DEF BeginRepaint, begin_repaint, Flags
    <3> QED BY <2>12, <2>p, <3>1 DEF BeginRepaint, OwedInv, roleVars
  <2>13. ASSUME Compose PROVE OwedInv'
    <3>1. repaint'.rendering
      BY <2>13 DEF Compose, RepaintInv, RenderingOnlyInRender
    <3>2. \A s \in Surfaces : OnOutput(s)' => committed_cb'[s] = {}
      <4> SUFFICES ASSUME NEW s \in Surfaces, OnOutput(s)'
                   PROVE  committed_cb'[s] = {}
        OBVIOUS
      <4>1. OnOutput(s)
        BY <2>13 DEF OnOutput, Compose, bufferVars, roleVars
      <4>2. surface_participates_in_output(s)
        BY <4>1, RootParticipates DEF OwedInv
      <4> QED BY <2>13, <4>2 DEF Compose
    <3> QED BY <2>13, <2>p, <3>1, <3>2 DEF OwedInv, Compose, roleVars
  <2>14. ASSUME MakeCurrentFails \/ SwapFails PROVE FALSE
    BY <2>14 DEF MakeCurrentFails, SwapFails, TypeOK
  <2>15. ASSUME SwapSucceeds PROVE OwedInv'
    BY <2>15 DEF SwapSucceeds, OwedInv, OnOutput, bufferVars, roleVars
  <2>16. ASSUME UNCHANGED vars PROVE OwedInv'
    BY <2>16 DEF vars, OwedInv, OnOutput, flowVars, bufferVars, roleVars, callbackVars
  <2> QED
    BY <2>3, <2>4, <2>5, <2>6, <2>7, <2>8, <2>9, <2>10, <2>11, <2>12, <2>13, <2>14,
       <2>15, <2>16 DEF Next, ClientRequest
<1>3. TypeOK /\ RepaintInv /\ NothingLeftLatched /\ OwedInv => FrameOwedIsScheduled
  <2> SUFFICES ASSUME RepaintInv, NothingLeftLatched, OwedInv,
                      NEW s \in Surfaces, surface_participates_in_output(s),
                      committed_cb[s] \cup presented_cb[s] # {}
               PROVE  repaint.needed \/ repaint.rendering
    BY DEF FrameOwedIsScheduled
  <2>1. OnOutput(s)
    BY RootParticipates DEF OwedInv
  <2>2. CASE phase = "swap"
    BY <2>2 DEF RepaintInv, RenderingOnlyInRender
  <2>3. CASE phase # "swap"
    BY <2>1, <2>3 DEF NothingLeftLatched, OwedInv
  <2> QED BY <2>2, <2>3
<1> QED
  BY <1>1, <1>2, <1>3, TypeCorrect, RepaintInvCorrect, LatchedOnlyInFrame, PTL DEF Spec

-----------------------------------------------------------------------------
(* Contents.                                                               *)

ShownInv ==
  /\ \A s \in Surfaces : parent[s] = NoSurface
  /\ unshown \subseteq Surfaces
  /\ \A s \in unshown : OnOutput(s) => repaint.needed \/ repaint.rendering

\* What the history variable unshown records takes away nothing: every step with it
\* is a step of OutputRepaint.
LEMMA ContentSteps == ContentSpec => Spec
<1>1. ContentInit => Init  BY DEF ContentInit
<1>2. [ContentNext]_contentVars => [Next]_vars  BY DEF ContentNext, contentVars
<1>. QED  BY <1>1, <1>2, PTL DEF ContentSpec, Spec

\* While EGL works and no subsurface is involved, a buffer that was committed to a
\* surface on the output and is in no presented frame yet has a repaint coming,
\* whatever cursor, role and window changes come between (trierarch_surface_commit).
THEOREM UnshownContentScheduled ==
  ASSUME MaxEglFailures = 0, Children = {}
  PROVE  ContentSpec => []UnshownIsScheduled
<1>1. ContentInit => ShownInv  BY DEF ContentInit, Init, ShownInv
<1>2. TypeOK /\ RepaintInv /\ ShownInv /\ [ContentNext]_contentVars => ShownInv'
  <2> SUFFICES ASSUME TypeOK, RepaintInv, ShownInv, [ContentNext]_contentVars PROVE ShownInv'
    OBVIOUS
  <2>t. repaint \in Flags  BY DEF TypeOK
  <2>0. CASE UNCHANGED contentVars
    BY <2>0 DEF contentVars, vars, ShownInv, OnOutput, bufferVars, roleVars
  <2>a. CASE ContentNext
    <3>n. Next  BY <2>a DEF ContentNext
    <3>u. /\ unshown' \subseteq live'
          /\ \A s \in unshown' : CommitsBuffer(s) \/ s \in unshown
      BY <2>a, Zenon DEF ContentNext
    <3>l. live' \subseteq Surfaces
      <4>1. \A s \in Surfaces : live \cup {s} \subseteq Surfaces /\ live \ {s} \subseteq Surfaces
        BY DEF TypeOK
      <4>2. live' = live \/ \E s \in Surfaces : live' \in {live \cup {s}, live \ {s}}
        BY <3>n DEF Next, ClientRequest, HostCommand, create_surface, surface_attach, surface_damage,
           surface_frame, trierarch_surface_commit, surface_resource_destroy,
           layer_surface_resource_destroy, subcompositor_get_subsurface,
           subsurface_resource_destroy, pointer_set_cursor, repaint_timer_fired, drain_counter_fd,
           EndDispatch, replace_renderer, HostRequestsRender, pointer_set_cursor_visible,
           EndCommands, BeginRepaint, SkipRepaint, MakeCurrentFails, Compose, SwapFails,
           SwapSucceeds, bufferVars
      <4>. QED  BY <4>1, <4>2 DEF TypeOK
    <3>s. unshown' \subseteq Surfaces  BY <3>u, <3>l
    <3>p. ASSUME UNCHANGED parent PROVE \A s \in Surfaces : parent'[s] = NoSurface
      BY <3>p DEF ShownInv
    \* A step that asks for a repaint, or leaves one running, settles the obligation.
    <3>1. ASSUME repaint' \in request_render(repaint) \/ repaint'.rendering,
                 \A s \in Surfaces : parent'[s] = NoSurface
          PROVE  ShownInv'
      BY <2>t, <3>1, <3>s, RequestResult DEF ShownInv
    \* So does a step that commits no buffer and keeps what the obligation depends on.
    <3>2. ASSUME UNCHANGED <<mapped, current, roleVars>>, repaint'.needed = repaint.needed,
                 repaint'.rendering = repaint.rendering, \A s \in Surfaces : ~CommitsBuffer(s)
          PROVE  ShownInv'
      BY <3>2, <3>s, <3>u DEF ShownInv, OnOutput, roleVars
    <3>3. ASSUME NEW s \in Surfaces, trierarch_surface_commit(s) PROVE ShownInv'
      <4>1. CASE CommitNeedsRender(s)
        BY <3>1, <3>3, <3>p, <4>1 DEF trierarch_surface_commit, roleVars
      <4>2. CASE ~CommitNeedsRender(s)
        <5>1. UNCHANGED <<repaint, mapped, current, roleVars>> /\ ~BufferChanged(s)
          BY <3>3, <4>2 DEF trierarch_surface_commit, CommitNeedsRender
        <5>2. ASSUME NEW t \in Surfaces, CommitsBuffer(t) PROVE FALSE
          <6>1. attached'[t] = "none" /\ attached[t] # "none"  BY <5>2 DEF CommitsBuffer, trierarch_surface_commit, BufferChanged, TypeOK
          <6>2. t # s => attached'[t] = attached[t]  BY <3>3 DEF trierarch_surface_commit, TypeOK
          <6>. QED  BY <5>1, <5>2, <6>1, <6>2 DEF CommitsBuffer
        <5>. QED  BY <3>2, <5>1, <5>2
      <4>. QED  BY <4>1, <4>2
    <3>4. ASSUME NEW s \in Surfaces, surface_resource_destroy(s) PROVE ShownInv'
      <4>1. \A q \in Surfaces : parent'[q] = NoSurface
        BY <3>4 DEF surface_resource_destroy, ShownInv
      <4>. QED  BY <3>1, <3>4, <4>1 DEF surface_resource_destroy
    <3>5. ASSUME NEW s \in Surfaces, layer_surface_resource_destroy(s) PROVE ShownInv'
      BY <3>1, <3>5, <3>p DEF layer_surface_resource_destroy, roleVars
    \* The other steps commit nothing: they leave the callbacks or what is attached alone.
    <3>c. ASSUME attached' = attached PROVE \A s \in Surfaces : ~CommitsBuffer(s)
      BY <3>c DEF CommitsBuffer, trierarch_surface_commit, BufferChanged, TypeOK
    <3>6. ASSUME NEW s \in Surfaces, NEW what \in Attachments \ {"none"}, surface_attach(s, what)
          PROVE  ShownInv'
      <4>1. \A t \in Surfaces : ~CommitsBuffer(t)
        <5>1. \A t \in Surfaces : attached'[t] = "none" => attached[t] = "none"
          BY <3>6 DEF surface_attach, TypeOK
        <5>. QED  BY <5>1 DEF CommitsBuffer, trierarch_surface_commit, BufferChanged, TypeOK
      <4>. QED  BY <3>2, <3>6, <4>1 DEF surface_attach
    <3>7. ASSUME NEW s \in Surfaces,
                 create_surface(s) \/ surface_damage(s) \/ \E c \in Callbacks : surface_frame(s, c)
          PROVE  ShownInv'
      BY <3>2, <3>7, <3>c DEF create_surface, surface_damage, surface_frame, bufferVars
    <3>8. ASSUME NEW s \in Surfaces,
                 \/ \E p \in Surfaces : subcompositor_get_subsurface(s, p)
                 \/ subsurface_resource_destroy(s)
          PROVE  FALSE
      BY <3>8 DEF subcompositor_get_subsurface, subsurface_resource_destroy, ShownInv
    <3>9. ASSUME NEW c \in Surfaces \cup {NoSurface}, pointer_set_cursor(c) PROVE ShownInv'
      BY <3>1, <3>9, <3>p DEF pointer_set_cursor
    <3>10. ASSUME repaint_timer_fired PROVE ShownInv'
      <4>1. repaint'.needed = repaint.needed /\ repaint'.rendering = repaint.rendering
        BY <2>t, <3>10 DEF repaint_timer_fired, Flags
      <4>. QED  BY <3>2, <3>10, <3>c, <4>1 DEF repaint_timer_fired, bufferVars
    <3>11. ASSUME drain_counter_fd \/ EndDispatch \/ EndCommands \/ SkipRepaint \/ Compose
           PROVE  ShownInv'
      BY <3>2, <3>11, <3>c DEF drain_counter_fd, EndDispatch, EndCommands, SkipRepaint, Compose,
         bufferVars
    <3>12. ASSUME HostCommand PROVE ShownInv'
      <4>1. UNCHANGED parent
        BY <3>12 DEF HostCommand, replace_renderer, HostRequestsRender, pointer_set_cursor_visible,
           roleVars
      <4>2. CASE repaint' \in request_render(repaint)  BY <3>1, <3>p, <4>1, <4>2
      <4>3. CASE replace_renderer(FALSE)
        BY <3>2, <3>c, <4>3 DEF replace_renderer, bufferVars
      <4>. QED  BY <3>12, <4>2, <4>3 DEF HostCommand, replace_renderer, HostRequestsRender,
                   pointer_set_cursor_visible
    <3>13. ASSUME BeginRepaint PROVE ShownInv'
      <4>1. repaint'.rendering  BY <2>t, <3>13 DEF BeginRepaint, begin_repaint, Flags
      <4>. QED  BY <3>1, <3>13, <3>p, <4>1 DEF BeginRepaint, roleVars
    <3>14. ASSUME MakeCurrentFails \/ SwapFails PROVE FALSE
      BY <3>14 DEF MakeCurrentFails, SwapFails, TypeOK
    <3>15. ASSUME SwapSucceeds PROVE ShownInv'
      <4>1. UNCHANGED <<mapped, current, roleVars, attached, parent>>
        BY <3>15 DEF SwapSucceeds, bufferVars, roleVars
      <4>2. ASSUME NEW s \in unshown' PROVE ~OnOutput(s)'
        <5>1. s \in Surfaces /\ ~CommitsBuffer(s)  BY <3>c, <3>s, <4>1
        <5>2. ~surface_participates_in_output(s)  BY <2>a, <3>15, <5>1, Zenon DEF ContentNext
        <5>3. ~OnOutput(s)  BY <5>1, <5>2, RootParticipates DEF ShownInv
        <5>. QED  BY <4>1, <5>3 DEF OnOutput, roleVars
      <4>. QED  BY <3>p, <3>s, <4>1, <4>2 DEF ShownInv
    <3>. QED
      BY <3>n, <3>3, <3>4, <3>5, <3>6, <3>7, <3>8, <3>9, <3>10, <3>11, <3>12, <3>13, <3>14, <3>15
      DEF Next, ClientRequest
  <2>. QED  BY <2>0, <2>a
<1>3. ShownInv => UnshownIsScheduled
  BY RootParticipates DEF ShownInv, UnshownIsScheduled
<1>. QED
  BY <1>1, <1>2, <1>3, ContentSteps, TypeCorrect, RepaintInvCorrect, PTL DEF ContentSpec
=============================================================================
