--------------------------- MODULE SurfaceBuffers ---------------------------
(***************************************************************************)
(* Life cycle of the buffers clients attach to surfaces: reference counts, *)
(* busy counts, the deferred-release list, the GPU frame that may still be *)
(* sampling a replaced buffer, and explicit synchronisation.               *)
(*                                                                         *)
(* All handlers run on the dispatch thread.  A frame is split where its    *)
(* order matters: wait for the previous frame's fence, visit the deferred  *)
(* list entry by entry, draw, swap.                                        *)
(***************************************************************************)
EXTENDS Naturals, FiniteSets

CONSTANTS
  Surfaces, Buffers,
  Synchronized,     \* surfaces whose clients may use explicit synchronisation
  Null,             \* the NULL struct shm_buffer pointer
  MaxReferences     \* bound on buffer->references, a guard of attach

ASSUME BufferAssumption ==
  Null \notin Buffers /\ IsFiniteSet(Surfaces) /\ IsFiniteSet(Buffers)
    /\ MaxReferences \in Nat

VARIABLES
  phase,              \* "clients", "flush" or "draw"
  live,               \* surfaces whose resource exists
  pending, pending_detach, current,             \* struct compositor_surface
  resource,           \* buffers whose wl_buffer resource exists
  references, busy_users, deferred_next,        \* struct shm_buffer
  deferred_releases,  \* head of the deferred list
  cursor,             \* `buffer' in the loop of flush_deferred_releases
  queued,             \* history: list entries enqueued and not yet visited
  requeued,           \* history: a buffer was enqueued while on the list
  sampled,            \* buffers the last submitted GPU frame reads
  frame_fence,        \* an EGL fence guards that frame
  explicit_sync,      \* surfaces with a synchronization object
  acquire_fence,      \* surfaces with acquire_fence_fd >= 0
  pending_release,    \* surfaces with a pending_explicit_release object
  explicit_release,   \* buffers that own an explicit_release object
  released,           \* buffers whose release event this step sent
  unguarded           \* history: the GPU may be reading for a frame whose end
                      \* nobody will learn of

surfaceVars == <<live, pending, pending_detach, current>>
countVars == <<references, busy_users>>
deferVars == <<deferred_next, deferred_releases, cursor, queued, requeued>>
gpuVars == <<sampled, frame_fence, unguarded>>
syncVars == <<explicit_sync, acquire_fence, pending_release, explicit_release>>
vars == <<phase, surfaceVars, resource, countVars, deferVars, gpuVars, syncVars,
          released>>

BufferOrNull == Buffers \cup {Null}

-----------------------------------------------------------------------------
(* Counters.  The operators take and return the whole function, so that a  *)
(* handler that touches several buffers composes them.                     *)

trierarch_buffer_ref(refs, b) ==
  IF b = Null THEN refs ELSE [refs EXCEPT ![b] = @ + 1]

trierarch_buffer_unref(refs, b) ==
  IF b = Null THEN refs
  ELSE IF refs[b] = 0 THEN refs ELSE [refs EXCEPT ![b] = @ - 1]

\* Buffers freed by a step; destroy_storage also drops their explicit release.
Freed == {b \in Buffers : references[b] > 0 /\ references'[b] = 0}

MutReleaseEveryUser(b) == busy_users[b] > 0

\* trierarch_shm_buffer_release(b) drops the last user of b.
LastUser(b) == busy_users[b] = 1

trierarch_shm_buffer_release(b) ==
  /\ busy_users' = [busy_users EXCEPT ![b] = IF @ = 0 THEN 0 ELSE @ - 1]
  /\ released' = {x \in {b} \cap resource : LastUser(x)}

\* Buffers whose explicit release object that call signals and destroys.
trierarch_explicit_sync_buffer_release(b) ==
  {x \in {b} \cap explicit_release : LastUser(x)}

-----------------------------------------------------------------------------
(* Buffer and surface objects.                                             *)

Clients == phase = "clients" /\ UNCHANGED phase

\* wl_shm_pool.create_buffer, single-pixel, dma-buf and EGL wrappers alike.
create_buffer(b) ==
  /\ Clients
  /\ references[b] = 0
  /\ references' = [references EXCEPT ![b] = 1]
  /\ resource' = resource \cup {b}
  /\ released' = {}
  /\ UNCHANGED <<surfaceVars, busy_users, deferVars, gpuVars, syncVars>>

buffer_resource_destroy(b) ==
  /\ Clients
  /\ b \in resource
  /\ resource' = resource \ {b}
  /\ references' = trierarch_buffer_unref(references, b)
  /\ explicit_release' = explicit_release \ Freed
  /\ released' = {}
  /\ UNCHANGED <<surfaceVars, busy_users, deferVars, gpuVars, explicit_sync,
                 acquire_fence, pending_release>>

create_surface(s) ==
  /\ Clients
  /\ s \notin live
  /\ live' = live \cup {s}
  /\ released' = {}
  /\ UNCHANGED <<pending, pending_detach, current, resource, countVars, deferVars,
                 gpuVars, syncVars>>

\* A client may attach a buffer that is still in use, on the same surface or
\* on another one.
MayAttach(b) == b \in resource /\ references[b] < MaxReferences

MutAttachKeepsOldReference(s, b) ==
  references' = trierarch_buffer_ref(references, b)

\* surface_set_pending_buffer: returns early when the buffer is pending already.
set_pending_buffer(s, b) ==
  references' = IF pending[s] = b THEN references
                ELSE trierarch_buffer_unref(trierarch_buffer_ref(references, b), pending[s])

surface_attach(s, b) ==
  /\ Clients
  /\ s \in live
  /\ b = Null \/ MayAttach(b)
  /\ set_pending_buffer(s, b)
  /\ pending' = [pending EXCEPT ![s] = b]
  /\ pending_detach' = [pending_detach EXCEPT ![s] = (b = Null)]
  /\ explicit_release' = explicit_release \ Freed
  /\ released' = {}
  /\ UNCHANGED <<live, current, resource, busy_users, deferVars, gpuVars,
                 explicit_sync, acquire_fence, pending_release>>

manager_get_sync(s) ==
  /\ Clients
  /\ s \in (live \cap Synchronized) \ explicit_sync    \* else SYNCHRONIZATION_EXISTS ends the client
  /\ explicit_sync' = explicit_sync \cup {s}
  /\ released' = {}
  /\ UNCHANGED <<surfaceVars, resource, countVars, deferVars, gpuVars,
                 acquire_fence, pending_release, explicit_release>>

sync_set_acquire_fence(s) ==
  /\ Clients
  /\ s \in explicit_sync
  /\ s \notin acquire_fence        \* else DUPLICATE_FENCE ends the client
  /\ acquire_fence' = acquire_fence \cup {s}
  /\ released' = {}
  /\ UNCHANGED <<surfaceVars, resource, countVars, deferVars, gpuVars,
                 explicit_sync, pending_release, explicit_release>>

sync_get_release(s) ==
  /\ Clients
  /\ s \in explicit_sync
  /\ s \notin pending_release      \* else DUPLICATE_RELEASE ends the client
  /\ pending_release' = pending_release \cup {s}
  /\ released' = {}
  /\ UNCHANGED <<surfaceVars, resource, countVars, deferVars, gpuVars,
                 explicit_sync, acquire_fence, explicit_release>>

\* Destroying the synchronization object closes a fence nobody committed; a
\* pending release object stays with the surface.
sync_resource_destroy(s) ==
  /\ Clients
  /\ s \in explicit_sync
  /\ explicit_sync' = explicit_sync \ {s}
  /\ acquire_fence' = acquire_fence \ {s}
  /\ released' = {}
  /\ UNCHANGED <<surfaceVars, resource, countVars, deferVars, gpuVars,
                 pending_release, explicit_release>>

\* Client teardown may destroy a release object before its surface or buffer.
release_destroy ==
  /\ Clients
  /\ \/ \E s \in pending_release :
          pending_release' = pending_release \ {s} /\ UNCHANGED explicit_release
     \/ \E b \in explicit_release :
          explicit_release' = explicit_release \ {b} /\ UNCHANGED pending_release
  /\ released' = {}
  /\ UNCHANGED <<surfaceVars, resource, countVars, deferVars, gpuVars,
                 explicit_sync, acquire_fence>>

-----------------------------------------------------------------------------
(* wl_surface.commit and surface destruction.                              *)

\* trierarch_defer_buffer_release: push at the head, even when b is on the
\* list already (the duplicate is only logged).
defer_buffer_release(b) ==
  /\ deferred_next' = [deferred_next EXCEPT ![b] = deferred_releases]
  /\ deferred_releases' = b

\* The buffer_changed branch: the old buffer goes to the deferred list with its
\* reference, the pending one becomes current with its reference.
ReplaceCurrent(s) ==
  LET old == current[s]  new == pending[s] IN
  /\ IF old = Null
     THEN UNCHANGED <<deferred_next, deferred_releases, queued, requeued>>
     ELSE /\ defer_buffer_release(old)
          /\ queued' = [queued EXCEPT ![old] = @ + 1]
          /\ requeued' = (requeued \/ queued[old] > 0)
  /\ current' = [current EXCEPT ![s] = new]
  /\ busy_users' = IF new = Null THEN busy_users ELSE [busy_users EXCEPT ![new] = @ + 1]
  /\ acquire_fence' = acquire_fence \ {s}
  /\ explicit_release' = IF new = Null THEN explicit_release
                         ELSE (explicit_release \ {new})
                                \cup {b \in {new} : s \in pending_release}
  /\ pending_release' = pending_release \ {s}
  /\ UNCHANGED <<references, explicit_sync>>

\* The same buffer again: only the reference taken by attach is dropped.
KeepCurrent(s) ==
  /\ references' = trierarch_buffer_unref(references, pending[s])
  /\ UNCHANGED <<current, busy_users, deferred_next, deferred_releases, queued,
                 requeued, syncVars>>

trierarch_surface_commit(s) ==
  /\ Clients
  /\ s \in live
  /\ IF pending[s] # Null \/ pending_detach[s]
     THEN IF pending[s] # current[s] THEN ReplaceCurrent(s) ELSE KeepCurrent(s)
     ELSE UNCHANGED <<current, countVars, deferred_next, deferred_releases, queued,
                      requeued, syncVars>>
  /\ pending' = [pending EXCEPT ![s] = Null]
  /\ pending_detach' = [pending_detach EXCEPT ![s] = FALSE]
  /\ released' = {}
  /\ UNCHANGED <<live, resource, cursor, gpuVars>>

\* trierarch_renderer_wait_idle: returns at once without a fence; a wait that fails
\* is only logged, and its fence is destroyed like that of a wait that succeeded.
wait_idle ==
  \/ ~frame_fence /\ UNCHANGED gpuVars
  \/ frame_fence /\ frame_fence' = FALSE /\ sampled' = {} /\ unguarded' = FALSE
  \/ frame_fence /\ frame_fence' = FALSE /\ unguarded' = TRUE /\ UNCHANGED sampled

MutDestroySkipsWait(s) == UNCHANGED gpuVars

\* surface_resource_destroy waits for the GPU only when it drops a buffer.
DestroyWaits(s) == IF current[s] = Null THEN UNCHANGED gpuVars ELSE wait_idle

surface_resource_destroy(s) ==
  LET b == current[s]  p == pending[s] IN
  /\ Clients
  /\ s \in live
  /\ live' = live \ {s}
  /\ DestroyWaits(s)
  /\ IF b = Null THEN UNCHANGED busy_users /\ released' = {}
     ELSE trierarch_shm_buffer_release(b)
  /\ references' = trierarch_buffer_unref(trierarch_buffer_unref(references, b), p)
  /\ explicit_release' = explicit_release
                           \ ({p} \cup trierarch_explicit_sync_buffer_release(b) \cup Freed)
  /\ current' = [current EXCEPT ![s] = Null]
  /\ pending' = [pending EXCEPT ![s] = Null]
  /\ pending_detach' = [pending_detach EXCEPT ![s] = FALSE]
  /\ explicit_sync' = explicit_sync \ {s}
  /\ acquire_fence' = acquire_fence \ {s}
  /\ pending_release' = pending_release \ {s}
  /\ UNCHANGED <<resource, deferVars>>

-----------------------------------------------------------------------------
(* trierarch_renderer_render.                                              *)

BeginFrame ==
  /\ phase = "clients"
  /\ phase' = "flush"
  /\ wait_idle
  /\ cursor' = deferred_releases
  /\ deferred_releases' = Null
  /\ released' = {}
  /\ UNCHANGED <<surfaceVars, resource, countVars, deferred_next, queued, requeued,
                 syncVars>>

\* One iteration of the loop in trierarch_flush_deferred_releases.
FlushVisit ==
  LET b == cursor IN
  /\ phase = "flush"
  /\ b # Null
  /\ trierarch_shm_buffer_release(b)
  /\ references' = trierarch_buffer_unref(references, b)
  /\ explicit_release' = explicit_release \ (trierarch_explicit_sync_buffer_release(b) \cup Freed)
  /\ cursor' = deferred_next[b]
  /\ deferred_next' = [deferred_next EXCEPT ![b] = Null]
  /\ queued' = [queued EXCEPT ![b] = IF @ = 0 THEN 0 ELSE @ - 1]
  /\ UNCHANGED <<phase, surfaceVars, resource, deferred_releases, requeued, gpuVars,
                 explicit_sync, acquire_fence, pending_release>>

EndFlush ==
  /\ phase = "flush"
  /\ cursor = Null
  /\ phase' = "draw"
  /\ released' = {}
  /\ UNCHANGED <<surfaceVars, resource, countVars, deferVars, gpuVars, syncVars>>

Drawn == {b \in Buffers : \E s \in live : current[s] = b}

\* With a fence the GPU keeps reading; without one glFinish has drained it.
SwapSucceeds(fenced) ==
  /\ phase = "draw"
  /\ phase' = "clients"
  /\ frame_fence' = fenced
  /\ sampled' = IF fenced THEN sampled \cup Drawn ELSE {}
  /\ unguarded' = (fenced /\ unguarded)
  /\ released' = {}
  /\ UNCHANGED <<surfaceVars, resource, countVars, deferVars, syncVars>>

\* The draw calls were submitted, but the failure path creates no fence.
SwapFails ==
  /\ phase = "draw"
  /\ phase' = "clients"
  /\ unguarded' = TRUE
  /\ sampled' = sampled \cup Drawn
  /\ released' = {}
  /\ UNCHANGED <<surfaceVars, resource, countVars, deferVars, frame_fence, syncVars>>

\* trierarch_renderer_destroy drops the fence without waiting for it.
renderer_destroy ==
  /\ phase = "clients"
  /\ frame_fence
  /\ unguarded' = TRUE
  /\ frame_fence' = FALSE
  /\ released' = {}
  /\ UNCHANGED <<phase, surfaceVars, resource, countVars, deferVars, sampled, syncVars>>

MakeCurrentFails ==
  /\ phase = "draw"
  /\ phase' = "clients"
  /\ released' = {}
  /\ UNCHANGED <<surfaceVars, resource, countVars, deferVars, gpuVars, syncVars>>

-----------------------------------------------------------------------------
Init ==
  /\ phase = "clients"
  /\ live = {} /\ resource = {}
  /\ pending = [s \in Surfaces |-> Null]
  /\ pending_detach = [s \in Surfaces |-> FALSE]
  /\ current = [s \in Surfaces |-> Null]
  /\ references = [b \in Buffers |-> 0]
  /\ busy_users = [b \in Buffers |-> 0]
  /\ deferred_next = [b \in Buffers |-> Null]
  /\ deferred_releases = Null /\ cursor = Null
  /\ queued = [b \in Buffers |-> 0] /\ requeued = FALSE
  /\ sampled = {} /\ frame_fence = FALSE /\ unguarded = FALSE
  /\ explicit_sync = {} /\ acquire_fence = {} /\ pending_release = {} /\ explicit_release = {}
  /\ released = {}

BufferRequest ==
  \E b \in Buffers : create_buffer(b) \/ buffer_resource_destroy(b)

SurfaceRequest ==
  \E s \in Surfaces :
    \/ create_surface(s)
    \/ \E b \in BufferOrNull : surface_attach(s, b)
    \/ trierarch_surface_commit(s)
    \/ surface_resource_destroy(s)

SyncRequest ==
  \E s \in Surfaces :
    \/ manager_get_sync(s) \/ sync_set_acquire_fence(s)
    \/ sync_get_release(s) \/ sync_resource_destroy(s)

Frame ==
  \/ BeginFrame \/ FlushVisit \/ EndFlush
  \/ \E fenced \in BOOLEAN : SwapSucceeds(fenced)
  \/ SwapFails \/ MakeCurrentFails \/ renderer_destroy

Next ==
  BufferRequest \/ SurfaceRequest \/ SyncRequest \/ release_destroy \/ Frame

Spec == Init /\ [][Next]_vars

-----------------------------------------------------------------------------
(* Properties.                                                             *)

TypeOK ==
  /\ phase \in {"clients", "flush", "draw"}
  /\ live \subseteq Surfaces /\ resource \subseteq Buffers
  /\ pending \in [Surfaces -> BufferOrNull]
  /\ current \in [Surfaces -> BufferOrNull]
  /\ pending_detach \in [Surfaces -> BOOLEAN]
  /\ references \in [Buffers -> Nat]
  /\ busy_users \in [Buffers -> Nat]
  /\ queued \in [Buffers -> Nat] /\ requeued \in BOOLEAN
  /\ deferred_next \in [Buffers -> BufferOrNull]
  /\ deferred_releases \in BufferOrNull /\ cursor \in BufferOrNull
  /\ sampled \subseteq Buffers /\ frame_fence \in BOOLEAN /\ unguarded \in BOOLEAN
  /\ explicit_sync \subseteq live
  /\ acquire_fence \subseteq explicit_sync /\ pending_release \subseteq live
  /\ explicit_release \subseteq Buffers /\ released \subseteq Buffers

Users(field, b) == Cardinality({s \in Surfaces : field[s] = b})

\* A buffer has one reference for its wl_buffer resource, one per surface that
\* has it pending, one per surface that has it committed, and one per entry of
\* the deferred list: set_pending_buffer, commit, destroy and flush move or drop
\* exactly one reference each, in any order of the requests.
ReferencesAccounted ==
  \A b \in Buffers :
    references[b] = (IF b \in resource THEN 1 ELSE 0)
                      + Users(pending, b) + Users(current, b) + queued[b]

\* busy_users counts the committed uses plus the uses the deferred list holds.
BusyAccounted ==
  \A b \in Buffers : busy_users[b] = Users(current, b) + queued[b]

\* No pointer the compositor may follow leads to freed storage: the surfaces'
\* pending and current buffers, the head of the deferred list and the entry
\* the flush loop is at.
NoDanglingPointer ==
  \A b \in Buffers :
    references[b] = 0 =>
      /\ \A s \in Surfaces : pending[s] # b /\ current[s] # b
      /\ deferred_releases # b /\ cursor # b

\* buffer_shm.c, surface.c: both counters are exact, and no pointer leads to storage
\* they let go of, whatever clients share, re-attach and destroy.
CountersExact == ReferencesAccounted /\ BusyAccounted /\ NoDanglingPointer

\* Once the flush loop has ended, every replaced buffer has been released: the
\* deferred list held all of them, as long as none was pushed twice.
FlushDrains == phase = "draw" /\ ~requeued => \A b \in Buffers : queued[b] = 0

\* wl_buffer.release is sent only when no surface has the buffer committed, and a
\* release object adopted by a buffer is still owed its event: the buffer is in
\* use, so that its last release will signal the object.  A replaced buffer does
\* not wait longer than the next flush.
ReleasesExact ==
  /\ \A b \in released : \A s \in Surfaces : current[s] # b
  /\ \A b \in explicit_release : busy_users[b] > 0
  /\ FlushDrains

\* wl_buffer.release is sent, and storage freed, only after the GPU frame that
\* sampled the buffer has completed: "surface commits can release their previous
\* buffer only after this GPU completion point" (renderer.c:750).  The code gives this
\* up when a swap fails, a fence wait fails (renderer.c:497 logs it and goes on) or
\* a renderer is destroyed with its fence; it holds again as soon as a later wait, or
\* glFinish, has drained the GPU.
GpuOutlivedByBuffers ==
  ~unguarded =>
    /\ released \cap sampled = {}
    /\ \A b \in sampled : references[b] > 0

\* The release promised for the last user of a buffer (server_internal.h:52)
\* comes with the next flush, however the buffer got on the list.
EveryUserIsReleased == phase = "draw" => \A b \in Buffers : queued[b] = 0

\* Fence and release object belong to one commit: after it, the client may set
\* them again.
CommitConsumesSync ==
  [][\A s \in Surfaces :
       trierarch_surface_commit(s) => s \notin acquire_fence' \cup pending_release']_vars
=============================================================================
