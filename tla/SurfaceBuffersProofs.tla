------------------------ MODULE SurfaceBuffersProofs ------------------------
(***************************************************************************)
(* For any finite sets of surfaces and buffers: the counters are exact and *)
(* no pointer dangles, releases come neither too early nor never, and a    *)
(* GPU frame with a fence never reads a buffer that was let go.            *)
(***************************************************************************)
EXTENDS SurfaceBuffers, FiniteSetTheorems, TLAPS

\* Conditions as counts.
Same(x, y) == IF x = y THEN 1 ELSE 0
Within(x, S) == IF x \in S THEN 1 ELSE 0

\* The count n becomes m when something counted as equal to b turns from x to y.
Recount(n, m, x, y, b) == m = n - Same(x, b) + Same(y, b)

\* How many of D point at b.
Pointing(D, f, b) == Cardinality({x \in D : f[x] = b})

\* The state is well typed.
Type ==
  /\ phase \in {"clients", "flush", "draw"}
  /\ live \subseteq Surfaces /\ resource \subseteq Buffers
  /\ pending \in [Surfaces -> BufferOrNull] /\ current \in [Surfaces -> BufferOrNull]
  /\ references \in [Buffers -> Nat] /\ busy_users \in [Buffers -> Nat]
  /\ queued \in [Buffers -> Nat] /\ requeued \in BOOLEAN
  /\ deferred_next \in [Buffers -> BufferOrNull]
  /\ deferred_releases \in BufferOrNull /\ cursor \in BufferOrNull
  /\ sampled \subseteq Buffers /\ frame_fence \in BOOLEAN /\ unguarded \in BOOLEAN
  /\ explicit_release \subseteq Buffers /\ released \subseteq Buffers

\* What references and busy_users stand for.
Held(b) == Within(b, resource) + Users(pending, b) + Users(current, b) + queued[b]
Ledger ==
  \A b \in Buffers :
    references[b] = Held(b) /\ busy_users[b] = Users(current, b) + queued[b]

\* The pointers of the deferred list that lead to b: a push moves the old head into the
\* new entry, so there are never more of them than entries, although a second push of
\* b overwrites its link.
Links(b) == Pointing(Buffers, deferred_next, b) + Same(deferred_releases, b) + Same(cursor, b)
LinksCovered ==
  /\ \A b \in Buffers : Links(b) <= queued[b]
  /\ phase # "flush" => cursor = Null
  /\ phase # "clients" => deferred_releases = Null

\* Links lead away from the head: no cycle.
Descending(rank) ==
  \A x \in Buffers : deferred_next[x] # Null => rank[x] < rank[deferred_next[x]]

\* As long as no buffer is pushed twice, the list is a list of the queued buffers.
ListExact ==
  ~requeued =>
    /\ \A b \in Buffers : queued[b] <= 1 /\ Links(b) = queued[b]
    /\ \A b \in Buffers : queued[b] = 0 => deferred_next[b] = Null
    /\ \E rank \in [Buffers -> Nat] : Descending(rank)

\* Releases, without the part about the flush.
ReleasesDue ==
  /\ \A b \in released : \A s \in Surfaces : current[s] # b
  /\ \A b \in explicit_release : busy_users[b] > 0

\* Unless a fence was lost, what the GPU reads is in use, and a fence guards it until
\* the next frame begins.
SampledInUse ==
  ~unguarded =>
    /\ ~frame_fence \/ phase # "clients" => sampled = {}
    /\ \A b \in sampled : busy_users[b] > 0
    /\ released \cap sampled = {}

\* The inductive invariant.
IInv == Type /\ Ledger /\ LinksCovered /\ ListExact /\ ReleasesDue /\ SampledInUse

-----------------------------------------------------------------------------
(* Counting pointers.                                                      *)

\* A finite set holds a natural number of pointers to b, and one at least if x points there.
LEMMA PointingNat ==
  ASSUME NEW D, IsFiniteSet(D), NEW f, NEW b
  PROVE  /\ Pointing(D, f, b) \in Nat
         /\ \A x \in D : f[x] = b => Pointing(D, f, b) > 0
         /\ Pointing(D, f, b) > 0 => \E x \in D : f[x] = b
<1> DEFINE P == {x \in D : f[x] = b}
<1>1. IsFiniteSet(P)  BY FS_Subset
<1>2. Cardinality(P) \in Nat  BY <1>1, FS_CardinalityType
<1>3. Cardinality(P) = 0 <=> P = {}  BY <1>1, FS_EmptySet
<1>. QED  BY <1>2, <1>3 DEF Pointing

\* Turning the pointer at s from f[s] to g[s].
LEMMA PointingMoved ==
  ASSUME NEW D, IsFiniteSet(D), NEW E, NEW f \in [D -> E], NEW s \in D, NEW v \in E,
         NEW g, g = [f EXCEPT ![s] = v], NEW b
  PROVE  Recount(Pointing(D, f, b), Pointing(D, g, b), f[s], v, b)
<1> DEFINE P == {x \in D : f[x] = b}
           Q == {x \in D : g[x] = b}
<1>1. IsFiniteSet(P) /\ IsFiniteSet(Q)  BY FS_Subset
<1>2. g[s] = v /\ \A x \in D \ {s} : g[x] = f[x]  OBVIOUS
<1>3. IsFiniteSet(P \ {s})  BY <1>1, FS_Subset
<1>4. P \ {s} = Q \ {s}  BY <1>2
<1>5. (s \in P <=> f[s] = b) /\ (s \in Q <=> v = b)  BY <1>2
<1>6. Cardinality(P) \in Nat /\ Cardinality(Q) \in Nat  BY <1>1, FS_CardinalityType
<1> HIDE DEF P, Q
<1>7. Cardinality(P \ {s}) = IF s \in P THEN Cardinality(P) - 1 ELSE Cardinality(P)
  BY <1>1, FS_RemoveElement, Zenon
<1>8. Cardinality(Q \ {s}) = IF s \in Q THEN Cardinality(Q) - 1 ELSE Cardinality(Q)
  BY <1>1, FS_RemoveElement, Zenon
<1>9. Cardinality(Q) = Cardinality(P) - Within(s, P) + Within(s, Q)
  BY <1>4, <1>6, <1>7, <1>8 DEF Within
<1>10. Within(s, P) = Same(f[s], b) /\ Within(s, Q) = Same(v, b)  BY <1>5 DEF Within, Same
<1>11. Recount(Cardinality(P), Cardinality(Q), f[s], v, b)  BY <1>9, <1>10 DEF Recount
<1>. QED  BY <1>11 DEF Pointing, P, Q

\* The same for the surfaces.
LEMMA UsersNat ==
  ASSUME NEW f, NEW b
  PROVE  /\ Users(f, b) \in Nat
         /\ \A s \in Surfaces : f[s] = b => Users(f, b) > 0
         /\ Users(f, b) > 0 => \E s \in Surfaces : f[s] = b
<1>1. Users(f, b) = Pointing(Surfaces, f, b)  BY DEF Users, Pointing
<1>. QED  BY <1>1, PointingNat, BufferAssumption

\* attach and commit turn one surface's pointer: the counts of the two buffers change by one.
LEMMA UsersMoved ==
  ASSUME NEW f \in [Surfaces -> BufferOrNull], NEW s \in Surfaces, NEW v \in BufferOrNull,
         NEW g, g = [f EXCEPT ![s] = v], NEW b
  PROVE  Recount(Users(f, b), Users(g, b), f[s], v, b)
<1>1. IsFiniteSet(Surfaces)  BY BufferAssumption
<1>2. Recount(Pointing(Surfaces, f, b), Pointing(Surfaces, g, b), f[s], v, b)
  BY <1>1, PointingMoved, Zenon
<1>. QED  BY <1>2 DEF Users, Pointing

\* trierarch_buffer_ref and trierarch_buffer_unref count one buffer and leave the others alone.
LEMMA RefCounts ==
  ASSUME NEW refs \in [Buffers -> Nat], NEW b \in BufferOrNull
  PROVE  /\ trierarch_buffer_ref(refs, b) \in [Buffers -> Nat]
         /\ \A x \in Buffers : trierarch_buffer_ref(refs, b)[x] = refs[x] + Same(b, x)
BY BufferAssumption DEF trierarch_buffer_ref, BufferOrNull, Same, Within

\* trierarch_buffer_unref takes one from a buffer that has a reference.
LEMMA UnrefCounts ==
  ASSUME NEW refs \in [Buffers -> Nat], NEW b \in BufferOrNull, b # Null => refs[b] > 0
  PROVE  /\ trierarch_buffer_unref(refs, b) \in [Buffers -> Nat]
         /\ \A x \in Buffers : trierarch_buffer_unref(refs, b)[x] = refs[x] - Same(b, x)
<1>1. CASE b = Null  BY <1>1, BufferAssumption DEF trierarch_buffer_unref, Same, Within
<1>2. CASE b # Null
  <2>1. b \in Buffers /\ refs[b] > 0  BY <1>2 DEF BufferOrNull
  <2>2. trierarch_buffer_unref(refs, b) = [refs EXCEPT ![b] = refs[b] - 1]
    BY <1>2, <2>1 DEF trierarch_buffer_unref
  <2>. QED  BY <2>1, <2>2 DEF Same, Within
<1>. QED  BY <1>1, <1>2

-----------------------------------------------------------------------------
(* What a step that leaves a part of the state alone keeps.                *)

\* A step that moves no pointer and no counter leaves the ledger right.
LEMMA LedgerKept ==
  ASSUME Ledger, UNCHANGED <<resource, pending, current, references, busy_users, queued>>
  PROVE  Ledger'
BY DEF Ledger, Held

\* A step that does not touch the deferred list leaves it in order.
LEMMA ListKept ==
  ASSUME LinksCovered, ListExact,
         UNCHANGED <<phase, deferred_next, deferred_releases, cursor, queued, requeued>>
  PROVE  LinksCovered' /\ ListExact'
<1>1. \A b \in Buffers : Links(b)' = Links(b)  BY DEF Links
<1>2. \A rank : Descending(rank)' <=> Descending(rank)  BY DEF Descending
<1>. QED  BY <1>1, <1>2 DEF LinksCovered, ListExact

\* A step that releases nothing and moves neither committed buffers nor the GPU's
\* keeps what is said of releases.
LEMMA UseKept ==
  ASSUME ReleasesDue, SampledInUse, released' = {}, explicit_release' \subseteq explicit_release,
         UNCHANGED <<phase, current, busy_users, sampled, frame_fence, unguarded>>
  PROVE  ReleasesDue' /\ SampledInUse'
BY DEF ReleasesDue, SampledInUse

\* trierarch_renderer_wait_idle leaves nothing sampled, or an unguarded frame.
LEMMA WaitDrains ==
  ASSUME Type, SampledInUse, wait_idle
  PROVE  /\ sampled' \in {{}, sampled} /\ frame_fence' \in BOOLEAN /\ unguarded' \in BOOLEAN
         /\ ~unguarded' => sampled' = {}
<1>1. CASE ~frame_fence /\ UNCHANGED gpuVars  BY <1>1 DEF Type, SampledInUse, gpuVars
<1>2. CASE frame_fence /\ frame_fence' = FALSE /\ sampled' = {} /\ unguarded' = FALSE  BY <1>2
<1>3. CASE frame_fence /\ frame_fence' = FALSE /\ unguarded' = TRUE /\ UNCHANGED sampled  BY <1>3
<1>. QED  BY <1>1, <1>2, <1>3 DEF wait_idle

-----------------------------------------------------------------------------
(* Requests of clients.                                                    *)

\* Nothing exists at the start.
LEMMA InitInv == Init => IInv
<1> SUFFICES ASSUME Init PROVE IInv  OBVIOUS
<1> USE BufferAssumption DEF Init
<1>1. Type  BY Zenon DEF Type, BufferOrNull
<1>2. \A b \in Buffers : Users(pending, b) = 0 /\ Users(current, b) = 0
  <2>1. ASSUME NEW b \in Buffers PROVE Users(pending, b) = 0 /\ Users(current, b) = 0
    <3>1. \A s \in Surfaces : pending[s] # b /\ current[s] # b  OBVIOUS
    <3>2. /\ Users(pending, b) \in Nat /\ (Users(pending, b) > 0 => \E s \in Surfaces : pending[s] = b)
          /\ Users(current, b) \in Nat /\ (Users(current, b) > 0 => \E s \in Surfaces : current[s] = b)
      BY UsersNat
    <3>. QED  BY <3>1, <3>2
  <2>. QED  BY <2>1
<1>3. Ledger  BY <1>2 DEF Ledger, Held, Same, Within
<1>4. \A b \in Buffers : Links(b) = 0
  <2>1. ASSUME NEW b \in Buffers PROVE Links(b) = 0
    <3>1. \A x \in Buffers : deferred_next[x] # b  OBVIOUS
    <3>2. /\ Pointing(Buffers, deferred_next, b) \in Nat
          /\ Pointing(Buffers, deferred_next, b) > 0 => \E x \in Buffers : deferred_next[x] = b
      BY PointingNat
    <3>. QED  BY <3>1, <3>2 DEF Links, Same, Within
  <2>. QED  BY <2>1
<1>5. LinksCovered  BY <1>4 DEF LinksCovered
<1>6. ListExact
  <2>1. Descending([b \in Buffers |-> 0])  BY DEF Descending
  <2>2. [b \in Buffers |-> 0] \in [Buffers -> Nat]  OBVIOUS
  <2>. QED  BY <1>4, <2>1, <2>2 DEF ListExact
<1>7. ReleasesDue /\ SampledInUse  BY DEF ReleasesDue, SampledInUse
<1>. QED  BY <1>1, <1>3, <1>5, <1>6, <1>7 DEF IInv

\* What the ledger says of one buffer.
LEMMA InUse ==
  ASSUME Type, Ledger, NEW b \in Buffers
  PROVE  /\ Users(pending, b) \in Nat /\ Users(current, b) \in Nat
         /\ references[b] \in Nat /\ busy_users[b] \in Nat /\ queued[b] \in Nat
         /\ references[b] = Within(b, resource) + Users(pending, b) + Users(current, b) + queued[b]
         /\ busy_users[b] = Users(current, b) + queued[b]
         /\ references[b] >= busy_users[b]
         /\ \A s \in Surfaces : pending[s] = b => Users(pending, b) > 0
         /\ \A s \in Surfaces : current[s] = b => Users(current, b) > 0
<1>1. /\ Users(pending, b) \in Nat /\ Users(current, b) \in Nat
      /\ \A s \in Surfaces : pending[s] = b => Users(pending, b) > 0
      /\ \A s \in Surfaces : current[s] = b => Users(current, b) > 0
  BY UsersNat
<1>2. references[b] \in Nat /\ busy_users[b] \in Nat /\ queued[b] \in Nat  BY DEF Type
<1>3. /\ references[b] = Within(b, resource) + Users(pending, b) + Users(current, b) + queued[b]
      /\ busy_users[b] = Users(current, b) + queued[b]
  BY DEF Ledger, Held
<1>4. Within(b, resource) \in {0, 1}  BY DEF Same, Within
<1>. QED  BY <1>1, <1>2, <1>3, <1>4

\* A new wl_buffer has the one reference of its resource.
LEMMA CreateBufferInv ==
  ASSUME IInv, NEW b \in Buffers, create_buffer(b)
  PROVE  IInv'
<1> USE DEF IInv
<1>1. UNCHANGED <<phase, live, pending, pending_detach, current, busy_users, deferred_next,
                  deferred_releases, cursor, queued, requeued, sampled, frame_fence, unguarded,
                  explicit_release>>
      /\ released' = {}
  BY DEF create_buffer, Clients, surfaceVars, deferVars, gpuVars, syncVars
<1>2. references[b] = 0 /\ references' = [references EXCEPT ![b] = 1] /\ resource' = resource \cup {b}
  BY DEF create_buffer
<1>3. Type'  BY <1>1, <1>2 DEF Type
<1>4. Ledger'
  <2>1. ASSUME NEW x \in Buffers
        PROVE  references'[x] = Held(x)' /\ busy_users'[x] = Users(current', x) + queued'[x]
    <3>1. /\ Users(pending, x) \in Nat /\ Users(current, x) \in Nat /\ queued[x] \in Nat
          /\ references[x] = Within(x, resource) + Users(pending, x) + Users(current, x) + queued[x]
          /\ busy_users[x] = Users(current, x) + queued[x]
      BY InUse
    <3>2. Within(x, resource) \in {0, 1}  BY DEF Same, Within
    <3>3. Held(x)' = Within(x, resource') + Users(pending, x) + Users(current, x) + queued[x]
      BY <1>1 DEF Held
    <3>4. CASE x = b
      <4>1. Within(x, resource') = 1 /\ references'[x] = 1  BY <1>2, <3>4 DEF Same, Within, Type
      <4>. QED  BY <1>1, <1>2, <3>1, <3>2, <3>3, <3>4, <4>1
    <3>5. CASE x # b
      <4>1. Within(x, resource') = Within(x, resource) /\ references'[x] = references[x]
        BY <1>2, <3>5 DEF Same, Within, Type
      <4>. QED  BY <1>1, <3>1, <3>3, <4>1
    <3>. QED  BY <3>4, <3>5
  <2>. QED  BY <2>1 DEF Ledger
<1>5. LinksCovered' /\ ListExact'  BY <1>1, ListKept
<1>6. ReleasesDue' /\ SampledInUse'  BY <1>1, UseKept
<1>. QED  BY <1>3, <1>4, <1>5, <1>6

\* buffer_resource_destroy gives back the reference of the resource only.
LEMMA DestroyBufferInv ==
  ASSUME IInv, NEW b \in Buffers, buffer_resource_destroy(b)
  PROVE  IInv'
<1> USE DEF IInv
<1>1. UNCHANGED <<phase, live, pending, pending_detach, current, busy_users, deferred_next,
                  deferred_releases, cursor, queued, requeued, sampled, frame_fence, unguarded>>
      /\ released' = {} /\ explicit_release' \subseteq explicit_release
  BY DEF buffer_resource_destroy, Clients, surfaceVars, deferVars, gpuVars, syncVars
<1>2. /\ b \in resource /\ resource' = resource \ {b}
      /\ references' = trierarch_buffer_unref(references, b)
  BY DEF buffer_resource_destroy
<1>3. references[b] > 0
  <2>1. Within(b, resource) = 1  BY <1>2 DEF Same, Within
  <2>. QED  BY <2>1, InUse
<1>4. /\ references' \in [Buffers -> Nat]
      /\ \A x \in Buffers : references'[x] = references[x] - Same(b, x)
  BY <1>2, <1>3, UnrefCounts DEF Type, BufferOrNull
<1>5. Type'  BY <1>1, <1>2, <1>4 DEF Type
<1>6. Ledger'
  <2>1. ASSUME NEW x \in Buffers
        PROVE  references'[x] = Held(x)' /\ busy_users'[x] = Users(current', x) + queued'[x]
    <3>1. /\ Users(pending, x) \in Nat /\ Users(current, x) \in Nat /\ queued[x] \in Nat
          /\ references[x] = Within(x, resource) + Users(pending, x) + Users(current, x) + queued[x]
          /\ busy_users[x] = Users(current, x) + queued[x]
      BY InUse
    <3>2. Within(x, resource) \in {0, 1} /\ Within(x, resource') = Within(x, resource) - Same(b, x)
      BY <1>2 DEF Same, Within
    <3>3. Held(x)' = Within(x, resource') + Users(pending, x) + Users(current, x) + queued[x]
      BY <1>1 DEF Held
    <3>4. Same(b, x) \in {0, 1}  BY DEF Same, Within
    <3>. QED  BY <1>1, <1>4, <3>1, <3>2, <3>3, <3>4
  <2>. QED  BY <2>1 DEF Ledger
<1>7. LinksCovered' /\ ListExact'  BY <1>1, ListKept
<1>8. ReleasesDue' /\ SampledInUse'  BY <1>1, UseKept
<1>. QED  BY <1>5, <1>6, <1>7, <1>8

\* wl_surface.attach exchanges the reference of the pending buffer.
LEMMA AttachInv ==
  ASSUME IInv, NEW s \in Surfaces, NEW b \in BufferOrNull, surface_attach(s, b)
  PROVE  IInv'
<1> USE DEF IInv
<1>1. UNCHANGED <<phase, live, current, resource, busy_users, deferred_next,
                  deferred_releases, cursor, queued, requeued, sampled, frame_fence, unguarded>>
      /\ released' = {} /\ explicit_release' \subseteq explicit_release
  BY DEF surface_attach, Clients, surfaceVars, deferVars, gpuVars, syncVars
<1>2. pending' = [pending EXCEPT ![s] = b] /\ set_pending_buffer(s, b)  BY DEF surface_attach
<1>3. pending \in [Surfaces -> BufferOrNull] /\ pending[s] \in BufferOrNull  BY DEF Type
<1>4. /\ references' \in [Buffers -> Nat]
      /\ \A x \in Buffers : references'[x] = references[x] + Same(b, x) - Same(pending[s], x)
  <2>1. CASE pending[s] = b
    <3>1. references' = references  BY <1>2, <2>1 DEF set_pending_buffer
    <3>2. \A x \in Buffers : Same(b, x) \in {0, 1}  BY DEF Same, Within
    <3>. QED  BY <2>1, <3>1, <3>2 DEF Type
  <2>2. CASE pending[s] # b
    <3> DEFINE r == trierarch_buffer_ref(references, b)
    <3>1. references' = trierarch_buffer_unref(r, pending[s])  BY <1>2, <2>2 DEF set_pending_buffer
    <3>2. /\ r \in [Buffers -> Nat] /\ \A x \in Buffers : r[x] = references[x] + Same(b, x)
      BY RefCounts DEF Type
    <3> HIDE DEF r
    <3>3. \A x \in Buffers : Same(b, x) \in {0, 1}  BY DEF Same, Within
    <3>4. ASSUME pending[s] # Null PROVE r[pending[s]] > 0
      <4> DEFINE q == pending[s]
      <4>1. q \in Buffers  BY <1>3, <3>4 DEF BufferOrNull
      <4>2. references[q] > 0
        <5>1. /\ Users(pending, q) > 0 /\ Users(pending, q) \in Nat /\ Users(current, q) \in Nat
              /\ queued[q] \in Nat
              /\ references[q] = Within(q, resource) + Users(pending, q) + Users(current, q) + queued[q]
          BY <4>1, InUse
        <5>2. Within(q, resource) \in {0, 1}  BY DEF Same, Within
        <5>. QED  BY <5>1, <5>2
      <4>3. references[q] \in Nat  BY <4>1 DEF Type
      <4>. QED  BY <3>2, <3>3, <4>1, <4>2, <4>3
    <3>5. /\ references' \in [Buffers -> Nat]
          /\ \A x \in Buffers : references'[x] = r[x] - Same(pending[s], x)
      BY <1>3, <3>1, <3>2, <3>4, UnrefCounts
    <3>6. \A x \in Buffers : references[x] \in Nat /\ Same(pending[s], x) \in {0, 1}
      BY DEF Same, Within, Type
    <3>. QED  BY <3>2, <3>3, <3>5, <3>6
  <2>. QED  BY <2>1, <2>2
<1>5. Type'  BY <1>1, <1>2, <1>4 DEF Type
<1>6. Ledger'
  <2>1. ASSUME NEW x \in Buffers
        PROVE  references'[x] = Held(x)' /\ busy_users'[x] = Users(current', x) + queued'[x]
    <3>1. /\ Users(pending, x) \in Nat /\ Users(current, x) \in Nat /\ queued[x] \in Nat
          /\ references[x] = Within(x, resource) + Users(pending, x) + Users(current, x) + queued[x]
          /\ busy_users[x] = Users(current, x) + queued[x]
      BY InUse
    <3>2. Users(pending', x) = Users(pending, x) - Same(pending[s], x) + Same(b, x)
      <4>1. Recount(Users(pending, x), Users(pending', x), pending[s], b, x)
        BY <1>2, <1>3, UsersMoved, Zenon
      <4>. QED  BY <4>1 DEF Recount
    <3>3. Held(x)' = Within(x, resource) + Users(pending', x) + Users(current, x) + queued[x]
      BY <1>1 DEF Held
    <3>4. Same(b, x) \in {0, 1} /\ Same(pending[s], x) \in {0, 1} /\ Within(x, resource) \in {0, 1}
      BY DEF Same, Within
    <3>. QED  BY <1>1, <1>4, <3>1, <3>2, <3>3, <3>4
  <2>. QED  BY <2>1, SMTT(30) DEF Ledger
<1>7. LinksCovered' /\ ListExact'  BY <1>1, ListKept
<1>8. ReleasesDue' /\ SampledInUse'  BY <1>1, UseKept
<1>. QED  BY <1>5, <1>6, <1>7, <1>8

-----------------------------------------------------------------------------
(* Commit and destruction of surfaces.                                     *)

\* The branch of a commit that pushes no buffer: the reference of a pending buffer that
\* is current already is dropped.
LEMMA CommitSameInv ==
  ASSUME IInv, NEW s \in Surfaces, trierarch_surface_commit(s),
         ~ ((pending[s] # Null \/ pending_detach[s]) /\ pending[s] # current[s])
  PROVE  IInv'
<1> USE DEF IInv
<1>1. /\ pending' = [pending EXCEPT ![s] = Null] /\ released' = {}
      /\ UNCHANGED <<phase, live, resource, cursor, sampled, frame_fence, unguarded>>
  BY DEF trierarch_surface_commit, Clients, gpuVars
<1>2. UNCHANGED <<current, busy_users, deferred_next, deferred_releases, queued, requeued,
                  explicit_release>>
  BY DEF trierarch_surface_commit, KeepCurrent, countVars, syncVars
<1>3. references' = trierarch_buffer_unref(references, pending[s])
  BY DEF trierarch_surface_commit, KeepCurrent, countVars, trierarch_buffer_unref
<1>4. pending \in [Surfaces -> BufferOrNull] /\ pending[s] \in BufferOrNull /\ Null \in BufferOrNull
  BY DEF Type, BufferOrNull
<1>5. ASSUME pending[s] # Null PROVE references[pending[s]] > 0
  <2> DEFINE q == pending[s]
  <2>1. q \in Buffers  BY <1>4, <1>5 DEF BufferOrNull
  <2>2. /\ Users(pending, q) > 0 /\ Users(pending, q) \in Nat /\ Users(current, q) \in Nat
        /\ queued[q] \in Nat
        /\ references[q] = Within(q, resource) + Users(pending, q) + Users(current, q) + queued[q]
    BY <2>1, InUse
  <2>3. Within(q, resource) \in {0, 1}  BY DEF Within
  <2>. QED  BY <2>2, <2>3
<1>6. /\ references' \in [Buffers -> Nat]
      /\ \A x \in Buffers : references'[x] = references[x] - Same(pending[s], x)
  BY <1>3, <1>4, <1>5, UnrefCounts DEF Type
<1>7. Type'  BY <1>1, <1>2, <1>4, <1>6 DEF Type
<1>8. Ledger'
  <2>1. ASSUME NEW x \in Buffers
        PROVE  references'[x] = Held(x)' /\ busy_users'[x] = Users(current', x) + queued'[x]
    <3>1. /\ Users(pending, x) \in Nat /\ Users(current, x) \in Nat /\ queued[x] \in Nat
          /\ references[x] = Within(x, resource) + Users(pending, x) + Users(current, x) + queued[x]
          /\ busy_users[x] = Users(current, x) + queued[x]
      BY InUse
    <3>2. Users(pending', x) = Users(pending, x) - Same(pending[s], x) + Same(Null, x)
      <4>1. Recount(Users(pending, x), Users(pending', x), pending[s], Null, x)
        BY <1>1, <1>4, UsersMoved, Zenon
      <4>. QED  BY <4>1 DEF Recount
    <3>3. Held(x)' = Within(x, resource) + Users(pending', x) + Users(current, x) + queued[x]
      BY <1>1, <1>2 DEF Held
    <3>4. /\ Same(Null, x) = 0 /\ Same(pending[s], x) \in {0, 1} /\ Within(x, resource) \in {0, 1}
      BY BufferAssumption DEF Same, Within
    <3>. QED  BY <1>2, <1>6, <3>1, <3>2, <3>3, <3>4, SMTT(30)
  <2>. QED  BY <2>1 DEF Ledger
<1>9. LinksCovered' /\ ListExact'  BY <1>1, <1>2, ListKept
<1>10. ReleasesDue' /\ SampledInUse'  BY <1>1, <1>2, UseKept
<1>. QED  BY <1>7, <1>8, <1>9, <1>10

\* The deferred list after a push of `old' (trierarch_defer_buffer_release).
LEMMA PushKeepsList ==
  ASSUME Type, LinksCovered, ListExact, NEW old \in Buffers, phase = "clients",
         UNCHANGED <<phase, cursor>>, defer_buffer_release(old),
         queued' = [queued EXCEPT ![old] = @ + 1],
         requeued' = (requeued \/ queued[old] > 0)
  PROVE  LinksCovered' /\ ListExact'
<1>1. /\ deferred_next \in [Buffers -> BufferOrNull] /\ queued \in [Buffers -> Nat]
      /\ deferred_releases \in BufferOrNull /\ requeued \in BOOLEAN
  BY DEF Type
<1>2. deferred_next' = [deferred_next EXCEPT ![old] = deferred_releases] /\ deferred_releases' = old
  BY DEF defer_buffer_release
<1>3. ASSUME NEW x \in Buffers
      PROVE  /\ Pointing(Buffers, deferred_next, x) \in Nat
             /\ (\A z \in Buffers : deferred_next[z] = x => Pointing(Buffers, deferred_next, x) > 0)
             /\ Links(x) \in Nat /\ queued[x] \in Nat
             /\ Links(x) >= Pointing(Buffers, deferred_next, x) + Same(deferred_releases, x)
             /\ Links(x)' = Links(x) - Same(deferred_next[old], x) + Same(old, x)
             /\ queued'[x] = queued[x] + Same(old, x)
  <2>1. IsFiniteSet(Buffers)  BY BufferAssumption
  <2>2. /\ Pointing(Buffers, deferred_next, x) \in Nat
        /\ \A z \in Buffers : deferred_next[z] = x => Pointing(Buffers, deferred_next, x) > 0
    BY <2>1, PointingNat
  <2>3. Recount(Pointing(Buffers, deferred_next, x), Pointing(Buffers, deferred_next', x),
                deferred_next[old], deferred_releases, x)
    BY <1>1, <1>2, <2>1, PointingMoved, Zenon
  <2>4. Pointing(Buffers, deferred_next', x)
          = Pointing(Buffers, deferred_next, x) - Same(deferred_next[old], x) + Same(deferred_releases, x)
    BY <2>3 DEF Recount
  <2>5. /\ Same(deferred_next[old], x) \in {0, 1} /\ Same(deferred_releases, x) \in {0, 1}
        /\ Same(old, x) \in {0, 1} /\ Same(cursor, x) \in {0, 1}
    BY DEF Same
  <2>6. Links(x) = Pointing(Buffers, deferred_next, x) + Same(deferred_releases, x) + Same(cursor, x)
    BY DEF Links
  <2>7. Links(x)' = Pointing(Buffers, deferred_next', x) + Same(old, x) + Same(cursor, x)
    BY <1>2 DEF Links
  <2>8. queued[x] \in Nat /\ queued'[x] = queued[x] + Same(old, x)  BY <1>1 DEF Same
  <2>. QED  BY <2>2, <2>4, <2>5, <2>6, <2>7, <2>8
<1>4. \A x \in Buffers : Same(old, x) \in {0, 1} /\ Same(deferred_next[old], x) \in {0, 1}
  BY DEF Same
<1>5. LinksCovered'
  <2>1. \A x \in Buffers : Links(x)' <= queued'[x]
    BY <1>3, <1>4 DEF LinksCovered
  <2>. QED  BY <2>1 DEF LinksCovered
<1>6. ListExact'
  <2> SUFFICES ASSUME ~requeued'
               PROVE  /\ \A b \in Buffers : queued'[b] <= 1 /\ Links(b)' = queued'[b]
                      /\ \A b \in Buffers : queued'[b] = 0 => deferred_next'[b] = Null
                      /\ \E rank \in [Buffers -> Nat] : Descending(rank)'
    BY DEF ListExact
  <2>1. ~requeued /\ queued[old] = 0
    <3>1. ~requeued /\ ~ (queued[old] > 0)  BY Zenon
    <3>. QED  BY <1>1, <3>1
  <2>2. /\ \A b \in Buffers : queued[b] <= 1 /\ Links(b) = queued[b]
        /\ \A b \in Buffers : queued[b] = 0 => deferred_next[b] = Null
        /\ \E rank \in [Buffers -> Nat] : Descending(rank)
    BY <2>1 DEF ListExact
  <2>3. deferred_next[old] = Null  BY <2>1, <2>2
  <2>4. Links(old) = 0  BY <2>1, <2>2
  <2>5. deferred_releases # old /\ \A z \in Buffers : deferred_next[z] # old
    <3>1. Same(deferred_releases, old) \in {0, 1} /\ (deferred_releases = old => Same(deferred_releases, old) = 1)
      BY DEF Same
    <3>. QED  BY <1>3, <2>4, <3>1
  <2>6. \A b \in Buffers : Same(deferred_next[old], b) = 0  BY <2>3, BufferAssumption DEF Same
  <2>7. Same(old, old) = 1 /\ \A b \in Buffers \ {old} : Same(old, b) = 0  BY DEF Same
  <2>8. \A b \in Buffers : queued'[b] <= 1 /\ Links(b)' = queued'[b]
    <3>1. ASSUME NEW b \in Buffers PROVE queued'[b] <= 1 /\ Links(b)' = queued'[b]
      <4>1. CASE b = old  BY <1>3, <2>1, <2>2, <2>6, <2>7, <4>1
      <4>2. CASE b # old  BY <1>3, <2>2, <2>6, <2>7, <4>2
      <4>. QED  BY <4>1, <4>2
    <3>. QED  BY <3>1
  <2>9. \A b \in Buffers : queued'[b] = 0 => deferred_next'[b] = Null
    BY <1>1, <1>2, <2>1, <2>2
  <2>10. PICK rank \in [Buffers -> Nat] : Descending(rank)  BY <2>2
  <2> DEFINE r == [x \in Buffers |-> IF x = old THEN 0 ELSE rank[x] + 1]
  <2>11. r \in [Buffers -> Nat]  OBVIOUS
  <2>12. Descending(r)'
    <3> SUFFICES ASSUME NEW x \in Buffers, deferred_next'[x] # Null
                 PROVE  r[x] < r[deferred_next'[x]]
      BY DEF Descending
    <3>1. CASE x = old
      <4>1. deferred_next'[x] = deferred_releases /\ deferred_releases \in Buffers \ {old}
        BY <1>1, <1>2, <2>5, <3>1 DEF BufferOrNull
      <4>2. rank[deferred_releases] \in Nat /\ r[x] = 0 /\ r[deferred_releases] = rank[deferred_releases] + 1
        BY <3>1, <4>1
      <4>. QED  BY <4>1, <4>2
    <3>2. CASE x # old
      <4>1. deferred_next'[x] = deferred_next[x] /\ deferred_next[x] \in Buffers \ {old}
        BY <1>1, <1>2, <2>5, <3>2 DEF BufferOrNull
      <4>2. rank[x] < rank[deferred_next[x]] /\ rank[x] \in Nat /\ rank[deferred_next[x]] \in Nat
        BY <2>10, <4>1, BufferAssumption DEF Descending
      <4>3. r[x] = rank[x] + 1 /\ r[deferred_next[x]] = rank[deferred_next[x]] + 1  BY <3>2, <4>1
      <4>. QED  BY <4>1, <4>2, <4>3
    <3>. QED  BY <3>1, <3>2
  <2>. QED  BY <2>8, <2>9, <2>11, <2>12
<1>. QED  BY <1>5, <1>6

\* The buffer_changed branch of a commit.
LEMMA CommitChangedInv ==
  ASSUME IInv, NEW s \in Surfaces, trierarch_surface_commit(s),
         pending[s] # Null \/ pending_detach[s], pending[s] # current[s]
  PROVE  IInv'
<1> USE DEF IInv
<1> DEFINE old == current[s]
           new == pending[s]
<1>1. /\ pending' = [pending EXCEPT ![s] = Null] /\ released' = {} /\ phase = "clients"
      /\ UNCHANGED <<phase, live, resource, cursor, sampled, frame_fence, unguarded>>
      /\ ReplaceCurrent(s)
  BY DEF trierarch_surface_commit, Clients, gpuVars
<1>2. /\ current' = [current EXCEPT ![s] = new]
      /\ busy_users' = IF new = Null THEN busy_users ELSE [busy_users EXCEPT ![new] = @ + 1]
      /\ explicit_release' = IF new = Null THEN explicit_release
                             ELSE (explicit_release \ {new}) \cup {b \in {new} : s \in pending_release}
      /\ references' = references
  BY <1>1 DEF ReplaceCurrent
<1>3. /\ old = Null => UNCHANGED <<deferred_next, deferred_releases, queued, requeued>>
      /\ old # Null => /\ defer_buffer_release(old)
                       /\ queued' = [queued EXCEPT ![old] = @ + 1]
                       /\ requeued' = (requeued \/ queued[old] > 0)
  BY <1>1 DEF ReplaceCurrent
<1>4. /\ pending \in [Surfaces -> BufferOrNull] /\ current \in [Surfaces -> BufferOrNull]
      /\ old \in BufferOrNull /\ new \in BufferOrNull /\ Null \in BufferOrNull
      /\ queued \in [Buffers -> Nat] /\ busy_users \in [Buffers -> Nat]
  BY SMTT(30) DEF Type, BufferOrNull
<1>5. queued' \in [Buffers -> Nat] /\ \A x \in Buffers : queued'[x] = queued[x] + Same(old, x)
  BY <1>3, <1>4, BufferAssumption DEF Same, BufferOrNull
<1>6. busy_users' \in [Buffers -> Nat] /\ \A x \in Buffers : busy_users'[x] = busy_users[x] + Same(new, x)
  BY <1>2, <1>4, BufferAssumption DEF Same, BufferOrNull
<1>7. Type'
  <2>1. /\ deferred_next' \in [Buffers -> BufferOrNull] /\ deferred_releases' \in BufferOrNull
        /\ requeued' \in BOOLEAN
    BY <1>3, <1>4, ZenonT(60) DEF Type, defer_buffer_release, BufferOrNull
  <2>2. explicit_release' \subseteq Buffers  BY <1>2, <1>4 DEF Type, BufferOrNull
  <2>3. /\ pending' \in [Surfaces -> BufferOrNull] /\ current' \in [Surfaces -> BufferOrNull]
    BY <1>1, <1>2, <1>4
  <2>. QED  BY <1>1, <1>2, <1>5, <1>6, <2>1, <2>2, <2>3 DEF Type
<1>8. Ledger'
  <2>1. ASSUME NEW x \in Buffers
        PROVE  references'[x] = Held(x)' /\ busy_users'[x] = Users(current', x) + queued'[x]
    <3>1. /\ Users(pending, x) \in Nat /\ Users(current, x) \in Nat /\ queued[x] \in Nat
          /\ references[x] = Within(x, resource) + Users(pending, x) + Users(current, x) + queued[x]
          /\ busy_users[x] = Users(current, x) + queued[x]
      BY InUse, SMTT(30)
    <3>2. Users(pending', x) = Users(pending, x) - Same(new, x) + Same(Null, x)
      <4>1. Recount(Users(pending, x), Users(pending', x), new, Null, x)
        BY <1>1, <1>4, UsersMoved, Zenon
      <4>. QED  BY <4>1 DEF Recount
    <3>3. Users(current', x) = Users(current, x) - Same(old, x) + Same(new, x)
      <4>1. Recount(Users(current, x), Users(current', x), old, new, x)
        BY <1>2, <1>4, UsersMoved, Zenon
      <4>. QED  BY <4>1 DEF Recount
    <3>4. Held(x)' = Within(x, resource) + Users(pending', x) + Users(current', x) + queued'[x]
      BY <1>1 DEF Held
    <3>5. /\ Same(Null, x) = 0 /\ Same(new, x) \in {0, 1} /\ Same(old, x) \in {0, 1}
          /\ Within(x, resource) \in {0, 1}
      BY BufferAssumption DEF Same, Within
    <3> HIDE DEF old, new
    <3>. QED  BY <1>2, <1>5, <1>6, <3>1, <3>2, <3>3, <3>4, <3>5, SMTT(30)
  <2>. QED  BY <2>1, Zenon DEF Ledger
<1>9. LinksCovered' /\ ListExact'
  <2>1. CASE old = Null  BY <1>1, <1>3, <2>1, ListKept
  <2>2. CASE old # Null
    <3>1. old \in Buffers  BY <1>4, <2>2 DEF BufferOrNull
    <3>. QED  BY <1>1, <1>3, <2>2, <3>1, PushKeepsList
  <2>. QED  BY <2>1, <2>2
<1>10. \A x \in Buffers : Same(new, x) \in {0, 1} /\ (x = new => Same(new, x) = 1)  BY SMTT(30) DEF Same
<1>11. ReleasesDue'
  <2>1. \A b \in explicit_release' : b \in explicit_release \/ b = new  BY <1>2
  <2>2. explicit_release' \subseteq Buffers  BY <1>7 DEF Type
  <2>3. ASSUME NEW b \in explicit_release' PROVE busy_users'[b] > 0
    <3>1. b \in Buffers /\ busy_users[b] \in Nat  BY <1>4, <2>2
    <3>2. b \in explicit_release => busy_users[b] > 0  BY DEF ReleasesDue
    <3> HIDE DEF new
    <3>. QED  BY <1>6, <1>10, <2>1, <3>1, <3>2
  <2>. QED  BY <1>1, <2>3 DEF ReleasesDue
<1>12. SampledInUse'
  <2>1. ASSUME ~unguarded, NEW b \in sampled PROVE busy_users'[b] > 0
    <3>1. b \in Buffers /\ busy_users[b] \in Nat /\ busy_users[b] > 0
      BY <1>4, <2>1 DEF SampledInUse, Type
    <3> HIDE DEF new
    <3>. QED  BY <1>6, <1>10, <3>1
  <2>. QED  BY <1>1, <2>1 DEF SampledInUse
<1>. QED  BY <1>7, <1>8, <1>9, <1>11, <1>12

\* surface_resource_destroy gives back both buffers, releases the committed one if this
\* was its last user, and waits for the GPU before that.
LEMMA DestroySurfaceInv ==
  ASSUME IInv, NEW s \in Surfaces, surface_resource_destroy(s)
  PROVE  IInv'
<1> USE DEF IInv
<1> DEFINE b == current[s]
           p == pending[s]
<1>1. /\ phase = "clients" /\ live' = live \ {s} /\ DestroyWaits(s)
      /\ current' = [current EXCEPT ![s] = Null] /\ pending' = [pending EXCEPT ![s] = Null]
      /\ references' = trierarch_buffer_unref(trierarch_buffer_unref(references, b), p)
      /\ explicit_release' = explicit_release
                               \ ({p} \cup trierarch_explicit_sync_buffer_release(b) \cup Freed)
      /\ UNCHANGED <<phase, resource, deferred_next, deferred_releases, cursor, queued, requeued>>
  BY DEF surface_resource_destroy, Clients, deferVars
<1>2. /\ b = Null => UNCHANGED busy_users /\ released' = {}
      /\ b # Null => /\ busy_users' = [busy_users EXCEPT ![b] = IF @ = 0 THEN 0 ELSE @ - 1]
                     /\ released' = {x \in {b} \cap resource : LastUser(x)}
  BY DEF surface_resource_destroy, trierarch_shm_buffer_release
<1>3. /\ pending \in [Surfaces -> BufferOrNull] /\ current \in [Surfaces -> BufferOrNull]
      /\ b \in BufferOrNull /\ p \in BufferOrNull /\ Null \in BufferOrNull
      /\ references \in [Buffers -> Nat] /\ busy_users \in [Buffers -> Nat]
  BY SMTT(30) DEF Type, BufferOrNull
<1>4. \A x \in Buffers :
        /\ Same(b, x) \in {0, 1} /\ Same(p, x) \in {0, 1} /\ Within(x, resource) \in {0, 1}
        /\ Same(Null, x) = 0
        /\ x = b => Same(b, x) = 1
        /\ x # b => Same(b, x) = 0
        /\ x = p => Same(p, x) = 1
        /\ x # p => Same(p, x) = 0
  BY BufferAssumption DEF Same, Within
<1>5. \A x \in Buffers :
        /\ Users(pending, x) \in Nat /\ Users(current, x) \in Nat /\ queued[x] \in Nat
        /\ references[x] \in Nat /\ busy_users[x] \in Nat
        /\ references[x] = Within(x, resource) + Users(pending, x) + Users(current, x) + queued[x]
        /\ busy_users[x] = Users(current, x) + queued[x]
        /\ x = p => Users(pending, x) > 0
        /\ x = b => Users(current, x) > 0
  BY InUse
<1>6. busy_users' \in [Buffers -> Nat] /\ \A x \in Buffers : busy_users'[x] = busy_users[x] - Same(b, x)
  <2>1. CASE b = Null  BY <1>2, <1>3, <2>1, BufferAssumption DEF Same
  <2>2. CASE b # Null
    <3>1. b \in Buffers /\ busy_users[b] > 0  BY <1>3, <1>5, <2>2 DEF BufferOrNull
    <3>2. busy_users' = [busy_users EXCEPT ![b] = busy_users[b] - 1]  BY <1>2, <2>2, <3>1
    <3>. QED  BY <1>3, <3>1, <3>2 DEF Same
  <2>. QED  BY <2>1, <2>2
<1> DEFINE r == trierarch_buffer_unref(references, b)
<1>7. r \in [Buffers -> Nat] /\ \A x \in Buffers : r[x] = references[x] - Same(b, x)
  <2>1. ASSUME b # Null PROVE references[b] > 0
    <3>1. b \in Buffers  BY <1>3, <2>1, SMTT(30) DEF BufferOrNull
    <3>. QED  BY <1>4, <1>5, <3>1
  <2>. QED  BY <1>3, <2>1, UnrefCounts, SMTT(30)
<1>8. /\ references' \in [Buffers -> Nat]
      /\ \A x \in Buffers : references'[x] = references[x] - Same(b, x) - Same(p, x)
  <2>1. references' = trierarch_buffer_unref(r, p)  BY <1>1, SMTT(30)
  <2> HIDE DEF r, b
  <2>2. ASSUME p # Null PROVE r[p] > 0
    <3>1. p \in Buffers  BY <1>3, <2>2 DEF BufferOrNull
    <3> HIDE DEF p
    <3>2. /\ Users(pending, p) > 0 /\ (p = b => Users(current, p) > 0) /\ r[p] = references[p] - Same(b, p)
      BY <1>5, <1>7, <3>1
    <3>. QED  BY <1>4, <1>5, <3>1, <3>2
  <2>3. /\ references' \in [Buffers -> Nat]
        /\ \A x \in Buffers : references'[x] = r[x] - Same(p, x)
    BY <1>3, <1>7, <2>1, <2>2, UnrefCounts
  <2> HIDE DEF p
  <2>. QED  BY <1>4, <1>5, <1>7, <2>3
<1>9. \A x \in Buffers :
        /\ Users(pending', x) = Users(pending, x) - Same(p, x)
        /\ Users(current', x) = Users(current, x) - Same(b, x)
  <2>1. ASSUME NEW x \in Buffers
        PROVE  /\ Users(pending', x) = Users(pending, x) - Same(p, x)
               /\ Users(current', x) = Users(current, x) - Same(b, x)
    <3>1. Recount(Users(pending, x), Users(pending', x), p, Null, x)  BY <1>1, <1>3, UsersMoved, Zenon
    <3>2. Recount(Users(current, x), Users(current', x), b, Null, x)  BY <1>1, <1>3, UsersMoved, Zenon
    <3> HIDE DEF b, p
    <3>. QED  BY <1>4, <1>5, <3>1, <3>2 DEF Recount
  <2>. QED  BY <2>1, SMTT(30)
<1>10. /\ sampled' \in {{}, sampled} /\ frame_fence' \in BOOLEAN /\ unguarded' \in BOOLEAN
       /\ b # Null /\ ~unguarded' => sampled' = {}
       /\ b = Null => UNCHANGED gpuVars
  <2>1. CASE b = Null  BY <1>1, <2>1 DEF DestroyWaits, gpuVars, Type
  <2>2. CASE b # Null
    <3>1. wait_idle  BY <1>1, <2>2 DEF DestroyWaits
    <3>. QED  BY <2>2, <3>1, WaitDrains
  <2>. QED  BY <2>1, <2>2
<1>11. Type'
  <2>1. pending' \in [Surfaces -> BufferOrNull] /\ current' \in [Surfaces -> BufferOrNull]
    BY <1>1, <1>3
  <2>2. released' \subseteq Buffers  BY <1>2, <1>3 DEF Type, BufferOrNull
  <2>3. explicit_release' \subseteq Buffers /\ live' \subseteq Surfaces /\ sampled' \subseteq Buffers
    BY <1>1, <1>10, SMTT(30) DEF Type
  <2> HIDE DEF b, p
  <2>. QED  BY <1>1, <1>6, <1>8, <1>10, <2>1, <2>2, <2>3 DEF Type
<1>12. Ledger'
  <2>1. ASSUME NEW x \in Buffers
        PROVE  references'[x] = Held(x)' /\ busy_users'[x] = Users(current', x) + queued'[x]
    <3>1. Held(x)' = Within(x, resource) + Users(pending', x) + Users(current', x) + queued[x]
      BY <1>1 DEF Held
    <3> HIDE DEF b, p
    <3>2. queued'[x] = queued[x]  BY <1>1, SMTT(30)
    <3>3. /\ Same(b, x) \in Int /\ Same(p, x) \in Int /\ Within(x, resource) \in Int
          /\ Users(pending, x) \in Int /\ Users(current, x) \in Int /\ queued[x] \in Int
      BY <1>4, <1>5, SMTT(30)
    <3>4. /\ references[x] = Within(x, resource) + Users(pending, x) + Users(current, x) + queued[x]
          /\ busy_users[x] = Users(current, x) + queued[x]
      BY <1>5, SMTT(30)
    <3>5. /\ references'[x] = references[x] - Same(b, x) - Same(p, x)
          /\ busy_users'[x] = busy_users[x] - Same(b, x)
          /\ Users(pending', x) = Users(pending, x) - Same(p, x)
          /\ Users(current', x) = Users(current, x) - Same(b, x)
      BY <1>6, <1>8, <1>9
    <3> HIDE DEF IInv
    <3>6. busy_users'[x] = Users(current', x) + queued'[x]  BY <3>2, <3>3, <3>4, <3>5, SMTT(30)
    <3>7. references'[x] = Within(x, resource) + Users(pending', x) + Users(current', x) + queued[x]
      BY <3>3, <3>4, <3>5
    <3>. QED  BY <3>1, <3>6, <3>7
  <2>. QED  BY <2>1, SMTT(30) DEF Ledger
<1>13. LinksCovered' /\ ListExact'  BY <1>1, ListKept, SMTT(30)
<1>14. ReleasesDue'
  <2>1. ASSUME NEW x \in released', NEW t \in Surfaces PROVE current'[t] # x
    <3>1. b # Null /\ x = b /\ busy_users[x] = 1  BY <1>2 DEF LastUser
    <3>2. x \in Buffers  BY <1>3, <3>1, SMTT(30) DEF BufferOrNull
    <3>3. Users(current', x) = 0
      <4> HIDE DEF b, p
      <4>. QED  BY <1>4, <1>5, <1>9, <3>1, <3>2
    <3>4. current'[t] = x => Users(current', x) > 0  BY UsersNat, SMTT(30)
    <3>. QED  BY <3>3, <3>4
  <2>2. ASSUME NEW x \in explicit_release' PROVE busy_users'[x] > 0
    <3>1. x \in explicit_release /\ x \in Buffers /\ busy_users[x] > 0 /\ ~ (x = b /\ busy_users[x] = 1)
      BY <1>1 DEF trierarch_explicit_sync_buffer_release, LastUser, ReleasesDue, Type
    <3> HIDE DEF b, p
    <3>. QED  BY <1>4, <1>5, <1>6, <3>1
  <2>. QED  BY <2>1, <2>2 DEF ReleasesDue
<1>15. SampledInUse'
  <2>1. CASE b = Null
    BY <1>1, <1>2, <1>10, <2>1 DEF SampledInUse, gpuVars
  <2>2. CASE b # Null  BY <1>10, <2>2 DEF SampledInUse
  <2>. QED  BY <2>1, <2>2
<1>. QED  BY <1>11, <1>12, <1>13, <1>14, <1>15

\* The requests that touch no buffer: only a release object may go.
LEMMA QuietInv ==
  ASSUME IInv, released' = {}, explicit_release' \subseteq explicit_release,
         live' \subseteq Surfaces,
         UNCHANGED <<phase, pending, current, resource, countVars, deferVars, gpuVars>>
  PROVE  IInv'
<1> USE DEF IInv, countVars, deferVars, gpuVars
<1>1. Type'  BY DEF Type
<1>2. Ledger'  BY LedgerKept
<1>3. LinksCovered' /\ ListExact'  BY ListKept
<1>4. ReleasesDue' /\ SampledInUse'  BY UseKept
<1>. QED  BY <1>1, <1>2, <1>3, <1>4

-----------------------------------------------------------------------------
(* Frames.                                                                 *)

\* trierarch_renderer_render waits for the last frame and takes the deferred list over.
LEMMA BeginFrameInv ==
  ASSUME IInv, BeginFrame
  PROVE  IInv'
<1> USE DEF IInv
<1>1. /\ phase = "clients" /\ phase' = "flush" /\ wait_idle
      /\ cursor' = deferred_releases /\ deferred_releases' = Null /\ released' = {}
      /\ UNCHANGED <<live, pending, pending_detach, current, resource, references, busy_users,
                     deferred_next, queued, requeued, explicit_release>>
  BY DEF BeginFrame, surfaceVars, countVars, syncVars
<1>w. /\ sampled' \in {{}, sampled} /\ frame_fence' \in BOOLEAN /\ unguarded' \in BOOLEAN
      /\ ~unguarded' => sampled' = {}
  BY <1>1, WaitDrains
<1>2. Type'  BY <1>1, <1>w DEF Type, BufferOrNull
<1>3. Ledger'  BY <1>1, LedgerKept
<1>4. \A x \in Buffers : Links(x)' = Links(x)
  <2>1. ASSUME NEW x \in Buffers PROVE Links(x)' = Links(x)
    <3>1. cursor = Null  BY <1>1 DEF LinksCovered
    <3>2. Same(cursor, x) = 0 /\ Same(Null, x) = 0 /\ Same(deferred_releases, x) \in {0, 1}
      BY <3>1, BufferAssumption DEF Same
    <3>3. Pointing(Buffers, deferred_next, x) \in Nat  BY PointingNat, BufferAssumption
    <3>4. Links(x) = Pointing(Buffers, deferred_next, x) + Same(deferred_releases, x) + Same(cursor, x)
      BY DEF Links
    <3>5. Links(x)' = Pointing(Buffers, deferred_next, x) + Same(Null, x) + Same(deferred_releases, x)
      BY <1>1 DEF Links
    <3>. QED  BY <3>2, <3>3, <3>4, <3>5
  <2>. QED  BY <2>1
<1>5. LinksCovered'  BY <1>1, <1>4, SMTT(30) DEF LinksCovered
<1>6. ListExact'
  <2>1. \A rank : Descending(rank)' <=> Descending(rank)  BY <1>1 DEF Descending
  <2>. QED  BY <1>1, <1>4, <2>1, SMTT(30) DEF ListExact
<1>7. ReleasesDue'  BY <1>1 DEF ReleasesDue
<1>8. SampledInUse'  BY <1>w DEF SampledInUse
<1>. QED  BY <1>2, <1>3, <1>5, <1>6, <1>7, <1>8

\* trierarch_flush_deferred_releases visits the next entry: one user and one reference less.
LEMMA FlushVisitInv ==
  ASSUME IInv, FlushVisit
  PROVE  IInv'
<1> USE DEF IInv
<1> DEFINE b == cursor
<1>1. /\ phase = "flush" /\ b # Null
      /\ busy_users' = [busy_users EXCEPT ![b] = IF @ = 0 THEN 0 ELSE @ - 1]
      /\ released' = {x \in {b} \cap resource : LastUser(x)}
      /\ references' = trierarch_buffer_unref(references, b)
      /\ explicit_release' = explicit_release \ (trierarch_explicit_sync_buffer_release(b) \cup Freed)
      /\ cursor' = deferred_next[b] /\ deferred_next' = [deferred_next EXCEPT ![b] = Null]
      /\ queued' = [queued EXCEPT ![b] = IF @ = 0 THEN 0 ELSE @ - 1]
      /\ UNCHANGED <<phase, live, pending, current, resource, deferred_releases, requeued,
                     sampled, frame_fence, unguarded>>
  BY DEF FlushVisit, trierarch_shm_buffer_release, surfaceVars, gpuVars
<1>2. b \in Buffers  BY <1>1, SMTT(30) DEF Type, BufferOrNull
<1>3. \A x \in Buffers :
        /\ Users(pending, x) \in Nat /\ Users(current, x) \in Nat /\ queued[x] \in Nat
        /\ references[x] \in Nat /\ busy_users[x] \in Nat
        /\ references[x] = Within(x, resource) + Users(pending, x) + Users(current, x) + queued[x]
        /\ busy_users[x] = Users(current, x) + queued[x]
        /\ references[x] >= busy_users[x]
  BY InUse
<1>4. \A x \in Buffers :
        /\ Same(b, x) \in {0, 1} /\ Within(x, resource) \in {0, 1} /\ Same(Null, x) = 0
        /\ Same(deferred_releases, x) \in {0, 1} /\ Same(deferred_next[b], x) \in {0, 1}
        /\ x = b => Same(b, x) = 1
        /\ x # b => Same(b, x) = 0
  BY BufferAssumption DEF Same, Within
<1>5. \A x \in Buffers :
        /\ Pointing(Buffers, deferred_next, x) \in Nat
        /\ Links(x) = Pointing(Buffers, deferred_next, x) + Same(deferred_releases, x) + Same(b, x)
        /\ Links(x) \in Nat
        /\ Links(x)' = Links(x) - Same(b, x)
  <2>1. ASSUME NEW x \in Buffers
        PROVE  /\ Pointing(Buffers, deferred_next, x) \in Nat
               /\ Links(x) = Pointing(Buffers, deferred_next, x) + Same(deferred_releases, x) + Same(b, x)
               /\ Links(x) \in Nat
               /\ Links(x)' = Links(x) - Same(b, x)
    <3>1. deferred_next \in [Buffers -> BufferOrNull] /\ Null \in BufferOrNull /\ IsFiniteSet(Buffers)
      BY BufferAssumption DEF Type, BufferOrNull
    <3>2. Pointing(Buffers, deferred_next, x) \in Nat  BY <3>1, PointingNat
    <3>3. Links(x) = Pointing(Buffers, deferred_next, x) + Same(deferred_releases, x) + Same(b, x)
      BY DEF Links
    <3>4. Links(x)' = Pointing(Buffers, deferred_next', x) + Same(deferred_releases, x) + Same(deferred_next[b], x)
      BY <1>1 DEF Links
    <3>5. Recount(Pointing(Buffers, deferred_next, x), Pointing(Buffers, deferred_next', x), deferred_next[b], Null, x)
      BY <1>1, <1>2, <3>1, PointingMoved, Zenon
    <3> HIDE DEF b
    <3>. QED  BY <1>4, <3>2, <3>3, <3>4, <3>5 DEF Recount
  <2>. QED  BY <2>1, SMTT(30)
<1>6. queued[b] > 0 /\ busy_users[b] > 0 /\ references[b] > 0
  <2>1. Links(b) <= queued[b]  BY <1>2 DEF LinksCovered
  <2> HIDE DEF b
  <2>. QED  BY <1>2, <1>3, <1>4, <1>5, <2>1
<1>7. /\ queued' \in [Buffers -> Nat] /\ \A x \in Buffers : queued'[x] = queued[x] - Same(b, x)
  <2>1. queued[b] # 0  BY <1>2, <1>3, <1>6
  <2>2. queued' = [queued EXCEPT ![b] = queued[b] - 1]  BY <1>1, <2>1
  <2>. QED  BY <1>2, <1>6, <2>2, SMTT(30) DEF Type, Same
<1>8. /\ busy_users' \in [Buffers -> Nat] /\ \A x \in Buffers : busy_users'[x] = busy_users[x] - Same(b, x)
  <2>1. busy_users[b] # 0  BY <1>2, <1>3, <1>6
  <2>2. busy_users' = [busy_users EXCEPT ![b] = busy_users[b] - 1]  BY <1>1, <2>1, SMTT(30)
  <2>. QED  BY <1>2, <1>6, <2>2 DEF Type, Same
<1>9. /\ references' \in [Buffers -> Nat] /\ \A x \in Buffers : references'[x] = references[x] - Same(b, x)
  BY <1>1, <1>2, <1>6, UnrefCounts, SMTT(30) DEF Type, BufferOrNull
<1>10. Type'
  <2>1. deferred_next' \in [Buffers -> BufferOrNull] /\ cursor' \in BufferOrNull
    BY <1>1, <1>2, SMTT(30) DEF Type, BufferOrNull
  <2>2. released' \subseteq Buffers /\ explicit_release' \subseteq Buffers
    BY <1>1, <1>2, SMTT(30) DEF Type
  <2> HIDE DEF b
  <2>. QED  BY <1>1, <1>7, <1>8, <1>9, <2>1, <2>2, SMTT(30) DEF Type
<1>11. Ledger'
  <2>1. ASSUME NEW x \in Buffers
        PROVE  references'[x] = Held(x)' /\ busy_users'[x] = Users(current', x) + queued'[x]
    <3>1. Held(x)' = Within(x, resource) + Users(pending, x) + Users(current, x) + queued'[x]
          /\ Users(current', x) = Users(current, x)
      BY <1>1, SMTT(30) DEF Held
    <3> HIDE DEF b
    <3>2. /\ Same(b, x) \in Int /\ Within(x, resource) \in Int
          /\ Users(pending, x) \in Int /\ Users(current, x) \in Int /\ queued[x] \in Int
      BY <1>3, <1>4, SMTT(30)
    <3>3. /\ references[x] = Within(x, resource) + Users(pending, x) + Users(current, x) + queued[x]
          /\ busy_users[x] = Users(current, x) + queued[x]
      BY <1>3
    <3>4. /\ references'[x] = references[x] - Same(b, x)
          /\ busy_users'[x] = busy_users[x] - Same(b, x) /\ queued'[x] = queued[x] - Same(b, x)
      BY <1>7, <1>8, <1>9
    <3>. QED  BY <3>1, <3>2, <3>3, <3>4, SMTT(30)
  <2>. QED  BY <2>1, SMTT(30) DEF Ledger
<1>12. LinksCovered'
  <2>1. \A x \in Buffers : Links(x)' <= queued'[x]
    <3> HIDE DEF b
    <3>. QED  BY <1>3, <1>4, <1>5, <1>7 DEF LinksCovered
  <2>. QED  BY <1>1, <2>1, SMTT(30) DEF LinksCovered
<1>13. ListExact'
  <2> SUFFICES ASSUME ~requeued
               PROVE  /\ \A x \in Buffers : queued'[x] <= 1 /\ Links(x)' = queued'[x]
                      /\ \A x \in Buffers : queued'[x] = 0 => deferred_next'[x] = Null
                      /\ \E rank \in [Buffers -> Nat] : Descending(rank)'
    BY <1>1 DEF ListExact
  <2>1. /\ \A x \in Buffers : queued[x] <= 1 /\ Links(x) = queued[x]
        /\ \A x \in Buffers : queued[x] = 0 => deferred_next[x] = Null
        /\ \E rank \in [Buffers -> Nat] : Descending(rank)
    BY SMTT(30) DEF ListExact
  <2>2. \A x \in Buffers : queued'[x] <= 1 /\ Links(x)' = queued'[x]
    <3> SUFFICES ASSUME NEW x \in Buffers PROVE queued'[x] <= 1 /\ Links(x)' = queued'[x]  BY SMTT(30)
    <3>1. /\ queued[x] \in Nat /\ queued[x] <= 1 /\ Same(b, x) \in {0, 1} /\ Links(x) = queued[x]
          /\ Links(x)' = Links(x) - Same(b, x) /\ queued'[x] = queued[x] - Same(b, x)
      BY <1>3, <1>4, <1>5, <1>7, <2>1, Zenon
    <3> HIDE DEF b
    <3>. QED  BY <3>1
  <2>3. \A x \in Buffers : queued'[x] = 0 => deferred_next'[x] = Null
    BY <1>1, <1>2, <2>1 DEF Type
  <2>4. PICK rank \in [Buffers -> Nat] : Descending(rank)  BY <2>1
  <2>5. Descending(rank)'  BY <1>1, <1>2, <2>4 DEF Descending, Type
  <2>. QED  BY <2>2, <2>3, <2>5, SMTT(30)
<1>14. ReleasesDue'
  <2>1. ASSUME NEW x \in released', NEW t \in Surfaces PROVE current'[t] # x
    <3>1. x = b /\ busy_users[x] = 1  BY <1>1, SMTT(30) DEF LastUser
    <3>2. Users(current, x) = 0  BY <1>2, <1>3, <1>6, <3>1
    <3>3. current[t] = x => Users(current, x) > 0  BY UsersNat, SMTT(30)
    <3>. QED  BY <1>1, <3>2, <3>3
  <2>2. ASSUME NEW x \in explicit_release' PROVE busy_users'[x] > 0
    <3>1. x \in Buffers /\ busy_users[x] > 0 /\ ~ (x = b /\ busy_users[x] = 1)
      BY <1>1 DEF trierarch_explicit_sync_buffer_release, LastUser, ReleasesDue, Type
    <3> HIDE DEF b
    <3>. QED  BY <1>3, <1>4, <1>8, <3>1, SMTT(30)
  <2>. QED  BY <2>1, <2>2 DEF ReleasesDue
<1>15. SampledInUse'  BY <1>1 DEF SampledInUse
<1>. QED  BY <1>10, <1>11, <1>12, <1>13, <1>14, <1>15

\* The end of a frame: what it drew is committed, hence busy.
LEMMA EndFrameInv ==
  ASSUME IInv,
         \/ EndFlush \/ SwapFails \/ MakeCurrentFails \/ renderer_destroy
         \/ \E fenced \in BOOLEAN : SwapSucceeds(fenced)
  PROVE  IInv'
<1> USE DEF IInv
<1>1. /\ UNCHANGED <<live, pending, pending_detach, current, resource, references, busy_users,
                     deferred_next, deferred_releases, cursor, queued, requeued, explicit_release>>
      /\ released' = {}
  BY DEF EndFlush, SwapFails, MakeCurrentFails, renderer_destroy, SwapSucceeds, surfaceVars,
         countVars, deferVars, syncVars
<1>2. Drawn \subseteq Buffers /\ \A b \in Drawn : busy_users[b] > 0
  <2>1. ASSUME NEW b \in Drawn PROVE busy_users[b] > 0
    <3>1. b \in Buffers /\ \E t \in Surfaces : current[t] = b  BY DEF Drawn, Type
    <3>2. Users(current, b) > 0 /\ Users(current, b) \in Nat /\ queued[b] \in Nat
          /\ busy_users[b] = Users(current, b) + queued[b]
      BY <3>1, InUse, Zenon
    <3>. QED  BY <3>2
  <2>. QED  BY <2>1 DEF Drawn
<1>3. /\ phase' \in {"clients", "flush", "draw"} /\ sampled' \subseteq Buffers
      /\ frame_fence' \in BOOLEAN /\ unguarded' \in BOOLEAN
  <2>1. CASE EndFlush  BY <2>1 DEF EndFlush, gpuVars, Type
  <2>2. CASE MakeCurrentFails  BY <2>2 DEF MakeCurrentFails, gpuVars, Type
  <2>3. CASE SwapFails  BY <1>2, <2>3 DEF SwapFails, Type
  <2>4. CASE renderer_destroy
    <3>1. phase' = phase /\ sampled' = sampled /\ frame_fence' = FALSE /\ unguarded' = TRUE
      BY <2>4, Zenon DEF renderer_destroy
    <3>2. phase \in {"clients", "flush", "draw"} /\ sampled \subseteq Buffers
      BY DEF Type
    <3>. QED  BY <3>1, <3>2, Zenon
  <2>5. CASE \E fenced \in BOOLEAN : SwapSucceeds(fenced)
    BY <1>2, <2>5 DEF SwapSucceeds, Type
  <2>. QED  BY <2>1, <2>2, <2>3, <2>4, <2>5
<1>4. Type'  BY <1>1, <1>3 DEF Type
<1>5. Ledger'  BY <1>1, LedgerKept
<1>6. \A b \in Buffers : Links(b)' = Links(b)  BY <1>1 DEF Links
<1>7. LinksCovered'
  <2>1. (phase' # "flush" => cursor = Null) /\ (phase' # "clients" => deferred_releases = Null)
    BY SMTT(30) DEF EndFlush, SwapFails, MakeCurrentFails, renderer_destroy, SwapSucceeds, LinksCovered
  <2>. QED  BY <1>1, <1>6, <2>1 DEF LinksCovered
<1>8. ListExact'
  <2>1. \A rank : Descending(rank)' <=> Descending(rank)  BY <1>1 DEF Descending
  <2>. QED  BY <1>1, <1>6, <2>1, Zenon DEF ListExact
<1>9. ReleasesDue'  BY <1>1 DEF ReleasesDue
<1>10. SampledInUse'
  <2>1. CASE EndFlush \/ MakeCurrentFails
    BY <1>1, <2>1 DEF EndFlush, MakeCurrentFails, gpuVars, SampledInUse
  <2>2. CASE SwapFails \/ renderer_destroy
    <3>1. unguarded'  BY <2>2 DEF SwapFails, renderer_destroy
    <3>. QED  BY <3>1 DEF SampledInUse
  <2>3. CASE \E fenced \in BOOLEAN : SwapSucceeds(fenced)
    <3>1. PICK fenced \in BOOLEAN : SwapSucceeds(fenced)  BY <2>3
    <3>2. /\ frame_fence' = fenced /\ sampled' = (IF fenced THEN sampled \cup Drawn ELSE {})
          /\ unguarded' = (fenced /\ unguarded) /\ phase' = "clients"
      BY <3>1 DEF SwapSucceeds
    <3>. QED  BY <1>1, <1>2, <3>2 DEF SampledInUse
  <2>. QED  BY <2>1, <2>2, <2>3, SMTT(30)
<1>. QED  BY <1>4, <1>5, <1>7, <1>8, <1>9, <1>10, SMTT(30)

-----------------------------------------------------------------------------
(* The theorems.                                                           *)

\* Every step keeps the invariant.
LEMMA NextInv == IInv /\ [Next]_vars => IInv'
<1> SUFFICES ASSUME IInv, [Next]_vars PROVE IInv'  OBVIOUS
<1>1. CASE UNCHANGED vars
  <2>1. UNCHANGED <<phase, live, pending, current, resource, countVars, deferVars, gpuVars, released,
                    explicit_release>>
    BY <1>1 DEF vars, surfaceVars, syncVars
  <2>2. Type'  BY <2>1 DEF IInv, Type, countVars, deferVars, gpuVars
  <2>3. Ledger'  BY <2>1, LedgerKept DEF IInv, countVars, deferVars
  <2>4. LinksCovered' /\ ListExact'  BY <2>1, ListKept, SMTT(30) DEF IInv, deferVars
  <2>5. ReleasesDue' /\ SampledInUse'
    BY <2>1 DEF IInv, ReleasesDue, SampledInUse, countVars, gpuVars
  <2>. QED  BY <2>2, <2>3, <2>4, <2>5 DEF IInv
<1>2. CASE BufferRequest  BY <1>2, CreateBufferInv, DestroyBufferInv DEF BufferRequest
<1>3. CASE SurfaceRequest
  <2>1. PICK s \in Surfaces :
          \/ create_surface(s)
          \/ \E b \in BufferOrNull : surface_attach(s, b)
          \/ trierarch_surface_commit(s)
          \/ surface_resource_destroy(s)
    BY <1>3 DEF SurfaceRequest
  <2>2. CASE create_surface(s)
    <3>1. /\ released' = {} /\ live' = live \cup {s} /\ explicit_release' = explicit_release
          /\ UNCHANGED <<phase, pending, current, resource, countVars, deferVars, gpuVars>>
      BY <2>2 DEF create_surface, Clients, syncVars
    <3>2. live' \subseteq Surfaces  BY <3>1 DEF IInv, Type
    <3>. QED  BY <3>1, <3>2, QuietInv
  <2>3. CASE \E b \in BufferOrNull : surface_attach(s, b)  BY <2>3, AttachInv
  <2>4. CASE trierarch_surface_commit(s)
    BY <2>4, CommitSameInv, CommitChangedInv
  <2>5. CASE surface_resource_destroy(s)  BY <2>5, DestroySurfaceInv
  <2>. QED  BY <2>1, <2>2, <2>3, <2>4, <2>5
<1>4. CASE SyncRequest \/ release_destroy
  <2>1. /\ released' = {} /\ explicit_release' \subseteq explicit_release /\ live' = live
        /\ UNCHANGED <<phase, pending, current, resource, countVars, deferVars, gpuVars>>
    BY <1>4 DEF SyncRequest, manager_get_sync, sync_set_acquire_fence, sync_get_release,
                sync_resource_destroy, release_destroy, Clients, surfaceVars
  <2>2. live' \subseteq Surfaces  BY <2>1 DEF IInv, Type
  <2>. QED  BY <2>1, <2>2, QuietInv, SMTT(30)
<1>5. CASE Frame  BY <1>5, BeginFrameInv, FlushVisitInv, EndFrameInv DEF Frame
<1>. QED  BY <1>1, <1>2, <1>3, <1>4, <1>5 DEF Next

\* The invariant holds in every reachable state.
LEMMA Inductive == Spec => []IInv
BY InitInv, NextInv, PTL DEF Spec

\* A finite list with as many links as entries leaves none behind: were an entry still
\* queued after the flush, the one closest to the head would have to be pointed at by
\* an entry closer still.
LEMMA Drained ==
  ASSUME IInv, phase = "draw", ~requeued, NEW b \in Buffers
  PROVE  queued[b] = 0
<1> USE DEF IInv
<1>1. PICK rank \in [Buffers -> Nat] : Descending(rank)  BY DEF ListExact
<1> DEFINE Q == {x \in Buffers : queued[x] # 0}
           Closer == {e \in Buffers \X Buffers : rank[e[1]] < rank[e[2]]}
<1>2. SUFFICES ASSUME Q # {} PROVE FALSE  OBVIOUS
<1>3. IsWellFoundedOn(Closer, Buffers)
  <2> SUFFICES ASSUME NEW f \in [Nat -> Buffers], \A n \in Nat : <<f[n + 1], f[n]>> \in Closer
               PROVE  FALSE
    BY DEF IsWellFoundedOn
  <2> DEFINE h == [n \in Nat |-> rank[f[n]]]
  <2>1. h \in [Nat -> Nat]  OBVIOUS
  <2>2. ASSUME NEW n \in Nat PROVE <<h[n + 1], h[n]>> \in OpToRel(<, Nat)
    <3>1. <<f[n + 1], f[n]>> \in Closer  OBVIOUS
    <3>. QED  BY <3>1 DEF OpToRel
  <2>3. IsWellFoundedOn(OpToRel(<, Nat), Nat)  BY NatLessThanWellFounded, Zenon
  <2> HIDE DEF h
  <2>. QED  BY <2>1, <2>2, <2>3, Zenon DEF IsWellFoundedOn
<1>4. PICK m \in Q : \A y \in Q : <<y, m>> \notin Closer
  <2>1. Q \subseteq Buffers  OBVIOUS
  <2> HIDE DEF Q, Closer
  <2>. QED  BY <1>2, <1>3, <2>1, WFMin
<1>5. m \in Buffers /\ queued[m] \in Nat /\ Links(m) = queued[m]  BY DEF ListExact, Type
<1>6. Pointing(Buffers, deferred_next, m) > 0
  <2>1. deferred_releases = Null /\ cursor = Null  BY DEF LinksCovered
  <2>2. Same(deferred_releases, m) = 0 /\ Same(cursor, m) = 0  BY <2>1, <1>5, BufferAssumption DEF Same
  <2>3. Pointing(Buffers, deferred_next, m) \in Nat  BY PointingNat, BufferAssumption
  <2>4. Links(m) # 0  BY <1>5, SMTT(30)
  <2>. QED  BY <1>5, <2>2, <2>3, <2>4 DEF Links
<1>7. PICK x \in Buffers : deferred_next[x] = m
  <2>1. IsFiniteSet(Buffers)  BY BufferAssumption, SMTT(30)
  <2>. QED  BY <1>6, <2>1, PointingNat
<1>8. rank[x] < rank[m]  BY <1>1, <1>5, <1>7, BufferAssumption, SMTT(30) DEF Descending
<1>9. queued[x] # 0  BY <1>5, <1>7, BufferAssumption DEF ListExact
<1>. QED  BY <1>4, <1>5, <1>8, <1>9, Zenon

\* buffer_shm.c, surface.c: in every reachable state references counts the resource, the
\* pending and the committed uses and the entries of the deferred list, busy_users the
\* committed uses and those entries, and no pointer leads to freed storage; for any
\* finite set of surfaces and buffers, shared and re-attached in any order.
THEOREM CountersAreExact == Spec => []CountersExact
<1>1. IInv => CountersExact
  <2> SUFFICES ASSUME IInv PROVE CountersExact  OBVIOUS
  <2> USE DEF IInv
  <2>1. ReferencesAccounted /\ BusyAccounted
    BY SMTT(30) DEF Ledger, Held, Within, ReferencesAccounted, BusyAccounted
  <2>2. NoDanglingPointer
    <3> SUFFICES ASSUME NEW b \in Buffers, references[b] = 0
                 PROVE  /\ \A s \in Surfaces : pending[s] # b /\ current[s] # b
                        /\ deferred_releases # b /\ cursor # b
      BY SMTT(30) DEF NoDanglingPointer
    <3>1. /\ Users(pending, b) \in Nat /\ Users(current, b) \in Nat /\ queued[b] \in Nat
          /\ references[b] = Within(b, resource) + Users(pending, b) + Users(current, b) + queued[b]
          /\ \A s \in Surfaces : pending[s] = b => Users(pending, b) > 0
          /\ \A s \in Surfaces : current[s] = b => Users(current, b) > 0
      BY InUse
    <3>2. Within(b, resource) \in {0, 1}  BY SMTT(30) DEF Within
    <3>3. Users(pending, b) = 0 /\ Users(current, b) = 0 /\ queued[b] = 0  BY <3>1, <3>2, SMTT(30)
    <3>4. /\ Pointing(Buffers, deferred_next, b) \in Nat
          /\ Pointing(Buffers, deferred_next, b) + Same(deferred_releases, b) + Same(cursor, b) <= 0
      BY <3>3, PointingNat, BufferAssumption DEF LinksCovered, Links
    <3>5. deferred_releases # b /\ cursor # b  BY <3>4 DEF Same
    <3>. QED  BY <3>1, <3>3, <3>5, SMTT(30)
  <2>. QED  BY <2>1, <2>2 DEF CountersExact
<1>. QED  BY <1>1, Inductive, PTL

\* buffer_shm.c, linux_explicit_synchronization.c: a release is sent only for a buffer no
\* surface has committed, an adopted release object is still owed its event, and a
\* flush leaves no replaced buffer unreleased, as long as none was pushed twice.
THEOREM ReleasesAreExact == Spec => []ReleasesExact
<1>1. IInv => ReleasesExact
  BY Drained DEF IInv, ReleasesDue, ReleasesExact, FlushDrains
<1>. QED  BY <1>1, Inductive, PTL

\* renderer.c:750: no buffer is released or freed while the GPU may still sample it,
\* except after a failed swap, a failed fence wait (renderer.c:497) or the destruction of
\* a renderer with its fence, and then only until the GPU has been drained again.
THEOREM GpuIsOutlived == Spec => []GpuOutlivedByBuffers
<1>1. IInv => GpuOutlivedByBuffers
  <2> SUFFICES ASSUME IInv, ~unguarded
               PROVE  released \cap sampled = {} /\ \A b \in sampled : references[b] > 0
    BY DEF GpuOutlivedByBuffers
  <2> USE DEF IInv
  <2>1. ASSUME NEW b \in sampled PROVE references[b] > 0
    <3>1. b \in Buffers /\ busy_users[b] > 0  BY SMTT(30) DEF SampledInUse, Type
    <3>2. references[b] >= busy_users[b] /\ references[b] \in Nat /\ busy_users[b] \in Nat
      BY <3>1, InUse
    <3>. QED  BY <3>1, <3>2
  <2>. QED  BY <2>1 DEF SampledInUse
<1>. QED  BY <1>1, Inductive, PTL
=============================================================================
