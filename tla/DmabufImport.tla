---------------------------- MODULE DmabufImport ----------------------------
(***************************************************************************)
(* Buffers whose storage comes from outside the Wayland host: linux-dmabuf *)
(* parameters and android_wlegl handles collect descriptors the guest      *)
(* sends, and become buffers; a descriptor of the token service stands for *)
(* an AHardwareBuffer of the host and is recognised by its inode           *)
(* (linux_dmabuf.c, protocol_stubs.c, tvg_scanout.c, buffer_shm.c).        *)
(***************************************************************************)
EXTENDS DmabufObjects, Integers

VARIABLES
  file,      \* the file each open descriptor of the host refers to, else None
  guest,     \* files a guest holds open or has sent on their way
  fds,       \* descriptors stored in each object
  ahb,       \* hardware buffer stored in each object, or None
  refs,      \* reference count of each hardware buffer
  params,    \* "none", "open", "added" or "used"
  expected,  \* expected_fds of a handle, or None
  users,     \* who holds a reference to a buffer: its "resource", a "surface"
  tokens,    \* inode of each listed token, or None
  running,   \* the token service runs
  failed     \* the client was sent a protocol error: only its end is to come

objectVars == <<params, expected, users, tokens, running, failed>>
vars == <<file, guest, fds, ahb, refs, objectVars>>

Open == {n \in Fds : file[n] # None}
InodesInUse == {file[n].ino : n \in Open} \cup {f.ino : f \in guest}

-----------------------------------------------------------------------------
(* Descriptors and hardware buffers.                                       *)

\* The object x is given the descriptors fs and the hardware buffer a.
Put(x, fs, a) ==
  /\ fds' = [fds EXCEPT ![x] = fs]
  /\ ahb' = [ahb EXCEPT ![x] = a]

\* x drops what it has: each descriptor is closed, the hardware buffer released.
Drop(xs) ==
  /\ file' = [n \in Fds |-> IF \E x \in xs : n \in fds[x] THEN None ELSE file[n]]
  /\ fds' = [x \in Objects |-> IF x \in xs THEN {} ELSE fds[x]]
  /\ ahb' = [x \in Objects |-> IF x \in xs THEN None ELSE ahb[x]]
  /\ refs' = [a \in Ahbs |-> refs[a] - Cardinality({x \in xs : ahb[x] = a})]

\* A descriptor for f arrives in a request and is given the number n.
Receive(f, n, x) ==
  /\ f \in guest /\ n \notin Open
  /\ file' = [file EXCEPT ![n] = f]
  /\ fds' = [fds EXCEPT ![x] = @ \cup {n}]

-----------------------------------------------------------------------------
(* The guest.                                                              *)

GuestCreatesFile(i) ==
  /\ i \notin InodesInUse
  /\ guest' = guest \cup {[ino |-> i, storage |-> None]}
  /\ UNCHANGED <<file, fds, ahb, refs, objectVars>>

GuestCloses(f) ==
  /\ guest' = guest \ {f}
  /\ UNCHANGED <<file, fds, ahb, refs, objectVars>>

-----------------------------------------------------------------------------
(* The token service.                                                      *)

\* alloc_token, and the reply with the descriptor, which may not arrive.  A failure
\* on the way leaves nothing behind.
handle_client(t, n, i, a, arrives) ==
  /\ running /\ tokens[t] = None /\ n \notin Open /\ i \notin InodesInUse /\ refs[a] = 0
  /\ file' = [file EXCEPT ![n] = [ino |-> i, storage |-> a]]
  /\ refs' = [refs EXCEPT ![a] = 1]
  /\ Put(t, {n}, a)
  /\ tokens' = [tokens EXCEPT ![t] = i]
  /\ guest' = IF arrives THEN guest \cup {[ino |-> i, storage |-> a]} ELSE guest
  /\ UNCHANGED <<params, expected, users, running, failed>>

tvg_scanout_start ==
  /\ ~running
  /\ running' = TRUE
  /\ UNCHANGED <<file, guest, fds, ahb, refs, params, expected, users, tokens, failed>>

tvg_scanout_stop ==
  /\ running
  /\ running' = FALSE
  /\ Drop(Tokens)
  /\ tokens' = [t \in Tokens |-> None]
  /\ UNCHANGED <<guest, params, expected, users, failed>>

\* The tokens whose inode is that of descriptor n; at most one.
tvg_scanout_lookup_fd(n) == {t \in Tokens : tokens[t] = file[n].ino}

-----------------------------------------------------------------------------
(* linux-dmabuf.                                                           *)

dmabuf_create_params(p) ==
  /\ ~failed /\ params[p] = "none"
  /\ params' = [params EXCEPT ![p] = "open"]
  /\ UNCHANGED <<file, guest, fds, ahb, refs, expected, users, tokens, running, failed>>

\* A second plane, or one after creation, is closed again and an error.
params_add(p, f, n, plane) ==
  /\ ~failed /\ params[p] # "none"
  /\ IF params[p] = "open" /\ plane = 0
     THEN /\ Receive(f, n, p)
          /\ params' = [params EXCEPT ![p] = "added"]
          /\ UNCHANGED failed
     ELSE /\ f \in guest /\ n \notin Open
          /\ failed' = TRUE
          /\ UNCHANGED <<file, fds, params>>
  /\ UNCHANGED <<guest, ahb, refs, expected, users, tokens, running>>

\* A refused size, format or modifier leaves the descriptor with the parameters;
\* a buffer that cannot be allocated takes it down with it.
make_dmabuf_buffer(p, b, result) ==
  CASE result = "refused" -> UNCHANGED <<file, fds, ahb, refs, users>>
    [] result = "no_memory" -> fds[p] # {} /\ Drop({p}) /\ UNCHANGED users
    [] result = "created" ->
         /\ users[b] = {} /\ fds[p] # {}
         /\ users' = [users EXCEPT ![b] = {"resource"}]
         /\ fds' = [fds EXCEPT ![p] = {}, ![b] = fds[p]]
         /\ LET found == UNION {tvg_scanout_lookup_fd(n) : n \in fds[p]} IN
              IF found = {} THEN UNCHANGED <<ahb, refs>>
              ELSE LET a == ahb[CHOOSE t \in found : TRUE] IN
                     /\ ahb' = [ahb EXCEPT ![b] = a]
                     /\ refs' = [refs EXCEPT ![a] = @ + 1]
         /\ UNCHANGED file

MutParamsKeepFd(p, b, result, immediate) ==
  /\ ~failed /\ params[p] \in {"open", "added"}
  /\ params' = [params EXCEPT ![p] = "used"]
  /\ IF result = "created"
     THEN /\ users[b] = {} /\ fds[p] # {}
          /\ users' = [users EXCEPT ![b] = {"resource"}]
          /\ fds' = [fds EXCEPT ![b] = fds[p]]
          /\ UNCHANGED <<file, ahb, refs>>
     ELSE make_dmabuf_buffer(p, b, result)
  /\ failed' = (immediate /\ result # "created")
  /\ UNCHANGED <<guest, expected, tokens, running>>

\* create answers, create_immed can only fail by an error; used parameters are
\* left alone.
params_create(p, b, result, immediate) ==
  /\ ~failed /\ params[p] \in {"open", "added"}
  /\ params' = [params EXCEPT ![p] = "used"]
  /\ make_dmabuf_buffer(p, b, result)
  /\ failed' = (immediate /\ result # "created")
  /\ UNCHANGED <<guest, expected, tokens, running>>

params_resource_destroy(p) ==
  /\ params[p] # "none"
  /\ params' = [params EXCEPT ![p] = "none"]
  /\ Drop({p})
  /\ UNCHANGED <<guest, expected, users, tokens, running, failed>>

-----------------------------------------------------------------------------
(* android_wlegl.                                                          *)

wlegl_create_handle(h, count) ==
  /\ ~failed /\ expected[h] = None
  /\ expected' = [expected EXCEPT ![h] = count]
  /\ UNCHANGED <<file, guest, fds, ahb, refs, params, users, tokens, running, failed>>

\* One descriptor too many is closed again.
wlegl_handle_add_fd(h, f, n) ==
  /\ ~failed /\ expected[h] # None /\ Cardinality(fds[h]) < expected[h]
  /\ Receive(f, n, h)
  /\ UNCHANGED <<guest, ahb, refs, objectVars>>

\* The handle keeps its descriptors.  A buffer that cannot be made ends in an error
\* only when memory is short.
wlegl_create_buffer(h, b, a, memory) ==
  /\ ~failed /\ expected[h] # None
  /\ Cardinality(fds[h]) = expected[h] /\ expected[h] # 0
  /\ users[b] = {} /\ refs[a] = 0
  /\ IF memory
     THEN /\ refs' = [refs EXCEPT ![a] = 1]
          /\ Put(b, {}, a)
          /\ users' = [users EXCEPT ![b] = {"resource"}]
     ELSE UNCHANGED <<refs, fds, ahb, users>>
  /\ failed' = ~memory
  /\ UNCHANGED <<file, guest, params, expected, tokens, running>>

wlegl_handle_destroy(h) ==
  /\ expected[h] # None
  /\ expected' = [expected EXCEPT ![h] = None]
  /\ Drop({h})
  /\ UNCHANGED <<guest, params, users, tokens, running, failed>>

-----------------------------------------------------------------------------
(* The life of a buffer.                                                   *)

\* A surface takes a reference when the buffer is committed.
trierarch_buffer_ref(b) ==
  /\ ~failed /\ "resource" \in users[b]
  /\ users' = [users EXCEPT ![b] = @ \cup {"surface"}]
  /\ UNCHANGED <<file, guest, fds, ahb, refs, params, expected, tokens, running, failed>>

\* The last reference takes the storage with it: trierarch_buffer_destroy_storage.
trierarch_buffer_unref(b, user) ==
  /\ user \in users[b]
  /\ users' = [users EXCEPT ![b] = @ \ {user}]
  /\ IF users[b] = {user} THEN Drop({b}) ELSE UNCHANGED <<file, fds, ahb, refs>>
  /\ UNCHANGED <<guest, params, expected, tokens, running, failed>>

\* A client that was sent an error is gone when its last resource is.
ClientGone ==
  /\ failed
  /\ \A p \in Params : params[p] = "none"
  /\ \A h \in Handles : expected[h] = None
  /\ \A b \in Buffers : "resource" \notin users[b]
  /\ failed' = FALSE
  /\ UNCHANGED <<file, guest, fds, ahb, refs, params, expected, users, tokens, running>>

-----------------------------------------------------------------------------

Init ==
  /\ file = [n \in Fds |-> None] /\ guest = {}
  /\ fds = [x \in Objects |-> {}] /\ ahb = [x \in Objects |-> None]
  /\ refs = [a \in Ahbs |-> 0]
  /\ params = [p \in Params |-> "none"] /\ expected = [h \in Handles |-> None]
  /\ users = [b \in Buffers |-> {}] /\ tokens = [t \in Tokens |-> None]
  /\ running = FALSE /\ failed = FALSE

Guest == (\E i \in Inodes : GuestCreatesFile(i)) \/ (\E f \in guest : GuestCloses(f))

TokenService ==
  \/ \E t \in Tokens, n \in Fds, i \in Inodes, a \in Ahbs, arrives \in BOOLEAN :
       handle_client(t, n, i, a, arrives)
  \/ tvg_scanout_start \/ tvg_scanout_stop

Dmabuf ==
  \E p \in Params :
    \/ dmabuf_create_params(p) \/ params_resource_destroy(p)
    \/ \E f \in guest, n \in Fds, plane \in 0..1 : params_add(p, f, n, plane)
    \/ \E b \in Buffers, result \in {"refused", "no_memory", "created"}, immediate \in BOOLEAN :
         params_create(p, b, result, immediate)

Wlegl ==
  \E h \in Handles :
    \/ \E count \in Expected : wlegl_create_handle(h, count)
    \/ \E f \in guest, n \in Fds : wlegl_handle_add_fd(h, f, n)
    \/ \E b \in Buffers, a \in Ahbs, memory \in BOOLEAN : wlegl_create_buffer(h, b, a, memory)
    \/ wlegl_handle_destroy(h)

BufferLife ==
  \E b \in Buffers :
    \/ trierarch_buffer_ref(b)
    \/ \E user \in {"resource", "surface"} : trierarch_buffer_unref(b, user)

Next == Guest \/ TokenService \/ Dmabuf \/ Wlegl \/ BufferLife \/ ClientGone

Spec == Init /\ [][Next]_vars

-----------------------------------------------------------------------------

\* The shapes of the objects.
TypeOK ==
  /\ file \in [Fds -> File \cup {None}] /\ guest \subseteq File
  /\ fds \in [Objects -> SUBSET Fds] /\ ahb \in [Objects -> Ahbs \cup {None}]
  /\ refs \in [Ahbs -> Nat]
  /\ params \in [Params -> {"none", "open", "added", "used"}]
  /\ expected \in [Handles -> Expected \cup {None}]
  /\ users \in [Buffers -> SUBSET {"resource", "surface"}]
  /\ tokens \in [Tokens -> Inodes \cup {None}]
  /\ running \in BOOLEAN /\ failed \in BOOLEAN

\* linux_dmabuf.c make_dmabuf_buffer, params_resource_destroy, protocol_stubs.c
\* wlegl_handle_destroy: each open descriptor has exactly one object that will
\* close it, and no object keeps a number that was closed and may be another's.
DescriptorsOwned ==
  /\ \A x, y \in Objects : x # y => fds[x] \cap fds[y] = {}
  /\ Open = UNION {fds[x] : x \in Objects}

\* linux_dmabuf.c: "The token service owns the AHB; the buffer holds an extra
\* reference so it can keep displaying the last frame after the token is gone."
\* The counts are exact.
ReferencesExact == \A a \in Ahbs : refs[a] = Cardinality({x \in Objects : ahb[x] = a})

\* linux_dmabuf.c make_dmabuf_buffer: a buffer made from a token's descriptor shows
\* the storage that descriptor stands for, although inodes are used again.
ShowsItsToken == \A b \in Buffers : \A n \in fds[b] : ahb[b] # None => file[n].storage = ahb[b]

\* The three together, as the runs check them.
ImportsOwned == DescriptorsOwned /\ ReferencesExact /\ ShowsItsToken
=============================================================================
