-------------------------- MODULE WindowBridgeProofs ------------------------
(***************************************************************************)
(* For any number of windows and any length of the queue, window           *)
(* references balance over every call of the JNI bridge, an attach during  *)
(* a stop included, unless its swap of the window collides with that of    *)
(* the dispatch thread.                                                    *)
(***************************************************************************)
EXTENDS WindowBridge, FiniteSetTheorems, TLAPS

\* The thread exists as long as the server, and holds commands only while it runs them.
ThreadOfServer ==
  /\ server = "none" <=> dispatcher = "none"
  /\ dispatch_thread_started <=> server # "none"
  /\ dispatcher \in {"none", "dispatch", "exited"} => taken = <<>>
  /\ dispatcher = "replace" => taken # <<>> /\ Head(taken) # Input
  /\ dispatcher \in {"none", "replace", "create"} => renderer = Null
  /\ stopper = "idle" /\ server # "none" => dispatch_running /\ dispatcher # "exited"

\* A window is stored directly only without a server or during its stop, and before
\* the first collision the two writers of native_window are never both in a swap.
DirectWithoutServer ==
  /\ attacher = "store" => server = "none" \/ ~dispatch_running
  /\ attacher = "idle" => incoming = Null
  /\ ~collided => dispatcher # "replace" \/ attacher = "idle"

\* The state is well typed; reference counts may still be any integers.
Type ==
  /\ server \in {"none", "live"}
  /\ dispatch_running \in BOOLEAN /\ dispatch_thread_started \in BOOLEAN
  /\ native_window \in Bridge!WindowOrNull /\ renderer \in Bridge!WindowOrNull
  /\ queue \in Seq(Bridge!Commands) /\ taken \in Seq(Bridge!Commands)
  /\ dispatcher \in {"none", "dispatch", "commands", "replace", "create", "exited"}
  /\ stopper \in {"idle", "join"}
  /\ attacher \in {"idle", "store"} /\ incoming \in Bridge!WindowOrNull
  /\ references \in [Windows -> Int] /\ collided \in BOOLEAN

\* The inductive invariant.
IInv == Type /\ ThreadOfServer /\ DirectWithoutServer /\ Bridge!ReferencesBalanced

-----------------------------------------------------------------------------
(* Occurrences in a sequence of commands.                                  *)

\* The places where w occurs in s.
Places(s, w) == {i \in DOMAIN s : s[i] = w}

\* The bridge counts as FiniteSets does.
LEMMA SameCardinality == ASSUME NEW S PROVE Bridge!Cardinality(S) = Cardinality(S)
BY Zenon DEF Bridge!Cardinality, Cardinality

\* A command list is finite, so the commands of a window can be counted.
LEMMA PlacesFinite ==
  ASSUME NEW S, NEW s \in Seq(S), NEW w
  PROVE  IsFiniteSet(Places(s, w)) /\ Bridge!CountIn(s, w) \in Nat /\ Bridge!CountIn(s, w) = Cardinality(Places(s, w))
<1>1. Len(s) \in Nat /\ DOMAIN s = 1..Len(s)  OBVIOUS
<1>2. IsFiniteSet(1..Len(s))  BY <1>1, FS_Interval
<1>3. Places(s, w) \subseteq 1..Len(s)  BY <1>1 DEF Places
<1>4. IsFiniteSet(Places(s, w))  BY <1>2, <1>3, FS_Subset
<1>5. Cardinality(Places(s, w)) \in Nat  BY <1>4, FS_CardinalityType
<1>. QED  BY <1>4, <1>5, SameCardinality DEF Bridge!CountIn, Places

\* An empty list, after discard_commands or process_commands, holds no window.
LEMMA CountEmpty == ASSUME NEW w PROVE Bridge!CountIn(<<>>, w) = 0
<1>1. {i \in DOMAIN <<>> : <<>>[i] = w} = {}  OBVIOUS
<1>. QED  BY <1>1, FS_EmptySet, SameCardinality DEF Bridge!CountIn

\* enqueue_command_locked appends: the new command is counted once.
LEMMA CountAppend ==
  ASSUME NEW S, NEW s \in Seq(S), NEW c \in S, NEW w
  PROVE  Bridge!CountIn(Append(s, c), w) = Bridge!CountIn(s, w) + (IF c = w THEN 1 ELSE 0)
<1> DEFINE n == Len(s) + 1
<1>1. /\ Len(s) \in Nat /\ DOMAIN s = 1..Len(s) /\ n \in Nat /\ n \notin 1..Len(s)
      /\ Append(s, c) \in Seq(S) /\ DOMAIN Append(s, c) = 1..Len(s) \cup {n}
      /\ Append(s, c)[n] = c /\ \A i \in 1..Len(s) : Append(s, c)[i] = s[i]
  OBVIOUS
<1> HIDE DEF n
<1>2. IsFiniteSet(Places(s, w)) /\ Bridge!CountIn(s, w) \in Nat /\ Bridge!CountIn(s, w) = Cardinality(Places(s, w))
  BY PlacesFinite
<1>3. Bridge!CountIn(Append(s, c), w) = Cardinality(Places(Append(s, c), w))
  BY <1>1, PlacesFinite, Zenon
<1>4. CASE c = w
  <2>1. Places(Append(s, c), w) = Places(s, w) \cup {n} /\ n \notin Places(s, w)
    BY <1>1, <1>4 DEF Places
  <2>2. Cardinality(Places(s, w) \cup {n}) = Cardinality(Places(s, w)) + 1
    BY <1>2, <2>1, FS_AddElement, Zenon
  <2>. QED  BY <1>2, <1>3, <1>4, <2>1, <2>2
<1>5. CASE c # w
  <2>1. Places(Append(s, c), w) = Places(s, w)  BY <1>1, <1>5 DEF Places
  <2>. QED  BY <1>2, <1>3, <1>5, <2>1
<1>. QED  BY <1>4, <1>5

\* The dispatch thread takes commands from the front.
LEMMA CountTail ==
  ASSUME NEW S, NEW s \in Seq(S), s # <<>>, NEW w
  PROVE  Bridge!CountIn(s, w) = Bridge!CountIn(Tail(s), w) + (IF Head(s) = w THEN 1 ELSE 0)
<1>1. /\ Len(s) \in Nat /\ Len(s) > 0 /\ DOMAIN s = 1..Len(s) /\ Head(s) = s[1]
      /\ Tail(s) \in Seq(S) /\ DOMAIN Tail(s) = 1..(Len(s) - 1)
      /\ \A i \in 1..(Len(s) - 1) : Tail(s)[i] = s[i + 1]
  OBVIOUS
<1> DEFINE P == Places(Tail(s), w)
           L == Places(s, w) \ {1}
           f == [i \in P |-> i + 1]
<1>2. IsFiniteSet(P) /\ Bridge!CountIn(Tail(s), w) \in Nat /\ Bridge!CountIn(Tail(s), w) = Cardinality(P)
  BY <1>1, PlacesFinite, Zenon
<1>3. IsFiniteSet(Places(s, w)) /\ Bridge!CountIn(s, w) \in Nat /\ Bridge!CountIn(s, w) = Cardinality(Places(s, w))
  BY PlacesFinite
<1>4. f \in Bijection(P, L)
  <2>1. P \subseteq Int  BY <1>1 DEF Places
  <2>2. f \in [P -> L]
    <3>1. ASSUME NEW i \in P PROVE i + 1 \in L  BY <1>1, <3>1 DEF Places
    <3>. QED  BY <3>1
  <2>3. \A i, j \in P : f[i] = f[j] => i = j  BY <2>1
  <2>4. ASSUME NEW k \in L PROVE \E i \in P : f[i] = k
    <3>1. k - 1 \in P  BY <1>1 DEF Places
    <3>2. f[k - 1] = k  BY <1>1, <3>1 DEF Places
    <3>. QED  BY <3>1, <3>2
  <2>. QED  BY <2>2, <2>3, <2>4 DEF Bijection, Injection, Surjection, IsInjective
<1>5. Cardinality(L) = Cardinality(P) /\ IsFiniteSet(L)
  <2>1. ExistsBijection(P, L)  BY <1>4, Zenon DEF ExistsBijection
  <2>. QED  BY <1>2, <2>1, FS_Bijection
<1>6. CASE s[1] = w
  <2>1. 1 \in Places(s, w)  BY <1>1, <1>6 DEF Places
  <2>2. Cardinality(L) = Cardinality(Places(s, w)) - 1  BY <1>3, <2>1, FS_RemoveElement, Zenon
  <2>. QED  BY <1>1, <1>2, <1>3, <1>5, <1>6, <2>2
<1>7. CASE s[1] # w
  <2>1. L = Places(s, w)  BY <1>1, <1>7 DEF Places
  <2>2. Cardinality(L) = Cardinality(Places(s, w))  BY <2>1, Zenon
  <2>. HIDE DEF L, P
  <2>. QED  BY <1>1, <1>2, <1>3, <1>5, <1>7, <2>2
<1>. QED  BY <1>6, <1>7

-----------------------------------------------------------------------------
(* Reference counts.                                                       *)

\* A condition as a count.
One(condition) == IF condition THEN 1 ELSE 0

\* ANativeWindow_acquire counts one window up and leaves the others alone.
LEMMA AcquireCounts ==
  ASSUME NEW refs \in [Windows -> Int], NEW x \in Bridge!WindowOrNull, Null \notin Windows
  PROVE  /\ Bridge!Acquire(refs, x) \in [Windows -> Int]
         /\ \A w \in Windows : Bridge!Acquire(refs, x)[w] = refs[w] + One(x = w)
BY DEF Bridge!Acquire, Bridge!WindowOrNull, One

\* ANativeWindow_release counts one window down and leaves the others alone.
LEMMA ReleaseCounts ==
  ASSUME NEW refs \in [Windows -> Int], NEW x \in Bridge!WindowOrNull, Null \notin Windows
  PROVE  /\ Bridge!Release(refs, x) \in [Windows -> Int]
         /\ \A w \in Windows : Bridge!Release(refs, x)[w] = refs[w] - One(x = w)
BY DEF Bridge!Release, Bridge!WindowOrNull, One

\* What the invariant says of one window, in numbers.
Held(w) == One(Bridge!SlotOwns(w)) + Bridge!CountIn(queue, w) + Bridge!CountIn(taken, w) + One(incoming = w)

\* ReferencesBalanced in terms of Held.
LEMMA Balance ==
  Bridge!ReferencesBalanced <=> /\ ~collided => \A w \in Windows : references[w] = Held(w)
                                /\ stopper = "idle" /\ renderer # Null => Bridge!SlotOwns(renderer)
BY DEF Bridge!ReferencesBalanced, Held, One

\* Counts of the two command lists are natural numbers.
LEMMA Counts ==
  ASSUME Type
  PROVE  \A w \in Windows : Bridge!CountIn(queue, w) \in Nat /\ Bridge!CountIn(taken, w) \in Nat
BY PlacesFinite DEF Type

\* The shares of a window's references, each a natural number.
LEMMA Shares ==
  ASSUME Type, NEW w \in Windows, references[w] = Held(w)
  PROVE  /\ references[w] = One(Bridge!SlotOwns(w)) + Bridge!CountIn(queue, w) + Bridge!CountIn(taken, w) + One(incoming = w)
         /\ One(Bridge!SlotOwns(w)) \in Nat /\ One(incoming = w) \in Nat /\ One(native_window = w) \in Nat
         /\ Bridge!CountIn(queue, w) \in Nat /\ Bridge!CountIn(taken, w) \in Nat
<1>1. Bridge!CountIn(queue, w) \in Nat /\ Bridge!CountIn(taken, w) \in Nat  BY Counts
<1>2. One(Bridge!SlotOwns(w)) \in Nat /\ One(incoming = w) \in Nat /\ One(native_window = w) \in Nat
  BY DEF One
<1>. QED  BY <1>1, <1>2 DEF Held

\* The same for the state after a step.
LEMMA BalanceAfter ==
  ASSUME ~collided' => \A w \in Windows : references'[w] = Held(w)',
         stopper' = "idle" /\ renderer' # Null => Bridge!SlotOwns(renderer)'
  PROVE  Bridge!ReferencesBalanced'
BY DEF Bridge!ReferencesBalanced, Held, One

\* discard_commands gives back one reference for every queued attach.
LEMMA DiscardCounts ==
  ASSUME Type
  PROVE  /\ Bridge!discard_commands(references) \in [Windows -> Int]
         /\ \A w \in Windows : Bridge!discard_commands(references)[w] = references[w] - Bridge!CountIn(queue, w)
<1>1. \A w \in Windows : references[w] \in Int  BY DEF Type
<1>2. \A w \in Windows : Bridge!CountIn(queue, w) \in Nat  BY Counts
<1>. QED  BY <1>1, <1>2 DEF Bridge!discard_commands

-----------------------------------------------------------------------------
(* The invariant.                                                          *)

\* Nothing is attached, queued or running.
LEMMA InitInv == ASSUME Null \notin Windows PROVE Bridge!Init => IInv
<1> SUFFICES ASSUME Bridge!Init PROVE IInv  OBVIOUS
<1>1. Type
  <2>1. queue \in Seq(Bridge!Commands) /\ taken \in Seq(Bridge!Commands)  BY DEF Bridge!Init
  <2>2. references \in [Windows -> Int]  BY DEF Bridge!Init
  <2>. QED  BY <2>1, <2>2, Zenon DEF Bridge!Init, Type, Bridge!WindowOrNull
<1>2. ThreadOfServer /\ DirectWithoutServer  BY DEF Bridge!Init, ThreadOfServer, DirectWithoutServer
<1>3. ASSUME NEW w \in Windows PROVE references[w] = Held(w)
  <2>1. Bridge!CountIn(queue, w) = 0 /\ Bridge!CountIn(taken, w) = 0  BY CountEmpty DEF Bridge!Init
  <2>2. ~Bridge!SlotOwns(w) /\ incoming # w /\ references[w] = 0
    BY DEF Bridge!Init, Bridge!SlotOwns
  <2>. QED  BY <2>1, <2>2 DEF Held, One
<1>4. renderer = Null  BY DEF Bridge!Init
<1>. QED  BY <1>1, <1>2, <1>3, <1>4, Balance DEF IInv

\* The entry points keep it.  An attach during a stop stores a window while the
\* thread is still there, so the slot it releases may be in a swap already.
LEMMA EntryPointInv ==
  ASSUME Null \notin Windows, Input \notin Bridge!WindowOrNull,
         IInv, Bridge!EntryPoint
  PROVE  IInv'
<1>0. Type /\ ThreadOfServer /\ DirectWithoutServer  BY DEF IInv
<1>b. ~collided => \A w \in Windows : references[w] = Held(w)  BY Balance DEF IInv
<1>r. stopper = "idle" /\ renderer # Null => Bridge!SlotOwns(renderer)  BY Balance DEF IInv
<1>n. \A w \in Windows : Bridge!CountIn(queue, w) \in Nat /\ Bridge!CountIn(taken, w) \in Nat
  BY <1>0, Counts
<1>i. \A w \in Windows : references[w] \in Int  BY <1>0 DEF Type
<1>s. ASSUME ~collided, NEW w \in Windows
      PROVE
        /\ references[w] = One(Bridge!SlotOwns(w)) + Bridge!CountIn(queue, w) + Bridge!CountIn(taken, w) + One(incoming = w)
        /\ One(Bridge!SlotOwns(w)) \in Nat /\ One(incoming = w) \in Nat /\ One(native_window = w) \in Nat
        /\ Bridge!CountIn(queue, w) \in Nat /\ Bridge!CountIn(taken, w) \in Nat
  BY <1>0, <1>b, <1>s, Shares
<1>t. references \in [Windows -> Int] /\ native_window \in Bridge!WindowOrNull  BY <1>0 DEF Type
<1>e. \A w : Bridge!CountIn(<<>>, w) = 0  BY CountEmpty
<1>1. ASSUME Bridge!nativeStart PROVE IInv'
  <2>1. /\ server = "none" /\ stopper = "idle" /\ attacher = "idle"
        /\ server' = "live" /\ dispatch_running' = TRUE /\ dispatch_thread_started' = TRUE
        /\ queue' = IF native_window = Null THEN queue ELSE Append(queue, native_window)
        /\ references' = Bridge!Acquire(references, native_window)
        /\ dispatcher' = "dispatch"
        /\ UNCHANGED <<native_window, renderer, taken, stopper, attacher, incoming, collided>>
    BY <1>1 DEF Bridge!nativeStart, Bridge!MutexFree, Bridge!QueueRetainedWindow, Bridge!attachVars
  <2>2. dispatcher = "none" /\ taken = <<>> /\ renderer = Null  BY <1>0, <2>1 DEF ThreadOfServer
  <2>3. /\ references' \in [Windows -> Int]
        /\ \A w \in Windows : references'[w] = references[w] + One(native_window = w)
    BY <1>t, <2>1, AcquireCounts
  <2>4. queue' \in Seq(Bridge!Commands)  BY <1>0, <2>1 DEF Type, Bridge!Commands
  <2>5. Type'  BY <1>0, <2>1, <2>3, <2>4 DEF Type
  <2>6. ThreadOfServer' /\ DirectWithoutServer'
    BY <1>0, <2>1, <2>2 DEF ThreadOfServer, DirectWithoutServer
  <2>7. ASSUME ~collided', NEW w \in Windows PROVE references'[w] = Held(w)'
    <3>0. ~collided  BY <2>1, <2>7
    <3>1. Bridge!CountIn(queue', w) = Bridge!CountIn(queue, w) + One(native_window = w)
      <4>1. CASE native_window = Null  BY <1>n, <2>1, <4>1 DEF One
      <4>2. CASE native_window # Null
        <5>1. native_window \in Bridge!Commands /\ queue \in Seq(Bridge!Commands)
          BY <1>0 DEF Type, Bridge!Commands
        <5>. QED  BY <2>1, <4>2, <5>1, CountAppend DEF One
      <4>. QED  BY <4>1, <4>2
    <3>2. Bridge!SlotOwns(w)' <=> Bridge!SlotOwns(w)  BY <2>1, <2>2 DEF Bridge!SlotOwns
    <3>3. One(Bridge!SlotOwns(w)') = One(Bridge!SlotOwns(w)) /\ One(incoming' = w) = One(incoming = w)
      BY <2>1, <3>2 DEF One
    <3>. QED  BY <3>0, <1>s, <2>1, <2>3, <3>1, <3>3 DEF Held
  <2>8. Bridge!ReferencesBalanced'  BY <2>1, <2>2, <2>7, BalanceAfter
  <2>. QED  BY <2>5, <2>6, <2>8 DEF IInv
<1>2. ASSUME Bridge!nativeStartFails PROVE IInv'
  <2>1. /\ server = "none" /\ dispatch_running' = FALSE
        /\ references' = Bridge!discard_commands(references) /\ queue' = <<>>
        /\ UNCHANGED <<server, dispatch_thread_started, native_window, renderer, taken,
                       dispatcher, stopper, attacher, incoming, collided>>
    BY <1>2 DEF Bridge!nativeStartFails, Bridge!threadVars, Bridge!attachVars
  <2>2. /\ references' \in [Windows -> Int]
        /\ \A w \in Windows : references'[w] = references[w] - Bridge!CountIn(queue, w)
    BY <1>0, <2>1, DiscardCounts
  <2>3. queue' \in Seq(Bridge!Commands)  BY <2>1
  <2>4. Type'  BY <1>0, <2>1, <2>2, <2>3, Zenon DEF Type
  <2>5. ThreadOfServer' /\ DirectWithoutServer'
    BY <1>0, <2>1 DEF ThreadOfServer, DirectWithoutServer
  <2>6. ASSUME ~collided', NEW w \in Windows PROVE references'[w] = Held(w)'
    <3>0. ~collided  BY <2>1, <2>6
    <3>1. Bridge!CountIn(queue', w) = 0  BY <1>e, <2>1
    <3>2. Bridge!SlotOwns(w)' <=> Bridge!SlotOwns(w)  BY <2>1 DEF Bridge!SlotOwns
    <3>3. One(Bridge!SlotOwns(w)') = One(Bridge!SlotOwns(w)) /\ One(incoming' = w) = One(incoming = w)
      BY <2>1, <3>2 DEF One
    <3>4. Bridge!CountIn(taken', w) = Bridge!CountIn(taken, w)  BY <2>1
    <3>. QED  BY <3>0, <1>s, <2>2, <3>1, <3>3, <3>4 DEF Held
  <2>7. stopper' = "idle" /\ renderer' # Null => Bridge!SlotOwns(renderer)'
    BY <1>r, <2>1 DEF Bridge!SlotOwns
  <2>8. Bridge!ReferencesBalanced'  BY <2>6, <2>7, BalanceAfter
  <2>. QED  BY <2>4, <2>5, <2>8 DEF IInv
<1>3. ASSUME Bridge!nativeStop PROVE IInv'
  <2>1. /\ attacher = "idle" /\ stopper' = "join" /\ dispatch_running' = FALSE
        /\ UNCHANGED <<server, dispatch_thread_started, native_window, renderer, queue, taken,
                       dispatcher, attacher, incoming, references, collided>>
    BY <1>3 DEF Bridge!nativeStop, Bridge!MutexFree, Bridge!threadVars, Bridge!attachVars
  <2>2. Type'  BY <1>0, <2>1, Zenon DEF Type
  <2>3. ThreadOfServer' /\ DirectWithoutServer'
    BY <1>0, <2>1 DEF ThreadOfServer, DirectWithoutServer
  <2>4. Bridge!ReferencesBalanced'  BY <2>1 DEF IInv, Bridge!ReferencesBalanced, Bridge!SlotOwns
  <2>. QED  BY <2>2, <2>3, <2>4 DEF IInv
<1>4. ASSUME Bridge!nativeStopJoined PROVE IInv'
  <2>1. /\ attacher = "idle" /\ Bridge!Joined /\ stopper' = "idle" /\ dispatch_thread_started' = FALSE
        /\ server' = "none" /\ renderer' = Null /\ native_window' = Null
        /\ references' = Bridge!Release(Bridge!discard_commands(references), native_window)
        /\ queue' = <<>> /\ dispatcher' = "none"
        /\ UNCHANGED <<dispatch_running, taken, attacher, incoming, collided>>
    BY <1>4 DEF Bridge!nativeStopJoined, Bridge!MutexFree, Bridge!attachVars
  <2>2. dispatcher \in {"none", "exited"} /\ taken = <<>> /\ incoming = Null
    BY <1>0, <2>1 DEF ThreadOfServer, DirectWithoutServer, Bridge!Joined
  <2>3. /\ references' \in [Windows -> Int]
        /\ \A w \in Windows :
             references'[w] = references[w] - Bridge!CountIn(queue, w) - One(native_window = w)
    <3>1. /\ Bridge!discard_commands(references) \in [Windows -> Int]
          /\ \A w \in Windows : Bridge!discard_commands(references)[w] = references[w] - Bridge!CountIn(queue, w)
      BY <1>0, DiscardCounts
    <3>2. native_window \in Bridge!WindowOrNull  BY <1>0 DEF Type
    <3>. QED  BY <2>1, <3>1, <3>2, ReleaseCounts
  <2>4. queue' \in Seq(Bridge!Commands)  BY <2>1
  <2>5. Type'  BY <1>0, <2>1, <2>3, <2>4, Zenon DEF Type, Bridge!WindowOrNull
  <2>6. ThreadOfServer' /\ DirectWithoutServer'
    BY <1>0, <2>1, <2>2 DEF ThreadOfServer, DirectWithoutServer
  <2>7. ASSUME ~collided', NEW w \in Windows PROVE references'[w] = Held(w)'
    <3>0. ~collided  BY <2>1, <2>7
    <3>1. Bridge!CountIn(queue', w) = 0 /\ Bridge!CountIn(taken, w) = 0 /\ Bridge!CountIn(taken', w) = 0
      BY <1>e, <2>1, <2>2
    <3>2. ~Bridge!SlotOwns(w)' /\ (Bridge!SlotOwns(w) <=> native_window = w) /\ incoming # w
      BY <2>1, <2>2 DEF Bridge!SlotOwns
    <3>3. /\ One(Bridge!SlotOwns(w)') = 0 /\ One(Bridge!SlotOwns(w)) = One(native_window = w)
          /\ One(incoming = w) = 0 /\ One(incoming' = w) = 0
      BY <2>1, <3>2 DEF One
    <3>. QED  BY <3>0, <1>s, <2>3, <3>1, <3>3 DEF Held
  <2>8. Bridge!ReferencesBalanced'  BY <2>1, <2>7, BalanceAfter
  <2>. QED  BY <2>5, <2>6, <2>8 DEF IInv
<1>5. ASSUME NEW x \in Bridge!WindowOrNull, Bridge!nativeAttachSurface(x) PROVE IInv'
  <2>1. /\ queue' = Append(queue, x) /\ references' = Bridge!Acquire(references, x)
        /\ UNCHANGED <<server, dispatch_running, dispatch_thread_started, native_window, renderer,
                       taken, dispatcher, stopper, attacher, incoming, collided>>
    BY <1>5 DEF Bridge!nativeAttachSurface, Bridge!enqueue_command_locked, Bridge!controlVars,
                Bridge!threadVars, Bridge!attachVars
  <2>2. /\ references' \in [Windows -> Int]
        /\ \A w \in Windows : references'[w] = references[w] + One(x = w)
    BY <1>t, <2>1, AcquireCounts
  <2>3. x \in Bridge!Commands /\ queue \in Seq(Bridge!Commands)  BY <1>0 DEF Type, Bridge!Commands
  <2>4. queue' \in Seq(Bridge!Commands)  BY <2>1, <2>3
  <2>5. Type'  BY <1>0, <2>1, <2>2, <2>4 DEF Type
  <2>6. ThreadOfServer' /\ DirectWithoutServer'
    BY <1>0, <2>1 DEF ThreadOfServer, DirectWithoutServer
  <2>7. ASSUME ~collided', NEW w \in Windows PROVE references'[w] = Held(w)'
    <3>0. ~collided  BY <2>1, <2>7
    <3>1. Bridge!CountIn(queue', w) = Bridge!CountIn(queue, w) + One(x = w)
      BY <2>1, <2>3, CountAppend DEF One
    <3>2. Bridge!SlotOwns(w)' <=> Bridge!SlotOwns(w)  BY <2>1 DEF Bridge!SlotOwns
    <3>3. One(Bridge!SlotOwns(w)') = One(Bridge!SlotOwns(w)) /\ One(incoming' = w) = One(incoming = w)
      BY <2>1, <3>2 DEF One
    <3>4. One(x = w) \in Nat  BY DEF One
    <3>. QED  BY <3>0, <1>s, <2>1, <2>2, <3>1, <3>3, <3>4 DEF Held
  <2>8. stopper' = "idle" /\ renderer' # Null => Bridge!SlotOwns(renderer)'
    BY <1>r, <2>1 DEF Bridge!SlotOwns
  <2>9. Bridge!ReferencesBalanced'  BY <2>7, <2>8, BalanceAfter
  <2>. QED  BY <2>5, <2>6, <2>9 DEF IInv
<1>6. ASSUME NEW x \in Bridge!WindowOrNull, Bridge!AttachDirectly(x) PROVE IInv'
  <2>1. /\ attacher = "idle" /\ ~(server # "none" /\ dispatch_running)
        /\ attacher' = "store" /\ incoming' = x
        /\ collided' = (collided \/ dispatcher = "replace")
        /\ references' = Bridge!Release(Bridge!Acquire(references, x), native_window)
        /\ UNCHANGED <<server, dispatch_running, dispatch_thread_started, native_window, renderer,
                       queue, taken, dispatcher, stopper>>
    BY <1>6 DEF Bridge!AttachDirectly, Bridge!MayAttach, Bridge!MutexFree, Bridge!controlVars,
                Bridge!queueVars, Bridge!threadVars
  <2>2. incoming = Null /\ (stopper = "idle" => renderer = Null)
    BY <1>0, <2>1 DEF ThreadOfServer, DirectWithoutServer
  <2>3. /\ references' \in [Windows -> Int]
        /\ \A w \in Windows : references'[w] = references[w] + One(x = w) - One(native_window = w)
    <3>1. /\ Bridge!Acquire(references, x) \in [Windows -> Int]
          /\ \A w \in Windows : Bridge!Acquire(references, x)[w] = references[w] + One(x = w)
      BY <1>t, AcquireCounts
    <3> DEFINE a == Bridge!Acquire(references, x)
    <3>2. a \in [Windows -> Int]  BY <3>1
    <3>3. \A w \in Windows : a[w] = references[w] + One(x = w)  BY <3>1
    <3>4. references' = Bridge!Release(a, native_window)  BY <2>1
    <3> HIDE DEF a
    <3>5. /\ Bridge!Release(a, native_window) \in [Windows -> Int]
          /\ \A w \in Windows : Bridge!Release(a, native_window)[w] = a[w] - One(native_window = w)
      BY <1>t, <3>2, ReleaseCounts
    <3>6. references' \in [Windows -> Int]  BY <3>4, <3>5
    <3>7. ASSUME NEW w \in Windows
          PROVE  references'[w] = references[w] + One(x = w) - One(native_window = w)
      <4>1. references'[w] = a[w] - One(native_window = w)  BY <3>4, <3>5
      <4>2. a[w] = references[w] + One(x = w)  BY <3>3
      <4>3. One(x = w) \in Nat /\ One(native_window = w) \in Nat  BY DEF One
      <4>. QED  BY <1>i, <4>1, <4>2, <4>3
    <3>. QED  BY <3>6, <3>7
  <2>4. Type'  BY <1>0, <2>1, <2>3 DEF Type
  <2>5. ThreadOfServer' /\ DirectWithoutServer'
    BY <1>0, <2>1, <2>2 DEF ThreadOfServer, DirectWithoutServer
  <2>6. ASSUME ~collided', NEW w \in Windows PROVE references'[w] = Held(w)'
    <3>0. ~collided  BY <2>1, <2>6
    <3>1. ~Bridge!SlotOwns(w)' /\ (Bridge!SlotOwns(w) <=> native_window = w) /\ incoming # w
      BY <2>1, <2>2, <2>6 DEF Bridge!SlotOwns
    <3>2. /\ One(Bridge!SlotOwns(w)') = 0 /\ One(Bridge!SlotOwns(w)) = One(native_window = w)
          /\ One(incoming = w) = 0 /\ One(incoming' = w) = One(x = w) /\ One(x = w) \in Nat
      BY <2>1, <3>1 DEF One
    <3>3. Bridge!CountIn(queue', w) = Bridge!CountIn(queue, w) /\ Bridge!CountIn(taken', w) = Bridge!CountIn(taken, w)
      BY <2>1
    <3>. QED  BY <3>0, <1>s, <2>3, <3>2, <3>3 DEF Held
  <2>7. Bridge!ReferencesBalanced'  BY <2>1, <2>2, <2>6, BalanceAfter
  <2>. QED  BY <2>4, <2>5, <2>7 DEF IInv
<1>7. ASSUME Bridge!AttachStores PROVE IInv'
  <2>1. /\ attacher = "store" /\ attacher' = "idle" /\ native_window' = incoming /\ incoming' = Null
        /\ UNCHANGED <<server, dispatch_running, dispatch_thread_started, renderer,
                       queue, taken, dispatcher, stopper, references, collided>>
    BY <1>7 DEF Bridge!AttachStores, Bridge!controlVars, Bridge!queueVars, Bridge!threadVars
  <2>2. (~collided => dispatcher # "replace") /\ (stopper = "idle" => renderer = Null)
    BY <1>0, <2>1 DEF ThreadOfServer, DirectWithoutServer
  <2>3. Type'  BY <1>0, <2>1 DEF Type, Bridge!WindowOrNull
  <2>4. ThreadOfServer' /\ DirectWithoutServer'
    BY <1>0, <2>1, <2>2 DEF ThreadOfServer, DirectWithoutServer
  <2>5. ASSUME ~collided', NEW w \in Windows PROVE references'[w] = Held(w)'
    <3>0. ~collided  BY <2>1, <2>5
    <3>1. ~Bridge!SlotOwns(w) /\ (Bridge!SlotOwns(w)' <=> incoming = w) /\ incoming' # w
      BY <2>1, <2>2, <3>0 DEF Bridge!SlotOwns
    <3>2. /\ One(Bridge!SlotOwns(w)) = 0 /\ One(Bridge!SlotOwns(w)') = One(incoming = w) /\ One(incoming' = w) = 0
      BY <3>1 DEF One
    <3>3. /\ Bridge!CountIn(queue', w) = Bridge!CountIn(queue, w) /\ Bridge!CountIn(taken', w) = Bridge!CountIn(taken, w)
          /\ references'[w] = references[w]
      BY <2>1
    <3>. QED  BY <3>0, <1>s, <3>2, <3>3 DEF Held
  <2>6. Bridge!ReferencesBalanced'  BY <2>1, <2>2, <2>5, BalanceAfter
  <2>. QED  BY <2>3, <2>4, <2>6 DEF IInv
<1>8. ASSUME Bridge!nativeInput PROVE IInv'
  <2>1. /\ queue' = Append(queue, Input)
        /\ UNCHANGED <<server, dispatch_running, dispatch_thread_started, native_window, renderer,
                       taken, dispatcher, stopper, attacher, incoming, references, collided>>
    BY <1>8 DEF Bridge!nativeInput, Bridge!enqueue_command_locked, Bridge!controlVars,
                Bridge!threadVars, Bridge!attachVars
  <2>2. Input \in Bridge!Commands /\ queue \in Seq(Bridge!Commands)
    BY <1>0 DEF Type, Bridge!Commands
  <2>3. queue' \in Seq(Bridge!Commands)  BY <2>1, <2>2
  <2>4. Type'  BY <1>0, <2>1, <2>3 DEF Type
  <2>5. ThreadOfServer' /\ DirectWithoutServer'
    BY <1>0, <2>1 DEF ThreadOfServer, DirectWithoutServer
  <2>6. ASSUME ~collided', NEW w \in Windows PROVE references'[w] = Held(w)'
    <3>0. ~collided  BY <2>1, <2>6
    <3>1. Input # w  BY DEF Bridge!WindowOrNull
    <3>2. Bridge!CountIn(Append(queue, Input), w) = Bridge!CountIn(queue, w) + (IF Input = w THEN 1 ELSE 0)
      BY <2>2, CountAppend
    <3>3. Bridge!CountIn(queue', w) = Bridge!CountIn(queue, w)  BY <1>n, <2>1, <3>1, <3>2
    <3>4. Held(w)' = Held(w)  BY <2>1, <3>3 DEF Held, Bridge!SlotOwns
    <3>. QED  BY <3>0, <1>b, <2>1, <3>4
  <2>7. stopper' = "idle" /\ renderer' # Null => Bridge!SlotOwns(renderer)'
    BY <1>r, <2>1 DEF Bridge!SlotOwns
  <2>8. Bridge!ReferencesBalanced'  BY <2>6, <2>7, BalanceAfter
  <2>. QED  BY <2>4, <2>5, <2>8 DEF IInv
<1>. QED  BY <1>1, <1>2, <1>3, <1>4, <1>5, <1>6, <1>7, <1>8 DEF Bridge!EntryPoint

\* The dispatch thread keeps it.
LEMMA DispatcherInv ==
  ASSUME Null \notin Windows, Input \notin Bridge!WindowOrNull, IInv, Bridge!Dispatcher
  PROVE  IInv'
<1>0. Type /\ ThreadOfServer /\ DirectWithoutServer  BY DEF IInv
<1>b. ~collided => \A w \in Windows : references[w] = Held(w)  BY Balance DEF IInv
<1>r. stopper = "idle" /\ renderer # Null => Bridge!SlotOwns(renderer)  BY Balance DEF IInv
<1>n. \A w \in Windows : Bridge!CountIn(queue, w) \in Nat /\ Bridge!CountIn(taken, w) \in Nat
  BY <1>0, Counts
<1>s. ASSUME ~collided, NEW w \in Windows
      PROVE
        /\ references[w] = One(Bridge!SlotOwns(w)) + Bridge!CountIn(queue, w) + Bridge!CountIn(taken, w) + One(incoming = w)
        /\ One(Bridge!SlotOwns(w)) \in Nat /\ One(incoming = w) \in Nat /\ One(native_window = w) \in Nat
        /\ Bridge!CountIn(queue, w) \in Nat /\ Bridge!CountIn(taken, w) \in Nat
  BY <1>0, <1>b, <1>s, Shares
<1>t. references \in [Windows -> Int] /\ native_window \in Bridge!WindowOrNull  BY <1>0 DEF Type
<1>e. \A w : Bridge!CountIn(<<>>, w) = 0  BY CountEmpty
<1>1. ASSUME Bridge!OtherEvent PROVE IInv'
  <2>1. UNCHANGED <<server, dispatch_running, dispatch_thread_started, native_window, renderer,
                    queue, taken, dispatcher, stopper, attacher, incoming, references, collided>>
    BY <1>1 DEF Bridge!OtherEvent, Bridge!controlVars, Bridge!threadVars, Bridge!attachVars
  <2>. QED
    BY <2>1 DEF IInv, Type, ThreadOfServer, DirectWithoutServer, Bridge!ReferencesBalanced,
                Bridge!SlotOwns
<1>2. ASSUME Bridge!process_commands PROVE IInv'
  <2>1. /\ dispatcher = "dispatch" /\ dispatcher' = "commands" /\ taken' = queue /\ queue' = <<>>
        /\ UNCHANGED <<server, dispatch_running, dispatch_thread_started, native_window, renderer,
                       stopper, attacher, incoming, references, collided>>
    BY <1>2 DEF Bridge!process_commands, Bridge!controlVars, Bridge!attachVars
  <2>2. taken = <<>>  BY <1>0, <2>1 DEF ThreadOfServer
  <2>3. queue' \in Seq(Bridge!Commands)  BY <2>1
  <2>4. Type'  BY <1>0, <2>1, <2>3 DEF Type
  <2>5. ThreadOfServer' /\ DirectWithoutServer'
    BY <1>0, <2>1 DEF ThreadOfServer, DirectWithoutServer
  <2>6. ASSUME ~collided', NEW w \in Windows PROVE references'[w] = Held(w)'
    <3>0. ~collided  BY <2>1, <2>6
    <3>1. Bridge!CountIn(queue', w) = 0 /\ Bridge!CountIn(taken, w) = 0 /\ Bridge!CountIn(taken', w) = Bridge!CountIn(queue, w)
      BY <1>e, <2>1, <2>2
    <3>2. Bridge!SlotOwns(w)' <=> Bridge!SlotOwns(w)  BY <2>1 DEF Bridge!SlotOwns
    <3>3. One(Bridge!SlotOwns(w)') = One(Bridge!SlotOwns(w)) /\ One(incoming' = w) = One(incoming = w)
      BY <2>1, <3>2 DEF One
    <3>. QED  BY <3>0, <1>s, <2>1, <3>1, <3>3 DEF Held
  <2>7. stopper' = "idle" /\ renderer' # Null => Bridge!SlotOwns(renderer)'
    BY <1>r, <2>1 DEF Bridge!SlotOwns
  <2>8. Bridge!ReferencesBalanced'  BY <2>6, <2>7, BalanceAfter
  <2>. QED  BY <2>4, <2>5, <2>8 DEF IInv
<1>3. ASSUME Bridge!RunInput PROVE IInv'
  <2>1. /\ dispatcher = "commands" /\ taken # <<>> /\ Head(taken) = Input /\ taken' = Tail(taken)
        /\ UNCHANGED <<server, dispatch_running, dispatch_thread_started, native_window, renderer,
                       queue, dispatcher, stopper, attacher, incoming, references, collided>>
    BY <1>3 DEF Bridge!RunInput, Bridge!controlVars, Bridge!queueVars, Bridge!attachVars
  <2>2. taken \in Seq(Bridge!Commands)  BY <1>0 DEF Type
  <2>3. taken' \in Seq(Bridge!Commands)  BY <2>1, <2>2
  <2>4. Type'  BY <1>0, <2>1, <2>3 DEF Type
  <2>5. ThreadOfServer' /\ DirectWithoutServer'
    BY <1>0, <2>1 DEF ThreadOfServer, DirectWithoutServer
  <2>6. ASSUME ~collided', NEW w \in Windows PROVE references'[w] = Held(w)'
    <3>0. ~collided  BY <2>1, <2>6
    <3>1. Input # w  BY DEF Bridge!WindowOrNull
    <3>2. Bridge!CountIn(taken, w) = Bridge!CountIn(Tail(taken), w) + (IF Head(taken) = w THEN 1 ELSE 0)
      BY <2>1, <2>2, CountTail
    <3>3. Bridge!CountIn(Tail(taken), w) \in Nat  BY <2>1, <2>3, PlacesFinite, Zenon
    <3>4. Bridge!CountIn(taken', w) = Bridge!CountIn(taken, w)  BY <2>1, <3>1, <3>2, <3>3
    <3>5. Held(w)' = Held(w)  BY <2>1, <3>4 DEF Held, Bridge!SlotOwns
    <3>. QED  BY <3>0, <1>b, <2>1, <3>5
  <2>7. stopper' = "idle" /\ renderer' # Null => Bridge!SlotOwns(renderer)'
    BY <1>r, <2>1 DEF Bridge!SlotOwns
  <2>8. Bridge!ReferencesBalanced'  BY <2>6, <2>7, BalanceAfter
  <2>. QED  BY <2>4, <2>5, <2>8 DEF IInv
<1>4. ASSUME Bridge!replace_renderer PROVE IInv'
  <2>1. /\ dispatcher = "commands" /\ taken # <<>> /\ Head(taken) # Input
        /\ dispatcher' = "replace" /\ renderer' = Null
        /\ references' = Bridge!Release(references, native_window)
        /\ collided' = (collided \/ attacher = "store")
        /\ UNCHANGED <<server, dispatch_running, dispatch_thread_started, native_window,
                       queue, taken, stopper, attacher, incoming>>
    BY <1>4 DEF Bridge!replace_renderer, Bridge!controlVars, Bridge!queueVars, Bridge!attachVars
  <2>2. ~collided' => attacher = "idle"  BY <1>0, <2>1 DEF Type
  <2>3. /\ references' \in [Windows -> Int]
        /\ \A w \in Windows : references'[w] = references[w] - One(native_window = w)
    BY <1>t, <2>1, ReleaseCounts
  <2>4. Type'  BY <1>0, <2>1, <2>3 DEF Type, Bridge!WindowOrNull
  <2>5. ThreadOfServer' /\ DirectWithoutServer'
    BY <1>0, <2>1, <2>2 DEF ThreadOfServer, DirectWithoutServer
  <2>6. ASSUME ~collided', NEW w \in Windows PROVE references'[w] = Held(w)'
    <3>0. ~collided  BY <2>1, <2>6
    <3>1. ~Bridge!SlotOwns(w)' /\ (Bridge!SlotOwns(w) <=> native_window = w)
      BY <2>1, <2>2, <2>6 DEF Bridge!SlotOwns
    <3>2. /\ One(Bridge!SlotOwns(w)') = 0 /\ One(Bridge!SlotOwns(w)) = One(native_window = w)
          /\ One(incoming' = w) = One(incoming = w)
      BY <2>1, <3>1 DEF One
    <3>3. Bridge!CountIn(queue', w) = Bridge!CountIn(queue, w) /\ Bridge!CountIn(taken', w) = Bridge!CountIn(taken, w)
      BY <2>1
    <3>. QED  BY <3>0, <1>s, <2>3, <3>2, <3>3 DEF Held
  <2>7. Bridge!ReferencesBalanced'  BY <2>1, <2>6, BalanceAfter
  <2>. QED  BY <2>4, <2>5, <2>7 DEF IInv
<1>5. ASSUME Bridge!ReplaceStores PROVE IInv'
  <2>1. /\ dispatcher = "replace" /\ dispatcher' = "create" /\ native_window' = Head(taken)
        /\ taken' = Tail(taken)
        /\ UNCHANGED <<server, dispatch_running, dispatch_thread_started, renderer,
                       queue, stopper, attacher, incoming, references, collided>>
    BY <1>5 DEF Bridge!ReplaceStores, Bridge!controlVars, Bridge!queueVars, Bridge!attachVars
  <2>2. /\ (~collided => attacher = "idle") /\ taken # <<>> /\ Head(taken) # Input
        /\ renderer = Null
    BY <1>0, <2>1 DEF ThreadOfServer, DirectWithoutServer, Type
  <2>3. taken \in Seq(Bridge!Commands)  BY <1>0 DEF Type
  <2>4. Head(taken) \in Bridge!WindowOrNull /\ taken' \in Seq(Bridge!Commands)
    BY <2>1, <2>2, <2>3 DEF Bridge!Commands
  <2>5. Type'  BY <1>0, <2>1, <2>4 DEF Type, Bridge!WindowOrNull
  <2>6. ThreadOfServer' /\ DirectWithoutServer'
    BY <1>0, <2>1, <2>2 DEF ThreadOfServer, DirectWithoutServer
  <2>7. ASSUME ~collided', NEW w \in Windows PROVE references'[w] = Held(w)'
    <3>0. ~collided  BY <2>1, <2>7
    <3>1. ~Bridge!SlotOwns(w) /\ (Bridge!SlotOwns(w)' <=> Head(taken) = w)
      BY <2>1, <2>2, <3>0 DEF Bridge!SlotOwns
    <3>2. /\ One(Bridge!SlotOwns(w)) = 0 /\ One(Bridge!SlotOwns(w)') = One(Head(taken) = w)
          /\ One(Head(taken) = w) \in Nat /\ One(incoming' = w) = One(incoming = w)
      BY <2>1, <3>1 DEF One
    <3>3. Bridge!CountIn(taken, w) = Bridge!CountIn(Tail(taken), w) + One(Head(taken) = w)
      BY <2>2, <2>3, CountTail DEF One
    <3>4. Bridge!CountIn(Tail(taken), w) \in Nat  BY <2>1, <2>4, PlacesFinite, Zenon
    <3>5. /\ Bridge!CountIn(queue', w) = Bridge!CountIn(queue, w) /\ Bridge!CountIn(taken', w) = Bridge!CountIn(Tail(taken), w)
          /\ references'[w] = references[w]
      BY <2>1
    <3>. QED  BY <3>0, <1>s, <3>2, <3>3, <3>4, <3>5 DEF Held
  <2>8. stopper' = "idle" /\ renderer' # Null => Bridge!SlotOwns(renderer)'  BY <2>1, <2>2
  <2>9. Bridge!ReferencesBalanced'  BY <2>7, <2>8, BalanceAfter
  <2>. QED  BY <2>5, <2>6, <2>9 DEF IInv
<1>6. ASSUME NEW ok \in BOOLEAN, Bridge!CreateRenderer(ok) PROVE IInv'
  <2>1. /\ dispatcher = "create" /\ dispatcher' = "commands"
        /\ renderer' = (IF ok THEN native_window ELSE Null)
        /\ UNCHANGED <<server, dispatch_running, dispatch_thread_started, native_window,
                       queue, taken, stopper, attacher, incoming, references, collided>>
    BY <1>6 DEF Bridge!CreateRenderer, Bridge!controlVars, Bridge!queueVars, Bridge!attachVars
  <2>2. stopper = "idle" => attacher = "idle"
    BY <1>0, <2>1 DEF ThreadOfServer, DirectWithoutServer, Type
  <2>3. Type'  BY <1>0, <2>1 DEF Type, Bridge!WindowOrNull
  <2>4. ThreadOfServer' /\ DirectWithoutServer'
    BY <1>0, <2>1 DEF ThreadOfServer, DirectWithoutServer
  <2>5. ASSUME ~collided', NEW w \in Windows PROVE references'[w] = Held(w)'
    <3>1. Held(w)' = Held(w)  BY <2>1 DEF Held, Bridge!SlotOwns
    <3>. QED  BY <1>b, <2>1, <2>5, <3>1
  <2>6. stopper' = "idle" /\ renderer' # Null => Bridge!SlotOwns(renderer)'
    BY <2>1, <2>2 DEF Bridge!SlotOwns
  <2>7. Bridge!ReferencesBalanced'  BY <2>5, <2>6, BalanceAfter
  <2>. QED  BY <2>3, <2>4, <2>7 DEF IInv
<1>7. ASSUME Bridge!dispatch_loop PROVE IInv'
  <2>1. /\ dispatcher = "commands" /\ taken = <<>>
        /\ dispatcher' = (IF dispatch_running /\ server # "none" THEN "dispatch" ELSE "exited")
        /\ UNCHANGED <<server, dispatch_running, dispatch_thread_started, native_window, renderer,
                       queue, taken, stopper, attacher, incoming, references, collided>>
    BY <1>7 DEF Bridge!dispatch_loop, Bridge!controlVars, Bridge!queueVars, Bridge!attachVars
  <2>2. Type'  BY <1>0, <2>1 DEF Type
  <2>3. ThreadOfServer' /\ DirectWithoutServer'
    BY <1>0, <2>1 DEF ThreadOfServer, DirectWithoutServer
  <2>4. \A w : Bridge!SlotOwns(w)' <=> Bridge!SlotOwns(w)  BY <2>1 DEF Bridge!SlotOwns
  <2>5. Bridge!ReferencesBalanced'  BY <2>1, <2>4 DEF IInv, Bridge!ReferencesBalanced
  <2>. QED  BY <2>2, <2>3, <2>5 DEF IInv
<1>. QED  BY <1>1, <1>2, <1>3, <1>4, <1>5, <1>6, <1>7, SMTT(30) DEF Bridge!Dispatcher

\* jni_bridge.c replace_renderer, nativeAttachSurface, discard_commands: for any number
\* of windows and any length of the queue, and with attaches at any time, every reference
\* is held by exactly one of the slot, a command and an attach until the swap of a direct
\* attach collides with that of the dispatch thread; and the renderer's window is
\* referenced unless the server is being stopped.
THEOREM ReferencesAlwaysBalanced == Bridge!Spec => []ReferencesBalanced
<1>0. Null \notin Windows /\ Input \notin Bridge!WindowOrNull
  BY BridgeAssumption DEF Bridge!WindowOrNull
<1>1. Bridge!Init => IInv  BY <1>0, InitInv
<1>2. IInv /\ [Bridge!Next]_Bridge!vars => IInv'
  <2> SUFFICES ASSUME IInv, [Bridge!Next]_Bridge!vars PROVE IInv'  OBVIOUS
  <2>1. CASE Bridge!EntryPoint  BY <1>0, <2>1, EntryPointInv
  <2>2. CASE Bridge!Dispatcher  BY <1>0, <2>2, DispatcherInv
  <2>3. CASE UNCHANGED Bridge!vars
    <3>1. UNCHANGED <<server, dispatch_running, dispatch_thread_started, native_window, renderer,
                      queue, taken, dispatcher, stopper, attacher, incoming, references, collided>>
      BY <2>3 DEF Bridge!vars, Bridge!controlVars, Bridge!queueVars, Bridge!threadVars,
                  Bridge!attachVars
    <3>. QED
      BY <3>1 DEF IInv, Type, ThreadOfServer, DirectWithoutServer, Bridge!ReferencesBalanced,
                  Bridge!SlotOwns
  <2>. QED  BY <2>1, <2>2, <2>3 DEF Bridge!Next
<1>3. IInv => ReferencesBalanced  BY DEF IInv, ReferencesBalanced
<1>. QED  BY <1>1, <1>2, <1>3, PTL DEF Bridge!Spec
=============================================================================
