----------------------------- MODULE HostBridge -----------------------------
(***************************************************************************)
(* The JNI bridge of the Wayland host: Java threads start and stop the     *)
(* server, attach windows and send input; the dispatch thread runs the     *)
(* queued commands and renders.  server_mutex guards the entry points, but *)
(* the dispatch thread touches native_window and renderer without it, so   *)
(* replace_renderer and the direct branch of nativeAttachSurface are split *)
(* between releasing the old window and storing the new one.  An attach    *)
(* may come at any time, between the two locked sections of nativeStop     *)
(* too; starts and stops do not overlap each other.                        *)
(***************************************************************************)
EXTENDS Integers, Sequences, FiniteSets

CONSTANTS
  Windows,            \* ANativeWindow objects
  Null,
  Input,              \* any queued command that is not an attach
  MaxQueue,           \* bound on queued commands
  MaxReferences       \* bound on references of one window

VARIABLES
  server,             \* "none" or "live"
  dispatch_running, dispatch_thread_started,
  native_window,
  renderer,           \* the window the renderer draws to, or Null
  queue,              \* the command list, from head to tail
  woken,              \* wake_fd is readable
  dispatcher,         \* where the dispatch thread is
  taken,              \* the commands process_commands has detached
  stopper,            \* "idle", or "join" between the two locks of nativeStop
  attacher,           \* "idle", or "store" inside the direct branch of attach
  incoming,           \* the window that attach holds
  references,         \* ANativeWindow reference counts
  collided            \* history: one writer of native_window began while the
                      \* other was between releasing and storing

controlVars == <<server, dispatch_running, dispatch_thread_started>>
queueVars == <<queue, woken>>
threadVars == <<dispatcher, taken>>
attachVars == <<attacher, incoming>>
vars == <<controlVars, native_window, renderer, queueVars, threadVars, stopper,
          attachVars, references, collided>>

WindowOrNull == Windows \cup {Null}
Commands == WindowOrNull \cup {Input}

\* The direct branch of attach holds server_mutex until it has stored.
MutexFree == attacher = "idle"

Acquire(refs, w) == IF w = Null THEN refs ELSE [refs EXCEPT ![w] = @ + 1]
Release(refs, w) == IF w = Null THEN refs ELSE [refs EXCEPT ![w] = @ - 1]

HasRoom(w) == \A x \in {w} \cap Windows : references[x] < MaxReferences

CountIn(s, w) == Cardinality({i \in DOMAIN s : s[i] = w})

\* discard_commands releases the window of every queued attach.
discard_commands(refs) ==
  [w \in Windows |-> refs[w] - CountIn(queue, w)]

-----------------------------------------------------------------------------
(* Entry points.                                                           *)

MutEnqueueWithoutWake(c) ==
  /\ server # "none" /\ dispatch_running
  /\ Len(queue) < MaxQueue
  /\ queue' = Append(queue, c)
  /\ UNCHANGED woken

enqueue_command_locked(c) ==
  /\ server # "none" /\ dispatch_running
  /\ Len(queue) < MaxQueue
  /\ queue' = Append(queue, c)
  /\ woken' = TRUE

\* nativeStart queues an attach of the window retained so far.
QueueRetainedWindow ==
  /\ queue' = IF native_window = Null THEN queue ELSE Append(queue, native_window)
  /\ references' = Acquire(references, native_window)

\* The branch that creates the server, in either buffer mode, and its thread.  With a
\* live server the call only compares the mode and changes nothing.
nativeStart ==
  /\ MutexFree /\ stopper = "idle"
  /\ server = "none"
  /\ HasRoom(native_window)
  /\ server' = "live"
  /\ dispatch_running' = TRUE
  /\ dispatch_thread_started' = TRUE
  /\ QueueRetainedWindow
  /\ woken' = (native_window # Null)
  /\ dispatcher' = "dispatch"
  /\ UNCHANGED <<native_window, renderer, taken, stopper, attachVars, collided>>

\* pthread_create fails: the command and the server are dropped again.
nativeStartFails ==
  /\ MutexFree /\ stopper = "idle"
  /\ server = "none"
  /\ dispatch_running' = FALSE
  /\ references' = discard_commands(references)
  /\ queue' = <<>>
  /\ UNCHANGED <<server, dispatch_thread_started, native_window, renderer, woken,
                 threadVars, stopper, attachVars, collided>>

\* The first locked section of nativeStop.
nativeStop ==
  /\ MutexFree /\ stopper = "idle"
  /\ stopper' = "join"
  /\ dispatch_running' = FALSE
  /\ woken' = (woken \/ server # "none")
  /\ UNCHANGED <<server, dispatch_thread_started, native_window, renderer, queue,
                 threadVars, attachVars, references, collided>>

\* pthread_join has returned, or there was no thread to join.
Joined == dispatch_thread_started => dispatcher = "exited"

\* The second one, after pthread_join.
nativeStopJoined ==
  /\ MutexFree /\ stopper = "join"
  /\ Joined
  /\ stopper' = "idle"
  /\ dispatch_thread_started' = FALSE
  /\ server' = "none"
  /\ renderer' = Null
  /\ native_window' = Null
  /\ references' = Release(discard_commands(references), native_window)
  /\ queue' = <<>>
  /\ woken' = FALSE
  /\ dispatcher' = "none"
  /\ UNCHANGED <<dispatch_running, taken, attachVars, collided>>

MayAttach(w) == MutexFree /\ HasRoom(w)

\* ANativeWindow_fromSurface has taken a reference; the queue gets it.
nativeAttachSurface(w) ==
  /\ MayAttach(w)
  /\ enqueue_command_locked(w)
  /\ references' = Acquire(references, w)
  /\ UNCHANGED <<controlVars, native_window, renderer, threadVars, stopper, attachVars,
                 collided>>

\* No running server: the window is stored here, under server_mutex, while the
\* dispatch thread of a server that is being stopped may still be at work.  A
\* second collision is not followed: the counts are wrong after the first.
AttachDirectly(w) ==
  /\ MayAttach(w)
  /\ ~(server # "none" /\ dispatch_running)
  /\ collided => dispatcher \in {"none", "exited"}
  /\ attacher' = "store"
  /\ incoming' = w
  /\ references' = Release(Acquire(references, w), native_window)
  /\ collided' = (collided \/ dispatcher = "replace")
  /\ UNCHANGED <<controlVars, native_window, renderer, queueVars, threadVars, stopper>>

AttachStores ==
  /\ attacher = "store"
  /\ attacher' = "idle"
  /\ native_window' = incoming
  /\ incoming' = Null
  /\ UNCHANGED <<controlVars, renderer, queueVars, threadVars, stopper, references,
                 collided>>

\* Pointer, keyboard, cursor and output-size entry points.
nativeInput ==
  /\ MutexFree
  /\ enqueue_command_locked(Input)
  /\ UNCHANGED <<controlVars, native_window, renderer, threadVars, stopper, attachVars,
                 references, collided>>

-----------------------------------------------------------------------------
(* The dispatch thread.                                                    *)

\* Timers and client requests also end a wait of the event loop.
OtherEvent ==
  /\ dispatcher = "dispatch"
  /\ woken' = TRUE
  /\ UNCHANGED <<controlVars, native_window, renderer, queue, threadVars, stopper,
                 attachVars, references, collided>>

\* The wait ends, the eventfd is drained, and the queue is detached.
process_commands ==
  /\ dispatcher = "dispatch"
  /\ woken
  /\ woken' = FALSE
  /\ dispatcher' = "commands"
  /\ taken' = queue
  /\ queue' = <<>>
  /\ UNCHANGED <<controlVars, native_window, renderer, stopper, attachVars, references,
                 collided>>

RunInput ==
  /\ dispatcher = "commands"
  /\ taken # <<>> /\ Head(taken) = Input
  /\ taken' = Tail(taken)
  /\ UNCHANGED <<controlVars, native_window, renderer, queueVars, dispatcher, stopper,
                 attachVars, references, collided>>

MutReplaceKeepsOldWindow ==
  /\ dispatcher = "commands"
  /\ taken # <<>> /\ Head(taken) # Input
  /\ dispatcher' = "replace"
  /\ renderer' = Null
  /\ collided' = (collided \/ attacher = "store")
  /\ UNCHANGED <<controlVars, native_window, queueVars, taken, stopper, attachVars,
                 references>>

\* replace_renderer: drop the renderer, then the old window ...
replace_renderer ==
  /\ dispatcher = "commands"
  /\ taken # <<>> /\ Head(taken) # Input
  /\ dispatcher' = "replace"
  /\ renderer' = Null
  /\ references' = Release(references, native_window)
  /\ collided' = (collided \/ attacher = "store")
  /\ UNCHANGED <<controlVars, native_window, queueVars, taken, stopper, attachVars>>

\* ... then store the new one ...
ReplaceStores ==
  /\ dispatcher = "replace"
  /\ dispatcher' = "create"
  /\ native_window' = Head(taken)
  /\ taken' = Tail(taken)
  /\ UNCHANGED <<controlVars, renderer, queueVars, stopper, attachVars, references,
                 collided>>

\* ... and create a renderer, which may fail, for what native_window is by then.
CreateRenderer(ok) ==
  /\ dispatcher = "create"
  /\ dispatcher' = "commands"
  /\ renderer' = IF ok THEN native_window ELSE Null
  /\ UNCHANGED <<controlVars, native_window, queueVars, taken, stopper, attachVars,
                 references, collided>>

MutCheckForgetsStop ==
  /\ MutexFree
  /\ dispatcher = "commands" /\ taken = <<>>
  /\ dispatcher' = IF server # "none" THEN "dispatch" ELSE "exited"
  /\ UNCHANGED <<controlVars, native_window, renderer, queueVars, taken, stopper,
                 attachVars, references, collided>>

\* Render if due, then leave the loop once nativeStop has cleared the flag.
dispatch_loop ==
  /\ MutexFree
  /\ dispatcher = "commands" /\ taken = <<>>
  /\ dispatcher' = IF dispatch_running /\ server # "none" THEN "dispatch" ELSE "exited"
  /\ UNCHANGED <<controlVars, native_window, renderer, queueVars, taken, stopper,
                 attachVars, references, collided>>

-----------------------------------------------------------------------------
Init ==
  /\ server = "none" /\ dispatch_running = FALSE /\ dispatch_thread_started = FALSE
  /\ native_window = Null /\ renderer = Null
  /\ queue = <<>> /\ woken = FALSE
  /\ dispatcher = "none" /\ taken = <<>>
  /\ stopper = "idle" /\ attacher = "idle" /\ incoming = Null
  /\ references = [w \in Windows |-> 0]
  /\ collided = FALSE

EntryPoint ==
  \/ nativeStart \/ nativeStartFails \/ nativeStop \/ nativeStopJoined
  \/ \E w \in WindowOrNull : nativeAttachSurface(w) \/ AttachDirectly(w)
  \/ AttachStores \/ nativeInput

Dispatcher ==
  \/ OtherEvent \/ process_commands \/ RunInput \/ replace_renderer \/ ReplaceStores
  \/ \E ok \in BOOLEAN : CreateRenderer(ok)
  \/ dispatch_loop

Next == EntryPoint \/ Dispatcher

Spec == Init /\ [][Next]_vars

\* Threads keep running and the mutex is granted; nobody has to call anything,
\* and no event other than the wake is taken for granted.
Fairness ==
  /\ WF_vars(process_commands) /\ WF_vars(RunInput) /\ WF_vars(replace_renderer)
  /\ WF_vars(ReplaceStores) /\ WF_vars(\E ok \in BOOLEAN : CreateRenderer(ok))
  /\ SF_vars(dispatch_loop)
  /\ WF_vars(AttachStores) /\ SF_vars(nativeStopJoined)

FairSpec == Spec /\ Fairness

-----------------------------------------------------------------------------
(* Properties.                                                             *)

\* The state is well typed.  A count may be anything: that no window is released
\* more often than it was acquired is part of ReferencesBalanced.
TypeOK ==
  /\ server \in {"none", "live"}
  /\ dispatch_running \in BOOLEAN /\ dispatch_thread_started \in BOOLEAN
  /\ native_window \in WindowOrNull /\ renderer \in WindowOrNull
  /\ queue \in Seq(Commands) /\ taken \in Seq(Commands)
  /\ woken \in BOOLEAN
  /\ dispatcher \in {"none", "dispatch", "commands", "replace", "create", "exited"}
  /\ stopper \in {"idle", "join"}
  /\ attacher \in {"idle", "store"} /\ incoming \in WindowOrNull
  /\ references \in [Windows -> Int]
  /\ collided \in BOOLEAN

\* native_window owns a reference except while one of its writers is between
\* releasing the old window and storing the new one.
SlotOwns(w) == native_window = w /\ dispatcher # "replace" /\ attacher = "idle"

\* Window references balance over start, stop, failed start, attach and discard,
\* an attach during a stop included: every reference is held by the slot, a queued
\* or detached command, or attach.  The one exception is a collision, which the
\* code does not prevent: the dispatch thread of a server that is being stopped and
\* a direct attach both find the same old window and release it twice, and of the
\* two windows they store one is forgotten.  And the renderer draws to the window
\* the slot holds, so that it stays referenced, except for the last passes of a
\* server that is being stopped.
ReferencesBalanced ==
  /\ \/ collided
     \/ \A w \in Windows :
          references[w] = (IF SlotOwns(w) THEN 1 ELSE 0) + CountIn(queue, w)
                            + CountIn(taken, w) + (IF incoming = w THEN 1 ELSE 0)
  /\ stopper = "idle" /\ renderer # Null => SlotOwns(renderer)

\* A queued command is executed or discarded: the wake is never lost.
CommandsAreTaken == queue # <<>> ~> queue = <<>>

\* nativeStop returns: the dispatch thread notices the cleared flag.
StopReturns == stopper = "join" ~> stopper = "idle"
=============================================================================
