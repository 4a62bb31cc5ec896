---------------------------- MODULE WindowBridge ----------------------------
(***************************************************************************)
(* The JNI bridge and what is checked and proved of it.                    *)
(***************************************************************************)
EXTENDS Integers, Sequences, FiniteSets

CONSTANTS Windows, Null, Input, MaxQueue, MaxReferences

VARIABLES
  server, dispatch_running, dispatch_thread_started, native_window, renderer, queue,
  woken, dispatcher, taken, stopper, attacher, incoming, references,
  collided

Bridge == INSTANCE HostBridge

ASSUME BridgeAssumption ==
  /\ Null \notin Windows /\ Input \notin Windows \cup {Null}
  /\ {MaxQueue, MaxReferences} \subseteq Nat

bridgeVars == <<server, dispatch_running, dispatch_thread_started, native_window, renderer,
                queue, woken, dispatcher, taken, stopper, attacher, incoming, references,
                collided>>

-----------------------------------------------------------------------------

\* jni_bridge.c: window references balance over start, stop, failed start, attach
\* and discard, also when an attach comes between the two sections of nativeStop,
\* unless it collides with the dispatch thread in the swap of native_window; the
\* renderer draws to a window that is referenced unless the server is being stopped.
ReferencesBalanced == Bridge!ReferencesBalanced

\* jni_bridge.c: a queued command is executed or discarded; the wake is never lost.
CommandsAreTaken == Bridge!CommandsAreTaken

\* jni_bridge.c: nativeStop returns; the dispatch thread notices the cleared flag.
StopReturns == Bridge!StopReturns
=============================================================================
