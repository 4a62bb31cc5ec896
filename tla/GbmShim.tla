------------------------------ MODULE GbmShim -------------------------------
(***************************************************************************)
(* The GBM shim in a guest's compositor: a buffer object asked for by the  *)
(* compositor is a token from the host's token service, one asked for by   *)
(* Mesa is left to the real library, and every later call tells the two    *)
(* apart by looking the address up in a list.  The threads of one guest    *)
(* process, its heap, and the thread of the token service that answers one *)
(* connection at a time (gbm_shim.c; tvg_scanout.c server_main).           *)
(***************************************************************************)
EXTENDS Integers, Sequences

CONSTANTS
  Threads,   \* threads of the guest process
  Bos,       \* heap addresses of buffer objects
  Backlog,   \* connections the service's listener queues
  None

VARIABLES
  pc, bo, reply,      \* of each thread: where it is, its object, the host's answer
  heap, token_bos,    \* what is allocated at an address; the list
  listening, stop,    \* the listener; tvg_scanout_stop: "no", "joining" or "stopped"
  server,             \* server_main: at the loop "test", at the "poll", or "ended"
  backlog, serving    \* connections; serving is the accepted one, or None

threadVars == <<pc, bo, reply>>
guestVars == <<threadVars, heap, token_bos>>
serverVars == <<listening, stop, server>>
vars == <<guestVars, serverVars, backlog, serving>>

\* A connection: its thread, whether the request was sent, whether the guest's end is open.
Of(c, t) == c # None /\ c.from = t /\ c.open
Connected(t) == Of(serving, t) \/ \E i \in DOMAIN backlog : Of(backlog[i], t)

Goto(t, where) == pc' = [pc EXCEPT ![t] = where]

-----------------------------------------------------------------------------
(* Creating a token object.                                                *)

\* connect waits for room in the queue and fails without a listener.
connect_tvg(t) ==
  /\ pc[t] = "idle"
  /\ \/ /\ listening /\ Len(backlog) < Backlog
        /\ backlog' = Append(backlog, [from |-> t, sent |-> FALSE, open |-> TRUE])
        /\ Goto(t, "connected")
     \/ ~listening /\ UNCHANGED <<backlog, pc>>
  /\ UNCHANGED <<bo, reply, heap, token_bos, serverVars, serving>>

SendRequest(t) ==
  /\ pc[t] = "connected"
  /\ \/ /\ Connected(t)
        /\ serving' = IF Of(serving, t) THEN [serving EXCEPT !.sent = TRUE] ELSE serving
        /\ backlog' = [i \in DOMAIN backlog |->
                        IF Of(backlog[i], t) THEN [backlog[i] EXCEPT !.sent = TRUE] ELSE backlog[i]]
        /\ Goto(t, "waiting")
     \/ ~Connected(t) /\ Goto(t, "idle") /\ UNCHANGED <<serving, backlog>>
  /\ reply' = [reply EXCEPT ![t] = None]
  /\ UNCHANGED <<bo, heap, token_bos, serverVars>>

\* Without a token, or without memory for the object, its descriptor is closed.
receive_reply(t) ==
  /\ pc[t] = "waiting" /\ reply[t] # None
  /\ \/ /\ reply[t] = "token"
        /\ \E b \in Bos : heap[b] = "free" /\ heap' = [heap EXCEPT ![b] = "token"]
                          /\ bo' = [bo EXCEPT ![t] = b]
        /\ Goto(t, "linking")
     \/ Goto(t, "idle") /\ UNCHANGED <<heap, bo>>
  /\ reply' = [reply EXCEPT ![t] = None]
  /\ UNCHANGED <<token_bos, serverVars, backlog, serving>>

LinkBo(t) ==
  /\ pc[t] = "linking"
  /\ token_bos' = token_bos \cup {bo[t]}
  /\ Goto(t, "idle") /\ bo' = [bo EXCEPT ![t] = None]
  /\ UNCHANGED <<reply, heap, serverVars, backlog, serving>>

\* gbm_bo_create and its variants when Mesa itself is the caller.
real_gbm_bo_create(t, b) ==
  /\ pc[t] = "idle" /\ heap[b] = "free"
  /\ heap' = [heap EXCEPT ![b] = "real"]
  /\ UNCHANGED <<threadVars, token_bos, serverVars, backlog, serving>>

-----------------------------------------------------------------------------
(* Using and destroying an object.                                         *)

is_token_bo(b) == b \in token_bos

\* The application destroys an object it was given, once.
Owned(b) == heap[b] # "free" /\ \A t \in Threads : bo[t] # b

\* A token object is unlinked and freed in steps of its own; the real library
\* frees what it is handed.
gbm_bo_destroy(t, b) ==
  /\ pc[t] = "idle" /\ Owned(b)
  /\ IF is_token_bo(b)
     THEN /\ Goto(t, "unlinking") /\ bo' = [bo EXCEPT ![t] = b] /\ UNCHANGED heap
     ELSE heap' = [heap EXCEPT ![b] = "free"] /\ UNCHANGED <<pc, bo>>
  /\ UNCHANGED <<reply, token_bos, serverVars, backlog, serving>>

MutFreeFirst(t) ==
  \/ /\ pc[t] = "unlinking"
     /\ heap' = [heap EXCEPT ![bo[t]] = "free"]
     /\ Goto(t, "freeing")
     /\ UNCHANGED <<bo, reply, token_bos, serverVars, backlog, serving>>
  \/ /\ pc[t] = "freeing"
     /\ token_bos' = token_bos \ {bo[t]}
     /\ Goto(t, "idle") /\ bo' = [bo EXCEPT ![t] = None]
     /\ UNCHANGED <<reply, heap, serverVars, backlog, serving>>

UnlinkAndFree(t) ==
  \/ /\ pc[t] = "unlinking"
     /\ token_bos' = token_bos \ {bo[t]}
     /\ Goto(t, "freeing")
     /\ UNCHANGED <<bo, reply, heap, serverVars, backlog, serving>>
  \/ /\ pc[t] = "freeing"
     /\ heap' = [heap EXCEPT ![bo[t]] = "free"]
     /\ Goto(t, "idle") /\ bo' = [bo EXCEPT ![t] = None]
     /\ UNCHANGED <<reply, token_bos, serverVars, backlog, serving>>

\* The process is killed; the kernel closes its ends.
GuestDies ==
  /\ \E t \in Threads : pc[t] # "dead"
  /\ pc' = [t \in Threads |-> "dead"] /\ bo' = [t \in Threads |-> None]
  /\ reply' = [t \in Threads |-> None]
  /\ heap' = [b \in Bos |-> "free"] /\ token_bos' = {}
  /\ serving' = IF serving = None THEN None ELSE [serving EXCEPT !.open = FALSE]
  /\ backlog' = [i \in DOMAIN backlog |-> [backlog[i] EXCEPT !.open = FALSE]]
  /\ UNCHANGED serverVars

-----------------------------------------------------------------------------
(* The token service.                                                      *)

\* The flag is looked at between connections only, and a connection may be taken
\* after it was cleared; poll gives up after 200 ms.
server_main ==
  /\ serving = None
  /\ \/ /\ server = "test"
        /\ server' = IF stop = "no" THEN "poll" ELSE "ended"
        /\ UNCHANGED <<serving, backlog>>
     \/ /\ server = "poll"
        /\ server' = "test"
        /\ IF backlog = <<>> THEN UNCHANGED <<serving, backlog>>
           ELSE serving' = Head(backlog) /\ backlog' = Tail(backlog)
  /\ UNCHANGED <<guestVars, listening, stop>>

\* recv has no timeout: it returns with the request or at the end of the guest.
handle_client(allocated) ==
  /\ serving # None /\ (serving.sent \/ ~serving.open)
  /\ reply' = IF serving.open
              THEN [reply EXCEPT ![serving.from] = IF allocated THEN "token" ELSE "failed"]
              ELSE reply
  /\ serving' = None
  /\ UNCHANGED <<pc, bo, heap, token_bos, serverVars, backlog>>

tvg_scanout_start ==
  /\ stop = "stopped"
  /\ stop' = "no" /\ listening' = TRUE /\ server' = "test"
  /\ UNCHANGED <<guestVars, backlog, serving>>

tvg_scanout_stop ==
  /\ stop = "no"
  /\ stop' = "joining"
  /\ UNCHANGED <<guestVars, listening, server, backlog, serving>>

MutListenerLeftOpen ==
  /\ stop = "joining" /\ server = "ended"
  /\ stop' = "stopped"
  /\ UNCHANGED <<guestVars, listening, server, backlog, serving>>

\* Closing the listener resets the connections still in its queue.
StopCloses ==
  /\ stop = "joining" /\ server = "ended"
  /\ stop' = "stopped" /\ listening' = FALSE
  /\ backlog' = <<>>
  /\ reply' = [t \in Threads |-> IF \E i \in DOMAIN backlog : Of(backlog[i], t) THEN "failed"
                                 ELSE reply[t]]
  /\ UNCHANGED <<pc, bo, heap, token_bos, server, serving>>

-----------------------------------------------------------------------------

Init ==
  /\ pc = [t \in Threads |-> "idle"] /\ bo = [t \in Threads |-> None]
  /\ reply = [t \in Threads |-> None]
  /\ heap = [b \in Bos |-> "free"] /\ token_bos = {}
  /\ listening = FALSE /\ stop = "stopped" /\ server = "ended"
  /\ backlog = <<>> /\ serving = None

\* The steps of a thread inside a call.
Inside(t) == SendRequest(t) \/ receive_reply(t) \/ LinkBo(t) \/ UnlinkAndFree(t)

Service == server_main \/ (\E allocated \in BOOLEAN : handle_client(allocated)) \/ StopCloses

Next ==
  \/ \E t \in Threads :
       connect_tvg(t) \/ Inside(t)
       \/ \E b \in Bos : real_gbm_bo_create(t, b) \/ gbm_bo_destroy(t, b)
  \/ GuestDies
  \/ Service \/ tvg_scanout_start \/ tvg_scanout_stop

Spec == Init /\ [][Next]_vars

\* A thread goes on with a call it is in; the service and the stop go on.
Fairness == WF_vars(Service) /\ \A t \in Threads : WF_vars(Inside(t))

FairSpec == Spec /\ Fairness

-----------------------------------------------------------------------------

\* The shapes of threads, heap and service.
TypeOK ==
  /\ pc \in [Threads -> {"idle", "connected", "waiting", "linking", "unlinking", "freeing", "dead"}]
  /\ bo \in [Threads -> Bos \cup {None}] /\ reply \in [Threads -> {None, "token", "failed"}]
  /\ heap \in [Bos -> {"free", "token", "real"}] /\ token_bos \subseteq Bos
  /\ listening \in BOOLEAN /\ server \in {"test", "poll", "ended"} /\ stop \in {"no", "joining", "stopped"}
  /\ Len(backlog) <= Backlog

\* gbm_shim.c is_token_bo: the list is all that tells a token object from one of
\* the real library, which may be given the address of a destroyed one.  Every
\* object an application holds is on it exactly if it is a token.
DispatchedToOwner == \A b \in Bos : Owned(b) => (is_token_bo(b) <=> heap[b] = "token")

\* gbm_shim.c create_token_bo waits without a timeout, on a service that serves
\* one connection at a time and may be stopped: a call comes back, and so does
\* tvg_scanout_stop.
TokenCallsReturn ==
  /\ \A t \in Threads : pc[t] \in {"connected", "waiting"} ~> pc[t] \in {"idle", "dead"}
  /\ stop = "joining" ~> stop = "stopped"
=============================================================================
