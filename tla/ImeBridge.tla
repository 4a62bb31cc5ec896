----------------------------- MODULE ImeBridge ------------------------------
(***************************************************************************)
(* The guest IME bridge: a queue of events from the Android side, and the  *)
(* state of the compositor's input-method protocol, version 1 or 2, that   *)
(* decides when queued events are committed and when they are discarded.   *)
(* Each action is one handler of the single-threaded dispatch loop.        *)
(***************************************************************************)
EXTENDS Integers, Sequences

CONSTANTS
  MAX_QUEUED_MESSAGES,
  MaxFields,             \* bound on text fields focused one after another
  MaxMessages            \* bound on events the client sends

Kinds == {"text", "press", "release", "other"}   \* other: a keysym v2 cannot express

VARIABLES
  version,       \* the protocol bound at startup, 1 or 2
  one_shot,      \* --commit instead of --socket
  context,       \* version 1: the input context, 0 for NULL
  v2_active,
  have_serial,
  queue,         \* head first; an event and the field it was meant for
  sent,
  client,        \* a client is connected
  field,         \* the text field focused last
  accepted,      \* events the client sent so far
  delivered      \* history: events committed, each with the field that got it

settings == <<version, one_shot>>
loopVars == <<context, v2_active, have_serial, queue, sent, client, field, accepted, delivered>>
vars == <<settings, loopVars>>

Focused == context # 0 \/ v2_active
Running == ~(one_shot /\ sent)

-----------------------------------------------------------------------------
(* try_commit, as the effect on the queue it is given.                     *)

\* Version 2 expresses a key press as text and ignores everything else.
Expressible(m) == version = 1 \/ m.kind \in {"text", "press"}

try_commit(q) ==
  LET out == SelectSeq(q, Expressible) IN
    IF Focused' /\ have_serial'
    THEN /\ queue' = <<>>
         /\ delivered' = delivered \o [i \in 1..Len(out) |-> [event |-> out[i], to |-> field']]
         /\ sent' = (sent \/ out # <<>>)
    ELSE queue' = q /\ UNCHANGED <<delivered, sent>>

-----------------------------------------------------------------------------
(* Version 1.                                                              *)

MutActivateKeepsQueue ==
  /\ Running /\ version = 1 /\ field < MaxFields
  /\ field' = field + 1
  /\ context' = field'
  /\ have_serial' = FALSE
  /\ UNCHANGED <<v2_active, queue, sent, client, accepted, delivered>>

\* The queue is cleared when the context replaces another one.
input_method_activate ==
  /\ Running /\ version = 1 /\ field < MaxFields
  /\ field' = field + 1
  /\ context' = field'
  /\ have_serial' = FALSE
  /\ queue' = IF context # 0 THEN <<>> ELSE queue
  /\ UNCHANGED <<v2_active, sent, client, accepted, delivered>>

input_method_deactivate ==
  /\ Running /\ context # 0
  /\ context' = 0
  /\ have_serial' = FALSE
  /\ queue' = <<>>
  /\ UNCHANGED <<v2_active, sent, client, field, accepted, delivered>>

context_reset ==
  /\ Running /\ context # 0
  /\ have_serial' = FALSE
  /\ queue' = <<>>
  /\ UNCHANGED <<context, v2_active, sent, client, field, accepted, delivered>>

context_commit_state ==
  /\ Running /\ context # 0
  /\ have_serial' = TRUE
  /\ UNCHANGED <<context, v2_active, client, field, accepted>>
  /\ try_commit(queue)

-----------------------------------------------------------------------------
(* Version 2.                                                              *)

\* The compositor may activate the next field without a deactivate in between.
input_method_v2_activate ==
  /\ Running /\ version = 2 /\ field < MaxFields
  /\ field' = field + 1
  /\ v2_active' = TRUE
  /\ have_serial' = FALSE
  /\ UNCHANGED <<context, queue, sent, client, accepted, delivered>>

\* input_method_v2_unavailable does the same.
input_method_v2_deactivate ==
  /\ Running /\ v2_active
  /\ v2_active' = FALSE
  /\ have_serial' = FALSE
  /\ queue' = <<>>
  /\ UNCHANGED <<context, sent, client, field, accepted, delivered>>

input_method_v2_done ==
  /\ Running /\ version = 2
  /\ have_serial' = v2_active
  /\ UNCHANGED <<context, v2_active, client, field, accepted>>
  /\ try_commit(queue)

-----------------------------------------------------------------------------
(* The client socket.                                                      *)

\* A new client replaces the one before.
accept ==
  /\ ~one_shot /\ ~client
  /\ client' = TRUE
  /\ UNCHANGED <<context, v2_active, have_serial, queue, sent, field, accepted, delivered>>

\* A full queue ends the connection.
enqueue(m) ==
  IF Len(queue) = MAX_QUEUED_MESSAGES
  THEN client' = FALSE /\ UNCHANGED <<queue, sent, delivered>>
  ELSE client' = client /\ try_commit(Append(queue, m))

\* One complete frame; it is dropped while no field is focused.
consume_client(kind) ==
  /\ client /\ accepted < MaxMessages
  /\ accepted' = accepted + 1
  /\ UNCHANGED <<context, v2_active, have_serial, field>>
  /\ IF Focused THEN enqueue([id |-> accepted', kind |-> kind, field |-> field])
     ELSE client' = client /\ try_commit(queue)

\* An invalid frame or the end of the stream.
client_gone ==
  /\ client
  /\ client' = FALSE
  /\ UNCHANGED <<context, v2_active, have_serial, queue, sent, field, accepted, delivered>>

Init ==
  /\ version \in {1, 2} /\ one_shot \in BOOLEAN
  /\ context = 0 /\ v2_active = FALSE /\ have_serial = FALSE /\ sent = FALSE
  /\ client = FALSE /\ field = 0 /\ accepted = 0 /\ delivered = <<>>
  /\ queue = IF one_shot THEN <<[id |-> 0, kind |-> "text", field |-> 0]>> ELSE <<>>

Compositor ==
  \/ input_method_activate \/ input_method_deactivate \/ context_reset \/ context_commit_state
  \/ input_method_v2_activate \/ input_method_v2_deactivate \/ input_method_v2_done

Client == accept \/ client_gone \/ \E kind \in Kinds : consume_client(kind)

Next == (Compositor \/ Client) /\ UNCHANGED settings

Spec == Init /\ [][Next]_vars

\* A compositor keeps telling the state of the focused field.
FairSpec ==
  /\ Spec
  /\ WF_loopVars(context_commit_state) /\ WF_loopVars(input_method_v2_done)

-----------------------------------------------------------------------------
(* Properties.                                                             *)

Message == [id : 0..MaxMessages, kind : Kinds, field : 0..MaxFields]

\* The state is well typed and the queue is bounded.
TypeOK ==
  /\ context \in 0..MaxFields /\ v2_active \in BOOLEAN /\ have_serial \in BOOLEAN
  /\ version \in {1, 2} /\ one_shot \in BOOLEAN /\ sent \in BOOLEAN /\ client \in BOOLEAN /\ field \in 0..MaxFields
  /\ queue \in Seq(Message) /\ Len(queue) <= MAX_QUEUED_MESSAGES

\* With a focused field and its serial nothing waits in the queue: every handler
\* that could make events committable commits them.
NothingWaitsNeedlessly == Focused /\ have_serial => queue = <<>>

\* Events are committed in the order the client sent them, each at most once.
CommittedInOrder ==
  \A i, j \in 1..Len(delivered) : i < j => delivered[i].event.id < delivered[j].event.id

\* With version 1 an event reaches the field that was focused when it was accepted,
\* or none.  Version 2 does not promise it: input_method_v2_activate keeps the queue
\* when a field is activated without a deactivate in between.
CommittedToItsField ==
  version = 1 => \A i \in 1..Len(delivered) : delivered[i].event.field \in {0, delivered[i].to}

\* try_commit and the handlers that clear the queue: what is committed is what the
\* client sent, in order, once, and with version 1 to the field it was meant for.
CommittedAsTyped == CommittedInOrder /\ CommittedToItsField

\* Once a field stays focused, the one-shot bridge submits its text and exits.  A
\* deactivation or a reset before the first serial discards the text, and then
\* this fails.
OneShotEnds == one_shot /\ <>[]Focused => <>sent
=============================================================================
