--------------------------- MODULE NativeServices ---------------------------
(***************************************************************************)
(* The processes the native library runs: the PipeWire host, the VirGL     *)
(* host and the guest's IME bridge.                                        *)
(***************************************************************************)
EXTENDS Integers

CONSTANTS
  NoProcess,
  Directories, MaxSpawned,                      \* of the PipeWire host
  MaxServers,                                   \* bound on VirGL servers ever spawned
  MAX_QUEUED_MESSAGES, MaxFields, MaxMessages   \* of the IME bridge

VARIABLES
  slot, job, proc, sockets, answer,
  v_slot, v_job, v_proc, v_home, v_socket, v_answer,
  version, one_shot, context, v2_active, have_serial, queue, sent, client, field,
  accepted, delivered

Pipewire == INSTANCE PipewireHost WITH None <- NoProcess

Virgl == INSTANCE VirglHost WITH
  None <- NoProcess, Directories <- {"runtime"}, MaxSpawned <- MaxServers,
  slot <- v_slot, job <- v_job, proc <- v_proc, home <- v_home, socket <- v_socket,
  answer <- v_answer

Ime == INSTANCE ImeBridge

ASSUME ServicesAssumption ==
  /\ NoProcess \notin (1..MaxServers) \cup (1..MaxSpawned) \cup Directories
  /\ {MaxSpawned, MaxServers, MaxFields, MaxMessages} \subseteq Nat
  /\ MAX_QUEUED_MESSAGES \in Nat \ {0}

pipewireVars == <<slot, job, proc, sockets, answer>>
virglVars == <<v_slot, v_job, v_proc, v_home, v_socket, v_answer>>
imeVars == <<version, one_shot, context, v2_active, have_serial, queue, sent, client, field,
             accepted, delivered>>

-----------------------------------------------------------------------------

\* pipewire.rs: no path out of start or stop leaves a process or a socket behind
\* that a later stop does not reach.
NothingLeftBehind == Pipewire!NothingLeftBehind

\* virgl.rs start: success is reported only with the server that was spawned for
\* it and made the socket, never on the strength of a socket left by an older one.
VirglSuccessIsThisServer == [][Virgl!ReportsThisServer]_virglVars

\* ime bridge: what is committed is what the client sent, in order, once, and with
\* version 1 to the field it was meant for, and with a focused field and its serial
\* nothing waits in the queue.
CommittedAsTyped == Ime!CommittedAsTyped /\ Ime!NothingWaitsNeedlessly
=============================================================================
