------------------------------ MODULE MCNative ------------------------------
(***************************************************************************)
(* Safety of what surrounds the Wayland host: the input reader, the        *)
(* storage imported buffers are made of, the PipeWire and VirGL hosts, the *)
(* profile and rootfs stores and the IME bridge.  They share no state, so  *)
(* a run lets one of them move, chosen in the initial state, and leaves    *)
(* the others where they start.                                            *)
(***************************************************************************)
EXTENDS InputReader, ImportedBuffers, NativeStores, NativeServices

VARIABLE part      \* the component that moves

nativeVars == <<part, vars, importVars, pipewireVars, virglVars, profileVars, rootfsVars, imeVars>>

\* A part that does not move starts in one of its initial states only.
NativeInit ==
  /\ part \in {"reader", "imports", "pipewire", "virgl", "profiles", "rootfs", "ime"}
  /\ Init /\ Imports!Init /\ Pipewire!Init /\ Virgl!Init /\ Profiles!Init
  /\ Rootfs!Init /\ Ime!Init
  /\ part # "reader" => plugged = {}
  /\ part # "rootfs" => destination = Nothing
  /\ part # "ime" => version = 1 /\ ~one_shot

NativeNext ==
  /\ UNCHANGED part
  /\ IF part = "reader" THEN Next ELSE UNCHANGED vars
  /\ IF part = "imports" THEN Imports!Next ELSE UNCHANGED importVars
  /\ IF part = "pipewire" THEN Pipewire!Next ELSE UNCHANGED pipewireVars
  /\ IF part = "virgl" THEN Virgl!Next ELSE UNCHANGED virglVars
  /\ IF part = "profiles" THEN Profiles!Next ELSE UNCHANGED profileVars
  /\ IF part = "rootfs" THEN Rootfs!Next ELSE UNCHANGED rootfsVars
  /\ IF part = "ime" THEN Ime!Next ELSE UNCHANGED imeVars

NativeSpec == NativeInit /\ [][NativeNext]_nativeVars
=============================================================================
