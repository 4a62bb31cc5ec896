---------------------------- MODULE SurfaceParts ----------------------------
(***************************************************************************)
(* The Wayland host's surfaces with their role objects, one layer surface, *)
(* and what its seat delivers to clients.  Each model has the state its    *)
(* questions need; they share the constants and, the pointer and the       *)
(* keyboard, the sizes that decide where input goes.                       *)
(***************************************************************************)
EXTENDS SurfaceRoles

CONSTANTS
    MaxSize, MaxMargin, MaxOutput,   \* of the layer surface
    SeatClients, Buttons, MaxArea    \* of the seat

VARIABLES
    role, axis, layer_output, placed, configured,
    area, pointers, pointer_at, pointer_buttons, held,
    keyboards, keyboard_at, focus_freed, mods_depressed, mods_locked, caps_lock_down, told_mods

ASSUME LayerConstants == {MaxSize, MaxMargin, MaxOutput} \subseteq Nat /\ MaxOutput > 0

ASSUME SeatConstants == SeatClients \subseteq Nat /\ None \notin SeatClients /\ MaxArea \in Nat

Layer == INSTANCE LayerShell WITH output <- layer_output

Pointer == INSTANCE SeatPointer WITH Clients <- SeatClients, pointer_focus <- pointer_at

Keyboard == INSTANCE SeatKeyboard WITH
    Clients <- SeatClients, keyboard_focus <- keyboard_at, told <- told_mods

-----------------------------------------------------------------------------

\* layer_shell.c: a commit whose size and margins fit into the output places the
\* surface inside it, whatever its anchors.
FittingIsInside == Layer!FittingIsInside

\* layer_shell.c: a surface stretched between two edges covers what its margins leave.
StretchedFillsTheRest == Layer!StretchedFillsTheRest

\* seat.c: a client believes a button pressed only while it has the pointer focus
\* and the server records the button, so its release or a leave is yet to come.
NoStuckButton == Pointer!NoStuckButton

\* seat.c: a client told modifiers since it got the keyboard focus was told the
\* current ones, though the focus moves and modifiers change under other clients.
ModifiersKnown == Keyboard!ModifiersKnown
=============================================================================
