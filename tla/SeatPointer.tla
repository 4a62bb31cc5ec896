----------------------------- MODULE SeatPointer ----------------------------
(***************************************************************************)
(* Pointer delivery of the Wayland host.  The focus moves only when input  *)
(* arrives, so surfaces appear, grow and vanish between a press and its    *)
(* release, and clients create and drop their wl_pointer at any time.      *)
(***************************************************************************)
EXTENDS SeatFocus

CONSTANT Buttons

VARIABLES
  pointers,         \* clients with a wl_pointer object
  pointer_focus,
  pointer_buttons,
  held              \* buttons each client was told are pressed and not released

vars == <<area, pointers, pointer_focus, pointer_buttons, held>>

\* What clients know once the focus is where this event goes: leave ends what
\* the old client knows of the buttons, enter tells the new one of none.
MutFocusWithoutLeave == held

update_pointer_focus ==
  IF find_pointer_target = pointer_focus THEN held
  ELSE [c \in Clients |-> IF c = pointer_focus THEN {} ELSE held[c]]

trierarch_pointer_move_absolute ==
  /\ pointer_focus' = find_pointer_target
  /\ held' = update_pointer_focus
  /\ UNCHANGED <<area, pointers, pointer_buttons>>

\* Scrolling moves the focus the same way and leaves no state behind.
trierarch_pointer_scroll == trierarch_pointer_move_absolute

\* The events one call to set_button sends, and what it records.
Told(c, b, pressed, before) ==
  IF c # find_pointer_target \/ c \notin pointers THEN before
  ELSE IF pressed THEN before \cup {b} ELSE before \ {b}

trierarch_pointer_set_button(b, pressed) ==
  /\ (b \in pointer_buttons) # pressed
  /\ pointer_focus' = find_pointer_target
  /\ held' = [c \in Clients |-> Told(c, b, pressed, update_pointer_focus[c])]
  /\ pointer_buttons' = IF ~pressed THEN pointer_buttons \ {b}
                        ELSE IF find_pointer_target = None THEN pointer_buttons
                        ELSE pointer_buttons \cup {b}
  /\ UNCHANGED <<area, pointers>>

\* A release of every recorded button, each like set_button.
trierarch_pointer_reset ==
  /\ pointer_buttons # {}
  /\ pointer_focus' = find_pointer_target
  /\ held' = [c \in Clients |->
                IF c = find_pointer_target /\ c \in pointers
                THEN update_pointer_focus[c] \ pointer_buttons ELSE update_pointer_focus[c]]
  /\ pointer_buttons' = {}
  /\ UNCHANGED <<area, pointers>>

-----------------------------------------------------------------------------

surface_commit(c) == Commit(c) /\ UNCHANGED <<pointers, pointer_focus, pointer_buttons, held>>

\* No leave is sent for a destroyed surface; its client drops what it knew of it.
surface_resource_destroy(c) ==
  /\ area[c] > 0 \/ pointer_focus = c
  /\ area' = [area EXCEPT ![c] = 0]
  /\ pointer_focus' = IF pointer_focus = c THEN None ELSE pointer_focus
  /\ held' = [held EXCEPT ![c] = {}]
  /\ UNCHANGED <<pointers, pointer_buttons>>

\* No enter is sent to the new object, not even of the client with the focus.
seat_get_pointer(c) ==
  /\ c \notin pointers
  /\ pointers' = pointers \cup {c}
  /\ UNCHANGED <<area, pointer_focus, pointer_buttons, held>>

pointer_resource_destroy(c) ==
  /\ c \in pointers
  /\ pointers' = pointers \ {c}
  /\ held' = [held EXCEPT ![c] = {}]
  /\ UNCHANGED <<area, pointer_focus, pointer_buttons>>

Init ==
  /\ area = [c \in Clients |-> 0]
  /\ pointers = {} /\ pointer_focus = None /\ pointer_buttons = {}
  /\ held = [c \in Clients |-> {}]

Next ==
  \/ trierarch_pointer_move_absolute \/ trierarch_pointer_scroll \/ trierarch_pointer_reset
  \/ \E b \in Buttons, pressed \in BOOLEAN : trierarch_pointer_set_button(b, pressed)
  \/ \E c \in Clients : \/ surface_commit(c) \/ surface_resource_destroy(c)
                        \/ seat_get_pointer(c) \/ pointer_resource_destroy(c)

Spec == Init /\ [][Next]_vars

-----------------------------------------------------------------------------

\* The focus is a client or none, buttons are known ones.
TypeOK ==
  /\ area \in [Clients -> 0..MaxArea] /\ pointers \subseteq Clients
  /\ pointer_focus \in Clients \cup {None} /\ pointer_buttons \subseteq Buttons
  /\ held \in [Clients -> SUBSET Buttons]

\* seat.c update_pointer_focus, set_button and reset: a client believes a button
\* pressed only while it has the focus and the server still records the button,
\* so the release, or the leave, that ends it is yet to come; however surfaces
\* map, resize and vanish between press and release.
NoStuckButton ==
  \A c \in Clients : held[c] # {} => c = pointer_focus /\ held[c] \subseteq pointer_buttons
=============================================================================
