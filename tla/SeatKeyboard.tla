---------------------------- MODULE SeatKeyboard ----------------------------
(***************************************************************************)
(* Keyboard delivery of the Wayland host: the focus follows when a key or  *)
(* a new keyboard object arrives, and the server keeps the modifiers that  *)
(* it tells the focused client.                                            *)
(***************************************************************************)
EXTENDS SeatFocus

\* Two keys of one modifier, two kinds of lock, and an ordinary key.  Control, Alt
\* and Super are treated like Shift, Num Lock like Caps Lock.
Keys == {"shift_left", "shift_right", "caps_lock", "scroll_lock", "letter"}

VARIABLES
  keyboards,        \* clients with a wl_keyboard object
  keyboard_focus,
  focus_freed,      \* the surface it points at was destroyed
  mods_depressed, mods_locked,
  caps_lock_down,
  told              \* modifiers a client was told since it got the focus, else None

mods == <<mods_depressed, mods_locked>>
focusVars == <<keyboard_focus, focus_freed>>
vars == <<area, keyboards, focusVars, mods_depressed, mods_locked, caps_lock_down, told>>

Flip(set, x) == (set \ {x}) \cup ({x} \ set)

-----------------------------------------------------------------------------

\* The comparison of two pointers.  One to a freed surface equals the target only if
\* the target's surface was allocated at the same address.
SameSurface(reused) ==
  IF focus_freed THEN reused /\ find_pointer_target # None
  ELSE find_pointer_target = keyboard_focus

\* `present` are the clients with a keyboard object when the events are sent.  The
\* leave for a freed surface, read from freed storage, is taken to reach nobody.
update_keyboard_focus(present, reused) ==
  /\ keyboard_focus' = find_pointer_target /\ focus_freed' = FALSE
  /\ told' = IF SameSurface(reused) THEN told
             ELSE [c \in Clients |->
                     IF c = find_pointer_target /\ c \in present THEN mods
                     ELSE IF c = keyboard_focus THEN None ELSE told[c]]

\* Nothing changes for keys that are not modifiers.  keyboard_scroll_lock_down is
\* never set, so every repeat of Scroll Lock flips the lock.
update_keyboard_modifiers(key, pressed) ==
  /\ mods_depressed' = IF key \notin {"shift_left", "shift_right"} THEN mods_depressed
                       ELSE IF pressed THEN mods_depressed \cup {"shift"}
                       ELSE mods_depressed \ {"shift"}
  /\ mods_locked' = IF \/ key = "caps_lock" /\ pressed /\ ~caps_lock_down
                       \/ key = "scroll_lock" /\ pressed
                    THEN Flip(mods_locked, key) ELSE mods_locked
  /\ caps_lock_down' = IF key = "caps_lock" THEN pressed ELSE caps_lock_down

\* With a focus every event carries the modifiers; without one the event is lost.
MutLocksNotTold(key, pressed) ==
  /\ keyboard_focus' = find_pointer_target /\ focus_freed' = FALSE
  /\ IF find_pointer_target = None
     THEN /\ update_keyboard_focus(keyboards, FALSE)
          /\ UNCHANGED <<mods_depressed, mods_locked, caps_lock_down>>
     ELSE /\ update_keyboard_modifiers(key, pressed)
          /\ told' = [c \in Clients |->
                        IF c = find_pointer_target /\ c \in keyboards
                           /\ mods_locked' = mods_locked THEN mods'
                        ELSE IF c = keyboard_focus /\ c # find_pointer_target THEN None
                        ELSE told[c]]
  /\ UNCHANGED <<area, keyboards>>

trierarch_keyboard_set_key(key, pressed) ==
  /\ keyboard_focus' = find_pointer_target /\ focus_freed' = FALSE
  /\ IF find_pointer_target = None
     THEN /\ update_keyboard_focus(keyboards, FALSE)
          /\ UNCHANGED <<mods_depressed, mods_locked, caps_lock_down>>
     ELSE /\ update_keyboard_modifiers(key, pressed)
          /\ told' = [c \in Clients |->
                        IF c = find_pointer_target /\ c \in keyboards THEN mods'
                        ELSE IF c = keyboard_focus /\ c # find_pointer_target THEN None
                        ELSE told[c]]
  /\ UNCHANGED <<area, keyboards>>

\* A second object of the focused client is told nothing until the next key.
seat_get_keyboard(c, reused) ==
  /\ c \notin keyboards
  /\ keyboards' = keyboards \cup {c}
  /\ update_keyboard_focus(keyboards', reused)
  /\ UNCHANGED <<area, mods_depressed, mods_locked, caps_lock_down>>

keyboard_resource_destroy(c) ==
  /\ c \in keyboards
  /\ keyboards' = keyboards \ {c}
  /\ told' = [told EXCEPT ![c] = None]
  /\ UNCHANGED <<area, focusVars, mods_depressed, mods_locked, caps_lock_down>>

surface_commit(c) ==
  /\ Commit(c)
  /\ UNCHANGED <<keyboards, focusVars, mods_depressed, mods_locked, caps_lock_down, told>>

\* keyboard_focus, unlike pointer_focus, is left pointing at the freed surface; its
\* client drops what it was told.
surface_resource_destroy(c) ==
  /\ area[c] > 0 \/ keyboard_focus = c
  /\ area' = [area EXCEPT ![c] = 0]
  /\ focus_freed' = (focus_freed \/ keyboard_focus = c)
  /\ told' = [told EXCEPT ![c] = None]
  /\ UNCHANGED <<keyboards, keyboard_focus, mods_depressed, mods_locked, caps_lock_down>>

Init ==
  /\ area = [c \in Clients |-> 0]
  /\ keyboards = {} /\ keyboard_focus = None /\ focus_freed = FALSE
  /\ mods_depressed = {} /\ mods_locked = {} /\ caps_lock_down = FALSE
  /\ told = [c \in Clients |-> None]

Next ==
  \/ \E key \in Keys, pressed \in BOOLEAN : trierarch_keyboard_set_key(key, pressed)
  \/ \E c \in Clients, reused \in BOOLEAN : seat_get_keyboard(c, reused)
  \/ \E c \in Clients : \/ keyboard_resource_destroy(c)
                        \/ surface_commit(c) \/ surface_resource_destroy(c)

Spec == Init /\ [][Next]_vars

-----------------------------------------------------------------------------

\* Modifiers are known ones, and only clients have keyboards and the focus.
TypeOK ==
  /\ area \in [Clients -> 0..MaxArea] /\ keyboards \subseteq Clients
  /\ keyboard_focus \in Clients \cup {None} /\ focus_freed \in BOOLEAN
  /\ mods_depressed \subseteq {"shift"} /\ mods_locked \subseteq {"caps_lock", "scroll_lock"}
  /\ caps_lock_down \in BOOLEAN

\* seat.c send_keyboard_enter and set_key: a client that was told modifiers since
\* it got the focus was told the current ones, although the focus moves with every
\* resize, the focused surface is destroyed without the server forgetting it, and the
\* modifiers change under another client's focus.
ModifiersKnown ==
  \A c \in Clients : told[c] # None => c = keyboard_focus /\ told[c] = mods
=============================================================================
