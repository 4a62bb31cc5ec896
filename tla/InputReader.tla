---------------------------- MODULE InputReader ----------------------------
(***************************************************************************)
(* The root input reader (input-reader/src/main.c).  The main thread scans *)
(* /dev/input once a second and gives every external keyboard a slot and a *)
(* detached reader thread.  A reader grabs its device and copies key       *)
(* events to stdout; after each frame it records in pressed_keys whether   *)
(* the key is now down.  When the owner goes away or a signal arrives the  *)
(* main thread clears running, waits one poll interval, writes a release   *)
(* for every key of pressed_keys and exits without joining the readers.    *)
(*                                                                         *)
(* down is the set of keys the app believes pressed once it has read every *)
(* frame written so far: stdout is a pipe, so frames arrive in the order   *)
(* they were written.                                                      *)
(***************************************************************************)
EXTENDS Integers, Sequences, FiniteSets

CONSTANTS
    Devices,        \* the event nodes of /dev/input
    External,       \* those external_keyboard accepts
    NoPath,         \* the path of a slot that was never used
    Keys,           \* evdev key codes
    NoEvent,        \* the reader's event variable when it holds none
    MAX_DEVICES,    \* number of slots (8 in the code)
    MaxEvents,      \* bound: key events the keyboards produce
    MaxPlugs        \* bound: times a device is plugged or unplugged

ASSUME ReaderConstants ==
    /\ External \subseteq Devices
    /\ MAX_DEVICES \in Nat \ {0}
    /\ MaxEvents \in Nat /\ MaxPlugs \in Nat

Slots == 1..MAX_DEVICES
Values == 0..2      \* release, press, repeat
Event == [key : Keys, value : Values]

VARIABLES
    running,    \* the flag the signal handler clears
    main,       \* where the main thread is
    todo,       \* directory entries the current scan has not read
    slots,      \* devices[]: path, fd state and reader thread of each slot
    pressed,    \* pressed_keys
    down,       \* keys the app believes are down
    ownerAlive, stdinOpen, stdoutOpen,
    plugged,    \* event nodes that exist
    held,       \* keys physically down on each keyboard
    events, plugs,      \* the two bounded counters
    late,       \* a reader was still active when the final release began
    raced       \* keys of which two readers' frames overlapped

procVars == <<running, main, todo>>
envVars == <<ownerAlive, stdinOpen, stdoutOpen>>
kbdVars == <<plugged, held, events, plugs>>
ghosts == <<late, raced>>
vars == <<procVars, slots, pressed, down, envVars, kbdVars, ghosts>>

\* A slot is inactive, or its reader is at one of the other places.
Inactive == "inactive"
ReaderPC == {Inactive, "start", "top", "poll", "write", "mark", "ending"}

\* A slot just taken for device d, and one given back: the path stays.
Opened(d) == [pc |-> "start", path |-> d, hup |-> FALSE,
              queue |-> <<>>, event |-> NoEvent]
Closed(p) == [pc |-> Inactive, path |-> p, hup |-> FALSE,
              queue |-> <<>>, event |-> NoEvent]
Active(s) == slots[s].pc /= Inactive

TypeOK ==
    /\ running \in BOOLEAN
    /\ main \in {"check", "scan", "sleep", "settle", "release", "exited"}
    /\ todo \subseteq Devices
    /\ \A s \in Slots :
        /\ slots[s].pc \in ReaderPC
        /\ slots[s].path \in Devices \cup {NoPath}
        /\ slots[s].hup \in BOOLEAN
        /\ slots[s].queue \in Seq(Event)
        /\ slots[s].event \in Event \cup {NoEvent}
        /\ slots[s].pc \in {"write", "mark"} => slots[s].event \in Event
        /\ ~Active(s) => slots[s] = Closed(slots[s].path)
    /\ pressed \subseteq Keys /\ down \subseteq Keys
    /\ <<ownerAlive, stdinOpen, stdoutOpen>> \in BOOLEAN \X BOOLEAN \X BOOLEAN
    /\ plugged \subseteq Devices
    /\ held \in [Devices -> SUBSET Keys]
    /\ events \in 0..MaxEvents /\ plugs \in 0..MaxPlugs
    /\ late \in BOOLEAN /\ raced \subseteq Keys

Init ==
    /\ running = TRUE
    /\ main = "check"
    /\ todo = {}
    /\ slots = [s \in Slots |-> Closed(NoPath)]
    /\ pressed = {} /\ down = {}
    /\ ownerAlive = TRUE /\ stdinOpen = TRUE /\ stdoutOpen = TRUE
    /\ plugged \in SUBSET Devices
    /\ held = [d \in Devices |-> {}]
    /\ events = 0 /\ plugs = 0
    /\ late = FALSE /\ raced = {}

Alive == main /= "exited"

-----------------------------------------------------------------------------
(* The main thread.                                                        *)

MutIgnoreOwner ==
    /\ main = "check"
    /\ IF running /\ stdinOpen
       THEN main' = "scan" /\ todo' = Devices /\ UNCHANGED running
       ELSE main' = "settle" /\ running' = FALSE /\ UNCHANGED todo
    /\ UNCHANGED <<slots, pressed, down, envVars, kbdVars, ghosts>>

\* The loop's condition: running && owner_alive() && control_stdin_open().
main_check ==
    /\ main = "check"
    /\ IF running /\ ownerAlive /\ stdinOpen
       THEN main' = "scan" /\ todo' = Devices /\ UNCHANGED running
       ELSE main' = "settle" /\ running' = FALSE /\ UNCHANGED todo
    /\ UNCHANGED <<slots, pressed, down, envVars, kbdVars, ghosts>>

MutPathSeen(d) == \E s \in Slots : slots[s].path = d

already_active(d) == \E s \in Slots : Active(s) /\ slots[s].path = d

\* scan_devices' loop body for one entry.  A device that vanished, a device
\* that is no keyboard, a full table and a failed pthread_create all leave
\* the slots as they were.
scan_devices(d) ==
    /\ main = "scan" /\ running /\ d \in todo
    /\ todo' = todo \ {d}
    /\ LET free == {s \in Slots : ~Active(s)} IN
       \/ UNCHANGED slots
       \/ /\ d \in plugged \cap External /\ ~already_active(d)
          /\ \E s \in free :
                /\ \A t \in free : s <= t
                /\ slots' = [slots EXCEPT ![s] = Opened(d)]
    /\ UNCHANGED <<running, main, pressed, down, envVars, kbdVars, ghosts>>

scan_done ==
    /\ main = "scan" /\ (todo = {} \/ ~running)
    /\ main' = "sleep" /\ todo' = {}
    /\ UNCHANGED <<running, slots, pressed, down, envVars, kbdVars, ghosts>>

\* nanosleep refuses SCAN_MS, a full second of nanoseconds, and returns at once.
scan_delay ==
    /\ main = "sleep"
    /\ main' = "check"
    /\ UNCHANGED <<running, todo, slots, pressed, down, envVars, kbdVars, ghosts>>

\* The settle sleep ends and release_pressed_keys takes pressed_lock.
settle ==
    /\ main = "settle"
    /\ main' = "release"
    /\ late' = \E s \in Slots : Active(s)
    /\ UNCHANGED <<running, todo, slots, pressed, down, envVars, kbdVars, raced>>

release_pressed_keys ==
    /\ main = "release" /\ stdoutOpen
    /\ \E k \in pressed :
        /\ down' = down \ {k}
        /\ pressed' = pressed \ {k}
    /\ UNCHANGED <<procVars, slots, envVars, kbdVars, ghosts>>

MutReleaseStopsEarly ==
    /\ main = "release"
    /\ main' = "exited"
    /\ slots' = [s \in Slots |-> Closed(slots[s].path)]
    /\ UNCHANGED <<running, todo, pressed, down, envVars, kbdVars, ghosts>>

\* Process exit closes every descriptor that is still open.
main_return ==
    /\ main = "release" /\ (pressed = {} \/ ~stdoutOpen)
    /\ main' = "exited"
    /\ slots' = [s \in Slots |-> Closed(slots[s].path)]
    /\ UNCHANGED <<running, todo, pressed, down, envVars, kbdVars, ghosts>>

on_signal ==
    /\ Alive /\ running
    /\ running' = FALSE
    /\ UNCHANGED <<main, todo, slots, pressed, down, envVars, kbdVars, ghosts>>

-----------------------------------------------------------------------------
(* A reader thread.                                                        *)

GoTo(s, there) == slots' = [slots EXCEPT ![s].pc = there]

\* EVIOCGRAB; when another process holds the grab the slot is given back.
reader_grab(s) ==
    /\ Alive /\ slots[s].pc = "start"
    /\ \/ GoTo(s, "top")
       \/ slots' = [slots EXCEPT ![s] = Closed(slots[s].path)]
    /\ UNCHANGED <<procVars, pressed, down, envVars, kbdVars, ghosts>>

reader_top(s) ==
    /\ Alive /\ slots[s].pc = "top"
    /\ GoTo(s, IF running THEN "poll" ELSE "ending")
    /\ UNCHANGED <<procVars, pressed, down, envVars, kbdVars, ghosts>>

\* poll and read: hang-up is tested before the queued events.
reader_poll(s) ==
    /\ Alive /\ slots[s].pc = "poll"
    /\ IF slots[s].hup THEN GoTo(s, "ending")
       ELSE IF slots[s].queue = <<>> THEN GoTo(s, "top")
       ELSE slots' = [slots EXCEPT ![s] = [pc |-> "write", path |-> slots[s].path,
                                           hup |-> FALSE,
                                           queue |-> Tail(slots[s].queue),
                                           event |-> Head(slots[s].queue)]]
    /\ UNCHANGED <<procVars, pressed, down, envVars, kbdVars, ghosts>>

After(set, event) ==
    IF event.value /= 0 THEN set \cup {event.key} ELSE set \ {event.key}

\* The reader of slot s has written a frame of key k and not yet recorded it.
Marking(s, k) == slots[s].pc = "mark" /\ slots[s].event.key = k

write_frame(s) ==
    /\ Alive /\ slots[s].pc = "write"
    /\ IF stdoutOpen
       THEN /\ down' = After(down, slots[s].event)
            /\ GoTo(s, "mark")
            /\ raced' = raced \cup
                 {k \in {slots[s].event.key} : \E t \in Slots \ {s} : Marking(t, k)}
       ELSE GoTo(s, "ending") /\ UNCHANGED <<down, raced>>
    /\ UNCHANGED <<procVars, pressed, envVars, kbdVars, late>>

\* Under pressed_lock, which release_pressed_keys holds for its whole loop.
reader_mark(s) ==
    /\ Alive /\ slots[s].pc = "mark" /\ main /= "release"
    /\ pressed' = After(pressed, slots[s].event)
    /\ slots' = [slots EXCEPT ![s].pc = "top", ![s].event = NoEvent]
    /\ UNCHANGED <<procVars, down, envVars, kbdVars, ghosts>>

\* Ungrab, close and give the slot back; its path stays as it was.
reader_end(s) ==
    /\ Alive /\ slots[s].pc = "ending"
    /\ slots' = [slots EXCEPT ![s] = Closed(slots[s].path)]
    /\ UNCHANGED <<procVars, pressed, down, envVars, kbdVars, ghosts>>

-----------------------------------------------------------------------------
(* The keyboards and the app.                                              *)

\* A descriptor of d that was opened before d was unplugged sees no events.
Readers(d) == {s \in Slots : Active(s) /\ slots[s].path = d /\ ~slots[s].hup}

key_event(d, k, v) ==
    /\ Alive /\ d \in plugged \cap External /\ events < MaxEvents
    /\ (v = 1) = (k \notin held[d])
    /\ held' = [held EXCEPT ![d] = After(@, [key |-> k, value |-> v])]
    /\ events' = events + 1
    /\ slots' = [s \in Slots |->
                    IF s \in Readers(d)
                    THEN [slots[s] EXCEPT !.queue = Append(@, [key |-> k, value |-> v])]
                    ELSE slots[s]]
    /\ UNCHANGED <<procVars, pressed, down, envVars, plugged, plugs, ghosts>>

unplug(d) ==
    /\ Alive /\ d \in plugged /\ plugs < MaxPlugs
    /\ plugged' = plugged \ {d}
    /\ held' = [held EXCEPT ![d] = {}]
    /\ plugs' = plugs + 1
    /\ slots' = [s \in Slots |-> IF s \in Readers(d)
                                 THEN [slots[s] EXCEPT !.hup = TRUE] ELSE slots[s]]
    /\ UNCHANGED <<procVars, pressed, down, envVars, events, ghosts>>

plug(d) ==
    /\ Alive /\ d \notin plugged /\ plugs < MaxPlugs
    /\ plugged' = plugged \cup {d}
    /\ plugs' = plugs + 1
    /\ UNCHANGED <<procVars, slots, pressed, down, envVars, held, events, ghosts>>

owner_dies ==
    /\ ownerAlive
    /\ ownerAlive' = FALSE /\ stdoutOpen' = FALSE
    /\ UNCHANGED <<stdinOpen, procVars, slots, pressed, down, kbdVars, ghosts>>

owner_closes_stdin ==
    /\ ownerAlive /\ stdinOpen
    /\ stdinOpen' = FALSE
    /\ UNCHANGED <<ownerAlive, stdoutOpen, procVars, slots, pressed, down, kbdVars, ghosts>>

Exited == main = "exited" /\ UNCHANGED vars

Main ==
    \/ main_check \/ scan_done \/ scan_delay \/ settle
    \/ release_pressed_keys \/ main_return
    \/ \E d \in Devices : scan_devices(d)

Reader(s) ==
    \/ reader_grab(s) \/ reader_top(s) \/ reader_poll(s)
    \/ write_frame(s) \/ reader_mark(s) \/ reader_end(s)

Environment ==
    \/ on_signal \/ owner_dies \/ owner_closes_stdin
    \/ \E d \in Devices : plug(d) \/ unplug(d)
    \/ \E d \in Devices, k \in Keys, v \in Values : key_event(d, k, v)

Next == Main \/ (\E s \in Slots : Reader(s)) \/ Environment \/ Exited

Spec == Init /\ [][Next]_vars

\* Every thread of the process is scheduled, and a scan does not fail to
\* open the same keyboard for ever.
Starts(d) == scan_devices(d) /\ slots' /= slots
FairSpec ==
    /\ Spec
    /\ WF_vars(Main)
    /\ \A s \in Slots : WF_vars(Reader(s))
    /\ \A d \in Devices : SF_vars(Starts(d))

-----------------------------------------------------------------------------
(* Properties.                                                             *)

\* read_device writes a frame and then updates pressed_keys in a separate
\* step.  Whenever the app believes a key is down, pressed_keys holds it,
\* unless a reader is between the two steps for that key, or the frames of
\* two keyboards overlapped on it, or the final release has passed the key
\* while a reader was still at work.
PressedCoversDown ==
    \A k \in down \ (pressed \cup raced) :
        \/ \E s \in Slots : Marking(s, k)
        \/ late

\* Why pressed_keys can be trusted: before the final release, the reader that
\* is about to record an undisputed key is the only one, and what it will
\* record is what the app has been told; and once the final release has begun
\* with every reader stopped, none comes back.
MarkAgreesWithApp ==
    ~late =>
        /\ \A s \in Slots, k \in Keys \ raced :
              Marking(s, k) =>
                 /\ (k \in down) = (slots[s].event.value /= 0)
                 /\ \A t \in Slots \ {s} : ~Marking(t, k)
        /\ main \in {"release", "exited"} => \A s \in Slots : ~Active(s)

\* release_pressed_keys leaves no key down in the app: when the process has
\* exited and every reader had stopped within the settle time, the only keys
\* still down are those on which two keyboards' frames overlapped.
KeysUpAtExit ==
    (main = "exited" /\ stdoutOpen /\ ~late) => down \subseteq raced

\* The main loop polls the owner and stdin: once the owner is gone the
\* process ends, whatever the readers are doing, and no device stays held.
OwnerGoneEndsReader ==
    (~ownerAlive \/ ~stdinOpen \/ ~running) ~>
        (main = "exited" /\ \A s \in Slots : ~Active(s))

\* A keyboard that stays connected while the reader runs is taken again and
\* again however its earlier readers ended: a slot is never lost to a reader
\* that stopped because of a hang-up, a failed grab or a replug.
KeyboardIsTaken ==
    \A d \in External :
        <>[](d \in plugged /\ main \in {"check", "scan", "sleep"})
            => []<>(Readers(d) /= {})
=============================================================================
