------------------------- MODULE InputReaderProofs -------------------------
(***************************************************************************)
(* For any number of keyboards, keys and slots, and for any number of key  *)
(* events and replugs: the keys the app believes down are among the keys   *)
(* release_pressed_keys will release.                                      *)
(***************************************************************************)
EXTENDS InputReader, TLAPS

SlotRecord == [pc : ReaderPC, path : Devices \cup {NoPath}, hup : BOOLEAN,
               queue : Seq(Event), event : Event \cup {NoEvent}]

\* The part of the type invariant the argument needs: a reader that writes or
\* records a frame holds a key event.
SlotType ==
    /\ slots \in [Slots -> SlotRecord]
    /\ \A s \in Slots : slots[s].pc \in {"write", "mark"} => slots[s].event \in Event

\* Where the main thread is decides whether the final release has begun.
Phase ==
    /\ main \in {"check", "scan", "sleep", "settle", "release", "exited"}
    /\ main \notin {"release", "exited"} => ~late
    /\ main = "exited" => (pressed = {} \/ ~stdoutOpen)
    /\ down \subseteq Keys

IInv == SlotType /\ Phase /\ MarkAgreesWithApp /\ PressedCoversDown

\* The invariant holds when the process starts: no reader, no key down.
LEMMA InitEstablishes == Init => IInv
  <1> SUFFICES ASSUME Init PROVE IInv
    OBVIOUS
  <1>1. SlotType
    BY DEF Init, SlotType, SlotRecord, ReaderPC, Inactive, Closed
  <1>2. Phase
    BY DEF Init, Phase
  <1>3. MarkAgreesWithApp
    BY DEF Init, MarkAgreesWithApp, Marking, Active, Inactive, Closed
  <1>4. PressedCoversDown
    BY DEF Init, PressedCoversDown
  <1> QED BY <1>1, <1>2, <1>3, <1>4 DEF IInv

\* What a recording reader holds does not change in a step.
SameMarks ==
    \A s \in Slots :
        /\ slots'[s].pc = "mark" <=> slots[s].pc = "mark"
        /\ slots[s].pc = "mark" => slots'[s].event = slots[s].event

\* A step in which no reader begins or ends a recording, and which leaves the
\* keys alone, preserves the argument.
LEMMA QuietStep ==
  ASSUME IInv, SlotType', Phase', UNCHANGED <<pressed, down, late, raced>>,
         SameMarks,
         main' \in {"release", "exited"} /\ ~late =>
            \A s \in Slots : slots'[s].pc = Inactive
  PROVE  IInv'
  <1>1. \A s \in Slots, k \in Keys : Marking(s, k)' <=> Marking(s, k)
    BY DEF SameMarks, Marking
  <1>2. MarkAgreesWithApp'
    BY <1>1 DEF IInv, MarkAgreesWithApp, Marking, Active, SameMarks
  <1>3. PressedCoversDown'
    BY <1>1 DEF IInv, PressedCoversDown, Phase
  <1> QED BY <1>2, <1>3 DEF IInv

\* No step of the main thread breaks the invariant.
LEMMA MainPreserves == IInv /\ Main => IInv'
  <1> SUFFICES ASSUME IInv, Main PROVE IInv'
    OBVIOUS
  <1> USE DEF IInv
  <1>1. CASE main_check
    <2>1. SlotType' /\ Phase'
      BY <1>1 DEF main_check, SlotType, Phase, envVars, ghosts
    <2>2. SameMarks
      BY <1>1 DEF main_check, SameMarks
    <2> QED BY <1>1, <2>1, <2>2, QuietStep DEF main_check, ghosts
  <1>2. CASE scan_done \/ scan_delay
    <2>1. SlotType' /\ Phase'
      BY <1>2 DEF scan_done, scan_delay, SlotType, Phase, envVars, ghosts
    <2>2. SameMarks
      BY <1>2 DEF scan_done, scan_delay, SameMarks
    <2> QED BY <1>2, <2>1, <2>2, QuietStep DEF scan_done, scan_delay, ghosts
  <1>3. CASE settle
    <2>1. SlotType' /\ Phase'
      BY <1>3 DEF settle, SlotType, Phase, envVars
    <2>2. MarkAgreesWithApp'
      BY <1>3 DEF settle, MarkAgreesWithApp, Marking, Active, Inactive, Phase
    <2>3. PressedCoversDown'
      BY <1>3 DEF settle, PressedCoversDown, Marking, Phase
    <2> QED BY <2>1, <2>2, <2>3
  <1>4. CASE release_pressed_keys
    <2> USE <1>4 DEF release_pressed_keys, procVars, envVars, kbdVars, ghosts
    <2>1. SlotType' /\ Phase'
      BY DEF SlotType, Phase
    <2>2. MarkAgreesWithApp'
      BY DEF MarkAgreesWithApp, Marking, Active, Inactive
    <2>3. PressedCoversDown'
      BY DEF PressedCoversDown, Marking
    <2> QED BY <2>1, <2>2, <2>3
  <1>5. CASE main_return
    <2> USE <1>5 DEF main_return, envVars, kbdVars, ghosts
    <2>1. \A s \in Slots : slots'[s] \in SlotRecord /\ slots'[s].pc = Inactive
      BY DEF SlotType, SlotRecord, ReaderPC, Inactive, Closed
    <2>2. SlotType' /\ Phase'
      BY <2>1 DEF SlotType, Phase, Inactive
    <2>3. MarkAgreesWithApp'
      BY <2>1 DEF MarkAgreesWithApp, Marking, Active, Inactive
    <2>4. PressedCoversDown'
      <3>1. ~late => \A s \in Slots, k \in Keys : ~Marking(s, k)
        BY DEF MarkAgreesWithApp, Marking, Active, Inactive
      <3>2. ~late => down \subseteq pressed \cup raced
        BY <3>1 DEF PressedCoversDown, Phase
      <3> QED BY <3>2 DEF PressedCoversDown
    <2> QED BY <2>2, <2>3, <2>4
  <1>6. ASSUME NEW d \in Devices, scan_devices(d) PROVE IInv'
    <2> USE <1>6 DEF scan_devices, envVars, ghosts
    <2>1. SlotType'
      <3>1. CASE UNCHANGED slots
        BY <3>1 DEF SlotType
      <3>2. CASE ~ UNCHANGED slots
        <4>1. PICK s \in Slots :
                slots' = [slots EXCEPT ![s] = Opened(d)]
          BY <3>2
        <4>2. slots'[s] \in SlotRecord /\ slots'[s].pc = "start"
          BY <4>1 DEF SlotType, SlotRecord, ReaderPC, Opened
        <4>3. \A t \in Slots \ {s} : slots'[t] = slots[t]
          BY <4>1 DEF SlotType
        <4>4. slots' \in [Slots -> SlotRecord]
          BY <4>1, <4>2, <4>3 DEF SlotType
        <4> QED BY <4>2, <4>3, <4>4 DEF SlotType
      <3> QED BY <3>1, <3>2
    <2>2. Phase'
      BY DEF Phase
    <2>3. SameMarks
      <3>1. CASE UNCHANGED slots
        BY <3>1 DEF SameMarks
      <3>2. CASE ~ UNCHANGED slots
        <4>1. PICK s \in Slots :
                /\ slots[s].pc = Inactive
                /\ slots' = [slots EXCEPT ![s] = Opened(d)]
          BY <3>2 DEF Active
        <4>2. slots'[s].pc = "start" /\ slots[s].pc /= "mark"
          BY <4>1 DEF SlotType, SlotRecord, Inactive, Opened
        <4>3. \A t \in Slots \ {s} : slots'[t] = slots[t]
          BY <4>1 DEF SlotType
        <4> QED BY <4>2, <4>3 DEF SameMarks
      <3> QED BY <3>1, <3>2
    <2> QED BY <2>1, <2>2, <2>3, QuietStep
  <1> QED BY <1>1, <1>2, <1>3, <1>4, <1>5, <1>6 DEF Main

\* Moving a reader to another place changes nothing else of its slot.
LEMMA Moved ==
  ASSUME SlotType, NEW s \in Slots, NEW there \in ReaderPC, GoTo(s, there)
  PROVE  /\ slots' \in [Slots -> SlotRecord]
         /\ slots'[s].pc = there /\ slots'[s].event = slots[s].event
         /\ \A t \in Slots \ {s} : slots'[t] = slots[t]
  <1>1. slots' = [slots EXCEPT ![s] = [slots[s] EXCEPT !.pc = there]]
    BY DEF GoTo, SlotType
  <1>2. [slots[s] EXCEPT !.pc = there] \in SlotRecord
    BY DEF SlotType, SlotRecord
  <1> QED BY <1>1, <1>2 DEF SlotType, SlotRecord

\* No step of a reader breaks the invariant.
LEMMA ReaderPreserves ==
  ASSUME IInv, NEW s \in Slots, Reader(s)
  PROVE  IInv'
  <1> USE DEF IInv, procVars, envVars, kbdVars, ghosts, Alive
  <1>0. slots[s].pc /= Inactive
    BY DEF Reader, reader_grab, reader_top, reader_poll, write_frame,
           reader_mark, reader_end, Inactive
  <1>a. ~late => main \notin {"release", "exited"}
    BY <1>0 DEF MarkAgreesWithApp, Active
  <1>1. CASE reader_grab(s) \/ reader_end(s)
    <2> USE <1>1 DEF reader_grab, reader_end
    <2>1. CASE GoTo(s, "top")
      <3>1. /\ slots' \in [Slots -> SlotRecord]
            /\ slots'[s].pc = "top"
            /\ \A t \in Slots \ {s} : slots'[t] = slots[t]
        BY <2>1, Moved DEF ReaderPC
      <3>2. SlotType' /\ Phase' /\ SameMarks
        <4>1. slots[s].pc /= "mark"
          OBVIOUS
        <4>2. SlotType'
          BY <3>1 DEF SlotType
        <4>3. Phase'
          BY DEF Phase
        <4> QED BY <3>1, <4>1, <4>2, <4>3 DEF SameMarks
      <3> QED BY <3>2, <1>a, QuietStep
    <2>2. CASE slots' = [slots EXCEPT ![s] = Closed(slots[s].path)]
      <3>1. /\ slots' \in [Slots -> SlotRecord]
            /\ slots'[s].pc = Inactive
            /\ \A t \in Slots \ {s} : slots'[t] = slots[t]
        BY <2>2 DEF Closed, SlotType, SlotRecord, ReaderPC
      <3>2. SlotType' /\ Phase' /\ SameMarks
        <4>1. slots[s].pc /= "mark"
          OBVIOUS
        <4>2. SlotType'
          BY <3>1 DEF SlotType, Inactive
        <4>3. Phase'
          BY DEF Phase
        <4> QED BY <3>1, <4>1, <4>2, <4>3 DEF SameMarks, Inactive
      <3> QED BY <3>2, <1>a, QuietStep
    <2> QED BY <2>1, <2>2
  <1>2. CASE reader_top(s)
    <2> USE <1>2 DEF reader_top
    <2>1. PICK there \in {"poll", "ending"} : GoTo(s, there)
      OBVIOUS
    <2>2. /\ slots' \in [Slots -> SlotRecord]
          /\ slots'[s].pc = there
          /\ \A t \in Slots \ {s} : slots'[t] = slots[t]
      BY <2>1, Moved DEF ReaderPC
    <2>3. SlotType'
      BY <2>2 DEF SlotType
    <2>4. Phase'
      BY DEF Phase
    <2>5. SameMarks
      BY <2>2 DEF SameMarks
    <2> QED BY <2>3, <2>4, <2>5, <1>a, QuietStep
  <1>3. CASE reader_poll(s)
    <2> USE <1>3 DEF reader_poll
    <2>1. /\ slots' \in [Slots -> SlotRecord]
          /\ slots'[s].pc /= "mark"
          /\ slots'[s].pc = "write" => slots'[s].event \in Event
          /\ \A t \in Slots \ {s} : slots'[t] = slots[t]
      <3>1. CASE GoTo(s, "ending") \/ GoTo(s, "top")
        BY <3>1, Moved DEF ReaderPC
      <3>2. CASE ~(GoTo(s, "ending") \/ GoTo(s, "top"))
        <4> DEFINE r == [pc |-> "write", path |-> slots[s].path, hup |-> FALSE,
                         queue |-> Tail(slots[s].queue),
                         event |-> Head(slots[s].queue)]
        <4>1. slots' = [slots EXCEPT ![s] = r] /\ slots[s].queue /= <<>>
          BY <3>2
        <4>2. slots[s].queue \in Seq(Event) /\ slots[s].path \in Devices \cup {NoPath}
          BY DEF SlotType, SlotRecord
        <4>3. Head(slots[s].queue) \in Event /\ Tail(slots[s].queue) \in Seq(Event)
          BY <4>1, <4>2
        <4>4. r \in SlotRecord /\ r.pc = "write" /\ r.event \in Event
          BY <4>2, <4>3 DEF SlotRecord, ReaderPC
        <4> HIDE DEF r
        <4> QED BY <4>1, <4>4 DEF SlotType
      <3> QED BY <3>1, <3>2
    <2>2. SlotType'
      BY <2>1 DEF SlotType
    <2>3. Phase'
      BY DEF Phase
    <2>4. SameMarks
      BY <2>1 DEF SameMarks
    <2> QED BY <2>2, <2>3, <2>4, <1>a, QuietStep
  <1>4. CASE write_frame(s)
    <2> USE <1>4 DEF write_frame
    <2> DEFINE e == slots[s].event
    <2>1. e \in Event /\ e.key \in Keys
      BY DEF SlotType, Event
    <2>2. CASE ~stdoutOpen
      <3>1. /\ slots' \in [Slots -> SlotRecord]
            /\ slots'[s].pc = "ending"
            /\ \A t \in Slots \ {s} : slots'[t] = slots[t]
        BY <2>2, Moved DEF ReaderPC
      <3>2. SlotType'
        BY <3>1 DEF SlotType
      <3>3. Phase' /\ SameMarks
        BY <2>2, <3>1 DEF Phase, SameMarks
      <3> QED BY <2>2, <3>2, <3>3, <1>a, QuietStep
    <2>3. CASE stdoutOpen
      <3>1. /\ slots' \in [Slots -> SlotRecord]
            /\ slots'[s].pc = "mark" /\ slots'[s].event = e
            /\ \A t \in Slots \ {s} : slots'[t] = slots[t]
        BY <2>3, Moved DEF ReaderPC
      <3>2. SlotType'
        BY <3>1, <2>1 DEF SlotType
      <3>3. down' = After(down, e) /\ (e.key \in down' <=> e.value /= 0)
            /\ \A k \in Keys \ {e.key} : k \in down' <=> k \in down
        BY <2>3, <2>1 DEF After
      <3>4. raced \subseteq raced'
            /\ \A t \in Slots \ {s} : Marking(t, e.key) => e.key \in raced'
        BY <2>3
      <3>5. Phase'
        BY <2>3, <2>1 DEF Phase, After
      <3>6. \A t \in Slots \ {s}, k \in Keys : Marking(t, k)' <=> Marking(t, k)
        BY <3>1 DEF Marking
      <3>7. \A k \in Keys : Marking(s, k)' <=> k = e.key
        BY <3>1 DEF Marking
      <3>8. MarkAgreesWithApp'
        <4> SUFFICES ASSUME ~late,
                            NEW t \in Slots, NEW k \in Keys \ raced', Marking(t, k)'
                     PROVE  /\ (k \in down') = (slots'[t].event.value /= 0)
                            /\ \A u \in Slots \ {t} : ~Marking(u, k)'
          BY <1>a DEF MarkAgreesWithApp
        <4>1. CASE t = s
          BY <4>1, <3>1, <3>3, <3>4, <3>6, <3>7
        <4>2. CASE t /= s
          <5>1. Marking(t, k) /\ k /= e.key /\ k \in Keys \ raced
            BY <4>2, <3>4, <3>6
          <5> QED BY <4>2, <5>1, <3>1, <3>3, <3>6, <3>7 DEF MarkAgreesWithApp
        <4> QED BY <4>1, <4>2
      <3>9. PressedCoversDown'
        <4> SUFFICES ASSUME NEW k \in down', k \notin pressed, k \notin raced', ~late
                     PROVE  \E t \in Slots : Marking(t, k)'
          BY DEF PressedCoversDown
        <4>1. k \in Keys
          BY <3>5 DEF Phase
        <4>2. CASE k = e.key
          BY <4>1, <4>2, <3>7
        <4>3. CASE k /= e.key
          <5>1. k \in down \ (pressed \cup raced)
            BY <4>1, <4>3, <3>3, <3>4
          <5>2. PICK t \in Slots : Marking(t, k)
            BY <5>1 DEF PressedCoversDown
          <5>3. t /= s
            BY <5>2 DEF Marking
          <5> QED BY <5>2, <5>3, <4>1, <3>6
        <4> QED BY <4>2, <4>3
      <3> QED BY <3>2, <3>5, <3>8, <3>9
    <2> QED BY <2>2, <2>3
  <1>5. CASE reader_mark(s)
    <2> USE <1>5 DEF reader_mark
    <2> DEFINE e == slots[s].event
    <2>1. e \in Event /\ e.key \in Keys /\ Marking(s, e.key)
      BY DEF SlotType, Event, Marking
    <2>2. /\ slots' \in [Slots -> SlotRecord]
          /\ slots'[s].pc = "top"
          /\ \A t \in Slots \ {s} : slots'[t] = slots[t]
      <3> DEFINE r == [[slots[s] EXCEPT !.pc = "top"] EXCEPT !.event = NoEvent]
      <3>1. slots' = [slots EXCEPT ![s] = r]
        BY DEF SlotType
      <3>2. r \in SlotRecord /\ r.pc = "top"
        BY DEF SlotType, SlotRecord, ReaderPC
      <3> HIDE DEF r
      <3> QED BY <3>1, <3>2 DEF SlotType
    <2>3. SlotType'
      BY <2>2 DEF SlotType
    <2>4. Phase'
      BY DEF Phase
    <2>5. \A t \in Slots \ {s}, k \in Keys : Marking(t, k)' <=> Marking(t, k)
      BY <2>2 DEF Marking
    <2>6. \A k \in Keys : ~Marking(s, k)'
      BY <2>2 DEF Marking
    <2>7. MarkAgreesWithApp'
      <3> SUFFICES ASSUME ~late,
                          NEW t \in Slots, NEW k \in Keys \ raced, Marking(t, k)'
                   PROVE  /\ (k \in down) = (slots'[t].event.value /= 0)
                          /\ \A u \in Slots \ {t} : ~Marking(u, k)'
        BY <1>a DEF MarkAgreesWithApp
      <3>1. t /= s /\ Marking(t, k)
        BY <2>5, <2>6
      <3> QED BY <3>1, <2>2, <2>5, <2>6 DEF MarkAgreesWithApp
    <2>8. PressedCoversDown'
      <3> SUFFICES ASSUME NEW k \in down, k \notin pressed', k \notin raced, ~late
                   PROVE  \E t \in Slots : Marking(t, k)'
        BY DEF PressedCoversDown
      <3>1. k \in Keys
        BY DEF Phase
      <3>2. CASE k = e.key
        <4>1. e.value /= 0
          BY <3>1, <3>2, <2>1 DEF MarkAgreesWithApp
        <4> QED BY <4>1, <3>2 DEF After
      <3>3. CASE k /= e.key
        <4>1. k \notin pressed
          BY <3>3 DEF After
        <4>2. PICK t \in Slots : Marking(t, k)
          BY <4>1 DEF PressedCoversDown
        <4>3. t /= s
          BY <4>2, <3>3 DEF Marking
        <4> QED BY <4>2, <4>3, <3>1, <2>5
      <3> QED BY <3>2, <3>3
    <2> QED BY <2>3, <2>4, <2>7, <2>8
  <1> QED BY <1>1, <1>2, <1>3, <1>4, <1>5 DEF Reader

\* Keyboards and the app do not touch what the reader records.
LEMMA EnvironmentPreserves == IInv /\ Environment => IInv'
  <1> SUFFICES ASSUME IInv, Environment PROVE IInv'
    OBVIOUS
  <1> USE DEF IInv, procVars, envVars, kbdVars, ghosts
  <1>0. main \in {"release", "exited"} /\ ~late => \A s \in Slots : slots[s].pc = Inactive
    BY DEF MarkAgreesWithApp, Active
  <1>1. CASE UNCHANGED <<slots, main, pressed, down, late, raced>>
             /\ (stdoutOpen' => stdoutOpen)
    <2>1. SlotType' /\ Phase' /\ SameMarks
      BY <1>1 DEF SlotType, Phase, SameMarks
    <2> QED BY <1>0, <1>1, <2>1, QuietStep
  <1>2. ASSUME NEW d \in Devices, unplug(d) PROVE IInv'
    <2> USE <1>2 DEF unplug
    <2>1. \A s \in Slots : /\ slots'[s] \in SlotRecord
                           /\ slots'[s].pc = slots[s].pc
                           /\ slots'[s].event = slots[s].event
      BY DEF SlotType, SlotRecord
    <2>2. SlotType'
      BY <2>1 DEF SlotType
    <2>3. Phase' /\ SameMarks
      BY <2>1 DEF Phase, SameMarks
    <2> QED BY <1>0, <2>1, <2>2, <2>3, QuietStep
  <1>3. ASSUME NEW d \in Devices, NEW k \in Keys, NEW v \in Values, key_event(d, k, v)
        PROVE  IInv'
    <2> USE <1>3 DEF key_event
    <2> DEFINE e == [key |-> k, value |-> v]
    <2>0. e \in Event
      BY DEF Event
    <2>1. \A s \in Slots : /\ slots'[s] \in SlotRecord
                           /\ slots'[s].pc = slots[s].pc
                           /\ slots'[s].event = slots[s].event
      <3> SUFFICES ASSUME NEW s \in Slots
                   PROVE  /\ slots'[s] \in SlotRecord
                          /\ slots'[s].pc = slots[s].pc
                          /\ slots'[s].event = slots[s].event
        OBVIOUS
      <3>1. slots[s] \in SlotRecord /\ Append(slots[s].queue, e) \in Seq(Event)
        BY <2>0 DEF SlotType, SlotRecord
      <3>2. slots'[s] = slots[s]
            \/ slots'[s] = [slots[s] EXCEPT !.queue = Append(slots[s].queue, e)]
        BY DEF SlotType, SlotRecord
      <3> HIDE DEF e
      <3> QED BY <3>1, <3>2 DEF SlotRecord
    <2>2. SlotType'
      BY <2>1 DEF SlotType
    <2>3. Phase' /\ SameMarks
      BY <2>1 DEF Phase, SameMarks
    <2> QED BY <1>0, <2>1, <2>2, <2>3, QuietStep
  <1>4. CASE on_signal \/ owner_dies \/ owner_closes_stdin \/ \E d \in Devices : plug(d)
    BY <1>4, <1>1 DEF on_signal, owner_dies, owner_closes_stdin, plug
  <1> QED BY <1>2, <1>3, <1>4 DEF Environment

\* Every step preserves the invariant.
LEMMA NextPreserves == IInv /\ [Next]_vars => IInv'
  <1>1. IInv /\ UNCHANGED vars => IInv'
    BY DEF vars, procVars, envVars, kbdVars, ghosts, IInv, SlotType, Phase,
           MarkAgreesWithApp, PressedCoversDown, Marking, Active
  <1> QED BY <1>1, MainPreserves, ReaderPreserves, EnvironmentPreserves DEF Next, Exited

\* Whenever the app believes a key is down, pressed_keys holds it, a reader is
\* about to record it, two keyboards disputed it, or the final release began
\* while a reader was still at work.
THEOREM PressedKeysCoverApp == Spec => []PressedCoversDown
  <1>1. IInv => PressedCoversDown
    BY DEF IInv
  <1> QED BY InitEstablishes, NextPreserves, <1>1, PTL DEF Spec

\* When the readers stop within the settle time, release_pressed_keys leaves
\* no key down in the app, except keys two keyboards disputed.
THEOREM NoKeyLeftDown == Spec => []KeysUpAtExit
  <1>1. IInv => KeysUpAtExit
    <2> SUFFICES ASSUME IInv, main = "exited", stdoutOpen, ~late
                 PROVE  down \subseteq raced
      BY DEF KeysUpAtExit
    <2>1. \A s \in Slots, k \in Keys : ~Marking(s, k)
      BY DEF IInv, MarkAgreesWithApp, Marking, Active, Inactive
    <2>2. down \subseteq pressed \cup raced
      BY <2>1 DEF IInv, PressedCoversDown, Phase
    <2> QED BY <2>2 DEF IInv, Phase
  <1> QED BY InitEstablishes, NextPreserves, <1>1, PTL DEF Spec
=============================================================================
