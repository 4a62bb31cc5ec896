-------------------------- MODULE GuestLinksProofs --------------------------
(***************************************************************************)
(* For any number of threads and addresses, the list of the GBM shim tells *)
(* the objects of the token service from those of the real library.  For   *)
(* any number of sessions, attachments, app processes and container starts, *)
(* a session inside the DroidSpaces container it made sure of has its      *)
(* attachments there.                                                      *)
(***************************************************************************)
EXTENDS GuestLinks, TLAPS

-----------------------------------------------------------------------------
(* The GBM shim.                                                           *)

\* The state is well typed.
ShimType ==
  /\ g_pc \in [Threads -> {"idle", "connected", "waiting", "linking", "unlinking", "freeing", "dead"}]
  /\ bo \in [Threads -> Bos \cup {Absent}]
  /\ heap \in [Bos -> {"free", "token", "real"}] /\ token_bos \subseteq Bos

\* A thread has an object in hand exactly while it links, unlinks or frees it, and
\* nobody else has that object.
ShimInHand ==
  /\ \A t \in Threads : bo[t] # Absent <=> g_pc[t] \in {"linking", "unlinking", "freeing"}
  /\ \A t, u \in Threads : t # u /\ bo[t] # Absent => bo[t] # bo[u]
  /\ \A t \in Threads : bo[t] # Absent =>
       /\ heap[bo[t]] = "token"
       /\ bo[t] \in token_bos <=> g_pc[t] = "unlinking"

\* A token object is on the list or in a thread's hand.
ShimListExact ==
  /\ \A b \in token_bos : heap[b] = "token"
  /\ \A b \in Bos : heap[b] = "token" => b \in token_bos \/ \E t \in Threads : bo[t] = b

\* The inductive invariant.
ShimIInv == ShimType /\ ShimInHand /\ ShimListExact

\* Before the first call there are no objects.
LEMMA ShimInitInv == ASSUME Absent \notin Bos PROVE Shim!Init => ShimIInv
BY DEF Shim!Init, ShimIInv, ShimType, ShimInHand, ShimListExact

\* Every step of a thread keeps the invariant; the service does not touch objects.
LEMMA ShimStepInv == ASSUME Absent \notin Bos PROVE ShimIInv /\ [Shim!Next]_Shim!vars => ShimIInv'
<1> SUFFICES ASSUME ShimIInv, [Shim!Next]_Shim!vars PROVE ShimIInv'  OBVIOUS
<1>0. ShimType /\ ShimInHand /\ ShimListExact  BY DEF ShimIInv
<1>1. ASSUME UNCHANGED <<g_pc, bo, heap, token_bos>> PROVE ShimIInv'
  BY <1>0, <1>1 DEF ShimIInv, ShimType, ShimInHand, ShimListExact
<1>2. ASSUME NEW t \in Threads, NEW where \in {"idle", "connected", "waiting"},
             g_pc[t] \in {"idle", "connected", "waiting"}, Shim!Goto(t, where), UNCHANGED <<bo, heap, token_bos>>
      PROVE  ShimIInv'
  <2>1. g_pc'[t] = where /\ \A u \in Threads \ {t} : g_pc'[u] = g_pc[u]
    BY <1>0, <1>2 DEF Shim!Goto, ShimType
  <2>2. ShimType'  BY <1>0, <1>2 DEF ShimType, Shim!Goto
  <2>3. bo[t] = Absent  BY <1>0, <1>2 DEF ShimInHand
  <2>4. ShimInHand'  BY <1>0, <1>2, <2>1, <2>3 DEF ShimInHand
  <2>5. ShimListExact'  BY <1>0, <1>2 DEF ShimListExact
  <2>. QED  BY <2>2, <2>4, <2>5 DEF ShimIInv
<1>3. ASSUME NEW t \in Threads, Shim!receive_reply(t) PROVE ShimIInv'
  <2>1. CASE Shim!Goto(t, "idle") /\ UNCHANGED <<heap, bo>>
    BY <1>2, <1>3, <2>1 DEF Shim!receive_reply
  <2>2. ASSUME NEW b \in Bos, heap[b] = "free", heap' = [heap EXCEPT ![b] = "token"],
               bo' = [bo EXCEPT ![t] = b], Shim!Goto(t, "linking")
        PROVE  ShimIInv'
    <3>0. g_pc[t] = "waiting" /\ UNCHANGED token_bos  BY <1>3 DEF Shim!receive_reply
    <3>1. /\ g_pc'[t] = "linking" /\ bo'[t] = b /\ heap'[b] = "token"
          /\ \A u \in Threads \ {t} : g_pc'[u] = g_pc[u] /\ bo'[u] = bo[u]
          /\ \A c \in Bos \ {b} : heap'[c] = heap[c]
      BY <1>0, <2>2 DEF Shim!Goto, ShimType
    <3>2. ShimType'  BY <1>0, <2>2, <3>0 DEF ShimType, Shim!Goto
    <3>3. bo[t] = Absent /\ b \notin token_bos /\ b # Absent /\ \A u \in Threads : bo[u] # b
      BY <1>0, <2>2, <3>0 DEF ShimInHand, ShimListExact
    <3>4. ShimInHand'
      <4>1. \A u \in Threads : bo[u] # Absent => bo[u] \in Bos \ {b}  BY <1>0, <3>3 DEF ShimType
      <4>. QED  BY <1>0, <3>0, <3>1, <3>3, <4>1 DEF ShimInHand
    <3>5. ShimListExact'  BY <1>0, <3>0, <3>1, <3>3 DEF ShimListExact, ShimType
    <3>. QED  BY <3>2, <3>4, <3>5 DEF ShimIInv
  <2>. QED  BY <1>3, <2>1, <2>2 DEF Shim!receive_reply
<1>4. ASSUME NEW t \in Threads, Shim!LinkBo(t) PROVE ShimIInv'
  <2>0. /\ g_pc[t] = "linking" /\ token_bos' = token_bos \cup {bo[t]}
        /\ Shim!Goto(t, "idle") /\ bo' = [bo EXCEPT ![t] = Absent] /\ UNCHANGED heap
    BY <1>4 DEF Shim!LinkBo
  <2>1. /\ g_pc'[t] = "idle" /\ bo'[t] = Absent
        /\ \A u \in Threads \ {t} : g_pc'[u] = g_pc[u] /\ bo'[u] = bo[u]
    BY <1>0, <2>0 DEF Shim!Goto, ShimType
  <2>2. bo[t] \in Bos /\ heap[bo[t]] = "token" /\ \A u \in Threads \ {t} : bo[u] # bo[t]
    BY <1>0, <2>0 DEF ShimInHand, ShimType
  <2>3. ShimType'  BY <1>0, <2>0, <2>2 DEF ShimType, Shim!Goto
  <2>4. ShimInHand'  BY <1>0, <2>0, <2>1, <2>2 DEF ShimInHand
  <2>5. ShimListExact'  BY <1>0, <2>0, <2>1, <2>2 DEF ShimListExact
  <2>. QED  BY <2>3, <2>4, <2>5 DEF ShimIInv
<1>5. ASSUME NEW t \in Threads, NEW b \in Bos, Shim!real_gbm_bo_create(t, b) PROVE ShimIInv'
  <2>0. /\ heap[b] = "free" /\ heap' = [heap EXCEPT ![b] = "real"] /\ UNCHANGED <<g_pc, bo, token_bos>>
    BY <1>5 DEF Shim!real_gbm_bo_create, Shim!threadVars
  <2>1. heap'[b] = "real" /\ \A c \in Bos \ {b} : heap'[c] = heap[c]  BY <1>0, <2>0 DEF ShimType
  <2>2. b \notin token_bos /\ \A u \in Threads : bo[u] # b
    BY <1>0, <2>0 DEF ShimInHand, ShimListExact
  <2>3. ShimType'  BY <1>0, <2>0 DEF ShimType
  <2>4. ShimInHand'  BY <1>0, <2>0, <2>1, <2>2 DEF ShimInHand, ShimType
  <2>5. ShimListExact'  BY <1>0, <2>0, <2>1, <2>2 DEF ShimListExact, ShimType
  <2>. QED  BY <2>3, <2>4, <2>5 DEF ShimIInv
<1>6. ASSUME NEW t \in Threads, NEW b \in Bos, Shim!gbm_bo_destroy(t, b) PROVE ShimIInv'
  <2>0. g_pc[t] = "idle" /\ Shim!Owned(b) /\ UNCHANGED token_bos /\ bo[t] = Absent
    BY <1>0, <1>6 DEF Shim!gbm_bo_destroy, ShimInHand
  <2>1. CASE Shim!is_token_bo(b)
    <3>0. Shim!Goto(t, "unlinking") /\ bo' = [bo EXCEPT ![t] = b] /\ UNCHANGED heap
      BY <1>6, <2>1 DEF Shim!gbm_bo_destroy
    <3>1. /\ g_pc'[t] = "unlinking" /\ bo'[t] = b
          /\ \A u \in Threads \ {t} : g_pc'[u] = g_pc[u] /\ bo'[u] = bo[u]
      BY <1>0, <3>0 DEF Shim!Goto, ShimType
    <3>2. b \in token_bos /\ heap[b] = "token" /\ b # Absent /\ \A u \in Threads : bo[u] # b
      BY <1>0, <2>0, <2>1 DEF Shim!is_token_bo, ShimListExact, Shim!Owned
    <3>3. ShimType'  BY <1>0, <2>0, <3>0 DEF ShimType, Shim!Goto
    <3>4. ShimInHand'  BY <1>0, <2>0, <3>0, <3>1, <3>2 DEF ShimInHand
    <3>5. ShimListExact'  BY <1>0, <2>0, <3>0, <3>1, <3>2 DEF ShimListExact
    <3>. QED  BY <3>3, <3>4, <3>5 DEF ShimIInv
  <2>2. CASE ~Shim!is_token_bo(b)
    <3>0. heap' = [heap EXCEPT ![b] = "free"] /\ UNCHANGED <<g_pc, bo>>
      BY <1>6, <2>2 DEF Shim!gbm_bo_destroy
    <3>1. heap'[b] = "free" /\ \A c \in Bos \ {b} : heap'[c] = heap[c]  BY <1>0, <3>0 DEF ShimType
    <3>2. b \notin token_bos /\ \A u \in Threads : bo[u] # b
      BY <2>0, <2>2 DEF Shim!is_token_bo, Shim!Owned
    <3>3. ShimType'  BY <1>0, <2>0, <3>0 DEF ShimType
    <3>4. ShimInHand'  BY <1>0, <2>0, <3>0, <3>1, <3>2 DEF ShimInHand, ShimType
    <3>5. ShimListExact'  BY <1>0, <2>0, <3>0, <3>1, <3>2 DEF ShimListExact, ShimType
    <3>. QED  BY <3>3, <3>4, <3>5 DEF ShimIInv
  <2>. QED  BY <2>1, <2>2
<1>7. ASSUME NEW t \in Threads, Shim!UnlinkAndFree(t) PROVE ShimIInv'
  <2>1. CASE /\ g_pc[t] = "unlinking" /\ token_bos' = token_bos \ {bo[t]} /\ Shim!Goto(t, "freeing")
             /\ UNCHANGED <<bo, heap>>
    <3>1. g_pc'[t] = "freeing" /\ \A u \in Threads \ {t} : g_pc'[u] = g_pc[u]
      BY <1>0, <2>1 DEF Shim!Goto, ShimType
    <3>2. bo[t] # Absent /\ \A u \in Threads \ {t} : bo[u] # bo[t]  BY <1>0, <2>1 DEF ShimInHand
    <3>3. ShimType'  BY <1>0, <2>1 DEF ShimType, Shim!Goto
    <3>4. ShimInHand'  BY <1>0, <2>1, <3>1, <3>2 DEF ShimInHand
    <3>5. ShimListExact'  BY <1>0, <2>1 DEF ShimListExact
    <3>. QED  BY <3>3, <3>4, <3>5 DEF ShimIInv
  <2>2. CASE /\ g_pc[t] = "freeing" /\ heap' = [heap EXCEPT ![bo[t]] = "free"]
             /\ Shim!Goto(t, "idle") /\ bo' = [bo EXCEPT ![t] = Absent] /\ UNCHANGED token_bos
    <3>0. bo[t] \in Bos /\ bo[t] \notin token_bos /\ \A u \in Threads \ {t} : bo[u] # bo[t]
      BY <1>0, <2>2 DEF ShimInHand, ShimType
    <3>1. /\ g_pc'[t] = "idle" /\ bo'[t] = Absent /\ heap'[bo[t]] = "free"
          /\ \A u \in Threads \ {t} : g_pc'[u] = g_pc[u] /\ bo'[u] = bo[u]
          /\ \A c \in Bos : c # bo[t] => heap'[c] = heap[c]
      BY <1>0, <2>2, <3>0 DEF Shim!Goto, ShimType
    <3>3. ShimType'  BY <1>0, <2>2, <3>0 DEF ShimType, Shim!Goto
    <3>4. ShimInHand'
      <4>1. \A u \in Threads : bo[u] # Absent => bo[u] \in Bos  BY <1>0 DEF ShimType
      <4>. QED  BY <1>0, <2>2, <3>0, <3>1, <4>1 DEF ShimInHand
    <3>5. ShimListExact'  BY <1>0, <2>2, <3>0, <3>1 DEF ShimListExact, ShimType
    <3>. QED  BY <3>3, <3>4, <3>5 DEF ShimIInv
  <2>. QED  BY <1>7, <2>1, <2>2 DEF Shim!UnlinkAndFree
<1>8. ASSUME Shim!GuestDies PROVE ShimIInv'
  BY <1>8 DEF Shim!GuestDies, ShimIInv, ShimType, ShimInHand, ShimListExact
<1>9. ASSUME NEW t \in Threads, Shim!connect_tvg(t) \/ Shim!SendRequest(t) PROVE ShimIInv'
  BY <1>1, <1>2, <1>9 DEF Shim!connect_tvg, Shim!SendRequest
<1>10. ASSUME Shim!Service \/ Shim!tvg_scanout_start \/ Shim!tvg_scanout_stop PROVE ShimIInv'
  BY <1>1, <1>10 DEF Shim!Service, Shim!server_main, Shim!handle_client, Shim!StopCloses,
                     Shim!tvg_scanout_start,
                     Shim!tvg_scanout_stop, Shim!guestVars, Shim!threadVars
<1>11. CASE UNCHANGED Shim!vars  BY <1>1, <1>11 DEF Shim!vars, Shim!guestVars, Shim!threadVars
<1>12. ASSUME NEW t \in Threads, Shim!Inside(t) PROVE ShimIInv'
  BY <1>3, <1>4, <1>7, <1>9, <1>12 DEF Shim!Inside
<1>13. CASE Shim!Next
  BY <1>5, <1>6, <1>8, <1>9, <1>10, <1>12, <1>13 DEF Shim!Next
<1>. QED  BY <1>11, <1>13

\* gbm_shim.c is_token_bo: for any number of threads and addresses, an object an
\* application holds is on the list exactly if it is a token, however addresses are
\* used again and threads interleave.
THEOREM AlwaysDispatchedToOwner == Shim!Spec => []DispatchedToOwner
<1>0. Absent \notin Bos  BY LinksAssumption
<1>1. ShimIInv => DispatchedToOwner
  BY DEF ShimIInv, ShimListExact, DispatchedToOwner, Shim!DispatchedToOwner, Shim!Owned, Shim!is_token_bo
<1>2. Shim!Init => ShimIInv  BY <1>0, ShimInitInv
<1>3. ShimIInv /\ [Shim!Next]_Shim!vars => ShimIInv'  BY <1>0, ShimStepInv
<1>. QED  BY <1>1, <1>2, <1>3, PTL DEF Shim!Spec

-----------------------------------------------------------------------------
(* Sessions in a DroidSpaces container.                                    *)

\* The state is well typed.
DroidType ==
  /\ s_pc \in [Sessions -> {"idle", "wait", "query", "supervise", "start", "starting", "check", "setup",
                          "run", "inside", "ended"}]
  /\ need \in [Sessions -> SUBSET Attachments]
  /\ container \in [state : {"stopped", "starting", "running"}, by : Sessions \cup {Absent},
                    binds : SUBSET Attachments, life : Nat]
  /\ checked \in [Sessions -> Nat]

\* A container that is not stopped has what its starter requires.
DroidStarterServed ==
  \A s \in Sessions : container.by = s =>
    /\ container.binds = need[s] /\ container.state # "stopped"
    /\ s_pc[s] \in {"starting", "setup", "run", "inside", "ended"}

\* What a command made sure of holds for as long as that container lives; the next
\* one counts as another.
DroidCheckedHolds ==
  \A s \in Sessions :
    /\ checked[s] <= container.life
    /\ container.state = "starting" => checked[s] < container.life
    /\ s_pc[s] \in {"idle", "wait", "query", "supervise", "start", "starting", "check"} => checked[s] = 0
    /\ s_pc[s] \in {"setup", "run", "inside"} /\ checked[s] = container.life /\ container.state = "running"
         => need[s] \subseteq container.binds
    /\ s_pc[s] = "inside" => container.state = "running"

\* The inductive invariant.
DroidIInv == DroidType /\ DroidStarterServed /\ DroidCheckedHolds

\* Before the first session there is no container.
LEMMA DroidInitInv == ASSUME Absent \notin Sessions PROVE Droid!Init => DroidIInv
<1> SUFFICES ASSUME Droid!Init PROVE DroidIInv  OBVIOUS
<1>1. DroidType  BY DEF Droid!Init, DroidType
<1>2. container.by = Absent /\ container.state = "stopped" /\ container.life = 0  BY DEF Droid!Init
<1>3. \A s \in Sessions : s_pc[s] = "idle" /\ checked[s] = 0  BY DEF Droid!Init
<1>4. DroidStarterServed  BY <1>2 DEF DroidStarterServed
<1>5. DroidCheckedHolds  BY <1>2, <1>3 DEF DroidCheckedHolds
<1>. QED  BY <1>1, <1>4, <1>5 DEF DroidIInv

\* A step of one session's command that leaves the container alone.
LEMMA DroidGotoInv ==
  ASSUME DroidIInv, NEW s \in Sessions, NEW where, Droid!Goto(s, where), UNCHANGED container,
         where \in {"wait", "query", "supervise", "start", "starting", "check", "setup", "run", "inside", "ended"},
         need' = need, checked' \in [Sessions -> Nat], \A t \in Sessions \ {s} : checked'[t] = checked[t],
         \/ /\ checked'[s] = checked[s]
            /\ where \in {"setup", "run", "inside"} => s_pc[s] \in {"setup", "run", "inside"}
         \/ Droid!Running /\ checked'[s] = container.life /\ need[s] \subseteq container.binds,
         where \in {"setup", "run", "inside", "ended"} \/ (container.by # s /\ checked'[s] = 0),
         where = "inside" => Droid!Running
  PROVE  DroidIInv'
<1>0. DroidType /\ DroidStarterServed /\ DroidCheckedHolds  BY DEF DroidIInv
<1>1. /\ s_pc'[s] = where /\ \A t \in Sessions \ {s} : s_pc'[t] = s_pc[t]
  BY <1>0 DEF Droid!Goto, DroidType
<1>2. DroidType'  BY <1>0 DEF DroidType, Droid!Goto
<1>3. DroidStarterServed'  BY <1>0, <1>1 DEF DroidStarterServed
<1>4. DroidCheckedHolds'
  <2> SUFFICES ASSUME NEW t \in Sessions
               PROVE  /\ checked'[t] <= container'.life
                      /\ container'.state = "starting" => checked'[t] < container'.life
                      /\ s_pc'[t] \in {"idle", "wait", "query", "supervise", "start", "starting", "check"} => checked'[t] = 0
                      /\ s_pc'[t] \in {"setup", "run", "inside"} /\ checked'[t] = container'.life /\ container'.state = "running"
                           => need'[t] \subseteq container'.binds
                      /\ s_pc'[t] = "inside" => container'.state = "running"
    BY DEF DroidCheckedHolds
  <2>1. CASE t # s  BY <1>0, <1>1, <2>1 DEF DroidCheckedHolds
  <2>2. CASE t = s
    <3>0. container.life \in Nat /\ checked[s] \in Nat /\ checked'[s] \in Nat  BY <1>0 DEF DroidType
    <3>1. CASE /\ checked'[s] = checked[s]
               /\ where \in {"setup", "run", "inside"} => s_pc[s] \in {"setup", "run", "inside"}
      BY <1>0, <1>1, <2>2, <3>0, <3>1 DEF DroidCheckedHolds, Droid!Running
    <3>2. CASE Droid!Running /\ checked'[s] = container.life /\ need[s] \subseteq container.binds
      BY <1>0, <1>1, <2>2, <3>0, <3>2 DEF DroidCheckedHolds, Droid!Running
    <3>. QED  BY <3>1, <3>2
  <2>. QED  BY <2>1, <2>2
<1>. QED  BY <1>2, <1>3, <1>4 DEF DroidIInv

\* A stop ends the sessions inside; what was made sure of is not asked for again.
LEMMA DroidStopInv ==
  ASSUME Absent \notin Sessions, DroidIInv, Droid!DroidspacesStop, UNCHANGED <<need, checked>>
  PROVE  DroidIInv'
<1>0. DroidType /\ DroidStarterServed /\ DroidCheckedHolds  BY DEF DroidIInv
<1>1. CASE UNCHANGED <<container, s_pc>>
  BY <1>0, <1>1 DEF DroidIInv, DroidType, DroidStarterServed, DroidCheckedHolds
<1>2. CASE /\ container' = Droid!Stopped
           /\ s_pc' = [s \in Sessions |-> IF s_pc[s] = "inside" THEN "ended" ELSE s_pc[s]]
  <2>1. /\ container'.state = "stopped" /\ container'.by = Absent /\ container'.life = container.life
        /\ container' \in [state : {"stopped", "starting", "running"}, by : Sessions \cup {Absent},
                           binds : SUBSET Attachments, life : Nat]
    BY <1>0, <1>2 DEF Droid!Stopped, DroidType
  <2>2. DroidType'  BY <1>0, <1>2, <2>1 DEF DroidType
  <2>3. DroidStarterServed'  BY <2>1 DEF DroidStarterServed
  <2>4. DroidCheckedHolds'  BY <1>0, <1>2, <2>1 DEF DroidCheckedHolds
  <2>. QED  BY <2>2, <2>3, <2>4 DEF DroidIInv
<1>. QED  BY <1>1, <1>2 DEF Droid!DroidspacesStop

\* Every step of the commands, of the watchers and of the user keeps the invariant.
LEMMA DroidStepInv == ASSUME Absent \notin Sessions PROVE DroidIInv /\ [Droid!Next]_Droid!vars => DroidIInv'
<1> SUFFICES ASSUME DroidIInv, [Droid!Next]_Droid!vars PROVE DroidIInv'  OBVIOUS
<1>0. DroidType /\ DroidStarterServed /\ DroidCheckedHolds  BY DEF DroidIInv
<1>1. ASSUME NEW s \in Sessions, Droid!open_session(s) PROVE DroidIInv'
  <2>1. /\ s_pc[s] = "idle" /\ need' \in [Sessions -> SUBSET Attachments]
        /\ \A t \in Sessions \ {s} : need'[t] = need[t] /\ s_pc'[t] = s_pc[t]
        /\ s_pc'[s] \in {"wait", "ended"} /\ UNCHANGED <<container, checked>>
        /\ s_pc' \in [Sessions -> {"idle", "wait", "query", "supervise", "start", "starting", "check", "setup",
                                 "run", "inside", "ended"}]
    BY <1>0, <1>1 DEF Droid!open_session, Droid!Goto, DroidType
  <2>2. container.by # s /\ checked[s] = 0  BY <1>0, <2>1 DEF DroidStarterServed, DroidCheckedHolds
  <2>3. DroidType'  BY <1>0, <2>1 DEF DroidType
  <2>4. DroidStarterServed'  BY <1>0, <2>1, <2>2 DEF DroidStarterServed
  <2>5. DroidCheckedHolds'  BY <1>0, <2>1, <2>2 DEF DroidCheckedHolds
  <2>. QED  BY <2>3, <2>4, <2>5 DEF DroidIInv
<1>2. ASSUME NEW s \in Sessions,
             \/ Droid!wait_for_socket(s) \/ Droid!start_supervisor_command(s) \/ Droid!runtime_setup_command(s)
             \/ Droid!run_command(s) \/ Droid!SessionEnds(s) \/ Droid!ShellDies(s)
      PROVE  DroidIInv'
  <2>1. \E where \in {"query", "start", "run", "inside", "ended"} :
          /\ Droid!Goto(s, where) /\ UNCHANGED <<container, need, checked>>
          /\ where \in {"query", "start"} => s_pc[s] \in {"wait", "supervise"}
          /\ where \in {"run", "inside"} => s_pc[s] \in {"setup", "run"}
          /\ where = "inside" => Droid!Running
    BY <1>2 DEF Droid!wait_for_socket, Droid!start_supervisor_command, Droid!runtime_setup_command,
                Droid!run_command,
                Droid!SessionEnds, Droid!ShellDies
  <2>2. s_pc[s] \in {"wait", "supervise"} => container.by # s /\ checked[s] = 0
    BY <1>0 DEF DroidStarterServed, DroidCheckedHolds
  <2>. QED  BY <1>0, <2>1, <2>2, DroidGotoInv DEF DroidType
<1>3. ASSUME NEW s \in Sessions, Droid!query(s) PROVE DroidIInv'
  <2>0. container.by # s /\ checked[s] = 0 /\ s_pc[s] = "query"
    BY <1>0, <1>3 DEF DroidStarterServed, DroidCheckedHolds, Droid!query
  <2>1. CASE Droid!Running /\ need[s] = {}
    <3>1. /\ Droid!Goto(s, "setup") /\ checked' = [checked EXCEPT ![s] = container.life]
          /\ UNCHANGED <<container, need>>
      BY <1>3, <2>1 DEF Droid!query
    <3>2. /\ checked' \in [Sessions -> Nat] /\ checked'[s] = container.life
          /\ \A t \in Sessions \ {s} : checked'[t] = checked[t]
      BY <1>0, <3>1 DEF DroidType
    <3>. QED  BY <2>1, <3>1, <3>2, DroidGotoInv
  <2>2. CASE ~(Droid!Running /\ need[s] = {})
    <3>1. \E where \in {"supervise", "check"} : Droid!Goto(s, where) /\ UNCHANGED <<container, need, checked>>
      BY <1>3, <2>2 DEF Droid!query
    <3>. QED  BY <1>0, <2>0, <3>1, DroidGotoInv DEF DroidType
  <2>. QED  BY <2>1, <2>2
<1>4. ASSUME NEW s \in Sessions, Droid!start_command(s) PROVE DroidIInv'
  <2>1. CASE Droid!Goto(s, "ended") /\ UNCHANGED <<container, need, checked>>
    BY <1>0, <2>1, DroidGotoInv DEF DroidType
  <2>2. CASE /\ container.state = "stopped"
             /\ container' = [state |-> "starting", by |-> s, binds |-> need[s], life |-> container.life + 1]
             /\ Droid!Goto(s, "starting") /\ UNCHANGED <<need, checked>>
    <3>1. /\ container'.state = "starting" /\ container'.by = s /\ container'.binds = need[s]
          /\ container'.life = container.life + 1 /\ container.life \in Nat
          /\ container' \in [state : {"stopped", "starting", "running"}, by : Sessions \cup {Absent},
                             binds : SUBSET Attachments, life : Nat]
      BY <1>0, <2>2 DEF DroidType
    <3>2. s_pc'[s] = "starting" /\ \A t \in Sessions \ {s} : s_pc'[t] = s_pc[t]
      BY <1>0, <2>2 DEF Droid!Goto, DroidType
    <3>3. DroidType'  BY <1>0, <2>2, <3>1 DEF DroidType, Droid!Goto
    <3>4. DroidStarterServed'  BY <2>2, <3>1, <3>2 DEF DroidStarterServed
    <3>5. checked[s] = 0  BY <1>0, <1>4 DEF Droid!start_command, DroidCheckedHolds
    <3>6. \A t \in Sessions : checked[t] \in Nat /\ checked[t] < container'.life
      BY <1>0, <3>1 DEF DroidType, DroidCheckedHolds
    <3>7. DroidCheckedHolds'
      BY <1>0, <2>2, <3>1, <3>2, <3>5, <3>6 DEF DroidCheckedHolds
    <3>. QED  BY <3>3, <3>4, <3>7 DEF DroidIInv
  <2>. QED  BY <1>4, <2>1, <2>2 DEF Droid!start_command
<1>5. ASSUME NEW s \in Sessions, Droid!StartReturns(s) PROVE DroidIInv'
  <2>1. CASE container.by # s
    <3>1. Droid!Goto(s, "ended") /\ UNCHANGED <<container, need, checked>>
      BY <1>5, <2>1 DEF Droid!StartReturns
    <3>. QED  BY <1>0, <3>1, DroidGotoInv DEF DroidType
  <2>2. CASE container.by = s
    <3>1. /\ container' = [container EXCEPT !.state = "running"]
          /\ Droid!Goto(s, "setup") /\ checked' = [checked EXCEPT ![s] = container.life] /\ UNCHANGED need
      BY <1>5, <2>2 DEF Droid!StartReturns
    <3>2. /\ container'.state = "running" /\ container'.by = s /\ container'.binds = container.binds
          /\ container'.life = container.life /\ container.life \in Nat
          /\ container' \in [state : {"stopped", "starting", "running"}, by : Sessions \cup {Absent},
                             binds : SUBSET Attachments, life : Nat]
      BY <1>0, <2>2, <3>1 DEF DroidType
    <3>3. /\ s_pc'[s] = "setup" /\ \A t \in Sessions \ {s} : s_pc'[t] = s_pc[t]
          /\ checked'[s] = container.life /\ \A t \in Sessions \ {s} : checked'[t] = checked[t]
          /\ checked' \in [Sessions -> Nat]
      BY <1>0, <3>1, <3>2 DEF Droid!Goto, DroidType
    <3>4. DroidType'  BY <1>0, <3>1, <3>2, <3>3 DEF DroidType, Droid!Goto
    <3>5. container.binds = need[s] /\ container.state # "stopped"  BY <1>0, <2>2 DEF DroidStarterServed
    <3>6. DroidStarterServed'  BY <3>1, <3>2, <3>3, <3>5 DEF DroidStarterServed
    <3>7. DroidCheckedHolds'
      <4>1. \A t \in Sessions \ {s} : container.state = "starting" => checked[t] < container.life
        BY <1>0 DEF DroidCheckedHolds
      <4>2. container.state \in {"starting", "running"}  BY <1>0, <3>5 DEF DroidType
      <4>3. \A t \in Sessions : checked[t] \in Nat  BY <1>0 DEF DroidType
      <4>. QED  BY <1>0, <3>1, <3>2, <3>3, <3>5, <4>1, <4>2, <4>3 DEF DroidCheckedHolds
    <3>. QED  BY <3>4, <3>6, <3>7 DEF DroidIInv
  <2>. QED  BY <2>1, <2>2
<1>6. ASSUME NEW s \in Sessions, Droid!existing_container_attachment_check(s) PROVE DroidIInv'
  <2>1. CASE Droid!Running /\ need[s] \subseteq container.binds
    <3>1. /\ Droid!Goto(s, "setup") /\ checked' = [checked EXCEPT ![s] = container.life]
          /\ UNCHANGED <<container, need>>
      BY <1>6, <2>1 DEF Droid!existing_container_attachment_check
    <3>2. /\ checked' \in [Sessions -> Nat] /\ checked'[s] = container.life
          /\ \A t \in Sessions \ {s} : checked'[t] = checked[t]
      BY <1>0, <3>1 DEF DroidType
    <3>. QED  BY <2>1, <3>1, <3>2, DroidGotoInv
  <2>2. CASE ~(Droid!Running /\ need[s] \subseteq container.binds)
    <3>1. Droid!Goto(s, "ended") /\ UNCHANGED <<container, need, checked>>
      BY <1>6, <2>2 DEF Droid!existing_container_attachment_check
    <3>. QED  BY <1>0, <3>1, DroidGotoInv DEF DroidType
  <2>. QED  BY <2>1, <2>2
<1>7. ASSUME NEW s \in Sessions, Droid!watch_owner(s) PROVE DroidIInv'
  <2>1. \/ Droid!DroidspacesStop /\ UNCHANGED <<need, checked>>
        \/ UNCHANGED <<s_pc, need, container, checked>>
    BY <1>7 DEF Droid!watch_owner
  <2>. QED  BY <1>0, <2>1, DroidStopInv DEF DroidIInv, DroidType, DroidStarterServed, DroidCheckedHolds
<1>8. ASSUME Droid!stop_container PROVE DroidIInv'
  BY <1>8, DroidStopInv DEF Droid!stop_container
<1>9. ASSUME Droid!UserStartsContainer PROVE DroidIInv'
  <2>1. /\ container.state = "stopped" /\ UNCHANGED <<s_pc, need, checked>>
        /\ container' = [state |-> "running", by |-> Absent, binds |-> {}, life |-> container.life + 1]
    BY <1>9 DEF Droid!UserStartsContainer
  <2>2. /\ container'.state = "running" /\ container'.by = Absent
        /\ container'.life = container.life + 1 /\ container.life \in Nat
        /\ container' \in [state : {"stopped", "starting", "running"}, by : Sessions \cup {Absent},
                           binds : SUBSET Attachments, life : Nat]
    BY <1>0, <2>1 DEF DroidType
  <2>3. DroidType'  BY <1>0, <2>1, <2>2 DEF DroidType
  <2>4. DroidStarterServed'  BY <2>2 DEF DroidStarterServed
  <2>5. \A t \in Sessions : checked[t] \in Nat /\ checked[t] < container'.life
    BY <1>0, <2>2 DEF DroidType, DroidCheckedHolds
  <2>6. DroidCheckedHolds'  BY <1>0, <2>1, <2>2, <2>5 DEF DroidCheckedHolds
  <2>. QED  BY <2>3, <2>4, <2>6 DEF DroidIInv
<1>10. ASSUME UNCHANGED <<s_pc, need, container, checked>> PROVE DroidIInv'
  BY <1>0, <1>10 DEF DroidIInv, DroidType, DroidStarterServed, DroidCheckedHolds
<1>11. ASSUME NEW s \in Sessions, Droid!Command(s) PROVE DroidIInv'
  BY <1>2, <1>3, <1>4, <1>5, <1>6, <1>11 DEF Droid!Command
<1>12. CASE Droid!Next
  BY <1>1, <1>2, <1>7, <1>8, <1>9, <1>10, <1>11, <1>12 DEF Droid!Next, Droid!AppDies
<1>13. CASE UNCHANGED Droid!vars  BY <1>10, <1>13 DEF Droid!vars
<1>. QED  BY <1>12, <1>13

\* droidspaces.rs session_command: for any number of sessions, app processes and
\* container starts, and whichever command started the container, a session inside
\* the one it started or checked has every attachment it requires.
THEOREM AttachmentsAlwaysPresent == Droid!Spec => []AttachmentsPresent
<1>0. Absent \notin Sessions  BY LinksAssumption
<1>1. DroidIInv => AttachmentsPresent
  BY DEF DroidIInv, DroidCheckedHolds, AttachmentsPresent, Droid!AttachmentsPresent
<1>2. Droid!Init => DroidIInv  BY <1>0, DroidInitInv
<1>3. DroidIInv /\ [Droid!Next]_Droid!vars => DroidIInv'  BY <1>0, DroidStepInv
<1>. QED  BY <1>1, <1>2, <1>3, PTL DEF Droid!Spec
=============================================================================
