------------------------ MODULE DmabufFeedbackProofs ------------------------
(***************************************************************************)
(* For any sessions, render nodes and listen queue, the exchange of device *)
(* reports implements DeviceAnnounce.                                      *)
(***************************************************************************)
EXTENDS DmabufFeedback, TLAPS

\* What a connection its sender holds open says of the sender.
Faithful(c) ==
  c.open => /\ pc[c.from] \in {"connected", "waiting"}
            /\ c.sent => pc[c.from] = "waiting"
            /\ c.device = Nodes[node[c.from]]
            /\ answer[c.from] = None

\* A program has one open connection at most.
OneOpen ==
  /\ \A i, j \in DOMAIN backlog :
       i # j /\ backlog[i].open /\ backlog[j].open => backlog[i].from # backlog[j].from
  /\ \A i \in DOMAIN backlog :
       client # None /\ client.open /\ backlog[i].open => client.from # backlog[i].from

\* A program that has not sent its report was not told that it is accepted.
AnswersFit ==
  \A r \in Reporters :
    /\ pc[r] \in {"idle", "next"} => answer[r] = None
    /\ pc[r] = "connected" => answer[r] # "accepted"
    /\ pc[r] \in {"connected", "waiting"} => node[r] <= Len(Nodes)

\* Without a server there is nothing of it.
DownIsClear == ~up => ~listener /\ backlog = <<>> /\ client = None /\ ~dmabuf_global

IInv ==
  /\ TypeOK
  /\ client # None => Faithful(client)
  /\ \A i \in DOMAIN backlog : Faithful(backlog[i])
  /\ OneOpen /\ AnswersFit /\ DownIsClear

\* Before the server is there, nothing is connected.
LEMMA InitInv == Init => IInv
<1> SUFFICES ASSUME Init PROVE IInv  OBVIOUS
<1>1. TypeOK
  <2>1. 1 \in 1..Len(Nodes) + 1  BY FeedbackAssumption
  <2>2. backlog \in Seq(Connection)  BY DEF Init
  <2>. QED  BY <2>1, <2>2, Zenon DEF Init, TypeOK
<1>2. OneOpen /\ DownIsClear /\ AnswersFit  BY DEF Init, OneOpen, DownIsClear, AnswersFit
<1>3. /\ client # None => Faithful(client)
      /\ \A i \in DOMAIN backlog : Faithful(backlog[i])
  BY DEF Init
<1>. QED  BY <1>1, <1>2, <1>3 DEF IInv

\* d is c after its sender r has sent on it, or closed it.
Remarked(c, d, r, sent, open) ==
  /\ d.from = c.from /\ d.device = c.device
  /\ d.sent <=> c.sent \/ (c.from = r /\ c.open /\ sent)
  /\ d.open <=> c.open /\ (c.from = r => open)

\* d is c, still open only if r did not send it.
Kept(c, d, r) == d.open => /\ c.open /\ c.from # r /\ d.from = c.from /\ d.device = c.device
                           /\ d.sent => c.sent

\* Nothing changed for the other programs.
Alone(r) == \A q \in Reporters \ {r} : pc'[q] = pc[q] /\ node'[q] = node[q] /\ answer'[q] = answer[q]

\* Sending or closing changes the marks of the sender's own connections only.
LEMMA UpdateFacts ==
  ASSUME TypeOK, NEW r \in Reporters, NEW sent \in BOOLEAN, NEW open \in BOOLEAN,
         Update(r, sent, open)
  PROVE  /\ client' \in Connection \cup {None} /\ (client = None <=> client' = None)
         /\ backlog' \in Seq(Connection) /\ DOMAIN backlog' = DOMAIN backlog
         /\ client # None => Remarked(client, client', r, sent, open)
         /\ \A i \in DOMAIN backlog : Remarked(backlog[i], backlog'[i], r, sent, open)
<1>1. backlog \in Seq(Connection) /\ client \in Connection \cup {None}  BY DEF TypeOK
<1>2. None \notin Connection  BY FeedbackAssumption
<1>3. ASSUME NEW c \in Connection
      PROVE  LET d == IF Current(c, r) THEN Marked(c, sent, open) ELSE c
             IN  d \in Connection /\ Remarked(c, d, r, sent, open)
  BY <1>2, Zenon DEF Current, Marked, Connection, Remarked
<1>4. PICK n \in Nat : DOMAIN backlog = 1..n  BY <1>1
<1>5. \A i \in 1..n : backlog[i] \in Connection  BY <1>1, <1>4
<1>6. backlog' = [i \in 1..n |-> IF Current(backlog[i], r) THEN Marked(backlog[i], sent, open)
                                 ELSE backlog[i]]
  BY <1>4 DEF Update
<1>7. \A i \in 1..n : backlog'[i] \in Connection /\ Remarked(backlog[i], backlog'[i], r, sent, open)
  BY <1>3, <1>5, <1>6
<1>8. backlog' \in Seq(Connection) /\ DOMAIN backlog' = 1..n
  <2>1. backlog' \in [1..n -> Connection]  BY <1>6, <1>7
  <2>. QED  BY <2>1
<1>9. client = None => client' = None  BY DEF Update, Current
<1>10. client # None => client' \in Connection /\ Remarked(client, client', r, sent, open)
  BY <1>1, <1>3 DEF Update
<1>. QED  BY <1>2, <1>4, <1>7, <1>8, <1>9, <1>10

\* Every step of programs, sessions and host keeps the invariant.
LEMMA StepInv == IInv /\ [Next]_vars => IInv'
<1> SUFFICES ASSUME IInv, [Next]_vars PROVE IInv'  OBVIOUS
<1> USE FeedbackAssumption
<1> DEFINE Conns == /\ client # None => Faithful(client)
                    /\ \A i \in DOMAIN backlog : Faithful(backlog[i])
<1>0. TypeOK /\ Conns /\ OneOpen /\ AnswersFit /\ DownIsClear  BY DEF IInv
<1>a. /\ backlog \in Seq(Connection) /\ Len(backlog) \in Nat /\ DOMAIN backlog = 1..Len(backlog)
      /\ \A i \in DOMAIN backlog : backlog[i] \in Connection
      /\ Len(Nodes) \in Nat
  BY <1>0 DEF TypeOK
<1>b. client # None => client \in Connection  BY <1>0 DEF TypeOK
<1>d. ASSUME NEW r \in Reporters, Alone(r), client' # None => client # None /\ Kept(client, client', r),
             DOMAIN backlog' = DOMAIN backlog, \A i \in DOMAIN backlog : Kept(backlog[i], backlog'[i], r)
      PROVE  Conns'
  <2>1. \A c \in Connection : c.from \in Reporters  BY DEF Connection
  <2>2. ASSUME client' # None PROVE Faithful(client)'
    <3>1. client \in Connection /\ Faithful(client) /\ Kept(client, client', r)
      BY <1>0, <1>b, <1>d, <2>2
    <3>. QED  BY <1>d, <2>1, <3>1 DEF Faithful, Kept, Alone
  <2>3. ASSUME NEW i \in DOMAIN backlog' PROVE Faithful(backlog[i])'
    <3>1. backlog[i] \in Connection /\ Faithful(backlog[i]) /\ Kept(backlog[i], backlog'[i], r)
      BY <1>0, <1>a, <1>d, <2>3
    <3>. QED  BY <1>d, <2>1, <3>1 DEF Faithful, Kept, Alone
  <2>. QED  BY <2>2, <2>3
<1>1. ASSUME NEW r \in Reporters, wayland_command(r) PROVE IInv'
  <2>1. TypeOK'  BY <1>0, <1>a, <1>b, <1>1 DEF TypeOK, Connection, wayland_command, hostVars
  <2>2. Conns'
    BY <1>0, <1>a, <1>b, <1>1 DEF TypeOK, Connection, Conns, Faithful, AnswersFit, OneOpen, DownIsClear,
                                  wayland_command, hostVars
  <2>3. OneOpen'
    BY <1>0, <1>a, <1>b, <1>1 DEF TypeOK, Connection, OneOpen, Conns, Faithful, wayland_command,
                                  hostVars
  <2>4. AnswersFit'
    BY <1>0, <1>a, <1>b, <1>1 DEF TypeOK, Connection, AnswersFit, Conns, Faithful, OneOpen,
                                  wayland_command,
                                  hostVars
  <2>5. DownIsClear'  BY <1>0, <1>a, <1>b, <1>1 DEF TypeOK, DownIsClear, wayland_command, hostVars
  <2>. QED  BY <2>1, <2>2, <2>3, <2>4, <2>5 DEF IInv
<1>c. ASSUME NEW r \in Reporters, NEW sent \in BOOLEAN, NEW open \in BOOLEAN, Update(r, sent, open),
              UNCHANGED <<serverVars, deviceVars, told>>
      PROVE  /\ OneOpen' /\ DownIsClear'
             /\ client' \in Connection \cup {None} /\ backlog' \in Seq(Connection)
             /\ client' # None => client # None /\ Remarked(client, client', r, sent, open)
             /\ DOMAIN backlog' = DOMAIN backlog
             /\ \A i \in DOMAIN backlog : Remarked(backlog[i], backlog'[i], r, sent, open)
  <2>1. TypeOK  BY <1>0
  <2>2. /\ client' \in Connection \cup {None} /\ (client = None <=> client' = None)
        /\ backlog' \in Seq(Connection) /\ DOMAIN backlog' = DOMAIN backlog
        /\ client # None => Remarked(client, client', r, sent, open)
        /\ \A i \in DOMAIN backlog : Remarked(backlog[i], backlog'[i], r, sent, open)
    BY <1>c, <2>1, UpdateFacts
  <2>3. OneOpen'  BY <1>0, <2>2 DEF OneOpen, Remarked
  <2>4. DownIsClear'
    BY <1>0, <1>a, <1>c, <2>2 DEF DownIsClear, serverVars, deviceVars
  <2>. QED  BY <2>2, <2>3, <2>4
<1>2. ASSUME NEW r \in Reporters, connect(r) PROVE IInv'
  <2>1. CASE listener
    <3> DEFINE c == [from |-> r, device |-> Nodes[node[r]], sent |-> FALSE, open |-> TRUE]
    <3>a. /\ pc[r] = "next" /\ node[r] \in 1..Len(Nodes) /\ Nodes[node[r]] \in Devices
          /\ backlog' = Append(backlog, c) /\ pc' = [pc EXCEPT ![r] = "connected"]
          /\ UNCHANGED <<serverVars, client, deviceVars, node, answer, told>>
      BY <1>0, <1>2, <2>1 DEF connect, TypeOK
    <3>b. c \in Connection  BY <3>a DEF Connection
    <3>c. /\ backlog' \in Seq(Connection) /\ DOMAIN backlog' = 1..Len(backlog) + 1
          /\ backlog'[Len(backlog) + 1] = c
          /\ \A i \in DOMAIN backlog : backlog'[i] = backlog[i]
      BY <1>a, <3>a, <3>b
    <3>d. /\ \A i \in DOMAIN backlog : backlog[i].open => backlog[i].from # r
          /\ client # None /\ client.open => client.from # r
      BY <1>0, <3>a DEF Conns, Faithful
    <3>1. TypeOK'  BY <1>0, <3>a, <3>c DEF TypeOK, serverVars, deviceVars
    <3>2. Conns'
      <4>1. client' # None => Faithful(client)'
        BY <1>0, <1>b, <3>a, <3>d DEF Conns, Faithful, TypeOK, Connection
      <4>2. ASSUME NEW i \in DOMAIN backlog' PROVE Faithful(backlog[i])'
        <5>1. CASE i = Len(backlog) + 1
          BY <1>0, <3>a, <3>c, <5>1 DEF Faithful, AnswersFit, TypeOK
        <5>2. CASE i \in DOMAIN backlog
          BY <1>0, <1>a, <3>a, <3>c, <3>d, <5>2 DEF Conns, Faithful, TypeOK, Connection
        <5>. QED  BY <1>a, <3>c, <5>1, <5>2
      <4>. QED  BY <4>1, <4>2
    <3>3. OneOpen'
      <4>1. \A i \in DOMAIN backlog' : i = Len(backlog) + 1 \/ i \in DOMAIN backlog  BY <1>a, <3>c
      <4>. QED  BY <1>0, <1>a, <3>a, <3>c, <3>d, <4>1 DEF OneOpen
    <3>4. AnswersFit'  BY <1>0, <3>a DEF AnswersFit, TypeOK
    <3>5. DownIsClear'  BY <1>0, <2>1, <3>a DEF DownIsClear, serverVars, deviceVars
    <3>. QED  BY <3>1, <3>2, <3>3, <3>4, <3>5 DEF IInv
  <2>2. CASE ~listener
    <3>a. /\ pc[r] = "next" /\ node[r] \in 1..Len(Nodes) /\ Fail(r)
          /\ UNCHANGED <<backlog, serverVars, client, deviceVars, told>>
      BY <1>0, <1>2, <2>2 DEF connect, TypeOK
    <3>1. TypeOK'
      BY <1>0, <1>a, <1>b, <3>a DEF TypeOK, Connection, AnswersFit, Fail, serverVars, deviceVars
    <3>2. Conns'
      <4>1. Alone(r)  BY <1>0, <3>a DEF Alone, Fail, TypeOK
      <4>2. /\ client # None => Kept(client, client, r)
            /\ \A i \in DOMAIN backlog : Kept(backlog[i], backlog[i], r)
        BY <1>0, <3>a DEF Conns, Faithful, Kept
      <4>. QED  BY <1>d, <3>a, <4>1, <4>2
    <3>3. OneOpen'
      BY <1>0, <1>a, <1>b, <3>a DEF TypeOK, Connection, Conns, Faithful, OneOpen, AnswersFit, Fail,
                                    serverVars, deviceVars
    <3>4. AnswersFit'
      BY <1>0, <1>a, <1>b, <3>a DEF TypeOK, Connection, Conns, Faithful, OneOpen, AnswersFit, Fail,
                                    serverVars, deviceVars
    <3>5. DownIsClear'  BY <1>0, <1>a, <1>b, <3>a DEF TypeOK, DownIsClear, Fail, serverVars, deviceVars
    <3>. QED  BY <3>1, <3>2, <3>3, <3>4, <3>5 DEF IInv
  <2>. QED  BY <2>1, <2>2
<1>3. ASSUME NEW r \in Reporters, send(r) PROVE IInv'
  <2>1. CASE Connected(r)
    <3>a. /\ pc[r] = "connected" /\ Update(r, TRUE, TRUE) /\ pc' = [pc EXCEPT ![r] = "waiting"]
          /\ UNCHANGED <<serverVars, deviceVars, told, node, answer>>
      BY <1>3, <2>1, Zenon DEF send
    <3>b. answer[r] = None  BY <1>0, <2>1 DEF Connected, Current, Conns, Faithful
    <3>1. /\ OneOpen' /\ DownIsClear'
          /\ client' \in Connection \cup {None} /\ backlog' \in Seq(Connection)
          /\ client' # None => client # None /\ Remarked(client, client', r, TRUE, TRUE)
          /\ DOMAIN backlog' = DOMAIN backlog
          /\ \A i \in DOMAIN backlog : Remarked(backlog[i], backlog'[i], r, TRUE, TRUE)
      BY <1>c, <3>a, Zenon
    <3>2. TypeOK'  BY <1>0, <3>a, <3>1 DEF TypeOK, serverVars, deviceVars
    <3>3. Conns'
      <4>0. pc'[r] = "waiting" /\ \A q \in Reporters \ {r} : pc'[q] = pc[q]  BY <1>0, <3>a DEF TypeOK
      <4>1. \A c \in Connection : c.from \in Reporters  BY DEF Connection
      <4>2. ASSUME client' # None PROVE Faithful(client)'
        <5>1. client \in Connection /\ Faithful(client) /\ Remarked(client, client', r, TRUE, TRUE)
          BY <1>0, <1>b, <3>1, <4>2, Zenon
        <5>. QED  BY <3>a, <4>0, <4>1, <5>1 DEF Faithful, Remarked
      <4>3. ASSUME NEW i \in DOMAIN backlog' PROVE Faithful(backlog[i])'
        <5>1. backlog[i] \in Connection /\ Faithful(backlog[i]) /\ Remarked(backlog[i], backlog'[i], r, TRUE, TRUE)
          BY <1>0, <1>a, <3>1, <4>3, Zenon
        <5>. QED  BY <3>a, <4>0, <4>1, <5>1 DEF Faithful, Remarked
      <4>. QED  BY <4>2, <4>3
    <3>4. AnswersFit'  BY <1>0, <3>a DEF AnswersFit, TypeOK
    <3>. QED  BY <3>1, <3>2, <3>3, <3>4 DEF IInv
  <2>2. CASE ~Connected(r)
    <3>a. /\ pc[r] = "connected" /\ Fail(r)
          /\ UNCHANGED <<backlog, client, serverVars, deviceVars, told>>
      BY <1>3, <2>2, Zenon DEF send
    <3>b. /\ \A i \in DOMAIN backlog : backlog[i].open => backlog[i].from # r
          /\ client # None /\ client.open => client.from # r
      BY <1>a, <2>2, FeedbackAssumption DEF Connected, Current
    <3>1. TypeOK'
      BY <1>0, <1>a, <1>b, <3>a, <3>b DEF TypeOK, Connection, AnswersFit, Fail, serverVars, deviceVars
    <3>2. Conns'
      <4>1. Alone(r)  BY <1>0, <3>a DEF Alone, Fail, TypeOK
      <4>2. /\ client # None => Kept(client, client, r)
            /\ \A i \in DOMAIN backlog : Kept(backlog[i], backlog[i], r)
        BY <3>b DEF Kept
      <4>. QED  BY <1>d, <3>a, <4>1, <4>2
    <3>3. OneOpen'
      BY <1>0, <1>a, <1>b, <3>a, <3>b DEF TypeOK, Connection, Conns, Faithful, OneOpen, AnswersFit,
                                          Fail,
                                          serverVars, deviceVars
    <3>4. AnswersFit'
      BY <1>0, <1>a, <1>b, <3>a, <3>b DEF TypeOK, Connection, Conns, Faithful, OneOpen, AnswersFit,
                                          Fail,
                                          serverVars, deviceVars
    <3>5. DownIsClear'
      BY <1>0, <1>a, <1>b, <3>a, <3>b DEF TypeOK, DownIsClear, Fail, serverVars, deviceVars
    <3>. QED  BY <3>1, <3>2, <3>3, <3>4, <3>5 DEF IInv
  <2>. QED  BY <2>1, <2>2
<1>4. ASSUME NEW r \in Reporters, poll_answered(r) PROVE IInv'
  <2>a. node[r] + 1 \in 1..Len(Nodes) + 1  BY <1>0, <1>a, <1>4 DEF poll_answered, AnswersFit, TypeOK
  <2>1. TypeOK'
    <3>1. /\ pc' = [pc EXCEPT ![r] = "accepted"] \/ pc' = [pc EXCEPT ![r] = "next"]
          /\ node' = node \/ node' = [node EXCEPT ![r] = node[r] + 1]
          /\ answer' = answer \/ answer' = [answer EXCEPT ![r] = None]
          /\ UNCHANGED <<hostVars, told>>
      BY <1>4 DEF poll_answered, Fail
    <3>2. node' \in [Reporters -> 1..Len(Nodes) + 1]  BY <1>0, <2>a, <3>1 DEF TypeOK
    <3>. QED  BY <1>0, <3>1, <3>2, ZenonT(40) DEF TypeOK, hostVars
  <2>2. Conns'
    <3>1. Alone(r) /\ answer[r] # None /\ UNCHANGED <<client, backlog>>
      BY <1>0, <1>4 DEF Alone, poll_answered, Fail, TypeOK, hostVars
    <3>2. /\ client # None => Kept(client, client, r)
          /\ \A i \in DOMAIN backlog : Kept(backlog[i], backlog[i], r)
      BY <1>0, <3>1 DEF Conns, Faithful, Kept
    <3>. QED  BY <1>d, <3>1, <3>2
  <2>3. OneOpen'
    BY <1>0, <1>a, <1>b, <1>4, <2>a DEF TypeOK, Connection, Conns, Faithful, OneOpen, AnswersFit,
                                        poll_answered, Fail, hostVars
  <2>4. AnswersFit'
    BY <1>0, <1>a, <1>b, <1>4, <2>a DEF TypeOK, Connection, Conns, Faithful, OneOpen, AnswersFit,
                                        poll_answered, Fail, hostVars
  <2>5. DownIsClear'
    BY <1>0, <1>a, <1>b, <1>4, <2>a DEF TypeOK, DownIsClear, poll_answered, Fail, hostVars
  <2>. QED  BY <2>1, <2>2, <2>3, <2>4, <2>5 DEF IInv
<1>5. ASSUME NEW r \in Reporters, poll_timeout(r) PROVE IInv'
  <2>1. /\ OneOpen' /\ DownIsClear'
        /\ client' \in Connection \cup {None} /\ backlog' \in Seq(Connection)
        /\ client' # None => client # None /\ Remarked(client, client', r, FALSE, FALSE)
        /\ DOMAIN backlog' = DOMAIN backlog
        /\ \A i \in DOMAIN backlog : Remarked(backlog[i], backlog'[i], r, FALSE, FALSE)
    BY <1>c, <1>5, Zenon DEF poll_timeout
  <2>2. TypeOK'  BY <1>0, <1>5, <2>1 DEF TypeOK, AnswersFit, poll_timeout, Fail, serverVars, deviceVars
  <2>3. Conns'
    <3>1. Alone(r)  BY <1>0, <1>5 DEF Alone, poll_timeout, Fail, TypeOK
    <3>2. /\ client' # None => client # None /\ Kept(client, client', r)
          /\ DOMAIN backlog' = DOMAIN backlog
          /\ \A i \in DOMAIN backlog : Kept(backlog[i], backlog'[i], r)
      BY <2>1 DEF Remarked, Kept
    <3>. QED  BY <1>d, <3>1, <3>2
  <2>4. AnswersFit'  BY <1>0, <1>5 DEF AnswersFit, TypeOK, poll_timeout, Fail
  <2>. QED  BY <2>1, <2>2, <2>3, <2>4 DEF IInv
<1>6. ASSUME NEW r \in Reporters, report_first_render_node_fails(r) PROVE IInv'
  <2>1. TypeOK'
    BY <1>0, <1>a, <1>b, <1>6 DEF TypeOK, Connection, report_first_render_node_fails, hostVars
  <2>2. Conns'
    BY <1>0, <1>a, <1>b, <1>6 DEF TypeOK, Connection, Conns, Faithful, AnswersFit, OneOpen, DownIsClear,
                                  report_first_render_node_fails, hostVars
  <2>3. OneOpen'
    BY <1>0, <1>a, <1>b, <1>6 DEF TypeOK, Connection, OneOpen, Conns, Faithful,
                                  report_first_render_node_fails, hostVars
  <2>4. AnswersFit'
    BY <1>0, <1>a, <1>b, <1>6 DEF TypeOK, Connection, AnswersFit, Conns, Faithful, OneOpen,
                                  report_first_render_node_fails, hostVars
  <2>5. DownIsClear'
    BY <1>0, <1>a, <1>b, <1>6 DEF TypeOK, DownIsClear, report_first_render_node_fails, hostVars
  <2>. QED  BY <2>1, <2>2, <2>3, <2>4, <2>5 DEF IInv
<1>7. ASSUME NEW r \in Reporters, launch(r) PROVE IInv'
  <2>1. TypeOK'  BY <1>0, <1>a, <1>b, <1>7 DEF TypeOK, Connection, launch, hostVars
  <2>2. Conns'
    BY <1>0, <1>a, <1>b, <1>7 DEF TypeOK, Connection, Conns, Faithful, AnswersFit, OneOpen, DownIsClear,
                                  launch, hostVars
  <2>3. OneOpen'
    BY <1>0, <1>a, <1>b, <1>7 DEF TypeOK, Connection, OneOpen, Conns, Faithful, launch, hostVars
  <2>4. AnswersFit'
    BY <1>0, <1>a, <1>b, <1>7 DEF TypeOK, Connection, AnswersFit, Conns, Faithful, OneOpen, launch,
                                  hostVars
  <2>5. DownIsClear'  BY <1>0, <1>a, <1>b, <1>7 DEF TypeOK, DownIsClear, launch, hostVars
  <2>. QED  BY <2>1, <2>2, <2>3, <2>4, <2>5 DEF IInv
<1>8. ASSUME NEW r \in Reporters, Killed(r) PROVE IInv'
  <2>1. /\ OneOpen' /\ DownIsClear'
        /\ client' \in Connection \cup {None} /\ backlog' \in Seq(Connection)
        /\ client' # None => client # None /\ Remarked(client, client', r, FALSE, FALSE)
        /\ DOMAIN backlog' = DOMAIN backlog
        /\ \A i \in DOMAIN backlog : Remarked(backlog[i], backlog'[i], r, FALSE, FALSE)
    BY <1>c, <1>8, Zenon DEF Killed
  <2>2. TypeOK'  BY <1>0, <1>8, <2>1 DEF TypeOK, AnswersFit, Killed, serverVars, deviceVars
  <2>3. Conns'
    <3>1. Alone(r)  BY <1>0, <1>8 DEF Alone, Killed, TypeOK
    <3>2. /\ client' # None => client # None /\ Kept(client, client', r)
          /\ DOMAIN backlog' = DOMAIN backlog
          /\ \A i \in DOMAIN backlog : Kept(backlog[i], backlog'[i], r)
      BY <2>1 DEF Remarked, Kept
    <3>. QED  BY <1>d, <3>1, <3>2
  <2>4. AnswersFit'  BY <1>0, <1>8 DEF AnswersFit, TypeOK, Killed
  <2>. QED  BY <2>1, <2>2, <2>3, <2>4 DEF IInv
<1>9. ASSUME NEW watched \in BOOLEAN, listener_readable(watched) PROVE IInv'
  <2> DEFINE h == Head(backlog)
  <2>a. /\ h = backlog[1] /\ h \in Connection /\ 1 \in DOMAIN backlog
        /\ backlog' \in Seq(Connection) /\ DOMAIN backlog' = 1..Len(backlog) - 1
        /\ \A i \in DOMAIN backlog' : i + 1 \in DOMAIN backlog /\ backlog'[i] = backlog[i + 1]
    BY <1>a, <1>9 DEF listener_readable
  <2>b. /\ client = None /\ client' = IF watched THEN h ELSE None
        /\ UNCHANGED <<serverVars, deviceVars, pc, node, told>>
        /\ answer' = [r \in Reporters |-> IF ~watched /\ h.open /\ r = h.from /\ answer[r] = None
                                        THEN "hangup" ELSE answer[r]]
    BY <1>9 DEF listener_readable, HangUp
  <2>c. \A i \in DOMAIN backlog' : h.open /\ backlog'[i].open => backlog'[i].from # h.from
    <3> SUFFICES ASSUME NEW i \in DOMAIN backlog', h.open, backlog'[i].open PROVE backlog'[i].from # h.from
      OBVIOUS
    <3>1. i + 1 # 1 /\ i + 1 \in DOMAIN backlog /\ 1 \in DOMAIN backlog /\ backlog'[i] = backlog[i + 1]
      BY <1>a, <2>a
    <3>2. \A j, k \in DOMAIN backlog :
            j # k /\ backlog[j].open /\ backlog[k].open => backlog[j].from # backlog[k].from
      BY <1>0 DEF OneOpen
    <3>. QED  BY <2>a, <3>1, <3>2
  <2>1. TypeOK'  BY <1>0, <2>a, <2>b DEF TypeOK, serverVars, deviceVars
  <2>2. Conns'
    <3>1. client' # None => Faithful(client)'
      BY <1>0, <2>a, <2>b DEF Conns, Faithful, TypeOK, Connection
    <3>2. ASSUME NEW i \in DOMAIN backlog' PROVE Faithful(backlog[i])'
      <4>1. Faithful(backlog[i + 1]) /\ backlog[i + 1] \in Connection /\ backlog'[i] = backlog[i + 1]
        BY <1>0, <1>a, <2>a
      <4>2. backlog'[i].open => answer'[backlog'[i].from] = answer[backlog'[i].from]
        BY <2>b, <2>c, <4>1 DEF Connection
      <4>. QED  BY <2>b, <4>1, <4>2 DEF Faithful
    <3>. QED  BY <3>1, <3>2
  <2>3. OneOpen'
    <3>1. ASSUME NEW i \in DOMAIN backlog', NEW j \in DOMAIN backlog', i # j, backlog'[i].open, backlog'[j].open
          PROVE  backlog'[i].from # backlog'[j].from
      <4>1. /\ i + 1 \in DOMAIN backlog /\ j + 1 \in DOMAIN backlog /\ i + 1 # j + 1
            /\ backlog'[i] = backlog[i + 1] /\ backlog'[j] = backlog[j + 1]
        BY <1>a, <2>a, <3>1
      <4>2. \A k, l \in DOMAIN backlog :
              k # l /\ backlog[k].open /\ backlog[l].open => backlog[k].from # backlog[l].from
        BY <1>0 DEF OneOpen
      <4>. QED  BY <3>1, <4>1, <4>2
    <3>2. client' # None => client' = h  BY <2>b
    <3>. QED  BY <2>c, <3>1, <3>2 DEF OneOpen
  <2>4. AnswersFit'
    <3>1. h.open => pc[h.from] \in {"connected", "waiting"}  BY <1>0, <2>a DEF Conns, Faithful
    <3>. QED  BY <1>0, <2>a, <2>b, <3>1 DEF AnswersFit, TypeOK
  <2>5. DownIsClear'  BY <1>0, <1>9, <2>b DEF DownIsClear, serverVars, deviceVars, listener_readable
  <2>. QED  BY <2>1, <2>2, <2>3, <2>4, <2>5 DEF IInv
<1>10. ASSUME NEW created \in BOOLEAN, client_readable(created) PROVE IInv'
  <2>1. TypeOK'
    BY <1>0, <1>a, <1>b, <1>10 DEF TypeOK, Connection, client_readable, trierarch_dmabuf_global_create,
                                   serverVars
  <2>2. Conns'
    BY <1>0, <1>a, <1>b, <1>10 DEF TypeOK, Connection, Conns, Faithful, AnswersFit, OneOpen,
                                   DownIsClear,
                                   client_readable, trierarch_dmabuf_global_create, serverVars
  <2>3. OneOpen'
    BY <1>0, <1>a, <1>b, <1>10 DEF TypeOK, Connection, OneOpen, Conns, Faithful, client_readable,
                                   trierarch_dmabuf_global_create, serverVars
  <2>4. AnswersFit'
    BY <1>0, <1>a, <1>b, <1>10 DEF TypeOK, Connection, AnswersFit, Conns, Faithful, OneOpen,
                                   client_readable,
                                   trierarch_dmabuf_global_create, serverVars
  <2>5. DownIsClear'
    BY <1>0, <1>a, <1>b, <1>10 DEF TypeOK, DownIsClear, client_readable, trierarch_dmabuf_global_create,
                                   serverVars
  <2>. QED  BY <2>1, <2>2, <2>3, <2>4, <2>5 DEF IInv
<1>11. ASSUME NEW enabled \in BOOLEAN, NEW listens \in BOOLEAN, trierarch_wayland_create(enabled, listens) PROVE IInv'
  <2>1. TypeOK'
    BY <1>0, <1>a, <1>b, <1>11 DEF TypeOK, Connection, trierarch_wayland_create, deviceVars, guestVars
  <2>2. Conns'
    BY <1>0, <1>a, <1>b, <1>11 DEF TypeOK, Connection, Conns, Faithful, AnswersFit, OneOpen,
                                   DownIsClear,
                                   trierarch_wayland_create, deviceVars, guestVars
  <2>3. OneOpen'
    BY <1>0, <1>a, <1>b, <1>11 DEF TypeOK, Connection, OneOpen, Conns, Faithful,
                                   trierarch_wayland_create,
                                   deviceVars, guestVars
  <2>4. AnswersFit'
    BY <1>0, <1>a, <1>b, <1>11 DEF TypeOK, Connection, AnswersFit, Conns, Faithful, OneOpen,
                                   trierarch_wayland_create, deviceVars, guestVars
  <2>5. DownIsClear'
    BY <1>0, <1>a, <1>b, <1>11 DEF TypeOK, DownIsClear, trierarch_wayland_create, deviceVars, guestVars
  <2>. QED  BY <2>1, <2>2, <2>3, <2>4, <2>5 DEF IInv
<1>12. ASSUME trierarch_wayland_destroy PROVE IInv'
  <2>a. \A r \in Reporters : Connected(r) => pc[r] \in {"connected", "waiting"}
    BY <1>0 DEF Connected, Current, Conns, Faithful
  <2>b. /\ backlog' = <<>> /\ client' = None /\ UNCHANGED <<pc, node, told>>
        /\ answer' = [r \in Reporters |-> IF Connected(r) /\ answer[r] = None THEN "hangup" ELSE answer[r]]
    BY <1>12 DEF trierarch_wayland_destroy, HangUp
  <2>1. TypeOK'
    <3>1. backlog' \in Seq(Connection)  BY <2>b
    <3>2. answer' \in [Reporters -> {None, "accepted", "invalid", "hangup"}]  BY <1>0, <2>b DEF TypeOK
    <3>. QED  BY <1>0, <1>12, <2>b, <3>1, <3>2, Zenon DEF TypeOK, trierarch_wayland_destroy
  <2>2. Conns' /\ OneOpen'  BY <2>b DEF Conns, OneOpen
  <2>3. AnswersFit'  BY <1>0, <2>a, <2>b DEF AnswersFit, TypeOK
  <2>4. DownIsClear'  BY <1>12 DEF trierarch_wayland_destroy, DownIsClear
  <2>. QED  BY <2>1, <2>2, <2>3, <2>4 DEF IInv
<1>13. CASE UNCHANGED vars
  BY <1>0, <1>13 DEF IInv, TypeOK, Conns, Faithful, OneOpen, AnswersFit, DownIsClear, vars, hostVars,
                     guestVars
<1>. QED
  BY <1>1, <1>2, <1>3, <1>4, <1>5, <1>6, <1>7, <1>8, <1>9, <1>10, <1>11, <1>12, <1>13 DEF Next, Report,
                                                                                          Host

\* The states of the exchange the promise is about: the invariant always holds.
THEOREM ReportsConsistent == Spec => []IInv
  BY InitInv, StepInv, PTL DEF Spec

\* dmabuf_feedback_device.c client_readable: each step of the exchange is a step
\* of the promise or leaves what it speaks of alone.
LEMMA StepAnnounces == IInv /\ [Next]_vars => [Announce!Next]_<<up, Announced, Accepted>>
<1> SUFFICES ASSUME IInv, [Next]_vars PROVE [Announce!Next]_<<up, Announced, Accepted>>  OBVIOUS
<1> USE FeedbackAssumption
<1>0. TypeOK /\ AnswersFit /\ DownIsClear  BY DEF IInv
<1>1. ASSUME NEW r \in Reporters, answer[r] # "accepted", Fail(r) PROVE UNCHANGED Accepted
  BY <1>0, <1>1 DEF Fail, Accepted, TypeOK
<1>2. ASSUME NEW r \in Reporters, wayland_command(r) \/ Report(r) \/ Killed(r)
      PROVE  UNCHANGED <<up, Announced, Accepted>>
  <2>1. UNCHANGED <<up, dmabuf_global, device>>
    BY <1>2, Zenon DEF wayland_command, Report, connect, send, poll_answered, poll_timeout,
                report_first_render_node_fails, launch, Killed, hostVars, serverVars, deviceVars
  <2>2. UNCHANGED <<answer, node>> \/ (answer[r] # "accepted" /\ Fail(r))
    BY <1>0, <1>2, Zenon DEF wayland_command, Report, connect, send, poll_answered, poll_timeout,
                report_first_render_node_fails, launch, Killed, AnswersFit
  <2>. QED  BY <1>1, <2>1, <2>2, SMTT(30) DEF Announced, Accepted
<1>3. ASSUME NEW watched \in BOOLEAN, listener_readable(watched)
      PROVE  UNCHANGED <<up, Announced, Accepted>>
  BY <1>0, <1>3 DEF listener_readable, HangUp, serverVars, deviceVars, Announced, Accepted, TypeOK
<1>4. ASSUME NEW created \in BOOLEAN, client_readable(created)
      PROVE  [Announce!Next]_<<up, Announced, Accepted>>
  <2>a. /\ client \in Connection /\ client.from \in Reporters /\ client.device \in Devices
        /\ UNCHANGED <<up, node>> /\ up
        /\ client.open => answer[client.from] = None /\ client.device = Nodes[node[client.from]]
    BY <1>0, <1>4 DEF client_readable, serverVars, TypeOK, Connection, IInv, Faithful, DownIsClear
  <2>1. CASE client.sent /\ trierarch_dmabuf_global_create(created)
    <3>1. Announced' = client.device  BY <1>4, <2>1, Zenon DEF client_readable, Announced
    <3>2. Accepted' = Accepted \/ Accepted' = [Accepted EXCEPT ![client.from] = client.device]
      BY <1>0, <1>4, <2>a, <2>1, ZenonT(40) DEF client_readable, Accepted, TypeOK
    <3>3. Announce!Accept(client.from, client.device)  BY <2>a, <3>1, <3>2 DEF Announce!Accept
    <3>. QED  BY <2>a, <3>3 DEF Announce!Next
  <2>2. CASE ~(client.sent /\ trierarch_dmabuf_global_create(created))
    <3>1. Announced' = Announced
      BY <1>0, <1>4, <2>2 DEF client_readable, Announced, trierarch_dmabuf_global_create, TypeOK
    <3>2. Accepted' = Accepted
      BY <1>0, <1>4, <2>a, <2>2 DEF client_readable, Accepted, TypeOK
    <3>. QED  BY <2>a, <3>1, <3>2
  <2>. QED  BY <2>1, <2>2
<1>5. ASSUME NEW enabled \in BOOLEAN, NEW listens \in BOOLEAN, trierarch_wayland_create(enabled, listens)
      PROVE  Announce!ServerStarts
  BY <1>5 DEF trierarch_wayland_create, deviceVars, guestVars, Announced, Accepted,
              Announce!ServerStarts
<1>6. ASSUME trierarch_wayland_destroy PROVE Announce!ServerEnds
  BY <1>0, <1>6 DEF trierarch_wayland_destroy, HangUp, Announced, Accepted, TypeOK, Announce!ServerEnds
<1>7. CASE UNCHANGED vars
  BY <1>7 DEF vars, hostVars, guestVars, Announced, Accepted
<1>. QED  BY <1>2, <1>3, <1>4, <1>5, <1>6, <1>7 DEF Next, Host, Announce!Next

\* dmabuf_feedback_device.c, dmabuf-device-report README: for any sessions, nodes
\* and listen queue, the global names a reported device and an acknowledged
\* report has taken effect.
THEOREM ReportsAnnounced == Spec => AnnouncesAsPromised
<1>1. Init => Announce!Init
  BY FeedbackAssumption DEF Init, Announce!Init, Announced, Accepted
<1>. QED  BY <1>1, InitInv, StepInv, StepAnnounces, PTL DEF Spec, AnnouncesAsPromised, Announce!Spec
=============================================================================
