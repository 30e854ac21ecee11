------------------------ MODULE CommandChannelProofs ------------------------
(***************************************************************************)
(* Safety of the command channel, and the service it implements, for every *)
(* set of tasks and ports and every capacity.                              *)
(***************************************************************************)
EXTENDS CommandChannel, FiniteSetTheorems, FunctionTheorems, TLAPS

Idling  == {"idle", "notify"}
Calling == {"wake", "wait"}

\* What a task has asked for follows from where it is: only one without a guard
\* connects, and one sends through the guard it has.
TaskOK(t) ==
  /\ at[t] \in Idling => request[t] = Request("none", NoPort) /\ reply[t] = "none"
  /\ at[t] \in Calling =>
       \/ /\ request[t].op = "connect" /\ request[t].port \in Ports
          /\ holds[t] = NoPort
       \/ /\ request[t].op = "send" /\ request[t].port \in Ports
          /\ holds[t] = request[t].port

\* A queued command is a disconnect, or is nobody's any more, or is the request of
\* a task that has no answer yet.
CommandOK(cmd) ==
  /\ cmd.op = "disconnect" => cmd.task = Nobody
  /\ cmd.task # Nobody => /\ at[cmd.task] \in Calling
                          /\ reply[cmd.task] = "none"
                          /\ request[cmd.task] = Request(cmd.op, cmd.port)

\* A request is in the channel once, until it is answered.
QueueOK ==
  /\ \A i \in DOMAIN cmds : CommandOK(cmds[i])
  /\ \A i, j \in DOMAIN cmds :
       cmds[i].task = cmds[j].task /\ cmds[i].task # Nobody => i = j
  /\ \A t \in Tasks : at[t] \in Calling /\ reply[t] = "none" =>
       \E i \in DOMAIN cmds : cmds[i].task = t

\* The registry is gone after the loop, the channel with the thread.
EndOK == /\ ~Up => connections = {}
         /\ ~Alive => cmds = <<>>

Claims(t, p) == t \in Holders(p) \cup Unclaimed(p)

\* At most one answers for a port, and who does answers for a connection.
PortOK(p) ==
  /\ \A t, u \in Tasks : Claims(t, p) /\ Claims(u, p) => t = u
  /\ \A i, j \in Disconnects(p) : i = j
  /\ (\E t \in Tasks : Claims(t, p)) => Disconnects(p) = {}
  /\ Up /\ Owned(p) => p \in connections
  /\ Up /\ p \in connections \ orphaned => Owned(p)

Consistent == /\ TypeOK
              /\ \A t \in Tasks : TaskOK(t)
              /\ QueueOK
              /\ EndOK
              /\ \A p \in Ports : PortOK(p)

-----------------------------------------------------------------------------
Commands == [op : {"connect", "send", "disconnect"}, port : Ports,
             task : Tasks \cup {Nobody}]
Results  == {"ok", "already_connected", "port_not_found", "send_failed",
             "backend_died"}

LEMMA QueuedCommands ==
  ASSUME TypeOK
  PROVE  /\ cmds \in Seq(Commands)
         /\ \A i \in DOMAIN cmds :
              /\ cmds[i] \in Commands
              /\ cmds[i].port \in Ports
              /\ cmds[i].op \in {"connect", "send", "disconnect"}
              /\ cmds[i].task = Nobody \/ cmds[i].task \in Tasks
<1>1. cmds \in Seq(Commands)
  BY DEF TypeOK, Commands
<1>2. \A i \in DOMAIN cmds : cmds[i] \in Commands
  BY <1>1
<1> QED BY <1>1, <1>2 DEF Commands

\* What a command at the end of the channel changes.
LEMMA AppendedCommand ==
  ASSUME cmds \in Seq(Commands), NEW cmd \in Commands, cmds' = Append(cmds, cmd)
  PROVE  /\ cmds' \in Seq(Commands)
         /\ Len(cmds) \in Nat /\ Len(cmds') = Len(cmds) + 1
         /\ DOMAIN cmds = 1..Len(cmds)
         /\ DOMAIN cmds' = DOMAIN cmds \cup {Len(cmds')}
         /\ Len(cmds') \notin DOMAIN cmds
         /\ cmds'[Len(cmds')] = cmd
         /\ \A i \in DOMAIN cmds : cmds'[i] = cmds[i]
OBVIOUS

\* What is left when the first command is taken.
LEMMA TakenCommand ==
  ASSUME cmds \in Seq(Commands), cmds # <<>>, cmds' = Tail(cmds)
  PROVE  /\ cmds' \in Seq(Commands)
         /\ Len(cmds) \in Nat \ {0} /\ Len(cmds') = Len(cmds) - 1
         /\ 1 \in DOMAIN cmds
         /\ cmds[1] = Head(cmds) /\ Head(cmds) \in Commands
         /\ \A i : i \in DOMAIN cmds' <=> i \in Nat \ {0} /\ i + 1 \in DOMAIN cmds
         /\ \A i \in DOMAIN cmds \ {1} : i - 1 \in DOMAIN cmds' /\ cmds'[i - 1] = cmds[i]
         /\ \A i \in DOMAIN cmds' : cmds'[i] = cmds[i + 1] /\ i + 1 # 1
OBVIOUS

-----------------------------------------------------------------------------
LEMMA InitConsistent == Init => Consistent
<1> SUFFICES ASSUME Init PROVE Consistent
  OBVIOUS
<1> USE DEF Init
<1>1. TypeOK
  <2>1. cmds \in Seq(Commands) /\ Len(cmds) <= Capacity
    BY ChannelAssumption
  <2>2. request \in [Tasks -> [op : {"none", "connect", "send"},
                              port : Ports \cup {NoPort}]]
    BY DEF Request
  <2>3. requests \in 0..MaxRequests /\ arrived \in 0..MaxSeqEvents
    BY ChannelAssumption
  <2> QED BY <2>1, <2>2, <2>3 DEF TypeOK, Commands
<1>2. \A t \in Tasks : TaskOK(t)
  BY DEF TaskOK, Calling
<1>3. QueueOK /\ EndOK
  BY DEF QueueOK, EndOK, Calling, Up, Alive
<1>4. \A p \in Ports : PortOK(p)
  <2> TAKE p \in Ports
  <2>1. \A t \in Tasks : ~Claims(t, p)
    BY NamesAssumption DEF Claims, Holders, Unclaimed
  <2>2. Disconnects(p) = {}
    BY DEF Disconnects
  <2> QED BY <2>1, <2>2 DEF PortOK, Owned, Claims, Holders, Unclaimed
<1> QED BY <1>1, <1>2, <1>3, <1>4 DEF Consistent


-----------------------------------------------------------------------------
LEMMA OwnedMeans ==
  ASSUME NEW p \in Ports
  PROVE  Owned(p) <=> (\E t \in Tasks : Claims(t, p)) \/ Disconnects(p) # {}
BY DEF Owned, Claims, Holders, Unclaimed

\* A step that changes nobody's part in a port, nor whether it is connected.
LEMMA PortKept ==
  ASSUME NEW p \in Ports, PortOK(p), Up' => Up,
         \A t \in Tasks : Claims(t, p)' <=> Claims(t, p),
         Disconnects(p)' = {} <=> Disconnects(p) = {},
         \A i, j \in Disconnects(p)' : i = j,
         p \in connections' <=> p \in connections,
         p \in orphaned => p \in orphaned'
  PROVE  PortOK(p)'
<1>1. Owned(p)' <=> (\E t \in Tasks : Claims(t, p)') \/ Disconnects(p)' # {}
  BY DEF Owned, Claims, Holders, Unclaimed
<1> QED BY <1>1, OwnedMeans DEF PortOK

\* A step of the thread, the sequencer or the client that touches none of the
\* tasks, commands and connections, and does not end the loop.
LEMMA SilentConsistent ==
  ASSUME Consistent, TypeOK', UNCHANGED <<cmds, connections, tasks, orphaned>>,
         Up' <=> Up, Alive' <=> Alive
  PROVE  Consistent'
<1> USE DEF Consistent, tasks
<1>1. \A t \in Tasks : TaskOK(t)'
  BY DEF TaskOK
<1>2. QueueOK'
  BY DEF QueueOK, CommandOK
<1>3. EndOK'
  BY DEF EndOK
<1>4. ASSUME NEW p \in Ports PROVE PortOK(p)'
  <2>1. /\ Disconnects(p)' = Disconnects(p)
        /\ \A t \in Tasks : Claims(t, p)' <=> Claims(t, p)
    BY DEF Disconnects, Claims, Holders, Unclaimed
  <2> QED BY <2>1, PortKept DEF PortOK
<1> QED BY <1>1, <1>2, <1>3, <1>4

-----------------------------------------------------------------------------
(* The tasks.                                                              *)

LEMMA RequestSendConsistent ==
  ASSUME Consistent, NEW t \in Tasks, NEW op, NEW p \in Ports, RequestSend(t, op, p),
         \/ op = "connect" /\ holds[t] = NoPort
         \/ op = "send" /\ holds[t] = p
  PROVE  Consistent'
<1> USE DEF Consistent
<1> DEFINE cmd == Command(op, p, t)
<1>1. requests' \in 0..MaxRequests
  BY ChannelAssumption DEF RequestSend, TypeOK
<1>2. CASE Refused
  <2>1. UNCHANGED <<cmds, connections, tasks, orphaned, phase, contested>>
    BY <1>2 DEF RequestSend, tasks, thread
  <2>2. TypeOK'
    BY <1>1, <2>1 DEF RequestSend, TypeOK, tasks, thread, sequencer
  <2> QED BY <2>1, <2>2, SilentConsistent DEF Up, Alive
<1>3. CASE ~Refused
  <2>1. cmd \in Commands /\ cmd.op = op /\ cmd.port = p /\ cmd.task = t
    BY DEF Command, Commands
  <2>2. /\ cmds' = Append(cmds, cmd)
        /\ at' = [at EXCEPT ![t] = "wake"]
        /\ request' = [request EXCEPT ![t] = Request(op, p)]
        /\ contested' \in {contested, contested \cup {t}}
        /\ at[t] = "idle"
        /\ UNCHANGED <<reply, holds, phase, connections, orphaned, hup_seen, efd,
                       stop, seq_events, seq_hup, arrived, client>>
    BY <1>3 DEF RequestSend, thread, sequencer
  <2> HIDE DEF cmd
  <2>3. cmds \in Seq(Commands)
    BY DEF TypeOK, Commands
  <2>4. /\ cmds' \in Seq(Commands)
        /\ Len(cmds) \in Nat /\ Len(cmds') = Len(cmds) + 1
        /\ DOMAIN cmds' = DOMAIN cmds \cup {Len(cmds')}
        /\ cmds'[Len(cmds')] = cmd
        /\ \A i \in DOMAIN cmds : cmds'[i] = cmds[i]
    BY <2>1, <2>2, <2>3, AppendedCommand
  <2>5. \A u \in Tasks : /\ at'[u] = IF u = t THEN "wake" ELSE at[u]
                         /\ request'[u] = IF u = t THEN Request(op, p) ELSE request[u]
    BY <2>2 DEF TypeOK
  <2>6. request[t] = Request("none", NoPort) /\ reply[t] = "none"
    BY <2>2 DEF TaskOK, Idling
  <2>7. TypeOK'
    <3>1. Len(cmds') <= Capacity
      BY <1>3, <2>4, ChannelAssumption DEF Refused
    <3>2. Request(op, p) \in [op : {"none", "connect", "send"}, port : Ports \cup {NoPort}]
      BY DEF Request
    <3>3. request' \in [Tasks -> [op : {"none", "connect", "send"},
                                  port : Ports \cup {NoPort}]]
      BY <2>2, <3>2 DEF TypeOK
    <3> QED BY <1>1, <2>2, <2>4, <3>1, <3>3 DEF TypeOK, Commands
  <2>8. \A u \in Tasks : TaskOK(u)'
    BY <2>2, <2>5, <2>6 DEF TaskOK, Idling, Calling, Request
  <2>9. QueueOK'
    <3>1. \A i \in DOMAIN cmds : cmds[i].task # t
      BY <2>2, NamesAssumption DEF QueueOK, CommandOK, Calling
    <3>2. \A i \in DOMAIN cmds : CommandOK(cmds[i])'
      BY <2>2, <2>3, <2>4, <2>5, <3>1 DEF QueueOK, CommandOK, Commands
    <3>3. CommandOK(cmd)'
      BY <2>1, <2>2, <2>5, <2>6 DEF CommandOK, Calling
    <3>4. \A u \in Tasks : at'[u] \in Calling /\ reply'[u] = "none" =>
             \E i \in DOMAIN cmds' : cmds'[i].task = u
      BY <2>1, <2>2, <2>4, <2>5 DEF QueueOK
    <3> QED BY <2>1, <2>4, <3>1, <3>2, <3>3, <3>4 DEF QueueOK, CommandOK
  <2>10. EndOK'
    BY <1>3, <2>2 DEF EndOK, Up, Alive, Refused
  <2>11. ASSUME NEW q \in Ports PROVE PortOK(q)'
    <3>1. Disconnects(q)' = Disconnects(q)
      BY <2>1, <2>4 DEF Disconnects
    <3>2. \A u \in Tasks : Claims(u, q)' <=> Claims(u, q)
      BY <2>2, <2>5, <2>6 DEF Claims, Holders, Unclaimed
    <3> QED BY <2>2, <3>1, <3>2, PortKept DEF PortOK, Up
  <2> QED BY <2>7, <2>8, <2>9, <2>10, <2>11
<1> QED BY <1>2, <1>3

LEMMA WakeConsistent ==
  ASSUME Consistent, NEW t \in Tasks, RequestWake(t) \/ NotifyWake(t)
  PROVE  Consistent'
<1> USE DEF Consistent
<1> DEFINE next == IF at[t] = "wake" THEN "wait" ELSE "idle"
<1>1. /\ efd' = TRUE
      /\ at' = [at EXCEPT ![t] = next]
      /\ at[t] \in {"wake", "notify"}
      /\ UNCHANGED <<cmds, stop, phase, hup_seen, connections, seq_events, seq_hup,
                     arrived, request, reply, holds, client, requests, orphaned,
                     contested>>
  BY DEF RequestWake, NotifyWake, thread, sequencer, history
<1>2. \A u \in Tasks : /\ at'[u] = IF u = t THEN next ELSE at[u]
                       /\ at'[u] \in Calling <=> at[u] \in Calling
                       /\ at'[u] \in Idling <=> at[u] \in Idling
  BY <1>1 DEF TypeOK, Calling, Idling
<1>3. TypeOK'
  BY <1>1 DEF TypeOK
<1>4. \A u \in Tasks : TaskOK(u)'
  BY <1>1, <1>2 DEF TaskOK
<1>5. QueueOK'
  <2>1. \A i \in DOMAIN cmds : cmds[i].task = Nobody \/ cmds[i].task \in Tasks
    BY QueuedCommands
  <2> QED BY <1>1, <1>2, <2>1 DEF QueueOK, CommandOK
<1>6. EndOK'
  BY <1>1 DEF EndOK, Up, Alive
<1>7. ASSUME NEW p \in Ports PROVE PortOK(p)'
  <2>1. /\ Disconnects(p)' = Disconnects(p)
        /\ \A u \in Tasks : Claims(u, p)' <=> Claims(u, p)
    BY <1>1 DEF Disconnects, Claims, Holders, Unclaimed
  <2> QED BY <1>1, <2>1, PortKept DEF PortOK, Up
<1> QED BY <1>3, <1>4, <1>5, <1>6, <1>7

\* The guard takes the place of the reply it is made from.
LEMMA RequestDoneConsistent ==
  ASSUME Consistent, NEW t \in Tasks, RequestDone(t)
  PROVE  Consistent'
<1> USE DEF Consistent
<1> DEFINE gained == IF request[t].op = "connect" /\ reply[t] = "ok"
                     THEN request[t].port ELSE holds[t]
<1>1. /\ at[t] = "wait" /\ reply[t] # "none"
      /\ at' = [at EXCEPT ![t] = "idle"]
      /\ reply' = [reply EXCEPT ![t] = "none"]
      /\ request' = [request EXCEPT ![t] = Request("none", NoPort)]
      /\ holds' = [holds EXCEPT ![t] = gained]
      /\ contested' = contested \ {t}
      /\ UNCHANGED <<cmds, efd, stop, phase, hup_seen, connections, seq_events,
                     seq_hup, arrived, client, requests, orphaned>>
  BY DEF RequestDone, channel, thread, sequencer, TypeOK
<1>2. request[t].port \in Ports /\ gained \in Ports \cup {NoPort}
  BY <1>1 DEF TaskOK, TypeOK, Calling
<1> HIDE DEF gained
<1>3. \A u \in Tasks :
        /\ at'[u] = IF u = t THEN "idle" ELSE at[u]
        /\ reply'[u] = IF u = t THEN "none" ELSE reply[u]
        /\ request'[u] = IF u = t THEN Request("none", NoPort) ELSE request[u]
        /\ holds'[u] = IF u = t THEN gained ELSE holds[u]
  BY <1>1 DEF TypeOK
<1>4. TypeOK'
  <2>1. Request("none", NoPort) \in [op : {"none", "connect", "send"},
                                     port : Ports \cup {NoPort}]
    BY DEF Request
  <2> HIDE DEF Consistent
  <2>2. request' \in [Tasks -> [op : {"none", "connect", "send"},
                                port : Ports \cup {NoPort}]]
    BY <1>1, <2>1 DEF Consistent, TypeOK
  <2> QED BY <1>1, <1>2, <2>2 DEF Consistent, TypeOK
<1>5. \A u \in Tasks : TaskOK(u)'
  BY <1>3 DEF TaskOK, Calling, Idling
<1>6. QueueOK'
  <2>1. \A i \in DOMAIN cmds : /\ cmds[i].task # t
                               /\ cmds[i].task = Nobody \/ cmds[i].task \in Tasks
    BY <1>1, QueuedCommands, NamesAssumption DEF QueueOK, CommandOK
  <2>2. \A i \in DOMAIN cmds : CommandOK(cmds[i])'
    BY <1>1, <1>3, <2>1 DEF QueueOK, CommandOK
  <2>3. \A u \in Tasks : at'[u] \in Calling /\ reply'[u] = "none" =>
           \E i \in DOMAIN cmds : cmds[i].task = u
    BY <1>3 DEF QueueOK, Calling
  <2> QED BY <1>1, <2>2, <2>3 DEF QueueOK, CommandOK
<1>7. EndOK'
  BY <1>1 DEF EndOK, Up, Alive
<1>8. ASSUME NEW p \in Ports PROVE PortOK(p)'
  <2>1. Disconnects(p)' = Disconnects(p)
    BY <1>1 DEF Disconnects
  <2>2. Claims(t, p)' <=> Claims(t, p)
    <3>1. Claims(t, p)' <=> gained = p
      BY <1>3 DEF Claims, Holders, Unclaimed, Request
    <3>2. p # NoPort
      BY NamesAssumption
    <3>3. request[t].op \in {"connect", "send"}
      BY <1>1 DEF TaskOK, Calling
    <3>4. CASE request[t].op = "connect" /\ reply[t] = "ok"
      <4>1. request[t] = Request("connect", request[t].port) /\ holds[t] = NoPort
        BY <1>1, <3>4 DEF TaskOK, Calling, Request, TypeOK
      <4>2. Claims(t, p) <=> request[t].port = p
        BY <3>2, <3>4, <4>1 DEF Claims, Holders, Unclaimed, Request
      <4> QED BY <3>1, <3>4, <4>2 DEF gained
    <3>5. CASE ~(request[t].op = "connect" /\ reply[t] = "ok")
      BY <3>1, <3>5 DEF gained, Claims, Holders, Unclaimed, Request
    <3> QED BY <3>4, <3>5
  <2>3. \A u \in Tasks : Claims(u, p)' <=> Claims(u, p)
    BY <1>3, <2>2 DEF Claims, Holders, Unclaimed
  <2> QED BY <1>1, <2>1, <2>3, PortKept DEF PortOK, Up
<1> QED BY <1>4, <1>5, <1>6, <1>7, <1>8

\* What a cancelled request leaves in the channel is nobody's, and the connection
\* of a reply nobody took is orphaned.
LEMMA CancelConsistent ==
  ASSUME Consistent, NEW t \in Tasks, Cancel(t)
  PROVE  Consistent'
<1> USE DEF Consistent
<1> DEFINE lost == request[t].op = "connect" /\ reply[t] = "ok" /\ phase # "return"
           left == [i \in DOMAIN cmds |->
                      IF cmds[i].task = t THEN [cmds[i] EXCEPT !.task = Nobody]
                                          ELSE cmds[i]]
<1>1. /\ at[t] = "wait"
      /\ at' = [at EXCEPT ![t] = "idle"]
      /\ reply' = [reply EXCEPT ![t] = "none"]
      /\ request' = [request EXCEPT ![t] = Request("none", NoPort)]
      /\ cmds' = left
      /\ orphaned' = IF lost THEN orphaned \cup {request[t].port} ELSE orphaned
      /\ contested' = contested \ {t}
      /\ UNCHANGED <<efd, stop, phase, hup_seen, connections, seq_events,
                     seq_hup, arrived, holds, client, requests>>
  BY DEF Cancel, thread, sequencer
<1>2. request[t].port \in Ports /\ request[t].op \in {"connect", "send"}
  BY <1>1 DEF TaskOK, Calling
<1>3. \A u \in Tasks :
        /\ at'[u] = IF u = t THEN "idle" ELSE at[u]
        /\ reply'[u] = IF u = t THEN "none" ELSE reply[u]
        /\ request'[u] = IF u = t THEN Request("none", NoPort) ELSE request[u]
  BY <1>1 DEF TypeOK
<1>4. /\ cmds' \in Seq(Commands) /\ Len(cmds') = Len(cmds)
      /\ DOMAIN cmds' = DOMAIN cmds
      /\ \A i \in DOMAIN cmds :
           /\ cmds'[i].op = cmds[i].op /\ cmds'[i].port = cmds[i].port
           /\ cmds'[i].task = IF cmds[i].task = t THEN Nobody ELSE cmds[i].task
  <2>1. cmds \in Seq(Commands) /\ \A i \in DOMAIN cmds : cmds[i] \in Commands
    BY QueuedCommands
  <2>2. ASSUME NEW i \in DOMAIN cmds
        PROVE  /\ left[i] \in Commands
               /\ left[i].op = cmds[i].op /\ left[i].port = cmds[i].port
               /\ left[i].task = IF cmds[i].task = t THEN Nobody ELSE cmds[i].task
    <3>1. cmds[i] \in Commands
      BY <2>1
    <3> QED BY <3>1 DEF Commands
  <2>3. left \in Seq(Commands) /\ Len(left) = Len(cmds) /\ DOMAIN left = DOMAIN cmds
    <3>1. DOMAIN cmds = 1..Len(cmds) /\ Len(cmds) \in Nat
      BY <2>1
    <3>2. left \in [1..Len(cmds) -> Commands]
      BY <2>2, <3>1
    <3> HIDE DEF left
    <3> QED BY <3>1, <3>2
  <2> HIDE DEF left
  <2> QED BY <1>1, <2>2, <2>3
<1> HIDE DEF left
<1>5. TypeOK'
  <2>1. Request("none", NoPort) \in [op : {"none", "connect", "send"},
                                     port : Ports \cup {NoPort}]
    BY DEF Request
  <2>2. request' \in [Tasks -> [op : {"none", "connect", "send"},
                                port : Ports \cup {NoPort}]]
    BY <1>1, <2>1 DEF TypeOK
  <2>3. orphaned' \subseteq Ports /\ contested' \subseteq Tasks
    BY <1>1, <1>2 DEF TypeOK
  <2>4. Len(cmds') <= Capacity
    BY <1>4 DEF TypeOK
  <2>5. /\ at' \in [Tasks -> {"idle", "wake", "wait", "notify"}]
        /\ reply' \in [Tasks -> {"none", "ok", "already_connected", "port_not_found",
                                 "send_failed", "backend_died"}]
    BY <1>1 DEF TypeOK
  <2> QED BY <1>1, <1>4, <2>2, <2>3, <2>4, <2>5 DEF TypeOK, Commands
<1>6. \A u \in Tasks : TaskOK(u)'
  BY <1>1, <1>3 DEF TaskOK, Calling, Idling
<1>7. QueueOK'
  <2>1. \A i \in DOMAIN cmds : cmds[i].task = Nobody \/ cmds[i].task \in Tasks
    BY QueuedCommands
  <2>2. \A i \in DOMAIN cmds : CommandOK(cmds[i])'
    BY <1>3, <1>4, <2>1 DEF QueueOK, CommandOK
  <2>3. \A u \in Tasks : at'[u] \in Calling /\ reply'[u] = "none" =>
           \E i \in DOMAIN cmds' : cmds'[i].task = u
    BY <1>3, <1>4 DEF QueueOK, Calling
  <2>4. \A i, j \in DOMAIN cmds' :
          cmds'[i].task = cmds'[j].task /\ cmds'[i].task # Nobody => i = j
    BY <1>4 DEF QueueOK
  <2> QED BY <1>4, <2>2, <2>3, <2>4 DEF QueueOK
<1>8. EndOK'
  BY <1>1, <1>4 DEF EndOK, Up, Alive
<1>9. ASSUME NEW p \in Ports PROVE PortOK(p)'
  <2>1. Disconnects(p)' = Disconnects(p)
    BY <1>4 DEF Disconnects
  <2>2. \A u \in Tasks \ {t} : Claims(u, p)' <=> Claims(u, p)
    BY <1>1, <1>3 DEF Claims, Holders, Unclaimed
  <2>3. Claims(t, p)' <=> holds[t] = p
    BY <1>1, <1>3 DEF Claims, Holders, Unclaimed, Request
  <2>4. CASE request[t] = Request("connect", p) /\ reply[t] = "ok"
    <3>1. Claims(t, p) /\ ~Claims(t, p)'
      <4>1. holds[t] = NoPort
        BY <1>1, <2>4 DEF TaskOK, Calling, Request
      <4>2. holds[t] # p
        BY <4>1, NamesAssumption
      <4> QED BY <2>3, <2>4, <4>2 DEF Claims, Unclaimed
    <3>2. \A u \in Tasks : ~Claims(u, p)'
      BY <2>2, <3>1 DEF PortOK
    <3>3. Disconnects(p)' = {}
      BY <2>1, <3>1 DEF PortOK
    <3>4. Up' => p \in orphaned'
      BY <1>1, <2>4 DEF Up, Request
    <3>5. ~Owned(p)'
      BY <3>2, <3>3 DEF Owned, Claims, Holders, Unclaimed
    <3> QED BY <3>2, <3>3, <3>4, <3>5 DEF PortOK
  <2>5. CASE ~(request[t] = Request("connect", p) /\ reply[t] = "ok")
    <3>1. Claims(t, p)' <=> Claims(t, p)
      BY <2>3, <2>5 DEF Claims, Holders, Unclaimed
    <3>2. \A u \in Tasks : Claims(u, p)' <=> Claims(u, p)
      BY <2>2, <3>1
    <3> HIDE DEF lost
    <3>3. p \in orphaned => p \in orphaned'
      BY <1>1
    <3> QED BY <1>1, <2>1, <3>2, <3>3, PortKept DEF PortOK, Up
  <2> QED BY <2>4, <2>5
<1> QED BY <1>5, <1>6, <1>7, <1>8, <1>9

\* The disconnect takes the place of the guard, or the connection is orphaned.
LEMMA DropGuardConsistent ==
  ASSUME Consistent, NEW t \in Tasks, DropGuard(t)
  PROVE  Consistent'
<1> USE DEF Consistent
<1> DEFINE p == holds[t]
           cmd == Command("disconnect", p, Nobody)
<1>1. /\ at[t] = "idle" /\ p \in Ports
      /\ holds' = [holds EXCEPT ![t] = NoPort]
      /\ at' = [at EXCEPT ![t] = "notify"]
      /\ cmds' = IF Refused THEN cmds ELSE Append(cmds, cmd)
      /\ orphaned' = IF Alive /\ Refused /\ phase # "return"
                     THEN orphaned \cup {p} ELSE orphaned
      /\ UNCHANGED <<efd, stop, phase, hup_seen, connections, seq_events,
                     seq_hup, arrived, request, reply, client, requests, contested>>
  BY DEF DropGuard, thread, sequencer, TypeOK
<1>2. /\ cmd \in Commands
      /\ cmd.op = "disconnect" /\ cmd.port = p /\ cmd.task = Nobody
  BY <1>1 DEF Command, Commands
<1> HIDE DEF cmd
<1>3. \A u \in Tasks : /\ at'[u] = IF u = t THEN "notify" ELSE at[u]
                       /\ holds'[u] = IF u = t THEN NoPort ELSE holds[u]
                       /\ at'[u] \in Calling <=> at[u] \in Calling
  BY <1>1 DEF TypeOK, Calling
<1>4. /\ cmds' \in Seq(Commands) /\ Len(cmds') <= Capacity
      /\ \A i \in DOMAIN cmds : i \in DOMAIN cmds' /\ cmds'[i] = cmds[i]
      /\ Refused => cmds' = cmds
      /\ ~Refused => /\ DOMAIN cmds' = DOMAIN cmds \cup {Len(cmds')}
                     /\ Len(cmds') \notin DOMAIN cmds
                     /\ cmds'[Len(cmds')] = cmd
  <2>1. cmds \in Seq(Commands) /\ Len(cmds) <= Capacity
    BY QueuedCommands DEF TypeOK
  <2>2. CASE Refused
    BY <1>1, <2>1, <2>2
  <2>3. CASE ~Refused
    <3>1. cmds' = Append(cmds, cmd)
      BY <1>1, <2>3
    <3>2. Len(cmds') <= Capacity
      BY <2>1, <2>3, <3>1, ChannelAssumption DEF Refused
    <3> QED BY <1>2, <2>1, <2>3, <3>1, <3>2, AppendedCommand
  <2> QED BY <2>2, <2>3
<1>5. request[t] = Request("none", NoPort) /\ reply[t] = "none"
  BY <1>1 DEF TaskOK, Idling
<1>6. TypeOK'
  <2>1. /\ at' \in [Tasks -> {"idle", "wake", "wait", "notify"}]
        /\ holds' \in [Tasks -> Ports \cup {NoPort}]
    BY <1>1 DEF TypeOK
  <2> QED BY <1>1, <1>4, <2>1 DEF TypeOK, Commands
<1>7. \A u \in Tasks : TaskOK(u)'
  BY <1>1, <1>3, <1>5 DEF TaskOK, Calling
<1>8. QueueOK'
  <2>1. \A i \in DOMAIN cmds : cmds[i].task = Nobody \/ cmds[i].task \in Tasks
    BY QueuedCommands
  <2>2. \A i \in DOMAIN cmds : CommandOK(cmds[i])'
    BY <1>1, <1>3, <1>4, <2>1 DEF QueueOK, CommandOK
  <2>3. ASSUME NEW i \in DOMAIN cmds'
        PROVE  i \in DOMAIN cmds \/ cmds'[i] = cmd
    BY <1>4
  <2>4. ASSUME NEW i \in DOMAIN cmds' PROVE CommandOK(cmds[i])'
    BY <1>2, <2>2, <2>3 DEF CommandOK
  <2>5. \A i, j \in DOMAIN cmds' :
          cmds'[i].task = cmds'[j].task /\ cmds'[i].task # Nobody => i = j
    BY <1>2, <1>4, <2>3 DEF QueueOK
  <2>6. \A u \in Tasks : at'[u] \in Calling /\ reply'[u] = "none" =>
           \E i \in DOMAIN cmds' : cmds'[i].task = u
    BY <1>1, <1>3, <1>4 DEF QueueOK
  <2> QED BY <2>4, <2>5, <2>6 DEF QueueOK
<1>9. EndOK'
  BY <1>1 DEF EndOK, Up, Alive, Refused
<1>10. ASSUME NEW q \in Ports PROVE PortOK(q)'
  <2>1. /\ \A u \in Tasks \ {t} : Claims(u, q)' <=> Claims(u, q)
        /\ ~Claims(t, q)'
        /\ Claims(t, q) <=> p = q
    BY <1>1, <1>3, <1>5, NamesAssumption DEF Claims, Holders, Unclaimed, Request
  <2>2. CASE q # p
    <3>1. Disconnects(q)' = Disconnects(q)
      BY <1>2, <1>4, <2>2 DEF Disconnects
    <3> QED BY <1>1, <2>1, <2>2, <3>1, PortKept DEF PortOK, Up
  <2>3. CASE q = p
    <3>1. \A u \in Tasks : ~Claims(u, q)'
      BY <2>1, <2>3 DEF PortOK
    <3>2. Disconnects(q) = {} /\ (Up => q \in connections)
      BY <2>1, <2>3, OwnedMeans DEF PortOK
    <3>3. Owned(q)' <=> Disconnects(q)' # {}
      BY <3>1 DEF Owned, Claims, Holders, Unclaimed
    <3>4. CASE Refused
      <4>1. Disconnects(q)' = {}
        BY <1>4, <3>2, <3>4 DEF Disconnects
      <4>2. Up => q \in orphaned'
        BY <1>1, <2>3, <3>4 DEF Up, Alive
      <4> QED BY <1>1, <3>1, <3>3, <4>1, <4>2 DEF PortOK, Up
    <3>5. CASE ~Refused
      <4>1. Disconnects(q)' = {Len(cmds')}
        BY <1>2, <1>4, <2>3, <3>2, <3>5 DEF Disconnects
      <4> QED BY <1>1, <3>1, <3>2, <3>3, <4>1 DEF PortOK, Up
    <3> QED BY <3>4, <3>5
  <2> QED BY <2>2, <2>3
<1> QED BY <1>6, <1>7, <1>8, <1>9, <1>10


-----------------------------------------------------------------------------
(* The backend thread.                                                     *)

\* The first command is taken and its task, if there is one, has the result.
Handled(op, result) ==
  /\ Take(op)
  /\ reply' = IF Head(cmds).task = Nobody THEN reply
              ELSE [reply EXCEPT ![Head(cmds).task] = result]

LEMMA HandledSteps ==
  ASSUME Consistent, NEW op, NEW result \in Results, Handled(op, result)
  PROVE  /\ phase = "dispatch"
         /\ Head(cmds) = cmds[1] /\ 1 \in DOMAIN cmds
         /\ Head(cmds).op = op /\ Head(cmds).port \in Ports
         /\ Head(cmds).task \in Tasks \cup {Nobody}
         /\ CommandOK(Head(cmds))
         /\ cmds' \in Seq(Commands) /\ Len(cmds') <= Capacity
         /\ \A i : i \in DOMAIN cmds' <=> i \in Nat \ {0} /\ i + 1 \in DOMAIN cmds
         /\ \A i \in DOMAIN cmds \ {1} : i - 1 \in DOMAIN cmds' /\ cmds'[i - 1] = cmds[i]
         /\ \A i \in DOMAIN cmds' : cmds'[i] = cmds[i + 1] /\ i + 1 # 1
         /\ UNCHANGED <<efd, stop, phase, hup_seen, at, request, holds, sequencer,
                        client, requests>>
         /\ reply' \in [Tasks -> {"none"} \cup Results]
         /\ \A u \in Tasks : reply'[u] = IF u = Head(cmds).task THEN result
                                         ELSE reply[u]
<1>1. /\ phase = "dispatch" /\ cmds # <<>> /\ Head(cmds).op = op
      /\ cmds' = Tail(cmds)
      /\ UNCHANGED <<efd, stop, phase, hup_seen, at, request, holds, sequencer,
                     client, requests>>
  BY DEF Handled, Take, environment
<1>2. cmds \in Seq(Commands) /\ TypeOK /\ QueueOK
  BY QueuedCommands DEF Consistent
<1>3. /\ cmds' \in Seq(Commands)
      /\ Len(cmds) \in Nat \ {0} /\ Len(cmds') = Len(cmds) - 1
      /\ 1 \in DOMAIN cmds
      /\ cmds[1] = Head(cmds) /\ Head(cmds) \in Commands
      /\ \A i : i \in DOMAIN cmds' <=> i \in Nat \ {0} /\ i + 1 \in DOMAIN cmds
      /\ \A i \in DOMAIN cmds \ {1} : i - 1 \in DOMAIN cmds' /\ cmds'[i - 1] = cmds[i]
      /\ \A i \in DOMAIN cmds' : cmds'[i] = cmds[i + 1] /\ i + 1 # 1
  BY <1>1, <1>2, TakenCommand
<1>4. Len(cmds') <= Capacity
  BY <1>2, <1>3, ChannelAssumption DEF TypeOK
<1>5. CommandOK(Head(cmds)) /\ Head(cmds).port \in Ports
      /\ Head(cmds).task \in Tasks \cup {Nobody}
  BY <1>2, <1>3 DEF QueueOK, Commands
<1>6. /\ reply' \in [Tasks -> {"none"} \cup Results]
      /\ \A u \in Tasks : reply'[u] = IF u = Head(cmds).task THEN result ELSE reply[u]
  BY <1>2, <1>5, NamesAssumption DEF Handled, TypeOK, Results
<1> QED BY <1>1, <1>3, <1>4, <1>5, <1>6

\* What remains in the channel stays consistent, whatever the command did.
LEMMA HandledConsistent ==
  ASSUME Consistent, NEW op, NEW result \in Results, Handled(op, result),
         connections' \subseteq Ports, orphaned' \subseteq Ports, UNCHANGED contested
  PROVE  TypeOK' /\ (\A u \in Tasks : TaskOK(u)') /\ QueueOK' /\ EndOK'
<1> DEFINE cmd == Head(cmds)
<1>1. /\ phase = "dispatch" /\ CommandOK(cmd)
      /\ cmds[1] = cmd /\ 1 \in DOMAIN cmds
      /\ cmd.task \in Tasks \cup {Nobody}
      /\ cmds' \in Seq(Commands) /\ Len(cmds') <= Capacity
      /\ \A i : i \in DOMAIN cmds' <=> i \in Nat \ {0} /\ i + 1 \in DOMAIN cmds
      /\ \A i \in DOMAIN cmds \ {1} : i - 1 \in DOMAIN cmds' /\ cmds'[i - 1] = cmds[i]
      /\ \A i \in DOMAIN cmds' : cmds'[i] = cmds[i + 1] /\ i + 1 # 1
      /\ UNCHANGED <<efd, stop, phase, hup_seen, at, request, holds, seq_events,
                     seq_hup, arrived, client, requests>>
      /\ reply' \in [Tasks -> {"none"} \cup Results]
      /\ \A u \in Tasks : reply'[u] = IF u = cmd.task THEN result ELSE reply[u]
  BY HandledSteps DEF sequencer
<1> HIDE DEF cmd
<1>2. TypeOK'
  BY <1>1 DEF Consistent, TypeOK, Commands, Results
<1>3. ASSUME NEW u \in Tasks PROVE TaskOK(u)'
  <2>1. u = cmd.task => at[u] \in Calling
    BY <1>1, NamesAssumption DEF CommandOK
  <2>2. TaskOK(u)
    BY DEF Consistent
  <2> QED BY <1>1, <2>1, <2>2 DEF TaskOK, Calling, Idling
<1>4. QueueOK'
  <2>1. QueueOK
    BY DEF Consistent
  <2>2. ASSUME NEW i \in DOMAIN cmds' PROVE CommandOK(cmds[i])'
    <3>1. /\ i + 1 \in DOMAIN cmds /\ i + 1 # 1 /\ cmds'[i] = cmds[i + 1]
          /\ CommandOK(cmds[i + 1])
      BY <1>1, <2>1 DEF QueueOK
    <3>2. cmds[i + 1].task # Nobody => cmds[i + 1].task # cmd.task
      BY <1>1, <2>1, <3>1 DEF QueueOK
    <3>3. cmds[i + 1].task = Nobody \/ cmds[i + 1].task \in Tasks
      BY <3>1, QueuedCommands DEF Consistent
    <3> QED BY <1>1, <3>1, <3>2, <3>3 DEF CommandOK
  <2>3. ASSUME NEW i \in DOMAIN cmds', NEW j \in DOMAIN cmds',
               cmds'[i].task = cmds'[j].task, cmds'[i].task # Nobody
        PROVE  i = j
    <3>1. i + 1 = j + 1
      BY <1>1, <2>1, <2>3 DEF QueueOK
    <3>2. i \in Nat /\ j \in Nat
      BY <1>1
    <3> QED BY <3>1, <3>2
  <2>4. ASSUME NEW u \in Tasks, at'[u] \in Calling, reply'[u] = "none"
        PROVE  \E i \in DOMAIN cmds' : cmds'[i].task = u
    <3>1. u # cmd.task /\ reply[u] = "none" /\ at[u] \in Calling
      BY <1>1, <2>4 DEF Results
    <3>2. PICK i \in DOMAIN cmds : cmds[i].task = u
      BY <2>1, <3>1 DEF QueueOK
    <3> QED BY <1>1, <3>1, <3>2
  <2> QED BY <2>2, <2>3, <2>4 DEF QueueOK
<1>5. EndOK'
  BY <1>1 DEF EndOK, Up, Alive
<1> QED BY <1>2, <1>3, <1>4, <1>5

\* Whose part in a port q a handled command changes.
LEMMA HandledClaims ==
  ASSUME Consistent, NEW op, NEW result \in Results, Handled(op, result),
         NEW q \in Ports
  PROVE  /\ \A u \in Tasks : u # Head(cmds).task => (Claims(u, q)' <=> Claims(u, q))
         /\ \A u \in Tasks : u = Head(cmds).task =>
              /\ Claims(u, q) <=> holds[u] = q
              /\ Claims(u, q)' <=> \/ holds[u] = q
                                   \/ op = "connect" /\ Head(cmds).port = q /\ result = "ok"
         /\ \A i, j \in Disconnects(q)' : i = j
         /\ IF op = "disconnect" /\ Head(cmds).port = q
            THEN Disconnects(q) # {} /\ Disconnects(q)' = {}
            ELSE Disconnects(q)' = {} <=> Disconnects(q) = {}
<1> DEFINE cmd == Head(cmds)
<1>1. /\ CommandOK(cmd) /\ cmd.op = op
      /\ cmds[1] = cmd /\ 1 \in DOMAIN cmds
      /\ \A i : i \in DOMAIN cmds' <=> i \in Nat \ {0} /\ i + 1 \in DOMAIN cmds
      /\ \A i \in DOMAIN cmds \ {1} : i - 1 \in DOMAIN cmds' /\ cmds'[i - 1] = cmds[i]
      /\ \A i \in DOMAIN cmds' : cmds'[i] = cmds[i + 1] /\ i + 1 # 1
      /\ request' = request /\ holds' = holds
      /\ \A u \in Tasks : reply'[u] = IF u = cmd.task THEN result ELSE reply[u]
  BY HandledSteps
<1> HIDE DEF cmd
<1>2. \A u \in Tasks : u # cmd.task => (Claims(u, q)' <=> Claims(u, q))
  BY <1>1 DEF Claims, Holders, Unclaimed
<1>3. ASSUME NEW u \in Tasks, u = cmd.task
      PROVE  /\ Claims(u, q) <=> holds[u] = q
             /\ Claims(u, q)' <=> \/ holds[u] = q
                                  \/ op = "connect" /\ cmd.port = q /\ result = "ok"
  <2>1. reply[u] = "none" /\ request[u] = Request(op, cmd.port) /\ reply'[u] = result
    BY <1>1, <1>3, NamesAssumption DEF CommandOK
  <2> QED BY <1>1, <2>1 DEF Claims, Holders, Unclaimed, Request
<1>4. \A i : i \in Disconnects(q)' <=> /\ i \in Nat /\ i + 1 \in Disconnects(q)
                                       /\ i + 1 # 1
  BY <1>1 DEF Disconnects
<1>5. \A i \in Disconnects(q) : i \in Nat /\ (i # 1 => i - 1 \in Disconnects(q)')
  <2>1. DOMAIN cmds \subseteq Nat
    BY QueuedCommands DEF Consistent
  <2> QED BY <1>1, <2>1 DEF Disconnects
<1>6. \A i, j \in Disconnects(q) : i = j
  BY DEF Consistent, PortOK
<1>7. 1 \in Disconnects(q) <=> op = "disconnect" /\ cmd.port = q
  BY <1>1 DEF Disconnects
<1>8. ASSUME NEW i \in Disconnects(q)', NEW j \in Disconnects(q)' PROVE i = j
  <2>1. i \in Nat /\ j \in Nat /\ i + 1 = j + 1
    BY <1>4, <1>6
  <2> QED BY <2>1
<1>9. IF op = "disconnect" /\ cmd.port = q
      THEN Disconnects(q) # {} /\ Disconnects(q)' = {}
      ELSE Disconnects(q)' = {} <=> Disconnects(q) = {}
  <2>1. CASE op = "disconnect" /\ cmd.port = q
    BY <1>4, <1>6, <1>7, <2>1
  <2>2. CASE ~(op = "disconnect" /\ cmd.port = q)
    BY <1>4, <1>5, <1>7, <2>2
  <2> QED BY <2>1, <2>2
<1> QED BY <1>2, <1>3, <1>8, <1>9 DEF cmd

\* A connect that fails, a send: nobody's part changes.
LEMMA HandledKeeps ==
  ASSUME Consistent, NEW op, NEW result \in Results, Handled(op, result),
         op # "disconnect", ~(op = "connect" /\ result = "ok"),
         UNCHANGED <<connections, orphaned, contested>>
  PROVE  Consistent'
<1>1. phase' = phase
  BY HandledSteps
<1>2. TypeOK' /\ (\A u \in Tasks : TaskOK(u)') /\ QueueOK' /\ EndOK'
  <2>1. connections' \subseteq Ports /\ orphaned' \subseteq Ports
    BY DEF Consistent, TypeOK
  <2> QED BY <2>1, HandledConsistent
<1>3. ASSUME NEW q \in Ports PROVE PortOK(q)'
  <2>1. PortOK(q)
    BY DEF Consistent
  <2>2. /\ \A u \in Tasks : Claims(u, q)' <=> Claims(u, q)
        /\ Disconnects(q)' = {} <=> Disconnects(q) = {}
        /\ \A i, j \in Disconnects(q)' : i = j
    BY HandledClaims
  <2> QED BY <1>1, <2>1, <2>2, PortKept DEF Up
<1> QED BY <1>2, <1>3 DEF Consistent

\* A port that is not connected has no owner, so the one who connects it is the
\* only one.
LEMMA ConnectedConsistent ==
  ASSUME Consistent, Handled("connect", "ok"),
         Head(cmds).port \notin connections,
         connections' = connections \cup {Head(cmds).port},
         orphaned' = IF Head(cmds).task = Nobody
                     THEN orphaned \cup {Head(cmds).port} ELSE orphaned,
         UNCHANGED contested
  PROVE  Consistent'
<1> DEFINE cmd == Head(cmds)
<1>0. "ok" \in Results
  BY DEF Results
<1>1. /\ cmd.port \in Ports /\ cmd.task \in Tasks \cup {Nobody}
      /\ phase = "dispatch" /\ phase' = phase
  BY <1>0, HandledSteps
<1>2. TypeOK' /\ (\A u \in Tasks : TaskOK(u)') /\ QueueOK' /\ EndOK'
  <2>1. connections' \subseteq Ports /\ orphaned' \subseteq Ports
    BY <1>1 DEF Consistent, TypeOK
  <2> QED BY <1>0, <2>1, HandledConsistent
<1>3. ASSUME NEW q \in Ports PROVE PortOK(q)'
  <2>1. PortOK(q)
    BY DEF Consistent
  <2>2. /\ \A u \in Tasks : u # cmd.task => (Claims(u, q)' <=> Claims(u, q))
        /\ \A u \in Tasks : u = cmd.task =>
             /\ Claims(u, q) <=> holds[u] = q
             /\ Claims(u, q)' <=> holds[u] = q \/ cmd.port = q
        /\ Disconnects(q)' = {} <=> Disconnects(q) = {}
        /\ \A i, j \in Disconnects(q)' : i = j
    BY <1>0, HandledClaims
  <2> HIDE DEF cmd
  <2>3. CASE q # cmd.port
    <3>1. \A u \in Tasks : Claims(u, q)' <=> Claims(u, q)
      BY <2>2, <2>3
    <3>2. /\ q \in connections' <=> q \in connections
          /\ q \in orphaned => q \in orphaned'
      BY <2>3 DEF cmd
    <3> QED BY <1>1, <2>1, <2>2, <3>1, <3>2, PortKept DEF Up
  <2>4. CASE q = cmd.port
    <3>1. Up /\ Up' /\ q \notin connections /\ q \in connections'
      BY <1>1, <2>4 DEF Up, cmd
    <3>2. ~Owned(q)
      BY <2>1, <3>1 DEF PortOK
    <3>3. Disconnects(q)' = {} /\ \A u \in Tasks : ~Claims(u, q)
      BY <2>2, <3>2, OwnedMeans
    <3>4. \A u \in Tasks : Claims(u, q)' <=> u = cmd.task
      BY <2>2, <2>4, <3>3
    <3>5. Owned(q)' <=> (\E u \in Tasks : Claims(u, q)') \/ Disconnects(q)' # {}
      BY DEF Owned, Claims, Holders, Unclaimed
    <3>6. q \in orphaned' \/ Owned(q)'
      BY <1>1, <2>4, <3>4, <3>5 DEF cmd
    <3> QED BY <3>1, <3>3, <3>4, <3>6 DEF PortOK
  <2> QED BY <2>3, <2>4
<1> QED BY <1>2, <1>3 DEF Consistent

LEMMA HandleConnectConsistent == Consistent /\ HandleConnect => Consistent'
<1> SUFFICES ASSUME Consistent, HandleConnect PROVE Consistent'
  OBVIOUS
<1>1. CASE Handled("connect", "already_connected")
           /\ UNCHANGED <<connections, orphaned, contested>>
  BY <1>1, HandledKeeps DEF Results
<1>2. CASE Handled("connect", "port_not_found")
           /\ UNCHANGED <<connections, orphaned, contested>>
  BY <1>2, HandledKeeps DEF Results
<1>3. CASE /\ Handled("connect", "ok")
           /\ Head(cmds).port \notin connections
           /\ connections' = connections \cup {Head(cmds).port}
           /\ orphaned' = IF Head(cmds).task = Nobody
                          THEN orphaned \cup {Head(cmds).port} ELSE orphaned
           /\ UNCHANGED contested
  BY <1>3, ConnectedConsistent
<1> QED BY <1>1, <1>2, <1>3 DEF HandleConnect, Handled, Answer, history

LEMMA HandleSendConsistent == Consistent /\ HandleSend => Consistent'
<1> SUFFICES ASSUME Consistent, HandleSend PROVE Consistent'
  OBVIOUS
<1>1. PICK result \in {"ok", "send_failed", "port_not_found"} :
        Take("send") /\ Answer(Head(cmds), result)
  BY DEF HandleSend
<1>2. Handled("send", result) /\ result \in Results
  BY <1>1 DEF Handled, Answer, Results
<1>3. UNCHANGED <<connections, orphaned, contested>>
  BY DEF HandleSend, history
<1> QED BY <1>2, <1>3, HandledKeeps

\* A disconnect is the port's only owner.
LEMMA HandleDisconnectConsistent == Consistent /\ HandleDisconnect => Consistent'
<1> SUFFICES ASSUME Consistent, HandleDisconnect PROVE Consistent'
  OBVIOUS
<1> DEFINE cmd == Head(cmds)
<1>1. /\ connections' = connections \ {cmd.port}
      /\ orphaned' = orphaned \ {cmd.port}
      /\ Take("disconnect") /\ reply' = reply /\ contested' = contested
  BY DEF HandleDisconnect
<1>2. cmd.task = Nobody /\ "ok" \in Results
  <2>1. cmds # <<>> /\ cmd.op = "disconnect"
    BY <1>1 DEF Take
  <2>2. 1 \in DOMAIN cmds /\ cmd = cmds[1]
    BY <2>1, QueuedCommands, TakenCommand DEF Consistent
  <2> QED BY <2>1, <2>2 DEF Consistent, QueueOK, CommandOK, Results
<1>3. Handled("disconnect", "ok")
  BY <1>1, <1>2 DEF Handled
<1>4. TypeOK' /\ (\A u \in Tasks : TaskOK(u)') /\ QueueOK' /\ EndOK'
  <2>1. connections' \subseteq Ports /\ orphaned' \subseteq Ports
    BY <1>1 DEF Consistent, TypeOK
  <2> QED BY <1>1, <1>2, <1>3, <2>1, HandledConsistent
<1>5. ASSUME NEW q \in Ports PROVE PortOK(q)'
  <2>1. PortOK(q)
    BY DEF Consistent
  <2>2. /\ \A u \in Tasks : Claims(u, q)' <=> Claims(u, q)
        /\ \A i, j \in Disconnects(q)' : i = j
        /\ IF cmd.port = q THEN Disconnects(q) # {} /\ Disconnects(q)' = {}
           ELSE Disconnects(q)' = {} <=> Disconnects(q) = {}
    BY <1>2, <1>3, HandledClaims, NamesAssumption
  <2>3. phase' = phase
    BY <1>2, <1>3, HandledSteps
  <2> HIDE DEF cmd
  <2>4. CASE cmd.port # q
    <3>1. /\ q \in connections' <=> q \in connections
          /\ q \in orphaned => q \in orphaned'
      BY <1>1, <2>4
    <3> QED BY <2>1, <2>2, <2>3, <2>4, <3>1, PortKept DEF Up
  <2>5. CASE cmd.port = q
    <3>1. \A u \in Tasks : ~Claims(u, q)'
      BY <2>1, <2>2, <2>5 DEF PortOK
    <3>2. ~Owned(q)'
      BY <2>2, <2>5, <3>1 DEF Owned, Claims, Holders, Unclaimed
    <3> QED BY <1>1, <2>2, <2>5, <3>1, <3>2 DEF PortOK
  <2> QED BY <2>4, <2>5
<1> QED BY <1>4, <1>5 DEF Consistent

\* The registry goes: nobody answers for a connection any more.
LEMMA ExitConsistent == Consistent /\ Exit => Consistent'
<1> SUFFICES ASSUME Consistent, Exit PROVE Consistent'
  OBVIOUS
<1> USE DEF Consistent
<1>1. /\ phase = "exit" /\ phase' = "return" /\ connections' = {} /\ orphaned' = {}
      /\ UNCHANGED <<cmds, efd, stop, hup_seen, tasks, seq_events, seq_hup, arrived,
                     client, requests, contested>>
  BY DEF Exit, channel, environment, sequencer
<1>2. TypeOK'
  BY <1>1 DEF TypeOK, tasks
<1>3. (\A t \in Tasks : TaskOK(t)') /\ QueueOK'
  BY <1>1 DEF TaskOK, QueueOK, CommandOK, tasks
<1>4. EndOK'
  BY <1>1 DEF EndOK, Alive
<1>5. ASSUME NEW p \in Ports PROVE PortOK(p)'
  BY <1>1 DEF PortOK, Claims, Holders, Unclaimed, Disconnects, Up, tasks
<1> QED BY <1>2, <1>3, <1>4, <1>5

LEMMA ReturnConsistent == Consistent /\ Return => Consistent'
<1> SUFFICES ASSUME Consistent, Return PROVE Consistent'
  OBVIOUS
<1> USE DEF Consistent
<1>1. /\ phase = "return" /\ phase' = "gone" /\ cmds' = <<>>
      /\ reply' = [t \in Tasks |-> IF \E i \in DOMAIN cmds : cmds[i].task = t
                                   THEN "backend_died" ELSE reply[t]]
      /\ UNCHANGED <<efd, stop, hup_seen, connections, at, request, holds, seq_events,
                     seq_hup, arrived, client, requests, orphaned, contested>>
  BY DEF Return, environment, sequencer, history
<1>2. \A t \in Tasks :
        /\ reply'[t] = "backend_died" \/ reply'[t] = reply[t]
        /\ reply'[t] # reply[t] => at[t] \in Calling
        /\ at[t] \in Calling => reply'[t] # "none"
  BY <1>1, NamesAssumption DEF QueueOK, CommandOK
<1>3. TypeOK'
  <2>1. Len(cmds') <= Capacity /\ cmds' \in Seq(Commands)
    BY <1>1, ChannelAssumption
  <2> QED BY <1>1, <2>1 DEF TypeOK, Commands
<1>4. \A t \in Tasks : TaskOK(t)'
  BY <1>1, <1>2 DEF TaskOK, Calling, Idling
<1>5. QueueOK' /\ EndOK'
  BY <1>1, <1>2 DEF QueueOK, EndOK, Up
<1>6. ASSUME NEW p \in Ports PROVE PortOK(p)'
  <2>1. Disconnects(p)' = {} /\ ~Up'
    BY <1>1 DEF Disconnects, Up
  <2>2. \A t \in Tasks : Claims(t, p)' => Claims(t, p)
    BY <1>1, <1>2 DEF Claims, Holders, Unclaimed
  <2> QED BY <2>1, <2>2 DEF PortOK
<1> QED BY <1>3, <1>4, <1>5, <1>6

\* All other steps of the thread, and those of the client and the sequencer.
Silent == \/ Poll \/ PollFails \/ ClearEfd \/ CheckStop \/ DispatchDone \/ CheckHup
          \/ DrainEvent \/ DrainDone
          \/ DropClient \/ OnDropStop \/ OnDropWake
          \/ SeqEventArrives \/ SeqBreaks

LEMMA SilentStep ==
  ASSUME Silent
  PROVE  /\ UNCHANGED <<cmds, connections, tasks, orphaned>>
         /\ Up' <=> Up
         /\ Alive' <=> Alive
BY DEF Silent, Poll, PollFails, ClearEfd, CheckStop, DispatchDone, CheckHup, DrainEvent,
       DrainDone, DropClient, OnDropStop, OnDropWake, SeqEventArrives, SeqBreaks,
       channel, thread, environment, sequencer, history, Up, Alive

LEMMA SilentTyped == TypeOK /\ Silent => TypeOK'
<1> SUFFICES ASSUME TypeOK, Silent PROVE TypeOK'
  OBVIOUS
<1> USE DEF TypeOK, tasks, history, channel, thread, environment, sequencer
<1>1. CASE Poll \/ PollFails \/ ClearEfd \/ CheckStop \/ DispatchDone \/ CheckHup
           \/ DrainDone
  BY <1>1, ZenonT(60) DEF Poll, PollFails, ClearEfd, CheckStop, DispatchDone, CheckHup, DrainDone
<1>2. CASE DrainEvent
  BY <1>2 DEF DrainEvent
<1>3. CASE DropClient \/ OnDropStop \/ OnDropWake
  BY <1>3, ZenonT(60) DEF DropClient, OnDropStop, OnDropWake
<1>4. CASE SeqEventArrives
  <2>1. arrived' \in 0..MaxSeqEvents /\ seq_events' \in Nat
    BY <1>4, ChannelAssumption DEF SeqEventArrives
  <2> QED BY <1>4, <2>1 DEF SeqEventArrives
<1>5. CASE SeqBreaks
  BY <1>5 DEF SeqBreaks
<1> QED BY <1>1, <1>2, <1>3, <1>4, <1>5 DEF Silent

-----------------------------------------------------------------------------
LEMMA NextConsistent == Consistent /\ [Next]_vars => Consistent'
<1> SUFFICES ASSUME Consistent, [Next]_vars PROVE Consistent'
  OBVIOUS
<1>1. ASSUME NEW t \in Tasks, NEW p \in Ports, Connect(t, p) PROVE Consistent'
  BY <1>1, RequestSendConsistent DEF Connect
<1>2. ASSUME NEW t \in Tasks, Send(t) PROVE Consistent'
  <2>1. holds[t] \in Ports
    BY <1>2 DEF Send, Consistent, TypeOK
  <2> QED BY <1>2, <2>1, RequestSendConsistent DEF Send
<1>3. ASSUME NEW t \in Tasks, Cancel(t) \/ DropGuard(t) \/ TaskStep(t)
      PROVE  Consistent'
  BY <1>3, CancelConsistent, DropGuardConsistent, WakeConsistent,
     RequestDoneConsistent DEF TaskStep
<1>4. CASE HandleConnect \/ HandleSend \/ HandleDisconnect \/ Exit \/ Return
  BY <1>4, HandleConnectConsistent, HandleSendConsistent, HandleDisconnectConsistent,
     ExitConsistent, ReturnConsistent
<1>5. CASE Silent
  BY <1>5, SilentStep, SilentTyped, SilentConsistent DEF Consistent
<1>6. CASE UNCHANGED vars
  <2>1. TypeOK'
    <3> HIDE DEF Consistent
    <3> TypeOK
      BY DEF Consistent
    <3> QED BY <1>6 DEF TypeOK, vars, channel, thread, sequencer, tasks, history
  <2> QED BY <1>6, <2>1, SilentConsistent DEF vars, channel, thread, history, Up, Alive
<1> QED BY <1>1, <1>2, <1>3, <1>4, <1>5, <1>6 DEF Next, ThreadStep, Dispatch, Silent

\* Consistent holds in every reachable state, for every capacity of the channel and
\* every set of tasks and ports.
THEOREM ConsistentAlways == Spec => []Consistent
BY InitConsistent, NextConsistent, PTL DEF Spec

\* The channel stays within its capacity and every variable has its type.
THEOREM TypeCorrect == Spec => []TypeOK
<1>1. Consistent => TypeOK
  BY DEF Consistent
<1> QED BY ConsistentAlways, <1>1, PTL

\* A guard or a successful reply stands for a connection the backend has, as long
\* as it lives.
THEOREM GuardMeansConnectedAlways == Spec => []GuardMeansConnected
<1>1. Consistent => GuardMeansConnected
  BY DEF Consistent, PortOK, Owned, GuardMeansConnected
<1> QED BY ConsistentAlways, <1>1, PTL

\* A connection without an owner is one whose disconnect found the channel full or
\* whose connect was cancelled.
THEOREM ConnectionOwnedAlways == Spec => []ConnectionOwned
<1>1. Consistent => ConnectionOwned
  BY DEF Consistent, PortOK, ConnectionOwned, TypeOK
<1> QED BY ConsistentAlways, <1>1, PTL

LEMMA AtMostOne ==
  ASSUME NEW S, \A x, y \in S : x = y
  PROVE  Cardinality(S) = IF S = {} THEN 0 ELSE 1
<1>1. CASE S = {}
  BY <1>1, FS_EmptySet
<1>2. CASE S # {}
  <2>1. PICK x \in S : TRUE
    BY <1>2
  <2>2. S = {x}
    BY <2>1
  <2> QED BY <1>2, <2>2, FS_Singleton
<1> QED BY <1>1, <1>2

\* At most one guard, reply or disconnect answers for a port, so that no guard's
\* drop ends another's connection (connection.rs, handle_connect_destination).
THEOREM OneOwnerAlways == Spec => []OneOwner
<1>1. ASSUME Consistent, NEW p \in Ports
      PROVE  Cardinality(Holders(p)) + Cardinality(Unclaimed(p))
               + Cardinality(Disconnects(p)) <= 1
  <2>1. /\ \A t, u \in Tasks : Claims(t, p) /\ Claims(u, p) => t = u
        /\ \A i, j \in Disconnects(p) : i = j
        /\ (\E t \in Tasks : Claims(t, p)) => Disconnects(p) = {}
    BY <1>1 DEF Consistent, PortOK
  <2>2. \A t, u \in Holders(p) \cup Unclaimed(p) : t = u
    BY <2>1 DEF Claims, Holders, Unclaimed
  <2>3. /\ Cardinality(Holders(p)) = IF Holders(p) = {} THEN 0 ELSE 1
        /\ Cardinality(Unclaimed(p)) = IF Unclaimed(p) = {} THEN 0 ELSE 1
        /\ Cardinality(Disconnects(p)) = IF Disconnects(p) = {} THEN 0 ELSE 1
    BY <2>1, <2>2, AtMostOne
  <2>4. Holders(p) = {} \/ Unclaimed(p) = {}
    <3> SUFFICES ASSUME NEW t \in Holders(p), NEW u \in Unclaimed(p) PROVE FALSE
      OBVIOUS
    <3>1. t = u
      BY <2>2
    <3>2. holds[t] = p /\ request[t] = Request("connect", p) /\ reply[t] = "ok"
          /\ t \in Tasks
      BY <3>1 DEF Holders, Unclaimed
    <3>3. TaskOK(t) /\ at[t] \in Idling \cup Calling
      BY <1>1, <3>2 DEF Consistent, TypeOK, Idling, Calling
    <3> QED BY <3>2, <3>3, NamesAssumption DEF TaskOK, Request
  <2>5. Holders(p) \cup Unclaimed(p) # {} => Disconnects(p) = {}
    BY <2>1 DEF Claims, Holders, Unclaimed
  <2> QED BY <2>3, <2>4, <2>5
<1>2. Consistent => OneOwner
  BY <1>1 DEF OneOwner
<1> QED BY ConsistentAlways, <1>2, PTL

-----------------------------------------------------------------------------
(***************************************************************************)
(* The channel, the eventfd, the poll loop and cancellation implement      *)
(* ConnectionService: every step of CommandChannel is a step of the        *)
(* service or leaves it as it is.                                          *)
(***************************************************************************)

(* Counting the abandoned connects.                                        *)

LEMMA FinitelyAbandoned ==
  ASSUME TypeOK, NEW p \in Ports
  PROVE  IsFiniteSet(Abandoned(p)) /\ Cardinality(Abandoned(p)) \in Nat
<1>1. Len(cmds) \in Nat /\ DOMAIN cmds = 1..Len(cmds)
  BY QueuedCommands
<1>2. IsFiniteSet(1..Len(cmds))
  BY <1>1, FS_Interval
<1>3. Abandoned(p) \in SUBSET (1..Len(cmds))
  BY <1>1 DEF Abandoned
<1> QED BY <1>2, <1>3, FS_Subset, FS_CardinalityType

\* Taking the first of some numbers away and counting the others from one less.
LEMMA ShiftedCount ==
  ASSUME NEW S \in SUBSET (Nat \ {0}), IsFiniteSet(S),
         NEW T, \A i : i \in T <=> i \in Nat \ {0} /\ i + 1 \in S
  PROVE  Cardinality(S) = IF 1 \in S THEN Cardinality(T) + 1 ELSE Cardinality(T)
<1> DEFINE R == S \ {1}
           f == [s \in R |-> s - 1]
<1>1. f \in [R -> T]
  <2>1. ASSUME NEW s \in R PROVE s - 1 \in T
    <3>1. s \in Nat \ {0} /\ s # 1 /\ s \in S
      OBVIOUS
    <3>2. s - 1 \in Nat \ {0} /\ (s - 1) + 1 = s
      BY <3>1
    <3> QED BY <3>1, <3>2
  <2> QED BY <2>1
<1>2. \A a, b \in R : f[a] = f[b] => a = b
  OBVIOUS
<1>3. \A t \in T : \E s \in R : f[s] = t
  <2> TAKE t \in T
  <2>1. t + 1 \in R /\ f[t + 1] = t
    OBVIOUS
  <2> QED BY <2>1
<1> HIDE DEF f
<1>4. IsFiniteSet(R) /\ Cardinality(R) = IF 1 \in S THEN Cardinality(S) - 1
                                         ELSE Cardinality(S)
  BY FS_RemoveElement
<1>5. ExistsBijection(R, T)
  BY <1>1, <1>2, <1>3, Fun_IsBij, Fun_ExistsBij
<1>6. Cardinality(T) = Cardinality(R)
  BY <1>4, <1>5, FS_Bijection
<1>7. Cardinality(S) \in Nat
  BY FS_CardinalityType
<1> QED BY <1>4, <1>6, <1>7

-----------------------------------------------------------------------------
(* What a step leaves of the mapping.                                      *)

LEMMA SameReleasing ==
  ASSUME Up' <=> Up, \A p \in Ports : Disconnects(p)' = {} <=> Disconnects(p) = {}
  PROVE  Releasing' = Releasing
BY DEF Releasing

LEMMA SameAbandonments ==
  ASSUME Up' <=> Up, \A p \in Ports : Abandoned(p)' = Abandoned(p)
  PROVE  Abandonments' = Abandonments
BY DEF Abandonments

LEMMA StutterStep ==
  ASSUME UNCHANGED <<cmds, connections, request, reply, holds>>, Up' <=> Up
  PROVE  UNCHANGED Service!sVars
<1>1. \A p \in Ports : /\ Disconnects(p)' = Disconnects(p)
                       /\ Abandoned(p)' = Abandoned(p)
  BY DEF Disconnects, Abandoned
<1>2. Releasing' = Releasing /\ Abandonments' = Abandonments
  BY <1>1, SameReleasing, SameAbandonments
<1>3. Up' = Up
  BY DEF Up
<1> QED BY <1>2, <1>3 DEF Service!sVars

-----------------------------------------------------------------------------
(* The tasks.                                                              *)

\* A request that is sent is asked for; one that is refused never was.
LEMMA RequestSendImplements ==
  ASSUME Consistent, NEW t \in Tasks, NEW op \in {"connect", "send"}, NEW p \in Ports,
         RequestSend(t, op, p),
         holds[t] = IF op = "connect" THEN NoPort ELSE p
  PROVE  Service!Ask(t, op, p) \/ UNCHANGED Service!sVars
<1>1. CASE Refused
  <2>1. UNCHANGED <<cmds, connections, request, reply, holds, phase>>
    BY <1>1 DEF RequestSend, thread
  <2> QED BY <2>1, StutterStep DEF Up
<1>2. CASE ~Refused
  <2> DEFINE cmd == Command(op, p, t)
  <2>1. /\ cmds' = Append(cmds, cmd)
        /\ request' = [request EXCEPT ![t] = Request(op, p)]
        /\ at[t] = "idle"
        /\ UNCHANGED <<connections, reply, holds, phase>>
    BY <1>2 DEF RequestSend, thread
  <2>2. /\ DOMAIN cmds' = DOMAIN cmds \cup {Len(cmds')}
        /\ cmds'[Len(cmds')] = cmd
        /\ \A i \in DOMAIN cmds : cmds'[i] = cmds[i]
    <3>1. cmd \in Commands
      BY DEF Command, Commands
    <3> HIDE DEF cmd
    <3> QED BY <2>1, <3>1, QueuedCommands, AppendedCommand DEF Consistent
  <2>3. cmd.op # "disconnect" /\ cmd.task # Nobody
    BY NamesAssumption DEF Command
  <2>4. \A q \in Ports : Disconnects(q)' = Disconnects(q)
    BY <2>2, <2>3 DEF Disconnects
  <2>5. \A q \in Ports : cmd # Command("connect", q, Nobody)
    BY <2>3 DEF Command
  <2>6. \A q \in Ports : Abandoned(q)' = Abandoned(q)
    <3> HIDE DEF cmd
    <3> QED BY <2>2, <2>5 DEF Abandoned
  <2>7. UNCHANGED <<Up, Releasing, Abandonments>>
    BY <2>1, <2>4, <2>6, SameReleasing, SameAbandonments DEF Up
  <2>8. request[t] = Service!Unasked /\ Request(op, p) = Service!Asked(op, p)
    BY <2>1 DEF Consistent, TaskOK, Idling, Service!Unasked, Service!Asked, Request
  <2> QED BY <2>1, <2>7, <2>8 DEF Service!Ask
<1> QED BY <1>1, <1>2

LEMMA WakeImplements ==
  ASSUME NEW t \in Tasks, RequestWake(t) \/ NotifyWake(t)
  PROVE  UNCHANGED Service!sVars
BY StutterStep DEF RequestWake, NotifyWake, thread, history, Up

LEMMA RequestDoneImplements ==
  ASSUME NEW t \in Tasks, RequestDone(t)
  PROVE  Service!Done(t)
<1>1. /\ reply[t] # "none"
      /\ reply' = [reply EXCEPT ![t] = "none"]
      /\ request' = [request EXCEPT ![t] = Service!Unasked]
      /\ holds' = IF request[t].op = "connect" /\ reply[t] = "ok"
                  THEN [holds EXCEPT ![t] = request[t].port] ELSE holds
      /\ UNCHANGED <<cmds, phase, connections>>
  BY DEF RequestDone, channel, thread, Request, Service!Unasked, Service!Asked
<1>2. \A p \in Ports : /\ Disconnects(p)' = Disconnects(p)
                       /\ Abandoned(p)' = Abandoned(p)
  BY <1>1 DEF Disconnects, Abandoned
<1>3. UNCHANGED <<Up, Releasing, Abandonments>>
  BY <1>1, <1>2, SameReleasing, SameAbandonments DEF Up
<1> QED BY <1>1, <1>3 DEF Service!Done

\* A cancelled request was given up before it was served exactly if its command is
\* still in the channel, where it is nobody's now.
LEMMA CancelImplements ==
  ASSUME Consistent, NEW t \in Tasks, Cancel(t)
  PROVE  Service!Abandon(t)
<1> USE DEF Consistent
<1> DEFINE left == [i \in DOMAIN cmds |->
                      IF cmds[i].task = t THEN [cmds[i] EXCEPT !.task = Nobody]
                                          ELSE cmds[i]]
<1>1. /\ at[t] = "wait"
      /\ reply' = [reply EXCEPT ![t] = "none"]
      /\ request' = [request EXCEPT ![t] = Service!Unasked]
      /\ cmds' = left
      /\ UNCHANGED <<phase, connections, holds>>
  BY DEF Cancel, thread, Request, Service!Unasked, Service!Asked
<1> PICK p \in Ports : p = request[t].port
  BY <1>1 DEF TaskOK, Calling
<1>2. /\ request[t].op \in {"connect", "send"}
      /\ request[t] = Request(request[t].op, p)
  <2>1. request[t] \in [op : {"none", "connect", "send"}, port : Ports \cup {NoPort}]
    BY DEF TypeOK
  <2> QED BY <1>1, <2>1 DEF TaskOK, Calling, Request
<1>3. request[t] # Service!Unasked
  BY <1>2 DEF Service!Unasked, Service!Asked
<1>4. /\ DOMAIN cmds' = DOMAIN cmds
      /\ \A i \in DOMAIN cmds :
           /\ cmds'[i].op = cmds[i].op /\ cmds'[i].port = cmds[i].port
           /\ cmds'[i].task = IF cmds[i].task = t THEN Nobody ELSE cmds[i].task
           /\ cmds[i] \in Commands /\ cmds'[i] \in Commands
  <2>1. \A i \in DOMAIN cmds : cmds[i] \in Commands
    BY QueuedCommands
  <2>2. ASSUME NEW i \in DOMAIN cmds
        PROVE  /\ left[i] \in Commands
               /\ left[i].op = cmds[i].op /\ left[i].port = cmds[i].port
               /\ left[i].task = IF cmds[i].task = t THEN Nobody ELSE cmds[i].task
    <3>1. cmds[i] \in Commands
      BY <2>1
    <3> QED BY <3>1 DEF Commands
  <2>3. DOMAIN left = DOMAIN cmds
    OBVIOUS
  <2> HIDE DEF left
  <2> QED BY <1>1, <2>1, <2>2, <2>3
<1> HIDE DEF left
<1>5. \A q \in Ports : Disconnects(q)' = Disconnects(q)
  BY <1>4 DEF Disconnects
<1>6. Releasing' = Releasing /\ Up' = Up
  BY <1>1, <1>5, SameReleasing DEF Up
<1>7. \A cmd \in Commands, q \in Ports :
        cmd = Command("connect", q, Nobody) <=>
          cmd.op = "connect" /\ cmd.port = q /\ cmd.task = Nobody
  BY DEF Commands, Command
<1>8. \A q \in Ports : \A i :
        i \in Abandoned(q)' <=> \/ i \in Abandoned(q)
                                \/ /\ i \in DOMAIN cmds /\ cmds[i].task = t
                                   /\ cmds[i].op = "connect" /\ cmds[i].port = q
  BY <1>4, <1>7, NamesAssumption DEF Abandoned
<1>9. t \in Service!Pending <=> reply[t] = "none"
  BY <1>3 DEF Service!Pending
<1>10. Abandonments' =
         IF Up /\ t \in Service!Pending /\ request[t].op = "connect"
         THEN [Abandonments EXCEPT ![request[t].port] = @ + 1] ELSE Abandonments
  <2> \A i \in DOMAIN cmds : cmds[i] \in Commands /\ CommandOK(cmds[i])
    BY QueuedCommands DEF QueueOK
  <2>1. CASE reply[t] = "none" /\ request[t].op = "connect"
    <3>1. PICK i \in DOMAIN cmds : cmds[i].task = t
      BY <1>1, <2>1 DEF QueueOK, Calling
    <3>2. \A j \in DOMAIN cmds : cmds[j].task = t => j = i
      BY <3>1, NamesAssumption DEF QueueOK
    <3>3. cmds[i].op = "connect" /\ cmds[i].port = p
      <4>1. request[t] = Request(cmds[i].op, cmds[i].port)
        BY <3>1, NamesAssumption DEF CommandOK
      <4> QED BY <1>2, <2>1, <4>1 DEF Request
    <3>4. \A q \in Ports \ {p} : Abandoned(q)' = Abandoned(q)
      BY <1>8, <3>2, <3>3
    <3>5. Abandoned(p)' = Abandoned(p) \cup {i}
      BY <1>2, <1>8, <3>1, <3>2, <3>3
    <3>6. i \notin Abandoned(p)
      BY <1>2, <1>7, <3>1, NamesAssumption DEF Abandoned, Command
    <3>7. Cardinality(Abandoned(p)') = Cardinality(Abandoned(p)) + 1
      BY <1>2, <3>5, <3>6, FinitelyAbandoned, FS_AddElement
    <3>8. \A q \in Ports : Cardinality(Abandoned(q))' =
            IF q = p THEN Cardinality(Abandoned(p)) + 1 ELSE Cardinality(Abandoned(q))
      BY <3>4, <3>7
    <3> QED BY <1>2, <1>6, <1>9, <2>1, <3>8 DEF Abandonments
  <2>2. CASE ~(reply[t] = "none" /\ request[t].op = "connect")
    <3>1. \A i \in DOMAIN cmds : ~(cmds[i].task = t /\ cmds[i].op = "connect")
      <4> SUFFICES ASSUME NEW i \in DOMAIN cmds, cmds[i].task = t,
                          cmds[i].op = "connect"
                   PROVE  FALSE
        OBVIOUS
      <4>1. reply[t] = "none" /\ request[t] = Request("connect", cmds[i].port)
        BY NamesAssumption DEF CommandOK
      <4> QED BY <2>2, <4>1 DEF Request
    <3>2. \A q \in Ports : Abandoned(q)' = Abandoned(q)
      BY <1>8, <3>1
    <3> QED BY <1>6, <1>9, <2>2, <3>2, SameAbandonments
  <2> QED BY <2>1, <2>2
<1> QED BY <1>1, <1>3, <1>6, <1>10 DEF Service!Abandon

\* A guard's drop is heard of, or the full channel loses it.
LEMMA DropGuardImplements ==
  ASSUME Consistent, NEW t \in Tasks, DropGuard(t)
  PROVE  Service!Release(t)
<1> PICK p \in Ports : p = holds[t]
  BY DEF DropGuard, Consistent, TypeOK
<1> DEFINE cmd == Command("disconnect", p, Nobody)
<1>1. /\ at[t] = "idle" /\ p # NoPort
      /\ holds' = [holds EXCEPT ![t] = NoPort]
      /\ cmds' = IF Refused THEN cmds ELSE Append(cmds, cmd)
      /\ UNCHANGED <<phase, connections, request, reply>>
  BY DEF DropGuard, thread
<1>2. request[t] = Service!Unasked
  BY <1>1 DEF Consistent, TaskOK, Idling, Service!Unasked, Service!Asked, Request
<1>3. /\ \A q \in Ports : Abandoned(q)' = Abandoned(q)
      /\ \A q \in Ports \ {p} : Disconnects(q)' = Disconnects(q)
      /\ IF Refused THEN Disconnects(p)' = Disconnects(p) ELSE Disconnects(p)' # {}
  <2>1. CASE Refused
    BY <1>1, <2>1 DEF Abandoned, Disconnects
  <2>2. CASE ~Refused
    <3>1. cmd \in Commands
      BY <1>1 DEF Command, Commands
    <3>2. /\ cmd.op = "disconnect" /\ cmd.port = p
          /\ \A q \in Ports : cmd # Command("connect", q, Nobody)
      BY DEF Command
    <3> HIDE DEF cmd
    <3>3. /\ DOMAIN cmds' = DOMAIN cmds \cup {Len(cmds')}
          /\ cmds'[Len(cmds')] = cmd
          /\ \A i \in DOMAIN cmds : cmds'[i] = cmds[i]
      BY <1>1, <2>2, <3>1, QueuedCommands, AppendedCommand DEF Consistent
    <3>4. \A q \in Ports : Abandoned(q)' = Abandoned(q)
      BY <3>2, <3>3 DEF Abandoned
    <3>5. /\ \A q \in Ports \ {p} : Disconnects(q)' = Disconnects(q)
          /\ Len(cmds') \in Disconnects(p)'
      BY <3>2, <3>3 DEF Disconnects
    <3> QED BY <2>2, <3>4, <3>5
  <2> QED BY <2>1, <2>2
<1>4. UNCHANGED <<Up, Abandonments>>
  BY <1>1, <1>3, SameAbandonments DEF Up
<1>5. Releasing' \in {Releasing} \cup (IF Up THEN {Releasing \cup {p}} ELSE {})
  <2>1. CASE Refused \/ ~Up
    BY <1>1, <1>3, <1>4, <2>1 DEF Releasing
  <2>2. CASE ~Refused /\ Up
    <3>1. Releasing' = Releasing \cup {p}
      BY <1>1, <1>3, <1>4, <2>2 DEF Releasing
    <3> QED BY <2>2, <3>1
  <2> QED BY <2>1, <2>2
<1> QED BY <1>1, <1>2, <1>4, <1>5 DEF Service!Release

-----------------------------------------------------------------------------
(* The backend thread.                                                     *)

\* What taking a command does to the counts: the command itself is all that goes.
LEMMA HandledCounts ==
  ASSUME Consistent, NEW op, NEW result \in Results, Handled(op, result)
  PROVE  /\ Up' = Up /\ Up
         /\ Releasing' = IF op = "disconnect" THEN Releasing \ {Head(cmds).port}
                                              ELSE Releasing
         /\ op = "disconnect" => Head(cmds).port \in Releasing
         /\ IF op = "connect" /\ Head(cmds).task = Nobody
            THEN /\ Abandonments[Head(cmds).port] \in Nat \ {0}
                 /\ Abandonments' = [Abandonments EXCEPT ![Head(cmds).port] = @ - 1]
            ELSE Abandonments' = Abandonments
<1>1. /\ phase = "dispatch" /\ phase' = phase
      /\ Head(cmds) = cmds[1] /\ 1 \in DOMAIN cmds /\ Head(cmds).op = op
      /\ \A i : i \in DOMAIN cmds' <=> i \in Nat \ {0} /\ i + 1 \in DOMAIN cmds
      /\ \A i \in DOMAIN cmds' : cmds'[i] = cmds[i + 1]
  BY HandledSteps
<1>2. Up' = Up /\ Up
  BY <1>1 DEF Up
<1> PICK p \in Ports : p = Head(cmds).port
  BY HandledSteps
<1>3. Head(cmds) \in Commands /\ TypeOK
  BY <1>1, QueuedCommands DEF Consistent
<1>4. Releasing' = IF op = "disconnect" THEN Releasing \ {p} ELSE Releasing
  <2>1. \A q \in Ports : IF op = "disconnect" /\ p = q
                         THEN Disconnects(q) # {} /\ Disconnects(q)' = {}
                         ELSE Disconnects(q)' = {} <=> Disconnects(q) = {}
    BY HandledClaims
  <2> QED BY <1>2, <2>1 DEF Releasing
<1>5. op = "disconnect" => p \in Releasing
  BY <1>2, HandledClaims DEF Releasing
<1>6. ASSUME NEW q \in Ports
      PROVE  /\ Cardinality(Abandoned(q)) \in Nat
             /\ Cardinality(Abandoned(q)') \in Nat
             /\ Cardinality(Abandoned(q)) =
                  IF op = "connect" /\ Head(cmds).task = Nobody /\ q = p
                  THEN Cardinality(Abandoned(q)') + 1 ELSE Cardinality(Abandoned(q)')
  <2>1. /\ Abandoned(q) \in SUBSET (Nat \ {0})
        /\ \A i : i \in Abandoned(q)' <=> i \in Nat \ {0} /\ i + 1 \in Abandoned(q)
    <3>1. DOMAIN cmds \subseteq Nat \ {0}
      BY QueuedCommands DEF Consistent
    <3> QED BY <1>1, <3>1 DEF Abandoned
  <2>2. IsFiniteSet(Abandoned(q)) /\ Cardinality(Abandoned(q)) \in Nat
    BY <1>3, FinitelyAbandoned
  <2>3. Cardinality(Abandoned(q)) = IF 1 \in Abandoned(q)
                                    THEN Cardinality(Abandoned(q)') + 1
                                    ELSE Cardinality(Abandoned(q)')
    BY <2>1, <2>2, ShiftedCount
  <2>4. 1 \in Abandoned(q) <=> op = "connect" /\ Head(cmds).task = Nobody /\ q = p
    BY <1>1, <1>3 DEF Abandoned, Commands, Command
  <2>5. Cardinality(Abandoned(q)') \in Nat
    <3>1. IsFiniteSet(Abandoned(q)')
      <4>1. cmds' \in Seq(Commands)
        BY HandledSteps
      <4>2. Len(cmds') \in Nat /\ DOMAIN cmds' = 1..Len(cmds')
        BY <4>1
      <4>3. Abandoned(q)' \in SUBSET (1..Len(cmds'))
        BY <4>2 DEF Abandoned
      <4>4. IsFiniteSet(1..Len(cmds'))
        BY <4>2, FS_Interval
      <4> QED BY <4>3, <4>4, FS_Subset
    <3> QED BY <3>1, FS_CardinalityType
  <2> QED BY <2>2, <2>3, <2>4, <2>5
<1>7. CASE op = "connect" /\ Head(cmds).task = Nobody
  <2>1. \A q \in Ports : Cardinality(Abandoned(q))' =
          IF q = p THEN Cardinality(Abandoned(p)) - 1 ELSE Cardinality(Abandoned(q))
    BY <1>6, <1>7
  <2>2. Cardinality(Abandoned(p)) \in Nat \ {0}
    BY <1>6, <1>7
  <2>3. Abandonments' = [Abandonments EXCEPT ![p] = @ - 1]
    BY <1>2, <2>1 DEF Abandonments
  <2> QED BY <1>2, <1>4, <1>5, <1>7, <2>2, <2>3 DEF Abandonments
<1>8. CASE ~(op = "connect" /\ Head(cmds).task = Nobody)
  <2>1. \A q \in Ports : Cardinality(Abandoned(q))' = Cardinality(Abandoned(q))
    BY <1>6, <1>8
  <2>2. Abandonments' = Abandonments
    BY <1>2, <2>1 DEF Abandonments
  <2> QED BY <1>2, <1>4, <1>5, <1>8, <2>2
<1> QED BY <1>7, <1>8

\* The task of a handled command is one whose request is pending.
LEMMA HandledPending ==
  ASSUME Consistent, NEW op, NEW result \in Results, Handled(op, result),
         Head(cmds).task # Nobody, op \in {"connect", "send"}
  PROVE  /\ Head(cmds).task \in Tasks
         /\ Head(cmds).task \in Service!Pending
         /\ request[Head(cmds).task] = Service!Asked(op, Head(cmds).port)
         /\ reply' = [reply EXCEPT ![Head(cmds).task] = result]
         /\ op = "send" => holds[Head(cmds).task] = Head(cmds).port
<1> DEFINE t == Head(cmds).task
<1>1. t \in Tasks /\ CommandOK(Head(cmds)) /\ Head(cmds).op = op
  BY HandledSteps
<1>2. at[t] \in Calling /\ reply[t] = "none" /\ request[t] = Request(op, Head(cmds).port)
  BY <1>1 DEF CommandOK
<1>3. request[t] # Service!Unasked
  BY <1>2 DEF Request, Service!Unasked, Service!Asked
<1>4. op = "send" => holds[t] = Head(cmds).port
  <2>1. TaskOK(t)
    BY <1>1 DEF Consistent
  <2> QED BY <1>2, <2>1 DEF TaskOK, Request
<1> QED BY <1>1, <1>2, <1>3, <1>4 DEF Handled, Service!Pending, Request, Service!Asked

LEMMA HandleConnectImplements ==
  ASSUME Consistent, HandleConnect
  PROVE  \/ \E t \in Tasks : Service!Serve(t)
         \/ \E p \in Ports : Service!ServeAbandoned(p)
         \/ UNCHANGED Service!sVars
<1> DEFINE cmd == Head(cmds)
<1>1. PICK result \in Results :
        /\ Handled("connect", result)
        /\ \/ /\ cmd.port \in connections /\ result = "already_connected"
              /\ connections' = connections
           \/ /\ cmd.port \notin connections /\ result = "ok"
              /\ connections' = connections \cup {cmd.port}
           \/ /\ cmd.port \notin connections /\ result = "port_not_found"
              /\ connections' = connections
  BY DEF HandleConnect, Handled, Answer, Results
<1>2. cmd.port \in Ports /\ UNCHANGED <<request, holds>>
  BY <1>1, HandledSteps
<1>3. CASE cmd.task # Nobody
  <2>1. UNCHANGED <<Up, Releasing, Abandonments>> /\ Up
    BY <1>1, <1>3, HandledCounts
  <2>2. /\ cmd.task \in Tasks /\ cmd.task \in Service!Pending
        /\ request[cmd.task] = Service!Asked("connect", cmd.port)
        /\ reply' = [reply EXCEPT ![cmd.task] = result]
    BY <1>1, <1>3, HandledPending
  <2> HIDE DEF cmd
  <2>3. Service!ServeConnect(cmd.task)
    BY <1>1, <1>2, <2>2 DEF Service!ServeConnect
  <2>4. Service!Serve(cmd.task)
    BY <1>2, <2>1, <2>2, <2>3 DEF Service!Serve
  <2> QED BY <2>2, <2>4
<1>4. CASE cmd.task = Nobody
  <2>1. /\ UNCHANGED <<Up, Releasing>>
        /\ Abandonments[cmd.port] \in Nat \ {0}
        /\ Abandonments' = [Abandonments EXCEPT ![cmd.port] = @ - 1]
    BY <1>1, <1>4, HandledCounts
  <2>2. reply' = reply
    BY <1>1, <1>4 DEF Handled
  <2> HIDE DEF cmd
  <2>3. Service!ServeAbandoned(cmd.port)
    BY <1>1, <1>2, <2>1, <2>2 DEF Service!ServeAbandoned
  <2> QED BY <1>2, <2>3
<1> QED BY <1>3, <1>4

\* A send that still has its task finds the connection of the task's guard.
LEMMA HandleSendImplements ==
  ASSUME Consistent, HandleSend
  PROVE  (\E t \in Tasks : Service!Serve(t)) \/ UNCHANGED Service!sVars
<1> DEFINE cmd == Head(cmds)
<1>1. PICK result \in Results :
        /\ Handled("send", result)
        /\ result \in IF cmd.port \in connections
                      THEN {"ok", "send_failed"} ELSE {"port_not_found"}
        /\ connections' = connections
  BY DEF HandleSend, Handled, Answer, Results
<1>2. UNCHANGED <<Up, Releasing, Abandonments>> /\ Up
  BY <1>1, HandledCounts
<1>3. cmd.port \in Ports /\ UNCHANGED <<request, holds>>
  BY <1>1, HandledSteps
<1>4. CASE cmd.task # Nobody
  <2>1. /\ cmd.task \in Tasks /\ cmd.task \in Service!Pending
        /\ request[cmd.task] = Service!Asked("send", cmd.port)
        /\ reply' = [reply EXCEPT ![cmd.task] = result]
        /\ holds[cmd.task] = cmd.port
    BY <1>1, <1>4, HandledPending
  <2> HIDE DEF cmd
  <2>2. cmd.port \in connections
    BY <1>2, <1>3, <2>1 DEF Consistent, PortOK, Owned, Holders
  <2>3. Service!ServeSend(cmd.task)
    <3>1. request[cmd.task].op = "send" /\ request[cmd.task].port = cmd.port
      BY <2>1 DEF Service!Asked
    <3>2. result \in {"ok", "send_failed"}
      BY <1>1, <2>2
    <3> QED BY <1>1, <2>1, <2>2, <3>1, <3>2 DEF Service!ServeSend
  <2>4. Service!Serve(cmd.task)
    BY <1>2, <1>3, <2>1, <2>3 DEF Service!Serve
  <2> QED BY <2>1, <2>4
<1>5. CASE cmd.task = Nobody
  BY <1>1, <1>2, <1>3, <1>5 DEF Handled, Service!sVars
<1> QED BY <1>4, <1>5

LEMMA HandleDisconnectImplements ==
  ASSUME Consistent, HandleDisconnect
  PROVE  \E p \in Ports : Service!ServeRelease(p)
<1> DEFINE cmd == Head(cmds)
<1>1. /\ connections' = connections \ {cmd.port}
      /\ Take("disconnect") /\ reply' = reply
  BY DEF HandleDisconnect
<1>2. cmd.task = Nobody
  <2>1. cmds # <<>> /\ cmd.op = "disconnect"
    BY <1>1 DEF Take
  <2>2. 1 \in DOMAIN cmds /\ cmd = cmds[1]
    BY <2>1, QueuedCommands, TakenCommand DEF Consistent
  <2> QED BY <2>1, <2>2 DEF Consistent, QueueOK, CommandOK
<1>3. Handled("disconnect", "ok") /\ "ok" \in Results
  BY <1>1, <1>2 DEF Handled, Results
<1>4. /\ UNCHANGED <<Up, Abandonments>>
      /\ Releasing' = Releasing \ {cmd.port}
      /\ cmd.port \in Releasing
  BY <1>3, HandledCounts
<1>5. cmd.port \in Ports /\ UNCHANGED <<request, holds>>
  BY <1>3, HandledSteps
<1> HIDE DEF cmd
<1> QED BY <1>1, <1>4, <1>5 DEF Service!ServeRelease

LEMMA ExitImplements ==
  ASSUME Exit
  PROVE  Service!Die
<1>1. /\ phase = "exit" /\ phase' = "return" /\ connections' = {}
      /\ UNCHANGED <<request, reply, holds>>
  BY DEF Exit, tasks
<1>2. Up /\ ~Up' /\ Up' = FALSE
  BY <1>1 DEF Up
<1>3. Releasing' = {} /\ Abandonments' = [p \in Ports |-> 0]
  BY <1>2 DEF Releasing, Abandonments
<1> QED BY <1>1, <1>2, <1>3 DEF Service!Die

\* The commands dropped with the channel are all the requests that are pending.
LEMMA ReturnImplements ==
  ASSUME Consistent, Return
  PROVE  Service!Fail \/ UNCHANGED Service!sVars
<1>1. /\ phase = "return" /\ phase' = "gone"
      /\ reply' = [t \in Tasks |-> IF \E i \in DOMAIN cmds : cmds[i].task = t
                                   THEN "backend_died" ELSE reply[t]]
      /\ UNCHANGED <<connections, request, holds>>
  BY DEF Return
<1>2. ~Up /\ Up' = Up
  BY <1>1 DEF Up
<1>3. UNCHANGED <<Releasing, Abandonments>>
  BY <1>2 DEF Releasing, Abandonments
<1>4. ASSUME NEW t \in Tasks
      PROVE  (\E i \in DOMAIN cmds : cmds[i].task = t) <=> t \in Service!Pending
  <2>1. at[t] \in Idling \cup Calling /\ TaskOK(t) /\ QueueOK
    BY DEF Consistent, TypeOK, Idling, Calling
  <2>2. ASSUME NEW i \in DOMAIN cmds, cmds[i].task = t PROVE t \in Service!Pending
    <3>1. reply[t] = "none" /\ at[t] \in Calling
      BY <2>1, <2>2, NamesAssumption DEF QueueOK, CommandOK
    <3>2. request[t] # Service!Unasked
      BY <2>1, <3>1 DEF TaskOK, Service!Unasked, Service!Asked
    <3> QED BY <3>1, <3>2 DEF Service!Pending
  <2>3. ASSUME t \in Service!Pending PROVE \E i \in DOMAIN cmds : cmds[i].task = t
    <3>1. reply[t] = "none" /\ at[t] \in Calling
      BY <2>1, <2>3 DEF TaskOK, Service!Pending, Service!Unasked, Service!Asked, Request
    <3> QED BY <2>1, <3>1 DEF QueueOK
  <2> QED BY <2>2, <2>3
<1>5. reply' = [t \in Tasks |-> IF t \in Service!Pending THEN "backend_died"
                                                         ELSE reply[t]]
  BY <1>1, <1>4
<1>6. CASE Service!Pending # {}
  BY <1>1, <1>2, <1>3, <1>5, <1>6 DEF Service!Fail
<1>7. CASE Service!Pending = {}
  <2>1. reply' = reply
    BY <1>5, <1>7 DEF Consistent, TypeOK
  <2> QED BY <1>1, <1>2, <1>3, <2>1 DEF Service!sVars
<1> QED BY <1>6, <1>7

-----------------------------------------------------------------------------
LEMMA InitImplements == Init => Service!SInit
<1> SUFFICES ASSUME Init PROVE Service!SInit
  OBVIOUS
<1>1. Up = TRUE
  BY DEF Init, Up
<1>2. \A p \in Ports : Disconnects(p) = {} /\ Abandoned(p) = {}
  BY DEF Init, Disconnects, Abandoned
<1>3. Releasing = {}
  BY <1>2 DEF Releasing
<1>4. Abandonments = [p \in Ports |-> 0]
  BY <1>1, <1>2, FS_EmptySet DEF Abandonments
<1> QED BY <1>1, <1>3, <1>4 DEF Init, Service!SInit, Service!Unasked, Service!Asked,
                                Request

LEMMA NextImplements ==
  ASSUME Consistent, [Next]_vars
  PROVE  [Service!SNext]_(Service!sVars)
<1> DEFINE Mapped == Service!SNext \/ UNCHANGED Service!sVars
<1>1. ASSUME NEW t \in Tasks, NEW p \in Ports, Connect(t, p) PROVE Mapped
  BY <1>1, RequestSendImplements DEF Connect, Service!SNext
<1>2. ASSUME NEW t \in Tasks, Send(t) PROVE Mapped
  <2>1. holds[t] \in Ports
    BY <1>2 DEF Send, Consistent, TypeOK
  <2>2. PICK p \in Ports : p = holds[t]
    BY <2>1
  <2>3. Service!Ask(t, "send", p) \/ UNCHANGED Service!sVars
    BY <1>2, <2>2, RequestSendImplements DEF Send
  <2> QED BY <2>3 DEF Service!SNext
<1>3. ASSUME NEW t \in Tasks, Cancel(t) \/ DropGuard(t) \/ TaskStep(t) PROVE Mapped
  BY <1>3, CancelImplements, DropGuardImplements, WakeImplements, RequestDoneImplements
     DEF TaskStep, Service!SNext
<1>4. CASE HandleConnect \/ HandleSend \/ HandleDisconnect \/ Exit \/ Return
  BY <1>4, HandleConnectImplements, HandleSendImplements, HandleDisconnectImplements,
     ExitImplements, ReturnImplements DEF Service!SNext
<1>5. CASE Silent
  BY <1>5, SilentStep, StutterStep DEF tasks
<1>6. CASE UNCHANGED vars
  BY <1>6, StutterStep DEF vars, channel, thread, tasks, Up
<1>7. Mapped
  BY <1>1, <1>2, <1>3, <1>4, <1>5, <1>6 DEF Next, ThreadStep, Dispatch, Silent
<1> QED BY <1>7

\* Every behaviour of the channel is one of the service: each request takes effect
\* once, between its making and its answer, a guard's send finds its connection, a
\* guard's drop ends it unless it is lost with the channel full, and the end of the
\* thread answers whoever still waits.  The service's fairness is not part of it.
THEOREM ServiceSafety == Spec => Service!SInit /\ [][Service!SNext]_(Service!sVars)
BY InitImplements, NextImplements, ConsistentAlways, PTL DEF Spec

=============================================================================
