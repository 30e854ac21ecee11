---------------------------- MODULE WebPortsProofs ----------------------------
(***************************************************************************)
(* Safety of the browser backend, for every set of tasks and ports and     *)
(* every number of connects and of plugs.                                  *)
(***************************************************************************)
EXTENDS WebPorts, TLAPS

Results  == {"none", "ok", "sent", "already_connected", "not_ready", "port_not_found",
             "open_failed", "port_disconnected"}

\* TypeOK says nothing of the replies nobody waits for: the channel is a function
\* all the same.
Typed == TypeOK /\ reply \in [Tasks -> Results]

-----------------------------------------------------------------------------
(* The ports.                                                              *)

\* Nothing is connected, and no open awaited, before the access is granted, and a
\* callback that is installed means it is.
AccessOK ==
  /\ access # "granted" =>
       /\ ~callback
       /\ \A p \in Ports : conn[p] = None
       /\ \A o \in opening : o.at # "awaiting"
       /\ client \in {"starting", "dropped"}
       /\ sub = "none"
  /\ client = "starting" => access # "granted"
  /\ client # "dropped" => late = {}

\* An output is open for the connection it has.
OpenOK == \A p \in opened : conn[p] # None

Knows(p) == known[p] = IF p \in available THEN "there" ELSE "gone"

\* What a subscriber was told of a port that has not changed since is true; of
\* others it has heard nothing and waits for the list.
SubscriberOK ==
  /\ sub = "none" => \A p \in Watched : known[p] = "unheard"
  /\ callback /\ sub = "subscribed" =>
       \A p \in Watched \ changed : Knows(p) \/ known[p] = "unheard"
  /\ callback /\ sub = "listed" => \A p \in Watched \ changed : Knows(p)

PortsOK == /\ AccessOK /\ OpenOK /\ SubscriberOK
           /\ HearsConnected /\ RemovalSeen /\ Released

-----------------------------------------------------------------------------
(* The connections.                                                        *)

Connects == {i \in DOMAIN cmds : cmds[i].op = "connect"}

\* Ids of the connects that are neither made nor refused.
Pending == {cmds[i].id : i \in Connects} \cup {o.id : o \in opening}

\* A task that waits has one command or one open under way, which says what it
\* asked for.
TaskOK ==
  /\ \A i \in DOMAIN cmds :
       /\ cmds[i].op = "disconnect" => cmds[i].task = Nobody
       /\ cmds[i].op = "list" => cmds[i].task = Nobody /\ sub # "none"
       /\ cmds[i].task # Nobody =>
            /\ reply[cmds[i].task] = "none"
            /\ request[cmds[i].task] =
                 [op |-> cmds[i].op, port |-> cmds[i].port, id |-> cmds[i].id]
  /\ \A o \in opening : o.task # Nobody =>
       /\ reply[o.task] = "none"
       /\ request[o.task] = [op |-> "connect", port |-> o.port, id |-> o.id]
  /\ \A i, j \in DOMAIN cmds : cmds[i].task = cmds[j].task /\ cmds[i].task # Nobody => i = j
  /\ \A o, q \in opening : o.task = q.task /\ o.task # Nobody => o = q
  /\ \A i \in DOMAIN cmds, o \in opening : cmds[i].task = o.task => o.task = Nobody

\* A connect is under way once.
PendingOK ==
  /\ \A i, j \in Connects : cmds[i].id = cmds[j].id => i = j
  /\ \A o, q \in opening : o.id = q.id => o = q
  /\ \A i \in Connects, o \in opening : cmds[i].id # o.id
  /\ \A id \in Pending : /\ id \in 1..requests
                         /\ \A p \in Ports : conn[p] # id /\ id \notin Owners(p)

\* Task t answers for the connection id of port p.
Claims(t, p, id) ==
  \/ holds[t].port = p /\ holds[t].id = id
  \/ /\ request[t].op = "connect" /\ reply[t] = "ok"
     /\ request[t].port = p /\ request[t].id = id

\* Command i is the disconnect of it.
Closes(i, p, id) == cmds[i].op = "disconnect" /\ cmds[i].port = p /\ cmds[i].id = id

\* A connection has one owner, of its port.
OwnerOK ==
  /\ \A p \in Ports : conn[p] \in 0..requests
  /\ \A p \in Ports : \A id \in Owners(p) :
       id \in 1..requests /\ \A q \in Ports : conn[q] = id => q = p
  /\ \A p, q \in Ports, id \in 1..requests :
       /\ \A t, u \in Tasks : Claims(t, p, id) /\ Claims(u, q, id) => t = u
       /\ \A i, j \in DOMAIN cmds : Closes(i, p, id) /\ Closes(j, q, id) => i = j
       /\ \A t \in Tasks, i \in DOMAIN cmds : ~(Claims(t, p, id) /\ Closes(i, q, id))

Ledger == TaskOK /\ PendingOK /\ OwnerOK /\ OwnsOrLost

Consistent == Typed /\ PortsOK /\ Ledger

-----------------------------------------------------------------------------
(* The types.                                                              *)

Commands == [op : {"connect", "disconnect", "send", "list"},
             port : Ports \cup {"none"}, id : Ids, task : Askers]
Openings == [id : Ids, port : Outputs, task : Askers, at : {"spawned", "awaiting"}]
Requests == [op : {"none", "connect", "send"}, port : Ports \cup {"none"}, id : Ids]

LEMMA InitTyped == Init => Typed
<1> SUFFICES ASSUME Init PROVE Typed
  OBVIOUS
<1> USE WebAssumption DEF Init
<1>1. NoRequest \in Requests /\ NoGuard \in [port : Ports \cup {"none"}, id : Ids]
  BY DEF NoRequest, NoGuard, Requests, Ids, None
<1>2. reply \in [Tasks -> Results] /\ \A t \in Tasks : reply[t] = "none"
  BY DEF Results
<1>3. cmds \in Seq(Commands)
  OBVIOUS
<1>4. plugs \in 0..MaxPlugs /\ requests \in Ids /\ None \in Ids
  BY DEF Ids, None
<1> QED BY <1>1, <1>2, <1>3, <1>4 DEF Typed, TypeOK, Ports, Requests, Commands

\* What the first command is, and what is left when it is taken.
LEMMA TakenCommand ==
  ASSUME Typed, NEW op, NEW ports, Take(op, ports)
  PROVE  /\ cmds \in Seq(Commands) /\ cmds' \in Seq(Commands)
         /\ Head(cmds) \in Commands /\ Head(cmds).op = op /\ Head(cmds).port \in ports
         /\ woken' \in BOOLEAN /\ draining' \in BOOLEAN
         /\ 1 \in DOMAIN cmds /\ cmds[1] = Head(cmds)
         /\ \A i : i \in DOMAIN cmds' <=> i \in Nat \ {0} /\ i + 1 \in DOMAIN cmds
         /\ \A i \in DOMAIN cmds \ {1} : i - 1 \in DOMAIN cmds' /\ cmds'[i - 1] = cmds[i]
         /\ \A i \in DOMAIN cmds' : cmds'[i] = cmds[i + 1] /\ i + 1 # 1
<1>1. cmds \in Seq(Commands)
  BY DEF Typed, TypeOK, Commands
<1>2. /\ cmds # <<>> /\ cmds' = Tail(cmds)
      /\ Head(cmds).op = op /\ Head(cmds).port \in ports
  BY DEF Take
<1>3. woken' \in BOOLEAN /\ draining' \in BOOLEAN
  BY Zenon DEF Take
<1> HIDE DEF Commands
<1>4. Head(cmds) \in Commands /\ cmds' \in Seq(Commands)
  BY <1>1, <1>2
<1> QED BY <1>1, <1>2, <1>3, <1>4

\* What a command at the end of the channel changes.
LEMMA AppendedCommand ==
  ASSUME cmds \in Seq(Commands), NEW cmd \in Commands, cmds' = Append(cmds, cmd)
  PROVE  /\ cmds' \in Seq(Commands)
         /\ Len(cmds) \in Nat /\ Len(cmds') = Len(cmds) + 1
         /\ DOMAIN cmds = 1..Len(cmds)
         /\ DOMAIN cmds' = DOMAIN cmds \cup {Len(cmds')}
         /\ Len(cmds') \notin DOMAIN cmds
         /\ cmds'[Len(cmds')] = cmd
         /\ \A i \in DOMAIN cmds : cmds'[i] = cmds[i]
OBVIOUS

LEMMA ReplyTyped ==
  ASSUME Typed, NEW t \in Askers, NEW result \in Results \ {"none"}, Reply(t, result),
         t # Nobody => request[t] # NoRequest
  PROVE  /\ reply' \in [Tasks -> Results]
         /\ \A u \in Tasks : reply'[u] # "none" => request[u] # NoRequest
BY DEF Typed, TypeOK, Reply, Askers

LEMMA OnDropTyped ==
  ASSUME Typed, OnDrop
  PROVE  /\ client' = "dropped" /\ callback' = FALSE
         /\ conn' \in [Ports -> Ids] /\ \A p \in Ports : conn'[p] = None
         /\ handler' \in [Inputs -> Ids]
         /\ \A i \in Inputs : handler'[i] = IF conn[i] = None THEN handler[i] ELSE None
         /\ opened' \subseteq Outputs
BY WebAssumption DEF Typed, TypeOK, OnDrop, Ids, None

LEMMA DisconnectTyped ==
  ASSUME Typed, NEW p \in Ports, NEW due \in SUBSET Ports, Disconnect(p, due)
  PROVE  /\ conn' \in [Ports -> Ids]
         /\ \A q \in Ports : conn'[q] = IF q = p THEN None ELSE conn[q]
         /\ handler' \in [Inputs -> Ids]
         /\ \A i \in Inputs : handler'[i] = IF i = p /\ conn[p] # None THEN None
                                            ELSE handler[i]
         /\ opened' = (IF conn[p] = None THEN opened ELSE opened \ {p})
         /\ opened' \subseteq Outputs
         /\ changed' = (IF conn[p] # None /\ p \in opened THEN due \cup {p} ELSE due)
         /\ changed' \subseteq Ports
<1>1. None \in Ids
  BY WebAssumption DEF Ids, None
<1> QED BY <1>1 DEF Typed, TypeOK, Disconnect

LEMMA HeardTyped ==
  ASSUME Typed, NEW p, NEW what \in {"there", "gone"}, Heard(p, what)
  PROVE  /\ known' \in [Watched -> {"unheard", "there", "gone"}]
         /\ \A q \in Watched : known'[q] = IF q = p /\ sub # "none" THEN what ELSE known[q]
BY DEF Typed, TypeOK, Heard

\* Connect, send, disconnect and list put a command into the channel.
LEMMA EnqueueTyped ==
  ASSUME Typed, NEW op \in {"connect", "disconnect", "send", "list"},
         NEW p \in Ports \cup {"none"}, NEW id \in Ids, NEW t \in Askers,
         Enqueue(Command(op, p, id, t))
  PROVE  /\ woken' = TRUE
         /\ cmds \in Seq(Commands) /\ Command(op, p, id, t) \in Commands
         /\ cmds' = Append(cmds, Command(op, p, id, t)) /\ cmds' \in Seq(Commands)
<1>1. Command(op, p, id, t) \in Commands
  BY DEF Command, Commands
<1>2. cmds \in Seq(Commands)
  BY DEF Typed, TypeOK, Commands
<1> QED BY <1>1, <1>2 DEF Enqueue

\* What is under way for a task is what the task waits for.
LEMMA RequestMade ==
  ASSUME TaskOK
  PROVE  /\ \A i \in DOMAIN cmds : cmds[i].task # Nobody =>
              /\ request[cmds[i].task].op = cmds[i].op
              /\ request[cmds[i].task].port = cmds[i].port
              /\ request[cmds[i].task].id = cmds[i].id
              /\ cmds[i].op \in {"connect", "send"} => request[cmds[i].task] # NoRequest
         /\ \A o \in opening : o.task # Nobody =>
              /\ request[o.task].op = "connect"
              /\ request[o.task].port = o.port
              /\ request[o.task].id = o.id
              /\ request[o.task] # NoRequest
<1>1. ASSUME NEW i \in DOMAIN cmds, cmds[i].task # Nobody
      PROVE  /\ request[cmds[i].task].op = cmds[i].op
             /\ request[cmds[i].task].port = cmds[i].port
             /\ request[cmds[i].task].id = cmds[i].id
  <2>1. request[cmds[i].task] = [op |-> cmds[i].op, port |-> cmds[i].port, id |-> cmds[i].id]
    BY <1>1 DEF TaskOK
  <2> QED BY <2>1
<1>2. ASSUME NEW o \in opening, o.task # Nobody
      PROVE  /\ request[o.task].op = "connect"
             /\ request[o.task].port = o.port
             /\ request[o.task].id = o.id
  <2>1. request[o.task] = [op |-> "connect", port |-> o.port, id |-> o.id]
    BY <1>2 DEF TaskOK
  <2> QED BY <2>1
<1>3. NoRequest.op = "none"
  BY DEF NoRequest
<1> QED BY <1>1, <1>2, <1>3

LEMMA NextTyped ==
  ASSUME Typed, TaskOK, Next
  PROVE  Typed'
<1> USE WebAssumption, NamesAssumption DEF browser, state, loop, app, subvars, history
<1>0. /\ None \in Ids /\ Nobody \in Askers /\ Tasks \subseteq Askers
      /\ Inputs \subseteq Ports /\ Outputs \subseteq Ports
      /\ NoRequest \in Requests /\ NoGuard \in [port : Ports \cup {"none"}, id : Ids]
  BY DEF Ids, None, Askers, Ports, NoRequest, NoGuard, Requests
<1>1. CASE AccessGranted
  BY <1>0, <1>1 DEF AccessGranted, Typed, TypeOK
<1>2. CASE StartFails
  BY <1>0, <1>2, OnDropTyped DEF StartFails, Typed, TypeOK
<1>3. ASSUME NEW t \in Tasks, NEW p \in Ports, Connect(t, p) PROVE Typed'
  <2>1. requests + 1 \in Ids /\ requests' = requests + 1
    BY <1>3 DEF Connect, Ids, Typed, TypeOK
  <2>2. woken' = TRUE /\ cmds' \in Seq(Commands)
    BY <1>0, <1>3, <2>1, EnqueueTyped DEF Connect, Ask
  <2>3. [op |-> "connect", port |-> p, id |-> requests + 1] \in Requests \ {NoRequest}
    BY <2>1 DEF Requests, NoRequest
  <2> QED BY <1>0, <1>3, <2>1, <2>2, <2>3 DEF Connect, Ask, Typed, TypeOK, Requests, Commands
<1>4. ASSUME NEW t \in Tasks, Send(t) PROVE Typed'
  <2>1. holds[t].port \in Outputs
    BY <1>4 DEF Send
  <2>2. woken' = TRUE /\ cmds' \in Seq(Commands)
    BY <1>0, <1>4, <2>1, EnqueueTyped DEF Send, Ask
  <2>3. [op |-> "send", port |-> holds[t].port, id |-> None] \in Requests \ {NoRequest}
    BY <1>0, <2>1 DEF Requests, NoRequest
  <2> QED BY <1>0, <1>4, <2>1, <2>2, <2>3 DEF Send, Ask, Typed, TypeOK, Requests, Commands
<1>5. ASSUME NEW t \in Tasks, RequestDone(t) PROVE Typed'
  <2>1. holds' \in [Tasks -> [port : Ports \cup {"none"}, id : Ids]]
    BY <1>5 DEF RequestDone, Typed, TypeOK
  <2>2. /\ request' \in [Tasks -> Requests]
        /\ reply' \in [Tasks -> Results]
        /\ \A u \in Tasks : reply'[u] # "none" => request'[u] # NoRequest
    BY <1>0, <1>5 DEF RequestDone, Forget, Typed, TypeOK, Requests, Results
  <2> QED BY <1>5, <2>1, <2>2 DEF RequestDone, Typed, TypeOK, Requests
<1>6. ASSUME NEW t \in Tasks, Cancel(t) PROVE Typed'
  <2>1. /\ request' \in [Tasks -> Requests]
        /\ reply' \in [Tasks -> Results]
        /\ \A u \in Tasks : reply'[u] # "none" => request'[u] # NoRequest
    BY <1>0, <1>6 DEF Cancel, Forget, Typed, TypeOK, Requests, Results
  <2>2. cmds' \in Seq(Commands)
    <3>1. cmds \in Seq(Commands)
      BY DEF Typed, TypeOK, Commands
    <3>2. \A c \in Commands : [c EXCEPT !.task = Nobody] \in Commands
      BY <1>0 DEF Commands
    <3> HIDE DEF Commands
    <3>3. /\ DOMAIN cmds' = 1..Len(cmds) /\ Len(cmds) \in Nat
          /\ \A i \in 1..Len(cmds) : cmds'[i] \in Commands
      BY <1>6, <3>1, <3>2 DEF Cancel
    <3>4. cmds' = [i \in 1..Len(cmds) |-> cmds'[i]]
      BY <1>6, <3>1 DEF Cancel
    <3> QED BY <3>3, <3>4
  <2>3. opening' \subseteq Openings
    <3>1. opening \subseteq Openings
      BY DEF Typed, TypeOK, Openings
    <3>2. \A o \in Openings : [o EXCEPT !.task = Nobody] \in Openings
      BY <1>0 DEF Openings
    <3> HIDE DEF Openings
    <3> QED BY <1>6, <3>1, <3>2 DEF Cancel
  <2> QED BY <1>6, <2>1, <2>2, <2>3 DEF Cancel, Typed, TypeOK, Requests, Commands, Openings
<1>7. ASSUME NEW t \in Tasks, DropGuard(t) PROVE Typed'
  <2>1. woken' = TRUE /\ cmds' \in Seq(Commands)
    BY <1>0, <1>7, EnqueueTyped DEF DropGuard, Typed, TypeOK
  <2>2. /\ client' \in {"starting", "open", "detached", "dropped"} /\ callback' \in BOOLEAN
        /\ conn' \in [Ports -> Ids] /\ handler' \in [Inputs -> Ids]
        /\ opened' \subseteq Outputs
    BY <1>7, OnDropTyped DEF DropGuard, Typed, TypeOK
  <2>3. holds' \in [Tasks -> [port : Ports \cup {"none"}, id : Ids]]
    BY <1>0, <1>7 DEF DropGuard, Typed, TypeOK
  <2>4. UNCHANGED <<access, available, changed, plugs, opening, draining, request,
                    reply, requests, sub, known, lost, late>>
    BY <1>7 DEF DropGuard
  <2> QED BY <2>1, <2>2, <2>3, <2>4 DEF Typed, TypeOK, Commands
<1>8. CASE DropClient
  <2>1. /\ client' \in {"starting", "open", "detached", "dropped"} /\ callback' \in BOOLEAN
        /\ conn' \in [Ports -> Ids] /\ handler' \in [Inputs -> Ids]
        /\ opened' \subseteq Outputs
    BY <1>8, OnDropTyped DEF DropClient, Typed, TypeOK
  <2>2. UNCHANGED <<access, available, changed, plugs, opening, cmds, woken, draining,
                    request, reply, holds, requests, sub, known, lost, late>>
    BY <1>8 DEF DropClient
  <2> QED BY <2>1, <2>2 DEF Typed, TypeOK
<1>9. CASE Subscribe
  <2>1. woken' = TRUE /\ cmds' \in Seq(Commands)
    BY <1>0, <1>9, EnqueueTyped DEF Subscribe
  <2> QED BY <1>9, <2>1 DEF Subscribe, Typed, TypeOK, Commands
<1>10. CASE ProcessConnectSource
  <2> DEFINE cmd == Head(cmds)
  <2>1. /\ cmds' \in Seq(Commands) /\ woken' \in BOOLEAN /\ draining' \in BOOLEAN
        /\ cmd \in Commands /\ cmd.port \in Inputs /\ 1 \in DOMAIN cmds /\ cmds[1] = cmd
        /\ cmd.op = "connect"
    BY <1>10, TakenCommand DEF ProcessConnectSource
  <2>2. cmd.id \in Ids /\ cmd.task \in Askers
    BY <2>1 DEF Commands
  <2>3. cmd.task # Nobody => request[cmd.task] # NoRequest
    BY <2>1, RequestMade
  <2>4. Refusal(cmd.port) \in Results
    BY DEF Refusal, Results
  <2>5. /\ reply' \in [Tasks -> Results]
        /\ \A u \in Tasks : reply'[u] # "none" => request[u] # NoRequest
    <3>1. PICK r \in Results \ {"none"} : Reply(cmd.task, r)
      BY <1>10, <2>4 DEF ProcessConnectSource, Results
    <3> QED BY <2>2, <2>3, <3>1, ReplyTyped
  <2>6. conn' \in [Ports -> Ids] /\ handler' \in [Inputs -> Ids]
    BY <1>10, <2>2 DEF ProcessConnectSource, Typed, TypeOK
  <2>7. UNCHANGED <<access, available, opened, changed, plugs, callback, opening, client,
                    request, holds, requests, sub, known, lost, late>>
    BY <1>10 DEF ProcessConnectSource
  <2> QED BY <2>1, <2>5, <2>6, <2>7 DEF Typed, TypeOK, Commands
<1>11. CASE ProcessConnectDestination
  <2>1. /\ cmds' \in Seq(Commands) /\ woken' \in BOOLEAN /\ draining' \in BOOLEAN
        /\ Head(cmds) \in Commands /\ Head(cmds).port \in Outputs
    BY <1>11, TakenCommand DEF ProcessConnectDestination
  <2>2. opening' \subseteq Openings
    BY <1>11, <2>1 DEF ProcessConnectDestination, Openings, Commands, Typed, TypeOK
  <2>3. UNCHANGED <<browser, state, app, subvars, history>>
    BY <1>11 DEF ProcessConnectDestination
  <2> QED BY <2>1, <2>2, <2>3 DEF Typed, TypeOK, Commands, Openings
<1>12. CASE ProcessDisconnect
  <2>1. /\ cmds' \in Seq(Commands) /\ woken' \in BOOLEAN /\ draining' \in BOOLEAN
        /\ Head(cmds) \in Commands /\ Head(cmds).port \in Ports
    BY <1>12, TakenCommand DEF ProcessDisconnect
  <2>2. /\ conn' \in [Ports -> Ids] /\ handler' \in [Inputs -> Ids]
        /\ opened' \subseteq Outputs /\ changed' \subseteq Ports
    <3>1. changed \in SUBSET Ports
      BY DEF Typed, TypeOK
    <3> QED BY <1>12, <2>1, <3>1, DisconnectTyped DEF ProcessDisconnect
  <2>3. lost' \in [1..MaxRequests -> {"no", "cut", "replaced", "removed"}]
    BY <1>12, <2>1 DEF ProcessDisconnect, Typed, TypeOK
  <2>4. UNCHANGED <<access, available, plugs, callback, opening, client, request, reply,
                    holds, requests, sub, known, late>>
    BY <1>12 DEF ProcessDisconnect
  <2> QED BY <2>1, <2>2, <2>3, <2>4 DEF Typed, TypeOK, Commands
<1>13. CASE ProcessSend
  <2>1. /\ cmds' \in Seq(Commands) /\ woken' \in BOOLEAN /\ draining' \in BOOLEAN
        /\ Head(cmds) \in Commands /\ Head(cmds).op = "send"
        /\ 1 \in DOMAIN cmds /\ cmds[1] = Head(cmds)
    BY <1>13, TakenCommand DEF ProcessSend
  <2>2. Head(cmds).task \in Askers
    BY <2>1 DEF Commands
  <2>3. Head(cmds).task # Nobody => request[Head(cmds).task] # NoRequest
    BY <2>1, RequestMade
  <2>4. /\ reply' \in [Tasks -> Results]
        /\ \A u \in Tasks : reply'[u] # "none" => request[u] # NoRequest
    <3>1. PICK r \in Results \ {"none"} : Reply(Head(cmds).task, r)
      BY <1>13 DEF ProcessSend, Results
    <3> QED BY <2>2, <2>3, <3>1, ReplyTyped
  <2>5. UNCHANGED <<browser, state, opening, client, request, holds, requests, subvars,
                    history>>
    BY <1>13 DEF ProcessSend
  <2> QED BY <2>1, <2>4, <2>5 DEF Typed, TypeOK, Commands
<1>14. CASE ProcessList
  <2>1. cmds' \in Seq(Commands) /\ woken' \in BOOLEAN /\ draining' \in BOOLEAN
    BY <1>14, TakenCommand DEF ProcessList
  <2>2. known' \in [Watched -> {"unheard", "there", "gone"}]
    BY <1>14 DEF ProcessList, Typed, TypeOK
  <2> QED BY <1>14, <2>1, <2>2 DEF ProcessList, Typed, TypeOK, Commands
<1>15. ASSUME NEW o \in opening, OpenStarts(o) \/ OpenEnds(o) PROVE Typed'
  <2>1. o \in Openings /\ o.task \in Askers /\ o.port \in Outputs /\ o.id \in Ids
    BY DEF Typed, TypeOK, Openings
  <2>2. o.task # Nobody => request[o.task] # NoRequest
    BY RequestMade
  <2>3. /\ reply' \in [Tasks -> Results]
        /\ \A u \in Tasks : reply'[u] # "none" => request[u] # NoRequest
    <3>1. CASE UNCHANGED reply
      BY <3>1 DEF Typed, TypeOK
    <3>2. CASE \E r \in Results \ {"none"} : Reply(o.task, r)
      BY <2>1, <2>2, <3>2, ReplyTyped
    <3>3. Refusal(o.port) \in Results
      BY DEF Refusal, Results
    <3> QED BY <1>15, <3>1, <3>2, <3>3 DEF OpenStarts, OpenEnds, OpenResolves,
               OpenRejected, Results
  <2>4. opening' \subseteq Openings
    <3>1. opening \subseteq Openings /\ [o EXCEPT !.at = "awaiting"] \in Openings
      BY <2>1 DEF Typed, TypeOK, Openings
    <3> QED BY <1>15, <3>1 DEF OpenStarts, OpenEnds, OpenResolves, OpenRejected
  <2>5. /\ conn' \in [Ports -> Ids] /\ opened' \subseteq Outputs /\ changed' \subseteq Ports
        /\ lost' \in [1..MaxRequests -> {"no", "cut", "replaced", "removed"}]
        /\ late' \subseteq {"access"} \cup Outputs
    BY <1>0, <1>15, <2>1 DEF OpenStarts, OpenEnds, OpenResolves, OpenRejected, Typed, TypeOK
  <2>6. UNCHANGED <<access, available, handler, plugs, callback, cmds, woken, draining,
                    client, request, holds, requests, sub, known>>
    BY <1>15 DEF OpenStarts, OpenEnds, OpenResolves, OpenRejected
  <2> QED BY <2>3, <2>4, <2>5, <2>6 DEF Typed, TypeOK, Openings
<1>16. ASSUME NEW p \in Ports, Plug(p) PROVE Typed'
  <2>1. plugs' \in 0..MaxPlugs
    BY <1>16 DEF Plug, Typed, TypeOK
  <2> QED BY <1>16, <2>1 DEF Plug, Typed, TypeOK
<1>17. ASSUME NEW p \in Ports, StateChangeAdded(p) PROVE Typed'
  BY <1>17, HeardTyped DEF StateChangeAdded, Typed, TypeOK
<1>18. ASSUME NEW p \in Ports, StateChangeRemoved(p) PROVE Typed'
  <2>1. /\ conn' \in [Ports -> Ids] /\ handler' \in [Inputs -> Ids]
        /\ opened' \subseteq Outputs /\ changed' \subseteq Ports
    <3>1. changed \ {p} \in SUBSET Ports
      BY DEF Typed, TypeOK
    <3> QED BY <1>18, <3>1, DisconnectTyped DEF StateChangeRemoved
  <2>2. lost' \in [1..MaxRequests -> {"no", "cut", "replaced", "removed"}]
    BY <1>18 DEF StateChangeRemoved, Typed, TypeOK
  <2>3. known' \in [Watched -> {"unheard", "there", "gone"}]
    BY <1>18, HeardTyped DEF StateChangeRemoved, HeardRemoved
  <2>4. UNCHANGED <<access, available, plugs, callback, loop, app, sub, late>>
    BY <1>18 DEF StateChangeRemoved
  <2> QED BY <2>1, <2>2, <2>3, <2>4 DEF Typed, TypeOK
<1> QED BY <1>1, <1>2, <1>3, <1>4, <1>5, <1>6, <1>7, <1>8, <1>9, <1>10, <1>11, <1>12,
           <1>13, <1>14, <1>15, <1>16, <1>17, <1>18 DEF Next, Process

-----------------------------------------------------------------------------
(* The ports.                                                              *)

LEMMA InitPorts == Init => PortsOK
BY WebAssumption DEF Init, PortsOK, AccessOK, OpenOK, SubscriberOK, HearsConnected,
   RemovalSeen, Released, None, Ports

\* A step of the tasks and their commands alone.
LEMMA PortsKept ==
  ASSUME PortsOK, UNCHANGED <<access, available, opened, handler, changed, callback, conn,
                              client, sub, known, late>>,
         access # "granted" => \A o \in opening' : o.at # "awaiting"
  PROVE  PortsOK'
BY DEF PortsOK, AccessOK, OpenOK, SubscriberOK, Knows, HearsConnected, RemovalSeen, Released

\* After on_drop nothing is connected, open or called back.
LEMMA OnDropPorts ==
  ASSUME Typed, PortsOK, OnDrop, UNCHANGED <<available, changed, opening, sub, known, late>>,
         \/ UNCHANGED access
         \/ client = "starting" /\ access' \in {"asked", "refused"}
  PROVE  PortsOK'
<1>1. /\ client' = "dropped" /\ callback' = FALSE
      /\ \A p \in Ports : conn'[p] = None
      /\ \A i \in Inputs : handler'[i] = None
      /\ opened' = {}
  <2>1. \A i \in Inputs : handler[i] = conn[i]
    BY DEF PortsOK, HearsConnected
  <2>2. opened' = {}
    BY DEF OnDrop, PortsOK, OpenOK
  <2> QED BY <2>1, <2>2, OnDropTyped
<1>2. AccessOK' /\ OpenOK' /\ SubscriberOK'
  BY <1>1 DEF PortsOK, AccessOK, OpenOK, SubscriberOK
<1>3. HearsConnected' /\ RemovalSeen' /\ Released'
  BY <1>1 DEF Ports, HearsConnected, RemovalSeen, Released
<1> QED BY <1>2, <1>3 DEF PortsOK

\* A disconnect, after a removal or not, leaves the other ports alone.
LEMMA DisconnectPorts ==
  ASSUME Typed, PortsOK, NEW p \in Ports, NEW due \in SUBSET Ports, Disconnect(p, due),
         UNCHANGED <<access, available, callback, opening, client, sub, late>>,
         \/ due = changed /\ UNCHANGED known
         \/ /\ due = changed \ {p} /\ p \notin available
            /\ \A q \in Watched : known'[q] = IF q = p /\ sub # "none" THEN "gone"
                                              ELSE known[q]
  PROVE  PortsOK'
<1>1. /\ \A q \in Ports : conn'[q] = IF q = p THEN None ELSE conn[q]
      /\ \A i \in Inputs : handler'[i] = IF i = p /\ conn[p] # None THEN None
                                         ELSE handler[i]
      /\ opened' = (IF conn[p] = None THEN opened ELSE opened \ {p})
      /\ changed' = (IF conn[p] # None /\ p \in opened THEN due \cup {p} ELSE due)
  BY DisconnectTyped
<1>2. opened \subseteq Ports /\ Inputs \subseteq Ports /\ Watched \subseteq Ports
  BY WebAssumption DEF Typed, TypeOK, Ports
<1>3. AccessOK' /\ OpenOK' /\ HearsConnected' /\ RemovalSeen' /\ Released'
  BY <1>1, <1>2 DEF PortsOK, AccessOK, OpenOK, HearsConnected, RemovalSeen, Released
<1>4. SubscriberOK'
  BY <1>1, <1>2 DEF PortsOK, SubscriberOK, Knows
<1> QED BY <1>3, <1>4 DEF PortsOK

LEMMA NextPorts ==
  ASSUME Typed, PortsOK, TaskOK, PendingOK, Next
  PROVE  PortsOK'
<1> USE DEF browser, state, loop, app, subvars, history
<1>0. /\ Inputs \subseteq Ports /\ Outputs \subseteq Ports /\ Watched \subseteq Ports
      /\ opened \subseteq Outputs /\ \A o \in opening : o.port \in Outputs /\ o.id # None
      /\ Inputs \cap Outputs = {}
  <2>1. \A o \in opening : o.id # None
    BY DEF PendingOK, Pending, None
  <2> QED BY <2>1, WebAssumption DEF Ports, Typed, TypeOK
<1>1. CASE AccessGranted
  BY <1>1 DEF AccessGranted, PortsOK, AccessOK, OpenOK, SubscriberOK, HearsConnected,
              RemovalSeen, Released
<1>2. CASE StartFails
  BY <1>2, OnDropPorts DEF StartFails
<1>3. ASSUME NEW t \in Tasks,
             (\E p \in Ports : Connect(t, p)) \/ Send(t) \/ RequestDone(t)
      PROVE  PortsOK'
  BY <1>3, PortsKept DEF Connect, Send, Ask, RequestDone, PortsOK, AccessOK
<1>4. ASSUME NEW t \in Tasks, Cancel(t) PROVE PortsOK'
  <2>1. opening \subseteq Openings /\ \A o \in Openings : [o EXCEPT !.task = Nobody].at = o.at
    BY DEF Typed, TypeOK, Openings
  <2>2. \A o \in opening' : \E q \in opening : o.at = q.at
    BY <1>4, <2>1 DEF Cancel
  <2> QED BY <1>4, <2>2, PortsKept DEF Cancel, PortsOK, AccessOK
<1>5. ASSUME NEW t \in Tasks, DropGuard(t) PROVE PortsOK'
  <2>1. CASE OnDrop
    BY <1>5, <2>1, OnDropPorts DEF DropGuard
  <2>2. CASE UNCHANGED <<client, callback, conn, handler, opened>>
    BY <1>5, <2>2, PortsKept DEF DropGuard, PortsOK, AccessOK
  <2> QED BY <1>5, <2>1, <2>2 DEF DropGuard
<1>6. CASE DropClient
  <2>1. CASE OnDrop
    BY <1>6, <2>1, OnDropPorts DEF DropClient
  <2>2. CASE client' = "detached" /\ UNCHANGED <<callback, conn, handler, opened>>
    BY <1>6, <2>2 DEF DropClient, PortsOK, AccessOK, OpenOK, SubscriberOK, Knows,
       HearsConnected, RemovalSeen, Released
  <2> QED BY <1>6, <2>1, <2>2 DEF DropClient
<1>7. CASE Subscribe
  BY <1>7 DEF Subscribe, PortsOK, AccessOK, OpenOK, SubscriberOK, Knows,
     HearsConnected, RemovalSeen, Released
<1>8. CASE ProcessConnectSource
  <2> DEFINE p == Head(cmds).port
  <2>1. p \in Inputs /\ Head(cmds).id \in Ids
    BY <1>8, TakenCommand DEF ProcessConnectSource, Commands
  <2>2. UNCHANGED <<access, available, opened, changed, callback, opening, client, sub,
                    known, late>>
    BY <1>8 DEF ProcessConnectSource
  <2>3. CASE UNCHANGED <<handler, conn>>
    BY <2>2, <2>3, PortsKept DEF PortsOK, AccessOK
  <2>4. CASE Refusal(p) = "none"
    <3>1. access = "granted" /\ p \in available
      BY <2>4 DEF Refusal, HasAccess
    <3>2. /\ \A q \in Ports : conn'[q] = IF q = p THEN Head(cmds).id ELSE conn[q]
          /\ \A i \in Inputs : handler'[i] = IF i = p THEN Head(cmds).id ELSE handler[i]
      BY <1>8, <2>4 DEF ProcessConnectSource, Typed, TypeOK
    <3> QED BY <1>0, <2>1, <2>2, <3>1, <3>2 DEF PortsOK, AccessOK, OpenOK, SubscriberOK,
               Knows, HearsConnected, RemovalSeen, Released
  <2> QED BY <1>8, <2>3, <2>4 DEF ProcessConnectSource
<1>9. CASE ProcessConnectDestination
  BY <1>9, PortsKept DEF ProcessConnectDestination, PortsOK, AccessOK
<1>10. CASE ProcessDisconnect
  <2>1. Head(cmds).port \in Ports
    BY <1>10, TakenCommand DEF ProcessDisconnect
  <2>2. changed \in SUBSET Ports
    BY DEF Typed, TypeOK
  <2>3. /\ Disconnect(Head(cmds).port, changed)
        /\ UNCHANGED <<access, available, callback, opening, client, sub, known, late>>
    BY <1>10 DEF ProcessDisconnect
  <2> HIDE DEF browser, state, loop, app, subvars, history
  <2> QED BY <2>1, <2>2, <2>3, DisconnectPorts
<1>11. CASE ProcessSend
  BY <1>11, PortsKept DEF ProcessSend, PortsOK, AccessOK
<1>12. CASE ProcessList
  <2>1. UNCHANGED <<access, available, opened, handler, changed, callback, conn, opening,
                    client, late>>
    BY <1>12 DEF ProcessList
  <2>2. SubscriberOK' /\ sub # "none"
    <3>0. sub \in {"subscribed", "listed"}
      <4>1. 1 \in DOMAIN cmds /\ cmds[1].op = "list"
        BY <1>12, TakenCommand DEF ProcessList
      <4> QED BY <4>1 DEF TaskOK, Typed, TypeOK
    <3>1. callback => HasAccess
      BY DEF HasAccess, PortsOK, AccessOK, Released
    <3> QED BY <1>12, <2>1, <3>0, <3>1 DEF ProcessList, PortsOK, SubscriberOK, Knows
  <2> QED BY <1>12, <2>1, <2>2 DEF ProcessList, PortsOK, AccessOK, OpenOK, HearsConnected,
             RemovalSeen, Released
<1>13. ASSUME NEW o \in opening, OpenStarts(o) \/ OpenRejected(o) PROVE PortsOK'
  BY <1>13, PortsKept DEF OpenStarts, OpenRejected, Refusal, HasAccess, PortsOK, AccessOK
<1>14. ASSUME NEW o \in opening, OpenResolves(o) PROVE PortsOK'
  <2> DEFINE p == o.port
  <2>1. UNCHANGED <<access, available, handler, callback, client, sub, known>>
    BY <1>14 DEF OpenResolves
  <2>2. /\ p \in Outputs /\ o.id # None /\ access = "granted"
        /\ opening' \subseteq opening
        /\ \A q \in Ports : conn'[q] = IF q = p THEN o.id ELSE conn[q]
        /\ opened' = opened \cup {p}
        /\ changed' = (IF p \in opened THEN changed ELSE changed \cup {p})
        /\ late' = (IF client = "dropped" THEN late \cup {p} ELSE late)
    BY <1>0, <1>14 DEF OpenResolves, Typed, TypeOK, PortsOK, AccessOK
  <2> HIDE DEF p
  <2> QED BY <1>0, <2>1, <2>2 DEF PortsOK, AccessOK, OpenOK, SubscriberOK,
             Knows, HearsConnected, RemovalSeen, Released
<1>15. ASSUME NEW p \in Ports, Plug(p) PROVE PortsOK'
  BY <1>0, <1>15 DEF Plug, PortsOK, AccessOK, OpenOK, SubscriberOK, Knows, HearsConnected,
     RemovalSeen, Released
<1>16. ASSUME NEW p \in Ports, StateChangeAdded(p) PROVE PortsOK'
  <2>1. \A q \in Watched : known'[q] = IF q = p /\ sub # "none" THEN "there" ELSE known[q]
    BY <1>16, HeardTyped DEF StateChangeAdded
  <2>2. SubscriberOK'
    BY <1>16, <2>1 DEF StateChangeAdded, PortsOK, SubscriberOK, Knows
  <2> QED BY <1>0, <1>16, <2>2 DEF StateChangeAdded, PortsOK, AccessOK, OpenOK,
             HearsConnected, RemovalSeen, Released
<1>17. ASSUME NEW p \in Ports, StateChangeRemoved(p) PROVE PortsOK'
  <2>1. \A q \in Watched : known'[q] = IF q = p /\ sub # "none" THEN "gone" ELSE known[q]
    BY <1>17, HeardTyped DEF StateChangeRemoved, HeardRemoved
  <2>2. changed \ {p} \in SUBSET Ports /\ p \notin available
    BY <1>17 DEF StateChangeRemoved, Typed, TypeOK
  <2>3. /\ Disconnect(p, changed \ {p})
        /\ UNCHANGED <<access, available, callback, opening, client, sub, late>>
    BY <1>17 DEF StateChangeRemoved
  <2> HIDE DEF browser, state, loop, app, subvars, history
  <2> QED BY <2>1, <2>2, <2>3, DisconnectPorts
<1> QED BY <1>1, <1>2, <1>3, <1>4, <1>5, <1>6, <1>7, <1>8, <1>9, <1>10, <1>11, <1>12,
           <1>13, <1>14, <1>15, <1>16, <1>17 DEF Next, Process, OpenEnds

-----------------------------------------------------------------------------
(* The connections.                                                        *)

LEMMA OwnersAre ==
  ASSUME NEW p \in Ports, NEW id
  PROVE  id \in Owners(p) <=> \/ \E t \in Tasks : Claims(t, p, id)
                              \/ \E i \in DOMAIN cmds : Closes(i, p, id)
BY DEF Owners, Holders, Claims, Closes

LEMMA OwnersAreNext ==
  ASSUME NEW p \in Ports, NEW id
  PROVE  id \in Owners(p)' <=> \/ \E t \in Tasks : Claims(t, p, id)'
                               \/ \E i \in DOMAIN cmds' : Closes(i, p, id)'
BY DEF Owners, Holders, Claims, Closes

LEMMA InitLedger == Init => Ledger
<1> SUFFICES ASSUME Init PROVE Ledger
  OBVIOUS
<1>1. /\ cmds = <<>> /\ opening = {} /\ requests = 0
      /\ \A p \in Ports : conn[p] = 0
      /\ \A p \in Ports, t \in Tasks : \A id : ~Claims(t, p, id)
  BY NamesAssumption DEF Init, None, Claims, NoGuard, NoRequest
<1>2. \A p \in Ports : Owners(p) = {}
  BY <1>1, OwnersAre
<1> QED BY <1>1, <1>2 DEF Ledger, TaskOK, PendingOK, Pending, Connects, OwnerOK, OwnsOrLost

\* Two commands that are the same but for whom they answer.
Alike(c, d) == c.op = d.op /\ c.port = d.port /\ c.id = d.id

\* No connection is made, and one that goes is noted down as lost.
Loosened ==
  /\ \A p \in Ports : conn'[p] \in {conn[p], None}
  /\ client' # "dropped" => client # "dropped"
  /\ \A id \in 1..MaxRequests :
       \/ lost'[id] = lost[id]
       \/ lost'[id] \in {"cut", "removed"}
  /\ client' # "dropped" =>
       \A p \in Ports : conn'[p] # conn[p] => \/ lost'[conn[p]] \in {"cut", "removed"}
                                              \/ conn[p] \notin Owners(p)'

\* A step that gives nobody a connection: the claims are among those there were, and
\* the disconnects too, k places ahead.
LEMMA OwnersFewer ==
  ASSUME Typed, Typed', OwnerOK, OwnsOrLost, Loosened,
         requests' \in {requests, requests + 1}, NEW k \in {0, 1},
         \A t \in Tasks, p \in Ports : \A id : Claims(t, p, id)' => Claims(t, p, id),
         \A i \in DOMAIN cmds' : cmds'[i].op = "disconnect" =>
           i + k \in DOMAIN cmds /\ Alike(cmds'[i], cmds[i + k])
  PROVE  /\ OwnerOK' /\ OwnsOrLost'
         /\ \A p \in Ports : Owners(p)' \subseteq Owners(p)
<1>1. \A i \in DOMAIN cmds', p \in Ports : \A id :
        Closes(i, p, id)' => i + k \in DOMAIN cmds /\ Closes(i + k, p, id)
  BY DEF Closes, Alike
<1>2. \A p \in Ports : \A id : id \in Owners(p)' => id \in Owners(p)
  BY <1>1, OwnersAre, OwnersAreNext
<1>3. requests \in Nat /\ requests <= MaxRequests /\ None = 0
      /\ DOMAIN cmds' \subseteq Nat /\ DOMAIN cmds \subseteq Nat
  BY WebAssumption DEF Typed, TypeOK, Ids, None
<1>4. OwnerOK'
  <2>1. \A p \in Ports : conn'[p] \in 0..requests'
    BY <1>3 DEF OwnerOK, Loosened
  <2>2. ASSUME NEW p \in Ports, NEW id \in Owners(p)'
        PROVE  id \in 1..requests' /\ \A q \in Ports : conn'[q] = id => q = p
    BY <1>2, <1>3, <2>2 DEF OwnerOK, Loosened
  <2>3. ASSUME NEW p \in Ports, NEW q \in Ports, NEW id \in 1..requests'
        PROVE  /\ \A t, u \in Tasks : Claims(t, p, id)' /\ Claims(u, q, id)' => t = u
               /\ \A i, j \in DOMAIN cmds' : Closes(i, p, id)' /\ Closes(j, q, id)' => i = j
               /\ \A t \in Tasks, i \in DOMAIN cmds' :
                    ~(Claims(t, p, id)' /\ Closes(i, q, id)')
    <3>0. \/ id \in 1..requests
          \/ \A r \in Ports : id \notin Owners(r)
      BY DEF OwnerOK
    <3>1. ASSUME NEW i \in DOMAIN cmds', NEW j \in DOMAIN cmds',
                 Closes(i, p, id)', Closes(j, q, id)'
          PROVE  i = j
      <4>1. i + k = j + k
        BY <1>1, <3>0, <3>1, OwnersAre DEF OwnerOK
      <4> QED BY <1>3, <4>1
    <3>2. ASSUME NEW t \in Tasks, NEW i \in DOMAIN cmds',
                 Claims(t, p, id)', Closes(i, q, id)'
          PROVE  FALSE
      BY <1>1, <3>0, <3>2, OwnersAre DEF OwnerOK
    <3>3. \A t, u \in Tasks : Claims(t, p, id)' /\ Claims(u, q, id)' => t = u
      BY <3>0, OwnersAre DEF OwnerOK
    <3> QED BY <3>1, <3>2, <3>3
  <2> QED BY <2>1, <2>2, <2>3 DEF OwnerOK
<1>5. OwnsOrLost'
  <2> SUFFICES ASSUME client' # "dropped", NEW p \in Ports, NEW id \in Owners(p)'
               PROVE  \/ conn'[p] = id
                      \/ lost'[id] \in {"cut", "removed"}
                      \/ lost'[id] = "replaced" /\ p \in Outputs
    BY DEF OwnsOrLost
  <2>1. id \in Owners(p) /\ id \in 1..MaxRequests
    <3>1. id \in Owners(p)
      BY <1>2
    <3>2. id \in 1..requests
      BY <3>1 DEF OwnerOK
    <3> QED BY <1>3, <3>1, <3>2, WebAssumption
  <2> QED BY <2>1 DEF OwnsOrLost, Loosened
<1> QED BY <1>2, <1>4, <1>5

\* Nor does it start a connect.
LEMMA PendingFewer ==
  ASSUME Typed, Typed', PendingOK, OwnerOK, Loosened,
         requests' \in {requests, requests + 1},
         NEW k \in {0, 1},
         \A i \in DOMAIN cmds' : cmds'[i].op = "connect" =>
           i + k \in DOMAIN cmds /\ Alike(cmds'[i], cmds[i + k]),
         \A o \in opening' : \E q \in opening : q.id = o.id,
         \A o, q \in opening' : o.id = q.id => o = q,
         \A p \in Ports : Owners(p)' \subseteq Owners(p)
  PROVE  PendingOK'
<1>1. DOMAIN cmds' \subseteq Nat /\ DOMAIN cmds \subseteq Nat /\ requests \in Nat
  BY DEF Typed, TypeOK, Ids
<1>2. \A i \in Connects' : i + k \in Connects /\ cmds'[i].id = cmds[i + k].id
  BY DEF Connects, Alike
<1>3. \A i, j \in Connects' : cmds'[i].id = cmds'[j].id => i = j
  <2> SUFFICES ASSUME NEW i \in Connects', NEW j \in Connects',
                      cmds'[i].id = cmds'[j].id
               PROVE  i = j
    OBVIOUS
  <2>1. i + k = j + k
    BY <1>2 DEF PendingOK
  <2> QED BY <1>1, <2>1 DEF Connects
<1>4. \A i \in Connects', o \in opening' : cmds'[i].id # o.id
  BY <1>2 DEF PendingOK
<1>5. \A id \in Pending' : id \in Pending
  BY <1>2 DEF Pending
<1>6. \A id \in Pending' : /\ id \in 1..requests'
                           /\ \A p \in Ports : conn'[p] # id /\ id \notin Owners(p)'
  <2>1. None = 0
    BY DEF None
  <2> QED BY <1>1, <1>5, <2>1 DEF PendingOK, Loosened
<1> QED BY <1>3, <1>4, <1>6 DEF PendingOK

\* Nor does it ask for anything: what is under way was so before, for the same task
\* or for nobody any more.
LEMMA TaskFewer ==
  ASSUME Typed, Typed', TaskOK, sub # "none" => sub' # "none",
         NEW k \in {0, 1},
         \A i \in DOMAIN cmds' : /\ i + k \in DOMAIN cmds /\ Alike(cmds'[i], cmds[i + k])
                                 /\ cmds'[i].task \in {cmds[i + k].task, Nobody},
         \A o \in opening' : \E q \in opening : /\ q.id = o.id /\ q.port = o.port
                                                /\ o.task \in {q.task, Nobody},
         \A o, q \in opening' : o.task = q.task /\ o.task # Nobody => o = q,
         \A i \in DOMAIN cmds' : cmds'[i].task # Nobody =>
           /\ request'[cmds'[i].task] = request[cmds'[i].task]
           /\ reply'[cmds'[i].task] = reply[cmds'[i].task],
         \A o \in opening' : o.task # Nobody =>
           request'[o.task] = request[o.task] /\ reply'[o.task] = reply[o.task]
  PROVE  TaskOK'
<1>1. DOMAIN cmds' \subseteq Nat /\ DOMAIN cmds \subseteq Nat
  BY DEF Typed, TypeOK
<1>2. ASSUME NEW i \in DOMAIN cmds'
      PROVE  /\ cmds'[i].op = "disconnect" => cmds'[i].task = Nobody
             /\ cmds'[i].op = "list" => cmds'[i].task = Nobody /\ sub' # "none"
             /\ cmds'[i].task # Nobody =>
                  /\ reply'[cmds'[i].task] = "none"
                  /\ request'[cmds'[i].task] =
                       [op |-> cmds'[i].op, port |-> cmds'[i].port, id |-> cmds'[i].id]
  BY DEF TaskOK, Alike
<1>3. ASSUME NEW o \in opening', o.task # Nobody
      PROVE  /\ reply'[o.task] = "none"
             /\ request'[o.task] = [op |-> "connect", port |-> o.port, id |-> o.id]
  BY <1>3 DEF TaskOK
<1>4. ASSUME NEW i \in DOMAIN cmds', NEW j \in DOMAIN cmds',
             cmds'[i].task = cmds'[j].task, cmds'[i].task # Nobody
      PROVE  i = j
  <2>1. i + k = j + k
    BY <1>4 DEF TaskOK
  <2> QED BY <1>1, <2>1
<1>5. ASSUME NEW i \in DOMAIN cmds', NEW o \in opening', cmds'[i].task = o.task
      PROVE  o.task = Nobody
  BY <1>5 DEF TaskOK
<1> QED BY <1>2, <1>3, <1>4, <1>5 DEF TaskOK

\* A task that waits for nothing asks, or nobody does.
LEMMA TaskAppended ==
  ASSUME Typed, TaskOK, NEW cmd \in Commands, cmds' = Append(cmds, cmd),
         UNCHANGED opening, sub # "none" => sub' # "none",
         cmd.op = "disconnect" => cmd.task = Nobody,
         cmd.op = "list" => cmd.task = Nobody /\ sub' # "none",
         cmd.task # Nobody =>
           /\ request[cmd.task] = NoRequest /\ reply'[cmd.task] = "none"
           /\ request'[cmd.task] = [op |-> cmd.op, port |-> cmd.port, id |-> cmd.id],
         \A t \in Tasks \ {cmd.task} : request'[t] = request[t] /\ reply'[t] = reply[t]
  PROVE  TaskOK'
<1>1. cmds \in Seq(Commands)
  BY DEF Typed, TypeOK, Commands
<1>2. /\ DOMAIN cmds' = DOMAIN cmds \cup {Len(cmds')} /\ Len(cmds') \notin DOMAIN cmds
      /\ cmds'[Len(cmds')] = cmd
      /\ \A i \in DOMAIN cmds : cmds'[i] = cmds[i]
  BY <1>1, AppendedCommand
<1>3. /\ \A i \in DOMAIN cmds : cmds[i].task \in Tasks \cup {Nobody}
      /\ \A o \in opening : o.task \in Tasks \cup {Nobody}
  <2>1. \A i \in DOMAIN cmds : cmds[i] \in Commands
    BY <1>1
  <2> QED BY <2>1 DEF Commands, Askers, Typed, TypeOK
<1>4. cmd.task # Nobody => /\ \A i \in DOMAIN cmds : cmds[i].task # cmd.task
                           /\ \A o \in opening : o.task # cmd.task
  <2>1. \A i \in DOMAIN cmds : cmds[i].op \in {"connect", "disconnect", "send", "list"}
    <3>1. \A i \in DOMAIN cmds : cmds[i] \in Commands
      BY <1>1
    <3> QED BY <3>1 DEF Commands
  <2>2. \A i \in DOMAIN cmds : cmds[i].task # Nobody => request[cmds[i].task] # NoRequest
    BY <2>1, RequestMade DEF TaskOK
  <2> QED BY <2>2, RequestMade
<1>5. ASSUME NEW i \in DOMAIN cmds'
      PROVE  /\ cmds'[i].op = "disconnect" => cmds'[i].task = Nobody
             /\ cmds'[i].op = "list" => cmds'[i].task = Nobody /\ sub' # "none"
             /\ cmds'[i].task # Nobody =>
                  /\ reply'[cmds'[i].task] = "none"
                  /\ request'[cmds'[i].task] =
                       [op |-> cmds'[i].op, port |-> cmds'[i].port, id |-> cmds'[i].id]
  <2>1. CASE i = Len(cmds')
    BY <1>2, <2>1
  <2>2. CASE i \in DOMAIN cmds
    BY <1>2, <1>3, <1>4, <2>2 DEF TaskOK
  <2> QED BY <1>2, <2>1, <2>2
<1>6. ASSUME NEW o \in opening', o.task # Nobody
      PROVE  /\ reply'[o.task] = "none"
             /\ request'[o.task] = [op |-> "connect", port |-> o.port, id |-> o.id]
  BY <1>3, <1>4, <1>6 DEF TaskOK
<1>7. \A i, j \in DOMAIN cmds' : cmds'[i].task = cmds'[j].task /\ cmds'[i].task # Nobody => i = j
  BY <1>2, <1>4 DEF TaskOK
<1>8. \A i \in DOMAIN cmds', o \in opening' : cmds'[i].task = o.task => o.task = Nobody
  BY <1>2, <1>4 DEF TaskOK
<1>9. \A o, q \in opening' : o.task = q.task /\ o.task # Nobody => o = q
  BY DEF TaskOK
<1> QED BY <1>5, <1>6, <1>7, <1>8, <1>9 DEF TaskOK

\* A connect that is made: the connection is no longer under way, its task answers for
\* it if it still waits, and the one it replaces is noted down.
LEMMA Granted ==
  ASSUME Typed, Typed', Ledger, NEW p \in Ports, NEW id \in Pending, NEW t \in Askers,
         NEW k \in {0, 1},
         conn' = [conn EXCEPT ![p] = id], Reply(t, "ok"),
         UNCHANGED <<request, holds, requests, client>>,
         t # Nobody => /\ request[t].op = "connect" /\ request[t].port = p
                       /\ request[t].id = id /\ reply[t] = "none",
         \A i \in DOMAIN cmds' : i + k \in DOMAIN cmds /\ Alike(cmds'[i], cmds[i + k]),
         opening' \subseteq opening,
         id \notin Pending',
         \/ conn[p] = None /\ UNCHANGED lost
         \/ conn[p] # None /\ p \in Outputs /\ lost' = [lost EXCEPT ![conn[p]] = "replaced"]
  PROVE  PendingOK' /\ OwnerOK' /\ OwnsOrLost'
<1> USE DEF Ledger
<1>1. /\ DOMAIN cmds' \subseteq Nat /\ DOMAIN cmds \subseteq Nat /\ None = 0
      /\ requests \in Nat /\ requests <= MaxRequests
  BY WebAssumption, SMTT(30) DEF Typed, TypeOK, Ids, None
<1>2. /\ id \in 1..requests /\ id # None
      /\ \A q \in Ports : conn[q] # id /\ id \notin Owners(q)
  BY <1>1 DEF PendingOK
<1>3. \A q \in Ports : conn'[q] = IF q = p THEN id ELSE conn[q]
  BY DEF Typed, TypeOK
<1>4. \A u \in Tasks, q \in Ports : \A m :
        Claims(u, q, m)' => Claims(u, q, m) \/ (u = t /\ q = p /\ m = id)
  BY NamesAssumption DEF Claims, Reply, Typed, TypeOK, Askers
<1>5. \A i \in DOMAIN cmds', q \in Ports : \A m :
        Closes(i, q, m)' => i + k \in DOMAIN cmds /\ Closes(i + k, q, m)
  BY DEF Closes, Alike
<1>6. \A q \in Ports : \A m : m \in Owners(q)' => m \in Owners(q) \/ (q = p /\ m = id)
  BY <1>4, <1>5, OwnersAre, OwnersAreNext
<1>7. \A i \in Connects' : i + k \in Connects /\ cmds'[i].id = cmds[i + k].id
  BY DEF Connects, Alike
<1>8. PendingOK'
  <2>1. \A i, j \in Connects' : cmds'[i].id = cmds'[j].id => i = j
    <3> SUFFICES ASSUME NEW i \in Connects', NEW j \in Connects',
                        cmds'[i].id = cmds'[j].id
                 PROVE  i = j
      OBVIOUS
    <3>1. i + k = j + k
      BY <1>7 DEF PendingOK
    <3> QED BY <1>1, <3>1 DEF Connects
  <2>2. \A i \in Connects', o \in opening' : cmds'[i].id # o.id
    BY <1>7 DEF PendingOK
  <2>3. \A m \in Pending' : m \in Pending /\ m # id
    BY <1>7 DEF Pending
  <2>4. \A m \in Pending' : /\ m \in 1..requests'
                            /\ \A q \in Ports : conn'[q] # m /\ m \notin Owners(q)'
    BY <1>3, <1>6, <2>3 DEF PendingOK
  <2>5. \A o, q \in opening' : o.id = q.id => o = q
    BY DEF PendingOK
  <2> QED BY <2>1, <2>2, <2>4, <2>5 DEF PendingOK
<1>9. OwnerOK'
  <2>1. \A q \in Ports : conn'[q] \in 0..requests'
    BY <1>1, <1>2, <1>3 DEF OwnerOK
  <2>2. ASSUME NEW q \in Ports, NEW m \in Owners(q)'
        PROVE  m \in 1..requests' /\ \A r \in Ports : conn'[r] = m => r = q
    <3>1. CASE m \in Owners(q)
      BY <1>2, <1>3, <3>1 DEF OwnerOK
    <3>2. CASE q = p /\ m = id
      BY <1>2, <1>3, <3>2
    <3> QED BY <1>6, <3>1, <3>2
  <2>3. ASSUME NEW q \in Ports, NEW r \in Ports, NEW m \in 1..requests'
        PROVE  /\ \A u, v \in Tasks : Claims(u, q, m)' /\ Claims(v, r, m)' => u = v
               /\ \A i, j \in DOMAIN cmds' : Closes(i, q, m)' /\ Closes(j, r, m)' => i = j
               /\ \A u \in Tasks, i \in DOMAIN cmds' :
                    ~(Claims(u, q, m)' /\ Closes(i, r, m)')
    <3>1. \A u \in Tasks, i \in DOMAIN cmds, s \in Ports : ~Claims(u, s, id) /\ ~Closes(i, s, id)
      BY <1>2, OwnersAre
    <3>2. ASSUME NEW u \in Tasks, NEW v \in Tasks, Claims(u, q, m)', Claims(v, r, m)'
          PROVE  u = v
      <4>1. CASE m = id
        <5>1. ~Claims(u, q, id) /\ ~Claims(v, r, id)
          BY <1>2, OwnersAre
        <5> QED BY <1>4, <3>2, <4>1, <5>1
      <4>2. CASE m # id
        <5>1. Claims(u, q, m) /\ Claims(v, r, m)
          BY <1>4, <3>2, <4>2
        <5> QED BY <5>1 DEF OwnerOK
      <4> QED BY <4>1, <4>2
    <3>3. ASSUME NEW i \in DOMAIN cmds', NEW j \in DOMAIN cmds',
                 Closes(i, q, m)', Closes(j, r, m)'
          PROVE  i = j
      <4>1. i + k = j + k
        BY <1>5, <3>3 DEF OwnerOK
      <4> QED BY <1>1, <4>1
    <3>4. ASSUME NEW u \in Tasks, NEW i \in DOMAIN cmds',
                 Claims(u, q, m)', Closes(i, r, m)'
          PROVE  FALSE
      BY <1>4, <1>5, <3>1, <3>4 DEF OwnerOK
    <3> QED BY <3>2, <3>3, <3>4
  <2> QED BY <2>1, <2>2, <2>3 DEF OwnerOK
<1>10. OwnsOrLost'
  <2> SUFFICES ASSUME client' # "dropped", NEW q \in Ports, NEW m \in Owners(q)'
               PROVE  \/ conn'[q] = m
                      \/ lost'[m] \in {"cut", "removed"}
                      \/ lost'[m] = "replaced" /\ q \in Outputs
    BY DEF OwnsOrLost
  <2>1. CASE q = p /\ m = id
    BY <1>3, <2>1
  <2>2. CASE m \in Owners(q)
    <3>1. /\ m \in 1..requests /\ \A r \in Ports : conn[r] = m => r = q
      BY <2>2 DEF OwnerOK
    <3>2. m \in 1..MaxRequests /\ m # None
      BY <1>1, <3>1, WebAssumption
    <3>3. \/ conn[q] = m
          \/ lost[m] \in {"cut", "removed"}
          \/ lost[m] = "replaced" /\ q \in Outputs
      BY <2>2 DEF OwnsOrLost
    <3>4. lost'[m] = IF conn[p] = m THEN "replaced" ELSE lost[m]
      BY <3>2 DEF Typed, TypeOK
    <3>5. conn[p] = m => q = p /\ p \in Outputs
      BY <3>1, <3>2
    <3> QED BY <1>3, <3>3, <3>4, <3>5
  <2> QED BY <1>6, <2>1, <2>2
<1> QED BY <1>8, <1>9, <1>10

\* All of it together, for a step that asks for nothing and gives nobody a connection.
LEMMA LedgerFewer ==
  ASSUME Typed, Typed', Ledger, Loosened, UNCHANGED requests,
         sub # "none" => sub' # "none",
         NEW k \in {0, 1},
         \A t \in Tasks, p \in Ports : \A id : Claims(t, p, id)' => Claims(t, p, id),
         \A i \in DOMAIN cmds' : /\ i + k \in DOMAIN cmds /\ Alike(cmds'[i], cmds[i + k])
                                 /\ cmds'[i].task \in {cmds[i + k].task, Nobody},
         \A o \in opening' : \E q \in opening : /\ q.id = o.id /\ q.port = o.port
                                                /\ o.task \in {q.task, Nobody},
         \A o, q \in opening' : o.id = q.id \/ (o.task = q.task /\ o.task # Nobody) => o = q,
         \A i \in DOMAIN cmds' : cmds'[i].task # Nobody =>
           /\ request'[cmds'[i].task] = request[cmds'[i].task]
           /\ reply'[cmds'[i].task] = reply[cmds'[i].task],
         \A o \in opening' : o.task # Nobody =>
           request'[o.task] = request[o.task] /\ reply'[o.task] = reply[o.task]
  PROVE  Ledger'
<1> USE DEF Ledger
<1>1. /\ \A i \in DOMAIN cmds' : i + k \in DOMAIN cmds /\ Alike(cmds'[i], cmds[i + k])
      /\ \A o \in opening' : \E q \in opening : q.id = o.id
      /\ \A o, q \in opening' : o.id = q.id => o = q
      /\ \A o, q \in opening' : o.task = q.task /\ o.task # Nobody => o = q
  OBVIOUS
<1>2. TaskOK'
  BY <1>1, TaskFewer
<1>3. OwnerOK' /\ OwnsOrLost' /\ \A p \in Ports : Owners(p)' \subseteq Owners(p)
  BY <1>1, OwnersFewer
<1>4. PendingOK'
  BY <1>1, <1>3, PendingFewer
<1> QED BY <1>2, <1>3, <1>4

\* A step of the browser, of the client's end or of a change.
LEMMA LedgerLoosened ==
  ASSUME Typed, Typed', Ledger, Loosened,
         UNCHANGED <<cmds, opening, request, reply, holds, requests>>,
         sub # "none" => sub' # "none"
  PROVE  Ledger'
<1>1. \A t \in Tasks, p \in Ports : \A id : Claims(t, p, id)' => Claims(t, p, id)
  BY DEF Claims
<1>2. \A i \in DOMAIN cmds : i + 0 = i
  BY DEF Typed, TypeOK
<1>3. \A i \in DOMAIN cmds' : /\ i + 0 \in DOMAIN cmds /\ Alike(cmds'[i], cmds[i + 0])
                              /\ cmds'[i].task \in {cmds[i + 0].task, Nobody}
  BY <1>2 DEF Alike
<1>4. \A o, q \in opening' : o.id = q.id \/ (o.task = q.task /\ o.task # Nobody) => o = q
  BY DEF Ledger, TaskOK, PendingOK
<1> QED BY <1>1, <1>3, <1>4, LedgerFewer

\* Nothing that concerns the connections changes.
LEMMA LoosenedSame ==
  ASSUME Typed, UNCHANGED <<conn, lost>>, client' # "dropped" => client # "dropped"
  PROVE  Loosened
BY DEF Loosened

LEMMA LoosenedOnDrop ==
  ASSUME Typed, OnDrop, UNCHANGED lost
  PROVE  Loosened
BY OnDropTyped DEF Loosened

LEMMA ConnectLedger ==
  ASSUME Typed, Typed', Ledger, NEW t \in Tasks, NEW p \in Ports, Connect(t, p)
  PROVE  Ledger'
<1> USE DEF Ledger
<1> DEFINE id  == requests + 1
           cmd == Command("connect", p, id, t)
<1>1. /\ requests \in Nat /\ requests' = id /\ id \in Ids
      /\ DOMAIN cmds \subseteq Nat /\ t # Nobody
  BY NamesAssumption, WebAssumption DEF Connect, Typed, TypeOK, Ids, Nobody
<1>2. /\ cmd \in Commands /\ cmds' = Append(cmds, cmd) /\ cmds \in Seq(Commands)
      /\ cmd.op = "connect" /\ cmd.port = p /\ cmd.id = id /\ cmd.task = t
  <2>1. Enqueue(cmd) /\ p \in Ports \cup {"none"} /\ t \in Askers
    BY DEF Connect, Ask, Askers
  <2> QED BY <1>1, <2>1, EnqueueTyped DEF Command
<1>3. /\ request[t] = NoRequest /\ reply[t] = "none"
      /\ request' = [request EXCEPT ![t] = [op |-> "connect", port |-> p, id |-> id]]
      /\ UNCHANGED <<conn, opening, client, reply, holds, sub, lost>>
  BY DEF Connect, Ask, browser, state, subvars, history, Typed, TypeOK
<1> HIDE DEF cmd
<1>4. TaskOK'
  <2>1. /\ request'[t] = [op |-> "connect", port |-> p, id |-> id]
        /\ \A u \in Tasks \ {t} : request'[u] = request[u]
    BY <1>3 DEF Typed, TypeOK
  <2> QED BY <1>2, <1>3, <2>1, TaskAppended
<1>5. /\ DOMAIN cmds' = DOMAIN cmds \cup {Len(cmds')} /\ Len(cmds') \notin DOMAIN cmds
      /\ cmds'[Len(cmds')] = cmd
      /\ \A i \in DOMAIN cmds : cmds'[i] = cmds[i] /\ i + 0 = i
  BY <1>1, <1>2, AppendedCommand
<1>6. OwnerOK' /\ OwnsOrLost' /\ \A q \in Ports : Owners(q)' \subseteq Owners(q)
  <2>1. \A u \in Tasks, q \in Ports : \A m : Claims(u, q, m)' => Claims(u, q, m)
    BY <1>3 DEF Claims, Typed, TypeOK
  <2>2. \A i \in DOMAIN cmds' : cmds'[i].op = "disconnect" =>
          i + 0 \in DOMAIN cmds /\ Alike(cmds'[i], cmds[i + 0])
    BY <1>2, <1>5 DEF Alike
  <2> QED BY <1>1, <1>3, <2>1, <2>2, LoosenedSame, OwnersFewer
<1>7. PendingOK'
  <2>1. \A m \in Pending : m \in 1..requests /\ m # id
    BY <1>1 DEF PendingOK
  <2>2. \A m \in Pending' : m \in Pending \/ m = id
    BY <1>2, <1>3, <1>5 DEF Pending, Connects
  <2>3. \A q \in Ports : conn'[q] # id /\ id \notin Owners(q)'
    BY <1>1, <1>3, <1>6 DEF OwnerOK
  <2>4. /\ \A i \in Connects : cmds[i].id # id
        /\ \A o \in opening : o.id # id
    BY <2>1 DEF Pending
  <2>5. \A i \in Connects' : \/ i \in Connects /\ cmds'[i].id = cmds[i].id
                             \/ i = Len(cmds') /\ cmds'[i].id = id
    BY <1>2, <1>5 DEF Connects
  <2>7. \A i, j \in Connects' : cmds'[i].id = cmds'[j].id => i = j
    <3> TAKE i, j \in Connects'
    <3>1. CASE i \in Connects /\ j \in Connects
      BY <2>4, <2>5, <3>1 DEF PendingOK
    <3> QED BY <2>4, <2>5, <3>1
  <2>8. \A i \in Connects', o \in opening' : cmds'[i].id # o.id
    BY <1>3, <2>4, <2>5 DEF PendingOK
  <2>9. \A m \in Pending' : /\ m \in 1..requests'
                            /\ \A q \in Ports : conn'[q] # m /\ m \notin Owners(q)'
    <3> TAKE m \in Pending'
    <3>2. CASE m = id
      BY <1>1, <2>3, <3>2
    <3>3. CASE m \in Pending
      BY <1>1, <1>3, <1>6, <2>1, <3>3 DEF PendingOK
    <3> QED BY <2>2, <3>2, <3>3
  <2> QED BY <1>3, <2>7, <2>8, <2>9 DEF PendingOK
<1> QED BY <1>4, <1>6, <1>7

\* A send and the list of ports concern no connection of their own.
LEMMA AskedLedger ==
  ASSUME Typed, Typed', Ledger,
         (\E t \in Tasks : Send(t)) \/ Subscribe
  PROVE  Ledger'
<1> USE DEF Ledger
<1>1. PICK cmd \in Commands :
        /\ cmds' = Append(cmds, cmd) /\ cmd.op \in {"send", "list"}
        /\ cmd.op = "list" => cmd.task = Nobody /\ sub' # "none"
        /\ \/ cmd.task = Nobody /\ UNCHANGED request
           \/ /\ cmd.task \in Tasks /\ request[cmd.task] = NoRequest /\ cmd.op = "send"
              /\ request' = [request EXCEPT ![cmd.task] =
                              [op |-> cmd.op, port |-> cmd.port, id |-> cmd.id]]
  <2>0. /\ None \in Ids /\ Nobody \in Askers /\ Tasks \subseteq Askers
        /\ Outputs \subseteq Ports
    BY WebAssumption DEF Ids, None, Askers, Ports
  <2>1. ASSUME NEW t \in Tasks, Send(t)
        PROVE  /\ Command("send", holds[t].port, None, t) \in Commands
               /\ cmds' = Append(cmds, Command("send", holds[t].port, None, t))
               /\ request[t] = NoRequest
               /\ request' = [request EXCEPT ![t] = [op |-> "send", port |-> holds[t].port,
                                                     id |-> None]]
    <3>1. holds[t].port \in Ports \cup {"none"}
      BY <2>0, <2>1 DEF Send
    <3> QED BY <2>0, <2>1, <3>1, EnqueueTyped DEF Send, Ask
  <2>2. ASSUME Subscribe
        PROVE  /\ Command("list", "none", None, Nobody) \in Commands
               /\ cmds' = Append(cmds, Command("list", "none", None, Nobody))
               /\ sub' # "none" /\ UNCHANGED request
    BY <2>0, <2>2, EnqueueTyped DEF Subscribe, app
  <2>3. CASE \E t \in Tasks : Send(t)
    BY <2>1, <2>3 DEF Command
  <2>4. CASE Subscribe
    BY <2>2, <2>4 DEF Command
  <2> QED BY <2>3, <2>4
<1>2. /\ UNCHANGED <<conn, opening, client, reply, holds, requests, lost>>
      /\ sub # "none" => sub' # "none"
  BY DEF Send, Ask, Subscribe, browser, state, app, subvars, history
<1>3. TaskOK'
  <2>1. /\ cmd.task # Nobody =>
             /\ request[cmd.task] = NoRequest /\ reply'[cmd.task] = "none"
             /\ request'[cmd.task] = [op |-> cmd.op, port |-> cmd.port, id |-> cmd.id]
        /\ \A u \in Tasks \ {cmd.task} : request'[u] = request[u] /\ reply'[u] = reply[u]
    BY <1>1, <1>2 DEF Typed, TypeOK
  <2> QED BY <1>1, <1>2, <2>1, TaskAppended
<1>4. /\ DOMAIN cmds' = DOMAIN cmds \cup {Len(cmds')}
      /\ cmds'[Len(cmds')] = cmd
      /\ \A i \in DOMAIN cmds : cmds'[i] = cmds[i] /\ i + 0 = i
  <2>1. cmds \in Seq(Commands)
    BY DEF Typed, TypeOK, Commands
  <2> QED BY <1>1, <2>1, AppendedCommand
<1>5. \A i \in DOMAIN cmds' : cmds'[i].op \in {"connect", "disconnect"} =>
        i + 0 \in DOMAIN cmds /\ Alike(cmds'[i], cmds[i + 0])
  BY <1>1, <1>4 DEF Alike
<1>6. \A u \in Tasks, q \in Ports : \A m : Claims(u, q, m)' => Claims(u, q, m)
  BY <1>1, <1>2 DEF Claims, Typed, TypeOK
<1>7. OwnerOK' /\ OwnsOrLost' /\ \A q \in Ports : Owners(q)' \subseteq Owners(q)
  BY <1>2, <1>5, <1>6, LoosenedSame, OwnersFewer
<1>8. PendingOK'
  <2>1. /\ \A o \in opening' : \E q \in opening : q.id = o.id
        /\ \A o, q \in opening' : o.id = q.id => o = q
    BY <1>2 DEF PendingOK
  <2> QED BY <1>2, <1>5, <1>7, <2>1, LoosenedSame, PendingFewer
<1> QED BY <1>3, <1>7, <1>8

LEMMA RequestDoneLedger ==
  ASSUME Typed, Typed', Ledger, NEW t \in Tasks, RequestDone(t)
  PROVE  Ledger'
<1>1. /\ reply[t] # "none"
      /\ request' = [request EXCEPT ![t] = NoRequest]
      /\ reply' = [reply EXCEPT ![t] = "none"]
      /\ holds' = IF request[t].op = "connect" /\ reply[t] = "ok"
                  THEN [holds EXCEPT ![t] = [port |-> request[t].port, id |-> request[t].id]]
                  ELSE holds
      /\ UNCHANGED <<conn, cmds, opening, client, requests, sub, lost>>
  BY DEF RequestDone, Answered, Forget, browser, state, loop, subvars, history
<1>2. /\ \A i \in DOMAIN cmds : i + 0 = i /\ cmds[i].task # t
      /\ \A o \in opening : o.task # t
  <2>1. t # Nobody /\ DOMAIN cmds \subseteq Nat
    BY NamesAssumption DEF Nobody, Typed, TypeOK
  <2>2. \A i \in DOMAIN cmds : cmds[i].task # t
    BY <1>1, <2>1 DEF Ledger, TaskOK
  <2>3. \A o \in opening : o.task # t
    BY <1>1, <2>1 DEF Ledger, TaskOK
  <2> QED BY <2>1, <2>2, <2>3
<1>3. \A u \in Tasks, p \in Ports : \A id : Claims(u, p, id)' => Claims(u, p, id)
  BY <1>1 DEF Claims, NoRequest, Typed, TypeOK
<1>4. /\ \A u \in Tasks \ {t} : request'[u] = request[u] /\ reply'[u] = reply[u]
      /\ \A i \in DOMAIN cmds : cmds[i].task # Nobody => cmds[i].task \in Tasks
      /\ \A o \in opening : o.task # Nobody => o.task \in Tasks
  <2>1. cmds \in Seq(Commands)
    BY DEF Typed, TypeOK, Commands
  <2>2. \A i \in DOMAIN cmds : cmds[i] \in Commands
    BY <2>1
  <2> QED BY <1>1, <2>2 DEF Commands, Askers, Typed, TypeOK
<1>5. \A i \in DOMAIN cmds' : /\ i + 0 \in DOMAIN cmds /\ Alike(cmds'[i], cmds[i + 0])
                              /\ cmds'[i].task \in {cmds[i + 0].task, Nobody}
  BY <1>1, <1>2 DEF Alike
<1>6. \A o, q \in opening' : o.id = q.id \/ (o.task = q.task /\ o.task # Nobody) => o = q
  BY <1>1 DEF Ledger, TaskOK, PendingOK
<1>7. /\ \A i \in DOMAIN cmds' : cmds'[i].task # Nobody =>
           /\ request'[cmds'[i].task] = request[cmds'[i].task]
           /\ reply'[cmds'[i].task] = reply[cmds'[i].task]
      /\ \A o \in opening' : o.task # Nobody =>
           request'[o.task] = request[o.task] /\ reply'[o.task] = reply[o.task]
  BY <1>1, <1>2, <1>4
<1>8. Loosened
  BY <1>1, LoosenedSame
<1> HIDE DEF Ledger
<1> QED BY <1>1, <1>3, <1>5, <1>6, <1>7, <1>8, LedgerFewer

LEMMA CancelLedger ==
  ASSUME Typed, Typed', Ledger, NEW t \in Tasks, Cancel(t)
  PROVE  Ledger'
<1> DEFINE Left(x) == IF x = t THEN Nobody ELSE x
<1>1. /\ request' = [request EXCEPT ![t] = NoRequest]
      /\ reply' = [reply EXCEPT ![t] = "none"]
      /\ cmds' = [i \in DOMAIN cmds |-> IF cmds[i].task = t
                                        THEN [cmds[i] EXCEPT !.task = Nobody] ELSE cmds[i]]
      /\ opening' = {IF o.task = t THEN [o EXCEPT !.task = Nobody] ELSE o : o \in opening}
      /\ UNCHANGED <<conn, holds, client, requests, sub, lost>>
  BY DEF Cancel, Forget, browser, state, subvars, history
<1>2. /\ \A i \in DOMAIN cmds : cmds[i] \in Commands /\ i + 0 = i
      /\ opening \subseteq Openings /\ t # Nobody
  <2>1. cmds \in Seq(Commands)
    BY DEF Typed, TypeOK, Commands
  <2>2. \A i \in DOMAIN cmds : cmds[i] \in Commands /\ i + 0 = i
    BY <2>1
  <2> QED BY <2>2, NamesAssumption DEF Nobody, Typed, TypeOK, Openings
<1>3. /\ DOMAIN cmds' = DOMAIN cmds
      /\ \A i \in DOMAIN cmds' : /\ i + 0 \in DOMAIN cmds /\ Alike(cmds'[i], cmds[i + 0])
                                 /\ cmds'[i].task = Left(cmds[i].task)
  BY <1>1, <1>2 DEF Alike, Commands
<1>4. \A o \in opening' : \E q \in opening :
        /\ q.id = o.id /\ q.port = o.port /\ o.task = Left(q.task)
        /\ o = IF q.task = t THEN [q EXCEPT !.task = Nobody] ELSE q
  <2>1. \A q \in Openings : LET o == [q EXCEPT !.task = Nobody]
                            IN  q.id = o.id /\ q.port = o.port /\ o.task = Nobody
    BY DEF Openings
  <2> QED BY <1>1, <1>2, <2>1, ZenonT(60)
<1>5. \A o, q \in opening' : o.id = q.id \/ (o.task = q.task /\ o.task # Nobody) => o = q
  BY <1>4 DEF Ledger, TaskOK, PendingOK
<1>6. \A u \in Tasks, p \in Ports : \A id : Claims(u, p, id)' => Claims(u, p, id)
  BY <1>1 DEF Claims, NoRequest, Typed, TypeOK
<1>7. \A u \in Tasks \ {t} : request'[u] = request[u] /\ reply'[u] = reply[u]
  BY <1>1 DEF Typed, TypeOK
<1>8. /\ \A i \in DOMAIN cmds' : cmds'[i].task # Nobody => cmds'[i].task \in Tasks \ {t}
      /\ \A o \in opening' : o.task # Nobody => o.task \in Tasks \ {t}
  BY <1>2, <1>3, <1>4 DEF Commands, Openings, Askers
<1>9. \A i \in DOMAIN cmds' : /\ i + 0 \in DOMAIN cmds /\ Alike(cmds'[i], cmds[i + 0])
                              /\ cmds'[i].task \in {cmds[i + 0].task, Nobody}
  BY <1>2, <1>3
<1>10. \A o \in opening' : \E q \in opening : /\ q.id = o.id /\ q.port = o.port
                                              /\ o.task \in {q.task, Nobody}
  BY <1>4
<1>11. Loosened
  BY <1>1, LoosenedSame
<1> HIDE DEF Left
<1> QED BY <1>1, <1>5, <1>6, <1>7, <1>8, <1>9, <1>10, <1>11, LedgerFewer

\* The claim of the guard becomes a disconnect in the channel.
LEMMA DropGuardLedger ==
  ASSUME Typed, Typed', Ledger, NEW t \in Tasks, DropGuard(t)
  PROVE  Ledger'
<1> USE DEF Ledger
<1> DEFINE p   == holds[t].port
           id  == holds[t].id
           cmd == Command("disconnect", p, id, Nobody)
<1>1. /\ cmd \in Commands /\ cmds' = Append(cmds, cmd) /\ cmds \in Seq(Commands)
      /\ cmd.op = "disconnect" /\ cmd.port = p /\ cmd.id = id /\ cmd.task = Nobody
  <2>1. Enqueue(cmd) /\ p \in Ports \cup {"none"} /\ id \in Ids /\ Nobody \in Askers
    BY DEF DropGuard, Askers, Typed, TypeOK
  <2> QED BY <2>1, EnqueueTyped DEF Command
<1>2. /\ request[t] = NoRequest
      /\ holds' = [holds EXCEPT ![t] = NoGuard]
      /\ UNCHANGED <<opening, request, reply, requests, sub, lost>>
  BY DEF DropGuard, subvars, history
<1> HIDE DEF cmd
<1>3. Loosened
  <2>1. OnDrop \/ UNCHANGED <<client, conn>>
    BY DEF DropGuard
  <2> QED BY <1>2, <2>1, LoosenedSame, LoosenedOnDrop
<1>4. TaskOK'
  BY <1>1, <1>2, TaskAppended
<1>5. /\ DOMAIN cmds' = DOMAIN cmds \cup {Len(cmds')} /\ Len(cmds') \notin DOMAIN cmds
      /\ cmds'[Len(cmds')] = cmd
      /\ \A i \in DOMAIN cmds : cmds'[i] = cmds[i] /\ i + 0 = i
  <2>1. DOMAIN cmds \subseteq Nat
    BY DEF Typed, TypeOK
  <2> QED BY <1>1, <2>1, AppendedCommand
<1>6. \A u \in Tasks, q \in Ports : \A m : Claims(u, q, m)' => Claims(u, q, m) /\ u # t
  BY <1>2, NamesAssumption DEF Claims, NoGuard, NoRequest, Typed, TypeOK
<1>7. \A i \in DOMAIN cmds', q \in Ports : \A m : Closes(i, q, m)' =>
        \/ i \in DOMAIN cmds /\ Closes(i, q, m)
        \/ i = Len(cmds') /\ q = p /\ m = id /\ Claims(t, p, id)
  BY <1>1, <1>5 DEF Closes, Claims
<1>8. \A q \in Ports : Owners(q)' \subseteq Owners(q)
  BY <1>6, <1>7, OwnersAre, OwnersAreNext
<1>9. None = 0 /\ requests \in Nat /\ requests <= MaxRequests
  BY WebAssumption DEF None, Ids, Typed, TypeOK
<1>10. OwnerOK'
  <2>1. \A q \in Ports : conn'[q] \in 0..requests'
    BY <1>2, <1>3, <1>9 DEF OwnerOK, Loosened
  <2>2. ASSUME NEW q \in Ports, NEW m \in Owners(q)'
        PROVE  m \in 1..requests' /\ \A r \in Ports : conn'[r] = m => r = q
    BY <1>2, <1>3, <1>8, <1>9, <2>2 DEF OwnerOK, Loosened
  <2>3. ASSUME NEW q \in Ports, NEW r \in Ports, NEW m \in 1..requests'
        PROVE  /\ \A u, v \in Tasks : Claims(u, q, m)' /\ Claims(v, r, m)' => u = v
               /\ \A i, j \in DOMAIN cmds' : Closes(i, q, m)' /\ Closes(j, r, m)' => i = j
               /\ \A u \in Tasks, i \in DOMAIN cmds' :
                    ~(Claims(u, q, m)' /\ Closes(i, r, m)')
    <3>1. \A u, v \in Tasks : Claims(u, q, m)' /\ Claims(v, r, m)' => u = v
      BY <1>2, <1>6 DEF OwnerOK
    <3>2. ASSUME NEW i \in DOMAIN cmds', NEW j \in DOMAIN cmds',
                 Closes(i, q, m)', Closes(j, r, m)'
          PROVE  i = j
      BY <1>2, <1>7, <3>2 DEF OwnerOK
    <3>3. ASSUME NEW u \in Tasks, NEW i \in DOMAIN cmds', Claims(u, q, m)', Closes(i, r, m)'
          PROVE  FALSE
      BY <1>2, <1>6, <1>7, <3>3 DEF OwnerOK
    <3> QED BY <3>1, <3>2, <3>3
  <2> QED BY <2>1, <2>2, <2>3 DEF OwnerOK
<1>11. OwnsOrLost'
  <2> SUFFICES ASSUME client' # "dropped", NEW q \in Ports, NEW m \in Owners(q)'
               PROVE  \/ conn'[q] = m
                      \/ lost'[m] \in {"cut", "removed"}
                      \/ lost'[m] = "replaced" /\ q \in Outputs
    BY DEF OwnsOrLost
  <2>1. UNCHANGED <<client, conn>>
    BY DEF DropGuard, OnDrop
  <2> QED BY <1>2, <1>8, <2>1 DEF OwnsOrLost
<1>12. PendingOK'
  <2>1. \A i \in DOMAIN cmds' : cmds'[i].op = "connect" =>
          i + 0 \in DOMAIN cmds /\ Alike(cmds'[i], cmds[i + 0])
    BY <1>1, <1>5 DEF Alike
  <2>2. /\ \A o \in opening' : \E q \in opening : q.id = o.id
        /\ \A o, q \in opening' : o.id = q.id => o = q
    BY <1>2 DEF PendingOK
  <2> QED BY <1>2, <1>3, <1>8, <2>1, <2>2, PendingFewer
<1> QED BY <1>4, <1>10, <1>11, <1>12

\* Commands that are taken and leave the connections as they are, or loosen them.
LEMMA TakenLedger ==
  ASSUME Typed, Typed', Ledger, Loosened, NEW op, NEW ports, Take(op, ports),
         UNCHANGED <<opening, request, holds, requests>>,
         sub # "none" => sub' # "none",
         \/ UNCHANGED reply
         \/ \E r \in Results \ {"none", "ok"} : Reply(Head(cmds).task, r)
  PROVE  Ledger'
<1>1. /\ 1 \in DOMAIN cmds /\ cmds[1] = Head(cmds) /\ Head(cmds) \in Commands
      /\ \A i \in DOMAIN cmds' : i + 1 \in DOMAIN cmds /\ cmds'[i] = cmds[i + 1] /\ i + 1 # 1
  BY TakenCommand
<1>2. \A t \in Tasks : t # Head(cmds).task => reply'[t] = reply[t]
  BY DEF Reply, Typed, TypeOK
<1>3. Head(cmds).task # Nobody =>
        /\ \A i \in DOMAIN cmds' : cmds'[i].task # Head(cmds).task
        /\ \A o \in opening : o.task # Head(cmds).task
  BY <1>1 DEF Ledger, TaskOK
<1>4. /\ \A i \in DOMAIN cmds' : cmds'[i].task # Nobody => cmds'[i].task \in Tasks
      /\ \A o \in opening : o.task # Nobody => o.task \in Tasks
  <2>1. \A i \in DOMAIN cmds' : cmds'[i] \in Commands
    BY TakenCommand
  <2> QED BY <2>1 DEF Commands, Askers, Typed, TypeOK
<1>5. \A i \in DOMAIN cmds' : cmds'[i].task # Nobody =>
           /\ request'[cmds'[i].task] = request[cmds'[i].task]
           /\ reply'[cmds'[i].task] = reply[cmds'[i].task]
  <2> SUFFICES ASSUME NEW i \in DOMAIN cmds', cmds'[i].task # Nobody
               PROVE  reply'[cmds'[i].task] = reply[cmds'[i].task]
    OBVIOUS
  <2>1. cmds'[i].task \in Tasks /\ cmds'[i].task # Head(cmds).task
    BY <1>3, <1>4
  <2> QED BY <1>2, <2>1
<1>6. \A o \in opening' : o.task # Nobody =>
           request'[o.task] = request[o.task] /\ reply'[o.task] = reply[o.task]
  <2> SUFFICES ASSUME NEW o \in opening, o.task # Nobody
               PROVE  reply'[o.task] = reply[o.task]
    OBVIOUS
  <2>1. o.task \in Tasks /\ o.task # Head(cmds).task
    BY <1>3, <1>4
  <2> QED BY <1>2, <2>1
<1>7. \A t \in Tasks, p \in Ports : \A id : Claims(t, p, id)' => Claims(t, p, id)
  BY DEF Claims, Reply, Typed, TypeOK
<1>8. \A i \in DOMAIN cmds' : /\ i + 1 \in DOMAIN cmds /\ Alike(cmds'[i], cmds[i + 1])
                              /\ cmds'[i].task \in {cmds[i + 1].task, Nobody}
  BY <1>1 DEF Alike
<1>9. \A o, q \in opening' : o.id = q.id \/ (o.task = q.task /\ o.task # Nobody) => o = q
  BY DEF Ledger, TaskOK, PendingOK
<1> HIDE DEF Ledger
<1> QED BY <1>5, <1>6, <1>7, <1>8, <1>9, LedgerFewer

LEMMA RefusalNotOk ==
  ASSUME NEW p, Refusal(p) # "none"
  PROVE  Refusal(p) \in Results \ {"none", "ok"}
BY DEF Refusal, Results

LEMMA ProcessConnectSourceLedger ==
  ASSUME Typed, Typed', Ledger, ProcessConnectSource
  PROVE  Ledger'
<1> DEFINE cmd == Head(cmds)
           p   == cmd.port
<1>1. /\ UNCHANGED <<opening, client, request, holds, requests, sub, lost>>
      /\ Take("connect", Inputs)
  BY DEF ProcessConnectSource, subvars, history
<1>2. CASE Refusal(p) # "none"
  <2>1. Reply(cmd.task, Refusal(p)) /\ UNCHANGED conn
    BY <1>2 DEF ProcessConnectSource
  <2> QED BY <1>1, <1>2, <2>1, RefusalNotOk, LoosenedSame, TakenLedger
<1>3. CASE Refusal(p) = "none"
  <2>1. Reply(cmd.task, "ok") /\ conn' = [conn EXCEPT ![p] = cmd.id] /\ conn[p] = None
    BY <1>3 DEF ProcessConnectSource, Refusal
  <2>2. /\ 1 \in DOMAIN cmds /\ cmds[1] = cmd /\ cmd.op = "connect"
        /\ cmd \in Commands /\ p \in Ports
        /\ \A i \in DOMAIN cmds' : /\ i + 1 \in DOMAIN cmds /\ cmds'[i] = cmds[i + 1]
                                   /\ i + 1 # 1
    BY <1>1, TakenCommand DEF Ports
  <2>3. cmd.id \in Pending /\ cmd.task \in Askers
    BY <2>2 DEF Pending, Connects, Commands
  <2>4. \A i \in DOMAIN cmds' : i + 1 \in DOMAIN cmds /\ Alike(cmds'[i], cmds[i + 1])
    BY <2>2 DEF Alike
  <2>5. cmd.id \notin Pending'
    <3>1. \A i \in Connects' : cmds'[i].id # cmd.id
      <4> SUFFICES ASSUME NEW i \in Connects', cmds'[i].id = cmd.id PROVE FALSE
        OBVIOUS
      <4>1. 1 \in Connects /\ i + 1 \in Connects /\ cmds[i + 1].id = cmds[1].id /\ i + 1 # 1
        BY <2>2 DEF Connects
      <4> QED BY <4>1 DEF Ledger, PendingOK
    <3>2. \A o \in opening : o.id # cmd.id
      BY <2>2 DEF Ledger, PendingOK, Connects
    <3> QED BY <1>1, <3>1, <3>2 DEF Pending
  <2>6. cmd.task # Nobody => /\ request[cmd.task].op = "connect"
                             /\ request[cmd.task].port = p
                             /\ request[cmd.task].id = cmd.id /\ reply[cmd.task] = "none"
    <3>1. TaskOK
      BY DEF Ledger
    <3>2. cmds[1].task # Nobody => reply[cmds[1].task] = "none"
      <4>1. 1 \in DOMAIN cmds
        BY <2>2
      <4> QED BY <3>1, <4>1 DEF TaskOK
    <3> QED BY <2>2, <3>1, <3>2, RequestMade
  <2>7. PendingOK' /\ OwnerOK' /\ OwnsOrLost'
    BY <1>1, <2>1, <2>2, <2>3, <2>4, <2>5, <2>6, Granted
  <2>8. TaskOK'
    <3>1. \A i \in DOMAIN cmds' : /\ i + 1 \in DOMAIN cmds /\ Alike(cmds'[i], cmds[i + 1])
                                  /\ cmds'[i].task \in {cmds[i + 1].task, Nobody}
      BY <2>2 DEF Alike
    <3>2. cmd.task # Nobody => /\ \A i \in DOMAIN cmds' : cmds'[i].task # cmd.task
                               /\ \A o \in opening : o.task # cmd.task
      BY <2>2 DEF Ledger, TaskOK
    <3>3. \A t \in Tasks : t # cmd.task => reply'[t] = reply[t]
      BY <2>1 DEF Reply, Typed, TypeOK
    <3>4. /\ \A i \in DOMAIN cmds' : cmds'[i].task # Nobody => cmds'[i].task \in Tasks
          /\ \A o \in opening : o.task # Nobody => o.task \in Tasks
      <4>1. \A i \in DOMAIN cmds' : cmds'[i] \in Commands
        BY <1>1, TakenCommand
      <4> QED BY <4>1 DEF Commands, Askers, Typed, TypeOK
    <3>5. \A i \in DOMAIN cmds' : cmds'[i].task # Nobody =>
            reply'[cmds'[i].task] = reply[cmds'[i].task]
      BY <3>2, <3>3, <3>4
    <3>6. \A o \in opening' : o.task # Nobody => reply'[o.task] = reply[o.task]
      BY <1>1, <3>2, <3>3, <3>4
    <3>7. /\ TaskOK
          /\ \A o, q \in opening' : o.task = q.task /\ o.task # Nobody => o = q
      BY <1>1 DEF Ledger, TaskOK
    <3> QED BY <1>1, <3>1, <3>5, <3>6, <3>7, TaskFewer
  <2> QED BY <2>7, <2>8 DEF Ledger
<1> QED BY <1>2, <1>3

\* A connect to a destination goes from the channel to its future.
LEMMA ProcessConnectDestinationLedger ==
  ASSUME Typed, Typed', Ledger, ProcessConnectDestination
  PROVE  Ledger'
<1> USE DEF Ledger
<1> DEFINE cmd == Head(cmds)
           new == [id |-> cmd.id, port |-> cmd.port, task |-> cmd.task, at |-> "spawned"]
<1>1. /\ Take("connect", Outputs) /\ opening' = opening \cup {new}
      /\ UNCHANGED <<conn, client, request, reply, holds, requests, sub, lost>>
  BY DEF ProcessConnectDestination, state, app, subvars, history
<1>2. /\ 1 \in DOMAIN cmds /\ cmds[1] = cmd /\ cmd.op = "connect"
      /\ \A i \in DOMAIN cmds' : /\ i + 1 \in DOMAIN cmds /\ cmds'[i] = cmds[i + 1]
                                 /\ i + 1 # 1
  BY <1>1, TakenCommand
<1>3. /\ new.id = cmd.id /\ new.port = cmd.port /\ new.task = cmd.task
      /\ DOMAIN cmds' \subseteq Nat
  BY DEF Typed, TypeOK
<1> HIDE DEF new
<1>4. TaskOK'
  <2>1. ASSUME NEW i \in DOMAIN cmds'
        PROVE  /\ cmds'[i].op = "disconnect" => cmds'[i].task = Nobody
               /\ cmds'[i].op = "list" => cmds'[i].task = Nobody /\ sub' # "none"
               /\ cmds'[i].task # Nobody =>
                    /\ reply'[cmds'[i].task] = "none"
                    /\ request'[cmds'[i].task] =
                         [op |-> cmds'[i].op, port |-> cmds'[i].port, id |-> cmds'[i].id]
    BY <1>1, <1>2 DEF TaskOK
  <2>2. ASSUME NEW o \in opening', o.task # Nobody
        PROVE  /\ reply'[o.task] = "none"
               /\ request'[o.task] = [op |-> "connect", port |-> o.port, id |-> o.id]
    BY <1>1, <1>2, <1>3, <2>2 DEF TaskOK
  <2>3. ASSUME NEW i \in DOMAIN cmds', NEW j \in DOMAIN cmds',
               cmds'[i].task = cmds'[j].task, cmds'[i].task # Nobody
        PROVE  i = j
    <3>1. i + 1 = j + 1
      BY <1>2, <2>3 DEF TaskOK
    <3> QED BY <1>3, <3>1
  <2>4. ASSUME NEW o \in opening', NEW q \in opening', o.task = q.task, o.task # Nobody
        PROVE  o = q
    BY <1>1, <1>2, <1>3, <2>4 DEF TaskOK
  <2>5. ASSUME NEW i \in DOMAIN cmds', NEW o \in opening', cmds'[i].task = o.task
        PROVE  o.task = Nobody
    BY <1>1, <1>2, <1>3, <2>5 DEF TaskOK
  <2> QED BY <2>1, <2>2, <2>3, <2>4, <2>5 DEF TaskOK
<1>5. OwnerOK' /\ OwnsOrLost' /\ \A p \in Ports : Owners(p)' \subseteq Owners(p)
  <2>1. \A t \in Tasks, p \in Ports : \A id : Claims(t, p, id)' => Claims(t, p, id)
    BY <1>1 DEF Claims
  <2>2. \A i \in DOMAIN cmds' : i + 1 \in DOMAIN cmds /\ Alike(cmds'[i], cmds[i + 1])
    BY <1>2 DEF Alike
  <2>3. Loosened
    BY <1>1, LoosenedSame
  <2> QED BY <1>1, <2>1, <2>2, <2>3, OwnersFewer
<1>6. PendingOK'
  <2>1. /\ 1 \in Connects
        /\ \A i \in Connects' : /\ i + 1 \in Connects /\ cmds'[i].id = cmds[i + 1].id
                                /\ i + 1 # 1 /\ i \in Nat
    BY <1>2, <1>3 DEF Connects
  <2>2. \A i, j \in Connects' : cmds'[i].id = cmds'[j].id => i = j
    <3> SUFFICES ASSUME NEW i \in Connects', NEW j \in Connects', cmds'[i].id = cmds'[j].id
                 PROVE  i = j
      OBVIOUS
    <3>1. i + 1 = j + 1
      BY <2>1 DEF PendingOK
    <3> QED BY <2>1, <3>1
  <2>3. \A o \in opening : o.id # cmd.id
    BY <1>2, <2>1 DEF PendingOK
  <2>4. \A o, q \in opening' : o.id = q.id => o = q
    BY <1>1, <1>3, <2>3 DEF PendingOK
  <2>5. \A i \in Connects' : cmds'[i].id # cmd.id
    BY <1>2, <2>1 DEF PendingOK
  <2>6. \A i \in Connects', o \in opening' : cmds'[i].id # o.id
    BY <1>1, <1>3, <2>1, <2>5 DEF PendingOK
  <2>7. \A m \in Pending' : m \in Pending
    BY <1>1, <1>2, <1>3, <2>1 DEF Pending
  <2>8. \A m \in Pending' : /\ m \in 1..requests'
                            /\ \A p \in Ports : conn'[p] # m /\ m \notin Owners(p)'
    BY <1>1, <1>5, <2>7 DEF PendingOK
  <2> QED BY <2>2, <2>4, <2>6, <2>8 DEF PendingOK
<1> QED BY <1>4, <1>5, <1>6

\* The commands other than connects: a disconnect takes whatever connection the port
\* has, and notes down the one that was not its own.
LEMMA ProcessLedger ==
  ASSUME Typed, Typed', Ledger, ProcessDisconnect \/ ProcessSend \/ ProcessList
  PROVE  Ledger'
<1>1. CASE ProcessDisconnect
  <2>0. PICK p \in Ports : p = Head(cmds).port
    BY <1>1, TakenCommand DEF ProcessDisconnect
  <2>6. PICK id : id = Head(cmds).id
    OBVIOUS
  <2>1. /\ Take("disconnect", Ports) /\ Disconnect(p, changed)
        /\ lost' = IF conn[p] \notin {None, id} THEN [lost EXCEPT ![conn[p]] = "cut"]
                   ELSE lost
        /\ UNCHANGED <<opening, client, request, reply, holds, requests, sub>>
    BY <1>1, <2>0, <2>6 DEF ProcessDisconnect, app, subvars
  <2>2. /\ 1 \in DOMAIN cmds /\ Closes(1, p, id)
        /\ \A i \in DOMAIN cmds' : /\ i + 1 \in DOMAIN cmds /\ cmds'[i] = cmds[i + 1]
                                   /\ i + 1 # 1
    BY <2>0, <2>1, <2>6, TakenCommand DEF Closes
  <2>3. \A q \in Ports : conn'[q] = IF q = p THEN None ELSE conn[q]
    BY <2>1 DEF Disconnect, Typed, TypeOK
  <2>4. conn[p] = id /\ id # None => conn[p] \notin Owners(p)'
    <3> SUFFICES ASSUME id \in Owners(p)' PROVE FALSE
      OBVIOUS
    <3>1. id \in Owners(p)
      BY <2>2, OwnersAre
    <3>2. id \in 1..requests
      BY <3>1 DEF Ledger, OwnerOK
    <3>3. \A t \in Tasks : ~Claims(t, p, id)
      BY <2>2, <3>2 DEF Ledger, OwnerOK
    <3>4. \A i \in DOMAIN cmds : Closes(i, p, id) => i = 1
      BY <2>2, <3>2 DEF Ledger, OwnerOK
    <3>5. \A t \in Tasks : ~Claims(t, p, id)'
      BY <2>1, <3>3 DEF Claims
    <3>6. \A i \in DOMAIN cmds' : ~Closes(i, p, id)'
      BY <2>2, <3>4 DEF Closes
    <3> QED BY <3>5, <3>6, OwnersAreNext
  <2>5. Loosened
    <3>1. /\ conn \in [Ports -> Ids] /\ lost \in [1..MaxRequests -> {"no", "cut", "replaced", "removed"}]
          /\ \A m \in Ids \ {None} : m \in 1..MaxRequests
      BY WebAssumption DEF Typed, TypeOK, Ids, None
    <3>2. \A m \in 1..MaxRequests : lost'[m] = lost[m] \/ lost'[m] \in {"cut", "removed"}
      BY <2>1, <3>1
    <3>3. conn[p] \notin {None, id} => lost'[conn[p]] = "cut"
      BY <2>1, <2>2, <3>1
    <3> QED BY <2>1, <2>2, <2>3, <2>4, <3>2, <3>3 DEF Loosened
  <2> QED BY <2>1, <2>5, TakenLedger
<1>2. CASE ProcessSend
  <2>1. /\ Take("send", Outputs) /\ \E r \in Results \ {"none", "ok"} : Reply(Head(cmds).task, r)
        /\ UNCHANGED <<conn, opening, client, request, holds, requests, sub, lost>>
    BY <1>2 DEF ProcessSend, state, subvars, history, Results
  <2> QED BY <2>1, LoosenedSame, TakenLedger
<1>3. CASE ProcessList
  <2>1. /\ Take("list", {"none"}) /\ sub' = "listed"
        /\ UNCHANGED <<conn, opening, client, request, reply, holds, requests, lost>>
    BY <1>3 DEF ProcessList, state, app, history
  <2> QED BY <2>1, LoosenedSame, TakenLedger
<1> QED BY <1>1, <1>2, <1>3

LEMMA OpeningLedger ==
  ASSUME Typed, Typed', Ledger, NEW o \in opening, OpenStarts(o) \/ OpenEnds(o)
  PROVE  Ledger'
<1> USE DEF Ledger
<1>1. /\ UNCHANGED <<cmds, client, request, holds, requests, sub>>
      /\ \A i \in DOMAIN cmds : i + 0 = i
  <2>1. DOMAIN cmds \subseteq Nat
    BY DEF Typed, TypeOK
  <2> QED BY <2>1 DEF OpenStarts, OpenEnds, OpenResolves, OpenRejected, browser, state,
             subvars, history
<1>2. o \in Openings /\ o.task \in Askers /\ o.port \in Ports
  BY DEF Typed, TypeOK, Openings, Ports
<1>3. \A i \in DOMAIN cmds' : /\ i + 0 \in DOMAIN cmds /\ Alike(cmds'[i], cmds[i + 0])
                              /\ cmds'[i].task \in {cmds[i + 0].task, Nobody}
  BY <1>1 DEF Alike
<1>4. /\ \A i \in DOMAIN cmds : cmds[i].task # Nobody => cmds[i].task \in Tasks \ {o.task}
      /\ \A q \in opening \ {o} : q.task # Nobody => q.task \in Tasks \ {o.task}
  <2>1. cmds \in Seq(Commands)
    BY DEF Typed, TypeOK, Commands
  <2>2. \A i \in DOMAIN cmds : cmds[i] \in Commands
    BY <2>1
  <2> QED BY <2>2 DEF Commands, Askers, Typed, TypeOK, TaskOK
\* A future that ends, with whatever answer.
<1>5. ASSUME NEW r, Reply(o.task, r), opening' = opening \ {o}
      PROVE  TaskOK'
  <2>1. \A t \in Tasks \ {o.task} : reply'[t] = reply[t]
    BY <1>5 DEF Reply, Typed, TypeOK
  <2>2. \A i \in DOMAIN cmds' : cmds'[i].task # Nobody =>
          reply'[cmds'[i].task] = reply[cmds'[i].task]
    BY <1>1, <1>4, <2>1
  <2>3. \A q \in opening' : q.task # Nobody => reply'[q.task] = reply[q.task]
    BY <1>4, <1>5, <2>1
  <2>4. \A q, s \in opening' : q.task = s.task /\ q.task # Nobody => q = s
    BY <1>5 DEF TaskOK
  <2> QED BY <1>1, <1>3, <1>5, <2>2, <2>3, <2>4, TaskFewer
<1>6. ASSUME NEW r \in Results \ {"none", "ok"}, Reply(o.task, r), opening' = opening \ {o},
             UNCHANGED <<conn, lost>>
      PROVE  Ledger'
  <2>1. \A t \in Tasks, p \in Ports : \A id : Claims(t, p, id)' => Claims(t, p, id)
    BY <1>1, <1>6 DEF Claims, Reply, Typed, TypeOK
  <2>2. OwnerOK' /\ OwnsOrLost' /\ \A p \in Ports : Owners(p)' \subseteq Owners(p)
    BY <1>1, <1>3, <1>6, <2>1, LoosenedSame, OwnersFewer
  <2>3. PendingOK'
    <3>1. \A q, s \in opening' : q.id = s.id => q = s
      BY <1>6 DEF PendingOK
    <3> QED BY <1>1, <1>3, <1>6, <2>2, <3>1, LoosenedSame, PendingFewer
  <2> QED BY <1>5, <1>6, <2>2, <2>3
<1>7. ASSUME OpenStarts(o) PROVE Ledger'
  <2>1. CASE Refusal(o.port) # "none"
    <3>1. Reply(o.task, Refusal(o.port)) /\ opening' = opening \ {o} /\ UNCHANGED <<conn, lost>>
      BY <1>7, <2>1 DEF OpenStarts, state, history
    <3> QED BY <1>6, <2>1, <3>1, RefusalNotOk
  <2>2. CASE Refusal(o.port) = "none"
    <3> DEFINE new == [o EXCEPT !.at = "awaiting"]
    <3>1. opening' = (opening \ {o}) \cup {new} /\ UNCHANGED <<conn, reply, lost>>
      BY <1>7, <2>2 DEF OpenStarts, state, history
    <3>2. new.id = o.id /\ new.port = o.port /\ new.task = o.task
      BY <1>2 DEF Openings
    <3> HIDE DEF new
    <3>3. \A q \in opening' : \E s \in opening : /\ s.id = q.id /\ s.port = q.port
                                                 /\ q.task \in {s.task, Nobody}
      BY <3>1, <3>2
    <3>4. \A q, s \in opening' : q.id = s.id \/ (q.task = s.task /\ q.task # Nobody) => q = s
      BY <3>1, <3>2 DEF TaskOK, PendingOK
    <3>5. \A t \in Tasks, p \in Ports : \A id : Claims(t, p, id)' => Claims(t, p, id)
      BY <1>1, <3>1 DEF Claims
    <3> QED BY <1>1, <1>3, <3>1, <3>3, <3>4, <3>5, LoosenedSame, LedgerFewer
  <2> QED BY <2>1, <2>2
<1>8. ASSUME OpenRejected(o) PROVE Ledger'
  BY <1>6, <1>8 DEF OpenRejected, Results, state, history
<1>9. ASSUME OpenResolves(o) PROVE Ledger'
  <2>1. /\ opening' = opening \ {o} /\ conn' = [conn EXCEPT ![o.port] = o.id]
        /\ Reply(o.task, "ok")
        /\ lost' = IF conn[o.port] = None THEN lost
                   ELSE [lost EXCEPT ![conn[o.port]] = "replaced"]
    BY <1>9 DEF OpenResolves
  <2>2. o.id \in Pending /\ o.port \in Outputs
    BY <1>2 DEF Pending, Openings
  <2>3. o.id \notin Pending'
    BY <1>1, <2>1 DEF Pending, PendingOK, Connects
  <2>4. o.task # Nobody => /\ request[o.task].op = "connect" /\ request[o.task].port = o.port
                           /\ request[o.task].id = o.id /\ reply[o.task] = "none"
    <3>1. o.task # Nobody => reply[o.task] = "none"
      BY DEF TaskOK
    <3> QED BY <3>1, RequestMade
  <2>5. PendingOK' /\ OwnerOK' /\ OwnsOrLost'
    BY <1>1, <1>2, <1>3, <2>1, <2>2, <2>3, <2>4, Granted
  <2> QED BY <1>5, <2>1, <2>5
<1> QED BY <1>7, <1>8, <1>9 DEF OpenEnds

\* The browser, the end of the client and the changes.
LEMMA OthersLedger ==
  ASSUME Typed, Typed', Ledger,
         \/ AccessGranted \/ StartFails \/ DropClient
         \/ \E p \in Ports : Plug(p) \/ StateChangeAdded(p) \/ StateChangeRemoved(p)
  PROVE  Ledger'
<1> USE DEF browser, state, loop, app, subvars, history
<1>1. CASE AccessGranted
  BY <1>1, LoosenedSame, LedgerLoosened DEF AccessGranted
<1>2. CASE StartFails
  BY <1>2, LoosenedOnDrop, LedgerLoosened DEF StartFails
<1>3. CASE DropClient
  BY <1>3, LoosenedSame, LoosenedOnDrop, LedgerLoosened DEF DropClient
<1>4. ASSUME NEW p \in Ports, Plug(p) \/ StateChangeAdded(p) PROVE Ledger'
  BY <1>4, LoosenedSame, LedgerLoosened DEF Plug, StateChangeAdded
<1>5. ASSUME NEW p \in Ports, StateChangeRemoved(p) PROVE Ledger'
  <2>1. /\ UNCHANGED <<cmds, opening, client, request, reply, holds, requests, sub>>
        /\ lost' = IF conn[p] = None THEN lost ELSE [lost EXCEPT ![conn[p]] = "removed"]
        /\ conn' = [conn EXCEPT ![p] = None]
    BY <1>5 DEF StateChangeRemoved, Disconnect
  <2>2. /\ conn \in [Ports -> Ids] /\ lost \in [1..MaxRequests -> {"no", "cut", "replaced", "removed"}]
        /\ \A m \in Ids \ {None} : m \in 1..MaxRequests
    BY WebAssumption DEF Typed, TypeOK, Ids, None
  <2>3. Loosened
    BY <2>1, <2>2 DEF Loosened
  <2> QED BY <2>1, <2>3, LedgerLoosened
<1> QED BY <1>1, <1>2, <1>3, <1>4, <1>5

-----------------------------------------------------------------------------
(* What always holds.                                                      *)

LEMMA NextConsistent ==
  ASSUME Consistent, [Next]_vars
  PROVE  Consistent'
<1> USE DEF Consistent
<1>1. CASE Next
  <2>1. Typed'
    BY <1>1, NextTyped DEF Ledger
  <2>2. PortsOK'
    BY <1>1, NextPorts DEF Ledger
  <2>3. Ledger'
    BY <1>1, <2>1, ConnectLedger, AskedLedger, RequestDoneLedger, CancelLedger,
       DropGuardLedger, ProcessConnectSourceLedger, ProcessConnectDestinationLedger,
       ProcessLedger, OpeningLedger, OthersLedger DEF Next, Process
  <2> QED BY <2>1, <2>2, <2>3
<1>2. CASE UNCHANGED vars
  <2> USE <1>2 DEF vars, browser, state, loop, app, subvars, history
  <2>1. Typed'
    BY DEF Typed, TypeOK
  <2>2. PortsOK'
    BY PortsKept DEF PortsOK, AccessOK
  <2>3. Ledger'
    BY <2>1, LoosenedSame, LedgerLoosened
  <2> QED BY <2>1, <2>2, <2>3
<1> QED BY <1>1, <1>2

\* The inductive invariant: the ports, and the account of who asked for what.
THEOREM ConsistentAlways == Spec => []Consistent
<1>1. Init => Consistent
  BY InitTyped, InitPorts, InitLedger DEF Consistent
<1>2. Consistent /\ [Next]_vars => Consistent'
  BY NextConsistent
<1> QED BY <1>1, <1>2, PTL DEF Spec

\* Every variable of the browser backend has its type, and no reply lies in the
\* channel of a task that asked for nothing.
THEOREM TypeCorrect == Spec => []TypeOK
<1>1. Consistent => TypeOK
  BY DEF Consistent, Typed
<1> QED BY <1>1, ConsistentAlways, PTL

\* A guard, an answer yet to be picked up or a disconnect under way stands for the
\* connection the backend has, unless a removal, a connect that overlapped it or the
\* guard of a connection lost in these ways took it away first.
THEOREM OwnsOrLostAlways == Spec => []OwnsOrLost
<1>1. Consistent => OwnsOrLost
  BY DEF Consistent, Ledger
<1> QED BY <1>1, ConsistentAlways, PTL

\* An input calls the closure of the connection it has, and of no other.
THEOREM HearsConnectedAlways == Spec => []HearsConnected
<1>1. Consistent => HearsConnected
  BY DEF Consistent, PortsOK
<1> QED BY <1>1, ConsistentAlways, PTL

\* The connection to a port that is gone is about to be dropped, even one whose open()
\* was settled after the port went.
THEOREM RemovalSeenAlways == Spec => []RemovalSeen
<1>1. Consistent => RemovalSeen
  BY DEF Consistent, PortsOK
<1> QED BY <1>1, ConsistentAlways, PTL

\* on_drop leaves no callback and no open output, but for what a promise settled after
\* it brings.
THEOREM ReleasedAlways == Spec => []Released
<1>1. Consistent => Released
  BY DEF Consistent, PortsOK
<1> QED BY <1>1, ConsistentAlways, PTL

\* One who subscribes, lists and applies the changes knows the ports, up to the events
\* under way.
THEOREM SubscriberAgreesAlways == Spec => []SubscriberAgrees
<1>1. Consistent => SubscriberAgrees
  BY DEF Consistent, PortsOK, SubscriberOK, Knows, SubscriberAgrees
<1> QED BY <1>1, ConsistentAlways, PTL

=============================================================================
