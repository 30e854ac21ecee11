---------------------------- MODULE CommandChannel ----------------------------
(***************************************************************************)
(* How the application's tasks and the ALSA backend thread work together:  *)
(* request and notify of platform/common.rs, the connection guard of       *)
(* connection.rs, and run_thread with dispatch_commands of                 *)
(* platform/alsa.rs.                                                       *)
(*                                                                         *)
(* A task sends a command on a bounded channel, wakes the thread through   *)
(* an eventfd and awaits the reply; it may be cancelled there, never       *)
(* between sending and waking.  A successful connect gives it a guard;     *)
(* dropping the guard sends a disconnect that nobody awaits.  The thread   *)
(* polls the eventfd and the sequencer.  Connections are those to          *)
(* destinations; connecting a source goes through the same steps.          *)
(***************************************************************************)
EXTENDS Integers, Sequences, FiniteSets

CONSTANTS Tasks,         \* tasks of the application
          Ports,         \* destinations
          Capacity,      \* COMMAND_CHANNEL_CAPACITY, 512 in the code
          MayCancel,     \* whether a pending request may be dropped
          MaxRequests,   \* bound: requests made
          MaxSeqEvents   \* bound: sequencer events that arrive

ASSUME ChannelAssumption == /\ Capacity \in Nat \ {0}
                            /\ MayCancel \in BOOLEAN
                            /\ MaxRequests \in Nat
                            /\ MaxSeqEvents \in Nat

NoPort == "no port"
Nobody == "nobody"

ASSUME NamesAssumption == NoPort \notin Ports /\ Nobody \notin Tasks

VARIABLES
  cmds,         \* the command channel
  efd,          \* whether the eventfd is readable
  stop,         \* the stop flag
  \* the backend thread
  phase,        \* where run_thread is
  hup_seen,     \* whether the last poll reported the sequencer broken
  connections,  \* destination_connections
  \* the sequencer
  seq_events,   \* events waiting to be read
  seq_hup,      \* whether the sequencer is broken
  \* the tasks
  at,           \* where each task is
  request,      \* the operation and port of its last request
  reply,        \* what its oneshot channel holds
  holds,        \* the port whose guard it holds
  client,       \* the application's Client handle and PlatformClient::drop
  \* bounds and history
  requests, arrived,
  orphaned,     \* history: ports whose connection lost its guard for good
  contested     \* history: tasks awaiting a connect sent when the port had an owner

channel   == <<cmds, efd, stop>>
thread    == <<phase, hup_seen, connections>>
sequencer == <<seq_events, seq_hup, arrived>>
tasks     == <<at, request, reply, holds>>
history   == <<orphaned, contested>>
vars      == <<channel, thread, sequencer, tasks, client, requests, history>>

Alive == phase # "gone"             \* cmd_rx still exists

Request(op, p) == [op |-> op, port |-> p]
Command(op, p, t) == [op |-> op, port |-> p, task |-> t]

Init == /\ cmds = <<>>
        /\ efd = FALSE
        /\ stop = FALSE
        /\ phase = "poll"
        /\ hup_seen = FALSE
        /\ connections = {}
        /\ seq_events = 0
        /\ seq_hup = FALSE
        /\ at = [t \in Tasks |-> "idle"]
        /\ request = [t \in Tasks |-> Request("none", NoPort)]
        /\ reply = [t \in Tasks |-> "none"]
        /\ holds = [t \in Tasks |-> NoPort]
        /\ client = "open"
        /\ requests = 0
        /\ arrived = 0
        /\ orphaned = {}
        /\ contested = {}

-----------------------------------------------------------------------------
(* Who answers for a connection: a guard, a successful connect its task    *)
(* has yet to pick up, or a disconnect under way.                          *)

Holders(p)   == {t \in Tasks : holds[t] = p}
Unclaimed(p) == {t \in Tasks : request[t] = Request("connect", p) /\ reply[t] = "ok"}
Disconnects(p) == {i \in DOMAIN cmds : cmds[i].op = "disconnect" /\ cmds[i].port = p}
Owned(p) == Holders(p) \cup Unclaimed(p) # {} \/ Disconnects(p) # {}

-----------------------------------------------------------------------------
(* request: try_send, wake, await the reply.                               *)

Refused == ~Alive \/ Len(cmds) >= Capacity     \* try_send fails

RequestSend(t, op, p) ==
  /\ at[t] = "idle"
  /\ requests < MaxRequests
  /\ requests' = requests + 1
  /\ IF Refused
     THEN UNCHANGED <<cmds, at, request, contested>>
     ELSE /\ cmds' = Append(cmds, Command(op, p, t))
          /\ at' = [at EXCEPT ![t] = "wake"]
          /\ request' = [request EXCEPT ![t] = Request(op, p)]
          /\ contested' = IF op = "connect" /\ Owned(p)
                          THEN contested \cup {t} ELSE contested
  /\ UNCHANGED <<efd, stop, thread, sequencer, reply, holds, client, orphaned>>

Connect(t, p) == /\ client = "open"
                 /\ holds[t] = NoPort
                 /\ RequestSend(t, "connect", p)

Send(t) == /\ holds[t] # NoPort
           /\ RequestSend(t, "send", holds[t])

RequestWake(t) == /\ at[t] = "wake"
                  /\ efd' = TRUE
                  /\ at' = [at EXCEPT ![t] = "wait"]
                  /\ UNCHANGED <<cmds, stop, thread, sequencer, request, reply,
                                 holds, client, requests, history>>

\* The guard is made only from a successful reply.
RequestDone(t) ==
  /\ at[t] = "wait"
  /\ reply[t] # "none"
  /\ at' = [at EXCEPT ![t] = "idle"]
  /\ reply' = [reply EXCEPT ![t] = "none"]
  /\ request' = [request EXCEPT ![t] = Request("none", NoPort)]
  /\ holds' = IF request[t].op = "connect" /\ reply[t] = "ok"
              THEN [holds EXCEPT ![t] = request[t].port] ELSE holds
  /\ contested' = contested \ {t}
  /\ UNCHANGED <<channel, thread, sequencer, client, requests, orphaned>>

\* The future is dropped while it awaits the reply: the command, if it is still
\* queued, and a reply already sent have nobody to go to.
Cancel(t) ==
  /\ MayCancel
  /\ at[t] = "wait"
  /\ at' = [at EXCEPT ![t] = "idle"]
  /\ reply' = [reply EXCEPT ![t] = "none"]
  /\ request' = [request EXCEPT ![t] = Request("none", NoPort)]
  /\ cmds' = [i \in DOMAIN cmds |->
                IF cmds[i].task = t THEN [cmds[i] EXCEPT !.task = Nobody] ELSE cmds[i]]
  /\ orphaned' = IF request[t].op = "connect" /\ reply[t] = "ok" /\ phase # "return"
                 THEN orphaned \cup {request[t].port} ELSE orphaned
  /\ contested' = contested \ {t}
  /\ UNCHANGED <<efd, stop, thread, sequencer, holds, client, requests>>

-----------------------------------------------------------------------------
(* ConnectionGuard::drop: notify sends the disconnect and wakes; a full    *)
(* channel loses it.                                                       *)

\* Slip: a guard for each stream of the connection instead of a shared one, so
\* that the first stream dropped disconnects those still held.
DropGuardPerStream(t) ==
  /\ at[t] = "idle"
  /\ holds[t] # NoPort
  /\ at' = [at EXCEPT ![t] = "notify"]
  /\ cmds' = IF Refused THEN cmds
             ELSE Append(cmds, Command("disconnect", holds[t], Nobody))
  /\ UNCHANGED <<efd, stop, thread, sequencer, request, reply, holds, client,
                 requests, history>>

DropGuard(t) ==
  /\ at[t] = "idle"
  /\ holds[t] # NoPort
  /\ holds' = [holds EXCEPT ![t] = NoPort]
  /\ at' = [at EXCEPT ![t] = "notify"]
  /\ cmds' = IF Refused THEN cmds
             ELSE Append(cmds, Command("disconnect", holds[t], Nobody))
  /\ orphaned' = IF Alive /\ Refused /\ phase # "return"
                 THEN orphaned \cup {holds[t]} ELSE orphaned
  /\ UNCHANGED <<efd, stop, thread, sequencer, request, reply, client, requests,
                 contested>>

NotifyWake(t) == /\ at[t] = "notify"
                 /\ efd' = TRUE
                 /\ at' = [at EXCEPT ![t] = "idle"]
                 /\ UNCHANGED <<cmds, stop, thread, sequencer, request, reply, holds,
                                client, requests, history>>

-----------------------------------------------------------------------------
(* The Client handle goes away when no request borrows it; the last guard  *)
(* or the handle, whichever is last, runs PlatformClient::drop.            *)

DropClient == /\ client = "open"
              /\ \A t \in Tasks : request[t].op # "connect"
              /\ client' = "dropped"
              /\ UNCHANGED <<channel, thread, sequencer, tasks, requests,
                             history>>

OnDropStop ==
  /\ client = "dropped"
  /\ \A t \in Tasks : at[t] = "idle" /\ holds[t] = NoPort
  /\ stop' = TRUE
  /\ client' = "stopping"
  /\ UNCHANGED <<cmds, efd, thread, sequencer, tasks, requests, history>>

\* Slip: the flag set without waking the thread.
OnDropNoWake == /\ client = "stopping"
                /\ client' = "closed"
                /\ UNCHANGED <<channel, thread, sequencer, tasks, requests,
                               history>>

OnDropWake == /\ client = "stopping"
              /\ efd' = TRUE
              /\ client' = "closed"
              /\ UNCHANGED <<cmds, stop, thread, sequencer, tasks, requests,
                             history>>

-----------------------------------------------------------------------------
(* run_thread.                                                             *)

environment == <<sequencer, client, requests>>

Poll == /\ phase = "poll"
        /\ efd \/ seq_events > 0 \/ seq_hup
        /\ phase' = IF efd THEN "clear_efd" ELSE "dispatch"
        /\ hup_seen' = seq_hup
        /\ UNCHANGED <<channel, connections, tasks, environment, history>>

\* poll itself failing: the thread leaves without touching the stop flag.
PollFails == /\ phase = "poll"
             /\ seq_hup
             /\ phase' = "exit"
             /\ UNCHANGED <<channel, hup_seen, connections, tasks, environment,
                            history>>

ClearEfd == /\ phase = "clear_efd"
            /\ efd' = FALSE
            /\ phase' = "check_stop"
            /\ UNCHANGED <<cmds, stop, hup_seen, connections, tasks,
                           environment, history>>

CheckStop == /\ phase = "check_stop"
             /\ phase' = IF stop THEN "exit" ELSE "dispatch"
             /\ UNCHANGED <<channel, hup_seen, connections, tasks, environment,
                            history>>

\* reply.send: nobody may be there to take it.
Answer(cmd, result) ==
  reply' = IF cmd.task = Nobody THEN reply ELSE [reply EXCEPT ![cmd.task] = result]

Take(op) == /\ phase = "dispatch"
            /\ cmds # <<>>
            /\ Head(cmds).op = op
            /\ cmds' = Tail(cmds)
            /\ UNCHANGED <<efd, stop, phase, hup_seen, at, request, holds,
                           environment>>

\* Slip: the port not looked up among the connections.
HandleConnectUnchecked ==
  LET cmd == Head(cmds) IN
  /\ Take("connect")
  /\ connections' = connections \cup {cmd.port}
  /\ Answer(cmd, "ok")
  /\ orphaned' = IF cmd.task = Nobody THEN orphaned \cup {cmd.port} ELSE orphaned
  /\ UNCHANGED contested

\* handle_connect_destination: a second connection is refused; looking up or
\* subscribing the port may fail.
HandleConnect ==
  LET cmd == Head(cmds) IN
  /\ Take("connect")
  /\ \/ /\ cmd.port \in connections
        /\ Answer(cmd, "already_connected")
        /\ UNCHANGED <<connections, history>>
     \/ /\ cmd.port \notin connections
        /\ connections' = connections \cup {cmd.port}
        /\ Answer(cmd, "ok")
        /\ orphaned' = IF cmd.task = Nobody THEN orphaned \cup {cmd.port} ELSE orphaned
        /\ UNCHANGED contested
     \/ /\ cmd.port \notin connections
        /\ Answer(cmd, "port_not_found")
        /\ UNCHANGED <<connections, history>>

\* Slip: a send that fails takes the connection along, under its guard.
HandleSendDisconnects ==
  LET cmd == Head(cmds) IN
  /\ Take("send")
  /\ \E result \in IF cmd.port \in connections
                   THEN {"ok", "send_failed"} ELSE {"port_not_found"} :
       /\ Answer(cmd, result)
       /\ connections' = IF result = "send_failed" THEN connections \ {cmd.port}
                         ELSE connections
  /\ UNCHANGED history

\* resolve_output_state, then the send: the device may be gone, or the sequencer
\* refuse the event.
HandleSend ==
  LET cmd == Head(cmds) IN
  /\ Take("send")
  /\ \E result \in IF cmd.port \in connections
                   THEN {"ok", "send_failed"} ELSE {"port_not_found"} :
       Answer(cmd, result)
  /\ UNCHANGED <<connections, history>>

\* Slip: the connection left in the map.
HandleDisconnectForgets == /\ Take("disconnect")
                           /\ UNCHANGED <<connections, history, reply>>

HandleDisconnect == /\ Take("disconnect")
                    /\ connections' = connections \ {Head(cmds).port}
                    /\ orphaned' = orphaned \ {Head(cmds).port}
                    /\ UNCHANGED <<reply, contested>>

DispatchDone == /\ phase = "dispatch"
                /\ cmds = <<>>
                /\ phase' = "check_hup"
                /\ UNCHANGED <<channel, hup_seen, connections, tasks,
                               environment, history>>

\* Slip: clear_efd moved behind the dispatch: a wake-up between the two is lost.
CheckHupClears == /\ phase = "check_hup"
                  /\ efd' = FALSE
                  /\ stop' = (stop \/ hup_seen)
                  /\ phase' = IF stop' THEN "exit" ELSE "drain"
                  /\ UNCHANGED <<cmds, hup_seen, connections, tasks, environment,
                                 history>>

CheckHup == /\ phase = "check_hup"
            /\ stop' = (stop \/ hup_seen)
            /\ phase' = IF stop' THEN "exit" ELSE "drain"
            /\ UNCHANGED <<cmds, efd, hup_seen, connections, tasks,
                           environment, history>>

\* drain_seq_events: one event, or back to poll when told to stop or no more.
DrainEvent == /\ phase = "drain"
              /\ ~stop
              /\ seq_events > 0
              /\ seq_events' = seq_events - 1
              /\ UNCHANGED <<channel, thread, seq_hup, arrived, tasks, client,
                             requests, history>>

DrainDone == /\ phase = "drain"
             /\ stop \/ seq_events = 0
             /\ phase' = "poll"
             /\ UNCHANGED <<channel, hup_seen, connections, tasks, environment,
                            history>>

\* The registry goes first, then cmd_rx with whatever is still queued: dropping
\* a command drops its reply sender, which wakes the task with an error.
Exit == /\ phase = "exit"
        /\ connections' = {}
        /\ orphaned' = {}
        /\ phase' = "return"
        /\ UNCHANGED <<channel, hup_seen, tasks, environment, contested>>

Return == /\ phase = "return"
          /\ phase' = "gone"
          /\ cmds' = <<>>
          /\ reply' = [t \in Tasks |->
                         IF \E i \in DOMAIN cmds : cmds[i].task = t
                         THEN "backend_died" ELSE reply[t]]
          /\ UNCHANGED <<efd, stop, hup_seen, connections, at, request, holds,
                         environment, history>>

-----------------------------------------------------------------------------
(* The sequencer.                                                          *)

SeqEventArrives == /\ arrived < MaxSeqEvents
                   /\ arrived' = arrived + 1
                   /\ seq_events' = seq_events + 1
                   /\ UNCHANGED <<channel, thread, seq_hup, tasks, client, requests,
                                  history>>

SeqBreaks == /\ ~seq_hup
             /\ seq_hup' = TRUE
             /\ UNCHANGED <<channel, thread, seq_events, arrived, tasks, client,
                            requests, history>>

Dispatch == HandleConnect \/ HandleSend \/ HandleDisconnect \/ DispatchDone

ThreadStep == \/ Poll \/ ClearEfd \/ CheckStop \/ Dispatch \/ CheckHup
              \/ DrainEvent \/ DrainDone \/ Exit \/ Return

\* What a task does without waiting for anybody.
TaskStep(t) == RequestWake(t) \/ RequestDone(t) \/ NotifyWake(t)

Next == \/ \E t \in Tasks : \/ \E p \in Ports : Connect(t, p)
                            \/ Send(t) \/ Cancel(t) \/ DropGuard(t)
                            \/ TaskStep(t)
        \/ DropClient \/ OnDropStop \/ OnDropWake
        \/ ThreadStep \/ PollFails
        \/ SeqEventArrives \/ SeqBreaks

\* The backend thread runs, a started task goes on, a drop that began ends.
\* Nothing is assumed of the application's choices or of the sequencer.
Fairness == /\ WF_vars(ThreadStep)
            /\ \A t \in Tasks : WF_vars(TaskStep(t))
            /\ WF_vars(OnDropStop \/ OnDropWake)

Spec == Init /\ [][Next]_vars /\ Fairness

-----------------------------------------------------------------------------
TypeOK ==
  /\ cmds \in Seq([op : {"connect", "send", "disconnect"}, port : Ports,
                   task : Tasks \cup {Nobody}])
  /\ Len(cmds) <= Capacity
  /\ efd \in BOOLEAN /\ stop \in BOOLEAN
  /\ phase \in {"poll", "clear_efd", "check_stop", "dispatch", "check_hup",
                "drain", "exit", "return", "gone"}
  /\ hup_seen \in BOOLEAN /\ seq_hup \in BOOLEAN
  /\ connections \subseteq Ports
  /\ orphaned \subseteq Ports /\ contested \subseteq Tasks
  /\ seq_events \in Nat
  /\ at \in [Tasks -> {"idle", "wake", "wait", "notify"}]
  /\ request \in [Tasks -> [op : {"none", "connect", "send"},
                            port : Ports \cup {NoPort}]]
  /\ reply \in [Tasks -> {"none", "ok", "already_connected", "port_not_found",
                          "send_failed", "backend_died"}]
  /\ holds \in [Tasks -> Ports \cup {NoPort}]
  /\ client \in {"open", "dropped", "stopping", "closed"}
  /\ requests \in 0..MaxRequests
  /\ arrived \in 0..MaxSeqEvents

-----------------------------------------------------------------------------
\* At most one of them, ever: two guards for one port would let the drop of one
\* cut the other's connection, and so would a guard beside a disconnect that
\* was sent for an earlier one.
OneOwner == \A p \in Ports :
  Cardinality(Holders(p)) + Cardinality(Unclaimed(p))
    + Cardinality(Disconnects(p)) <= 1

Up == phase \notin {"return", "gone"}       \* the registry still exists

\* A guard, or a successful reply, stands for a connection the backend has, as
\* long as the backend lives: commands reach it in the order they were sent.
GuardMeansConnected ==
  Up => \A p \in Ports : Holders(p) \cup Unclaimed(p) # {} => p \in connections

\* A connection outlives its guard only when the disconnect found the channel
\* full or the connect was cancelled; in every other history someone still
\* answers for it.
ConnectionOwned ==
  Up => \A p \in connections \ orphaned : Owned(p)

\* A request is always answered, or ends with an error when the thread dies: no
\* wake-up is lost between eventfd, poll and dispatch, and no command is left
\* behind in the channel.
RequestAnswered == \A t \in Tasks : at[t] = "wait" ~> at[t] # "wait"

\* Dropping the last handle stops the thread, wherever it is.
DropStopsThread == (client = "closed") ~> (phase = "gone")

-----------------------------------------------------------------------------
\* Connects of cancelled requests that are still queued.
Abandoned(p) == {i \in DOMAIN cmds : cmds[i] = Command("connect", p, Nobody)}

\* Ports whose disconnect is still queued, and how many abandoned connects are.
Releasing    == {p \in Ports : Up /\ Disconnects(p) # {}}
Abandonments == [p \in Ports |-> IF Up THEN Cardinality(Abandoned(p)) ELSE 0]

Service == INSTANCE ConnectionService WITH
             up <- Up,
             connections <- connections,
             request <- request,
             reply <- reply,
             holds <- holds,
             releasing <- Releasing,
             abandoned <- Abandonments

\* Channel, eventfd, poll loop and cancellation together implement the service an
\* application sees: each request takes effect once, between its making and its
\* answer, a guard's send finds its connection, a guard's drop ends it, and every
\* request is answered.
ImplementsService == Service!SSpec

-----------------------------------------------------------------------------
\* tests/connect_e2e.rs, second_destination_connect_rejected_until_drop: a
\* connect is refused with AlreadyConnected only until the first connection is
\* dropped.  So somebody answered for the connection in the way when the connect
\* was sent, or answers for it when it is refused.
RejectedUntilDrop ==
  [][\A t \in Tasks :
       reply[t] # "already_connected" /\ reply'[t] = "already_connected" =>
         t \in contested \/ Owned(request[t].port)]_vars
=============================================================================
