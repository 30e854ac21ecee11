------------------------------- MODULE WebPorts -------------------------------
(***************************************************************************)
(* platform/web.rs: the backend in a browser, where nothing runs in        *)
(* parallel and everything can run in between.  WebState is shared by the  *)
(* drain of the commands, the futures that await a port's open(), the      *)
(* statechange callback and on_drop; each runs to its end or to its next   *)
(* await.  Sources are connected in one go, destinations across an await.  *)
(*                                                                         *)
(* A connection is told from others of its port by the number of the       *)
(* request that made it, which the code does not have: its maps and its    *)
(* disconnect commands know the port only.  Virtual ports are unsupported. *)
(***************************************************************************)
EXTENDS Integers, Sequences, FiniteSets

CONSTANTS Tasks,         \* tasks of the application
          Inputs,        \* sources
          Outputs,       \* destinations
          Watched,       \* those of them whose changes the subscriber follows
          MaxRequests,   \* bound: connects asked for
          MaxPlugs       \* bound: ports plugged in or out

Ports == Inputs \cup Outputs

ASSUME WebAssumption == /\ Inputs \cap Outputs = {}
                        /\ Watched \subseteq Ports
                        /\ MaxRequests \in Nat
                        /\ MaxPlugs \in Nat

\* The names that stand for no port and no task are not among them.
ASSUME NamesAssumption == "none" \notin Ports /\ "nobody" \notin Tasks

VARIABLES
  \* the browser
  access,       \* the promise of requestMIDIAccess
  available,    \* the ports of MIDIAccess
  opened,       \* outputs whose connection is open
  handler,      \* the connection whose closure is an input's onmidimessage
  changed,      \* ports with a statechange event under way
  plugs,        \* ports plugged in or out so far
  \* WebState and the tasks of the event loop
  callback,     \* whether onstatechange is installed
  conn,         \* connections and destinations: the connection of a port
  opening,      \* futures of connect_destination
  cmds,         \* the command channel
  woken,        \* whether a drain is due
  draining,     \* whether one is running
  \* the application
  client,       \* the Client handle, then PlatformClient::drop
  request,      \* what a task awaits
  reply,        \* what its oneshot channel holds
  holds,        \* the connection whose guard it holds
  requests,     \* connects asked for so far
  sub,          \* how far the subscriber of the changes is
  known,        \* what it knows of a port
  \* history
  lost,         \* how a connection ended other than by its own guard
  late          \* what was finished after on_drop

browser == <<access, available, opened, handler, changed, plugs>>
state   == <<callback, conn>>
loop    == <<opening, cmds, woken, draining>>
app     == <<client, request, reply, holds, requests>>
subvars == <<sub, known>>
history == <<lost, late>>
vars    == <<browser, state, loop, app, subvars, history>>

None   == 0
Nobody == "nobody"

NoRequest == [op |-> "none", port |-> "none", id |-> None]
NoGuard   == [port |-> "none", id |-> None]

\* Every port is plugged in at first; MaxPlugs lets them go and come back.
Init == /\ access = "asked"
        /\ available = Ports
        /\ opened = {} /\ changed = {} /\ plugs = 0
        /\ handler = [i \in Inputs |-> None]
        /\ callback = FALSE
        /\ conn = [p \in Ports |-> None]
        /\ opening = {}
        /\ cmds = <<>> /\ woken = FALSE /\ draining = FALSE
        /\ client = "starting"
        /\ request = [t \in Tasks |-> NoRequest]
        /\ reply = [t \in Tasks |-> "none"]
        /\ holds = [t \in Tasks |-> NoGuard]
        /\ requests = 0
        /\ sub = "none"
        /\ known = [p \in Watched |-> "unheard"]
        /\ lost = [id \in 1..MaxRequests |-> "no"]
        /\ late = {}

\* A task of the event loop runs to its end: a drain is not interrupted.
Free == ~draining

-----------------------------------------------------------------------------
(* disconnect, disconnect_destination and on_drop.                         *)

\* Slip: the entry goes, the input keeps its handler.
DisconnectKeepsHandler(p, due) ==
  /\ conn' = [conn EXCEPT ![p] = None]
  /\ opened' = IF conn[p] = None THEN opened ELSE opened \ {p}
  /\ changed' = IF conn[p] # None /\ p \in opened THEN due \cup {p} ELSE due
  /\ UNCHANGED handler

\* The entry goes, the input's handler with it, the output is closed, which is
\* a change of state of its own, beside those due.
Disconnect(p, due) ==
  /\ conn' = [conn EXCEPT ![p] = None]
  /\ handler' = IF p \in Inputs /\ conn[p] # None
                THEN [handler EXCEPT ![p] = None] ELSE handler
  /\ opened' = IF conn[p] = None THEN opened ELSE opened \ {p}
  /\ changed' = IF conn[p] # None /\ p \in opened THEN due \cup {p} ELSE due

\* Slip: the outputs forgotten, not closed.
OnDropKeepsOpen ==
  /\ client' = "dropped"
  /\ callback' = FALSE
  /\ conn' = [p \in Ports |-> None]
  /\ handler' = [i \in Inputs |-> IF conn[i] = None THEN handler[i] ELSE None]
  /\ UNCHANGED opened

OnDrop == /\ client' = "dropped"
          /\ callback' = FALSE
          /\ conn' = [p \in Ports |-> None]
          /\ handler' = [i \in Inputs |-> IF conn[i] = None THEN handler[i] ELSE None]
          /\ opened' = {p \in opened : conn[p] = None}

-----------------------------------------------------------------------------
(* Backend::start: the callback first, then the access, then the reply to  *)
(* Client::new, which the application may have given up by then.           *)

AccessGranted ==
  /\ access = "asked"
  /\ Free
  /\ access' = "granted"
  /\ callback' = TRUE
  /\ client' = IF client = "starting" THEN "open" ELSE client
  /\ late' = IF client = "dropped" THEN late \cup {"access"} ELSE late
  /\ UNCHANGED <<available, opened, handler, changed, plugs, conn, loop, request,
                 reply, holds, requests, subvars, lost>>

\* Client::new fails, or its future is dropped.
StartFails == /\ client = "starting"
              /\ access' \in {"asked", "refused"}
              /\ OnDrop
              /\ UNCHANGED <<available, changed, plugs, loop, request, reply, holds,
                             requests, subvars, history>>

HasAccess == access = "granted" /\ (client = "dropped" => "access" \in late)

-----------------------------------------------------------------------------
(* The application.  Sending a command and waking the drain are one step   *)
(* of its task.                                                            *)

Command(op, p, id, t) == [op |-> op, port |-> p, id |-> id, task |-> t]

\* Slip: the command sent, the drain not woken.
EnqueueUnwoken(cmd) == cmds' = Append(cmds, cmd) /\ UNCHANGED woken

Enqueue(cmd) == cmds' = Append(cmds, cmd) /\ woken' = TRUE

Ask(t, op, p, id) ==
  /\ Free
  /\ request[t] = NoRequest
  /\ request' = [request EXCEPT ![t] = [op |-> op, port |-> p, id |-> id]]
  /\ Enqueue(Command(op, p, id, t))
  /\ UNCHANGED <<browser, state, opening, draining, client, reply, holds, subvars,
                 history>>

Connect(t, p) == /\ client = "open"
                 /\ holds[t] = NoGuard
                 /\ requests < MaxRequests
                 /\ requests' = requests + 1
                 /\ Ask(t, "connect", p, requests + 1)

Send(t) == /\ holds[t].port \in Outputs
           /\ UNCHANGED requests
           /\ Ask(t, "send", holds[t].port, None)

Answered(t) == request[t] # NoRequest /\ reply[t] # "none"

Forget(t) == /\ request' = [request EXCEPT ![t] = NoRequest]
             /\ reply' = [reply EXCEPT ![t] = "none"]

RequestDone(t) ==
  /\ Free
  /\ Answered(t)
  /\ Forget(t)
  /\ holds' = IF request[t].op = "connect" /\ reply[t] = "ok"
              THEN [holds EXCEPT ![t] = [port |-> request[t].port,
                                         id |-> request[t].id]]
              ELSE holds
  /\ UNCHANGED <<browser, state, loop, client, requests, subvars, history>>

\* The future of a connect is dropped: command and open go on, for nobody.  A
\* send that is given up leaves nothing behind.
Cancel(t) ==
  /\ Free
  /\ request[t].op = "connect"
  /\ Forget(t)
  /\ cmds' = [i \in DOMAIN cmds |->
                IF cmds[i].task = t THEN [cmds[i] EXCEPT !.task = Nobody] ELSE cmds[i]]
  /\ opening' = {IF o.task = t THEN [o EXCEPT !.task = Nobody] ELSE o : o \in opening}
  /\ UNCHANGED <<browser, state, woken, draining, client, holds, requests, subvars,
                 history>>

\* ConnectionGuard::drop; the last guard runs on_drop when the handle is gone.
DropGuard(t) ==
  LET last == client = "detached" /\ \A u \in Tasks \ {t} : holds[u] = NoGuard
  IN /\ Free
     /\ holds[t] # NoGuard
     /\ request[t] = NoRequest
     /\ holds' = [holds EXCEPT ![t] = NoGuard]
     /\ Enqueue(Command("disconnect", holds[t].port, holds[t].id, Nobody))
     /\ IF last THEN OnDrop
        ELSE UNCHANGED <<client, callback, conn, handler, opened>>
     /\ UNCHANGED <<access, available, changed, plugs, opening, draining, request,
                    reply, requests, subvars, history>>

DropClient ==
  /\ Free
  /\ client = "open"
  /\ \A t \in Tasks : request[t] = NoRequest
  /\ IF \A t \in Tasks : holds[t] = NoGuard
     THEN OnDrop
     ELSE client' = "detached" /\ UNCHANGED <<callback, conn, handler, opened>>
  /\ UNCHANGED <<access, available, changed, plugs, loop, request, reply, holds,
                 requests, subvars, history>>

\* It registers for the changes, then asks for the list, as any request.
Subscribe == /\ Free
             /\ client = "open"
             /\ sub = "none"
             /\ sub' = "subscribed"
             /\ Enqueue(Command("list", "none", None, Nobody))
             /\ UNCHANGED <<browser, state, opening, draining, app, known, history>>

-----------------------------------------------------------------------------
(* drain and process.                                                      *)

\* Once woken, one command after another until the channel is empty.
Take(op, ports) == /\ woken \/ draining
                   /\ cmds # <<>>
                   /\ Head(cmds).op = op
                   /\ Head(cmds).port \in ports
                   /\ cmds' = Tail(cmds)
                   /\ woken' = FALSE
                   /\ draining' = (Tail(cmds) # <<>>)

Reply(t, result) == reply' = IF t = Nobody THEN reply
                             ELSE [reply EXCEPT ![t] = result]

\* Slip: the connections not looked at.
RefusalUnheeding(p) == IF ~HasAccess THEN "not_ready"
                       ELSE IF p \notin available THEN "port_not_found"
                       ELSE "none"

\* The connection that is in the way, the missing access and the missing port,
\* in this order.
Refusal(p) == IF conn[p] # None THEN "already_connected"
              ELSE IF ~HasAccess THEN "not_ready"
              ELSE IF p \notin available THEN "port_not_found"
              ELSE "none"

ProcessConnectSource ==
  LET cmd == Head(cmds)
      p   == cmd.port
  IN /\ Take("connect", Inputs)
     /\ IF Refusal(p) # "none"
        THEN Reply(cmd.task, Refusal(p)) /\ UNCHANGED <<handler, conn>>
        ELSE /\ handler' = [handler EXCEPT ![p] = cmd.id]
             /\ conn' = [conn EXCEPT ![p] = cmd.id]
             /\ Reply(cmd.task, "ok")
     /\ UNCHANGED <<access, available, opened, changed, plugs, callback, opening,
                    client, request, holds, requests, subvars, history>>

\* A future of its own, that starts later.
ProcessConnectDestination ==
  LET cmd == Head(cmds)
  IN /\ Take("connect", Outputs)
     /\ opening' = opening \cup {[id |-> cmd.id, port |-> cmd.port, task |-> cmd.task,
                                  at |-> "spawned"]}
     /\ UNCHANGED <<browser, state, app, subvars, history>>

\* Whatever the entry is now goes, whoever sent the command.
ProcessDisconnect ==
  LET cmd == Head(cmds)
      cur == conn[cmd.port]
  IN /\ Take("disconnect", Ports)
     /\ Disconnect(cmd.port, changed)
     /\ lost' = IF cur \notin {None, cmd.id} THEN [lost EXCEPT ![cur] = "cut"] ELSE lost
     /\ UNCHANGED <<access, available, plugs, callback, opening, app, subvars, late>>

\* "sent": whatever the browser makes of it.
ProcessSend ==
  LET cmd == Head(cmds)
  IN /\ Take("send", Outputs)
     /\ Reply(cmd.task, IF conn[cmd.port] # None THEN "sent" ELSE "port_disconnected")
     /\ UNCHANGED <<browser, state, opening, client, request, holds, requests, subvars,
                    history>>

\* The list answers for the ports of which nothing was heard since subscribing.
ProcessList ==
  /\ Take("list", {"none"})
  /\ sub' = "listed"
  /\ known' = [p \in Watched |->
                 IF known[p] # "unheard" THEN known[p]
                 ELSE IF HasAccess /\ p \in available THEN "there" ELSE "gone"]
  /\ UNCHANGED <<browser, state, opening, app, history>>

-----------------------------------------------------------------------------
(* connect_destination: the checks before the await are not made again     *)
(* after it.                                                               *)

OpenStarts(o) ==
  /\ Free
  /\ o.at = "spawned"
  /\ IF Refusal(o.port) # "none"
     THEN opening' = opening \ {o} /\ Reply(o.task, Refusal(o.port))
     ELSE /\ opening' = (opening \ {o}) \cup {[o EXCEPT !.at = "awaiting"]}
          /\ UNCHANGED reply
  /\ UNCHANGED <<browser, state, cmds, woken, draining, client, request, holds,
                 requests, subvars, history>>

\* Opening changes the port's state, plugged in or not.
OpenResolves(o) ==
  /\ Free
  /\ o.at = "awaiting"
  /\ opening' = opening \ {o}
  /\ conn' = [conn EXCEPT ![o.port] = o.id]
  /\ opened' = opened \cup {o.port}
  /\ changed' = IF o.port \in opened THEN changed ELSE changed \cup {o.port}
  /\ Reply(o.task, "ok")
  /\ lost' = IF conn[o.port] = None THEN lost
             ELSE [lost EXCEPT ![conn[o.port]] = "replaced"]
  /\ late' = IF client = "dropped" THEN late \cup {o.port} ELSE late
  /\ UNCHANGED <<access, available, handler, plugs, callback, cmds, woken, draining,
                 client, request, holds, requests, subvars>>

OpenRejected(o) ==
  /\ Free
  /\ o.at = "awaiting"
  /\ opening' = opening \ {o}
  /\ Reply(o.task, "open_failed")
  /\ UNCHANGED <<browser, state, cmds, woken, draining, client, request, holds,
                 requests, subvars, history>>

-----------------------------------------------------------------------------
(* Ports come and go; handle_statechange asks what is true when it runs.   *)

\* What happens while nobody listens shows only in what is there later.
Plug(p) == /\ callback
           /\ plugs < MaxPlugs
           /\ plugs' = plugs + 1
           /\ available' = IF p \in available THEN available \ {p}
                           ELSE available \cup {p}
           /\ changed' = changed \cup {p}
           /\ UNCHANGED <<access, opened, handler, state, loop, app, subvars, history>>

Heard(p, what) == known' = IF sub = "none" \/ p \notin Watched THEN known
                           ELSE [known EXCEPT ![p] = what]

StateChangeAdded(p) ==
  /\ Free
  /\ callback /\ p \in changed /\ p \in available
  /\ changed' = changed \ {p}
  /\ Heard(p, "there")
  /\ UNCHANGED <<access, available, opened, handler, plugs, state, loop, app, sub,
                 history>>

\* Slip: only the port of a connection is reported.
HeardRemovedSilent(p) == IF conn[p] = None THEN UNCHANGED known ELSE Heard(p, "gone")

HeardRemoved(p) == Heard(p, "gone")

\* Slip: the connection survives, to be told by its guard.
StateChangeRemovedKeeps(p) ==
  /\ Free
  /\ callback /\ p \in changed /\ p \notin available
  /\ HeardRemoved(p)
  /\ changed' = changed \ {p}
  /\ UNCHANGED <<access, available, opened, handler, plugs, state, loop, app, sub,
                 history>>

\* The removal takes the connection with it.
StateChangeRemoved(p) ==
  /\ Free
  /\ callback /\ p \in changed /\ p \notin available
  /\ HeardRemoved(p)
  /\ Disconnect(p, changed \ {p})
  /\ lost' = IF conn[p] = None THEN lost ELSE [lost EXCEPT ![conn[p]] = "removed"]
  /\ UNCHANGED <<access, available, plugs, callback, loop, app, sub, late>>

-----------------------------------------------------------------------------
Process == \/ ProcessConnectSource \/ ProcessConnectDestination \/ ProcessDisconnect
           \/ ProcessSend \/ ProcessList

OpenEnds(o) == OpenResolves(o) \/ OpenRejected(o)

Next == \/ AccessGranted \/ StartFails
        \/ \E t \in Tasks : \/ \E p \in Ports : Connect(t, p)
                            \/ Send(t) \/ RequestDone(t) \/ Cancel(t) \/ DropGuard(t)
        \/ DropClient \/ Subscribe
        \/ Process
        \/ \E o \in opening : OpenStarts(o) \/ OpenEnds(o)
        \/ \E p \in Ports : Plug(p) \/ StateChangeAdded(p) \/ StateChangeRemoved(p)

\* The event loop runs what is due in the order in which it became due, so
\* nothing is overtaken for ever by what comes later, and the promise of open()
\* is settled.  Nothing is assumed of the user, the ports or the application's
\* choices.
Fairness == /\ WF_vars(Process)
            /\ SF_vars(\E o \in opening : OpenStarts(o) \/ OpenEnds(o))
            /\ \A t \in Tasks : SF_vars(RequestDone(t))

Spec == Init /\ [][Next]_vars /\ Fairness

-----------------------------------------------------------------------------
Ids    == 0..MaxRequests
Askers == Tasks \cup {Nobody}

\* Every variable has its type, and a reply belongs to a request.
TypeOK ==
  /\ access \in {"asked", "granted", "refused"}
  /\ available \subseteq Ports /\ changed \subseteq Ports
  /\ opened \subseteq Outputs
  /\ handler \in [Inputs -> Ids] /\ conn \in [Ports -> Ids]
  /\ callback \in BOOLEAN /\ woken \in BOOLEAN /\ draining \in BOOLEAN
  /\ opening \subseteq [id : Ids, port : Outputs, task : Askers,
                        at : {"spawned", "awaiting"}]
  /\ cmds \in Seq([op : {"connect", "disconnect", "send", "list"},
                   port : Ports \cup {"none"}, id : Ids, task : Askers])
  /\ client \in {"starting", "open", "detached", "dropped"}
  /\ request \in [Tasks -> [op : {"none", "connect", "send"},
                            port : Ports \cup {"none"}, id : Ids]]
  /\ holds \in [Tasks -> [port : Ports \cup {"none"}, id : Ids]]
  /\ \A t \in Tasks : reply[t] # "none" => request[t] # NoRequest
  /\ sub \in {"none", "subscribed", "listed"}
  /\ known \in [Watched -> {"unheard", "there", "gone"}]
  /\ lost \in [1..MaxRequests -> {"no", "cut", "replaced", "removed"}]
  /\ late \subseteq {"access"} \cup Outputs
  /\ plugs \in 0..MaxPlugs /\ requests \in Ids

\* The connections of p that a guard, a reply yet to be picked up or a disconnect
\* under way answers for.
Holders(p) == {t \in Tasks : holds[t].port = p}
Owners(p)  ==
       {holds[t].id : t \in Holders(p)}
  \cup {request[t].id : t \in {u \in Tasks : request[u].op = "connect"
                                  /\ request[u].port = p /\ reply[u] = "ok"}}
  \cup {cmds[i].id : i \in {j \in DOMAIN cmds : cmds[j].op = "disconnect"
                                  /\ cmds[j].port = p}}

\* Each of them is the connection the backend has, so there is one at most,
\* unless a removal, an overlapping connect to a destination or the guard of a
\* connection lost in these ways took it away first: no other order of commands,
\* opens and changes lets the drop of one guard cut another's connection.
OwnsOrLost ==
  client # "dropped" =>
    \A p \in Ports : \A id \in Owners(p) :
      \/ conn[p] = id
      \/ lost[id] \in {"cut", "removed"}
      \/ lost[id] = "replaced" /\ p \in Outputs

\* An input calls the closure of its connection and of no other, and of none
\* once the client is dropped, whatever commands were still queued.
HearsConnected == \A i \in Inputs : handler[i] = conn[i]

\* A connection to a port that went away is about to be dropped, even if the
\* port went while its open was awaited.
RemovalSeen ==
  callback => \A p \in Ports : conn[p] # None /\ p \notin available => p \in changed

\* on_drop releases what the page holds: no callback and no open output remain,
\* but for what a promise settled after it brought.
Released ==
  client = "dropped" => /\ callback => "access" \in late
                        /\ opened \subseteq late

\* One who subscribes, then lists, then applies the changes knows which ports
\* there are, up to the events under way, although an event is read for what is
\* true when it runs.
SubscriberAgrees ==
  sub = "listed" /\ callback =>
    \A p \in Watched \ changed : known[p] = IF p \in available THEN "there" ELSE "gone"

\* A request is always answered: no command stays in the channel, and no open is
\* forgotten.
RequestAnswered == \A t \in Tasks : request[t] # NoRequest ~> request[t] = NoRequest

-----------------------------------------------------------------------------
\* tests/connect_e2e.rs, second_destination_connect_rejected_until_drop: while one
\* connection to a destination is held, no other is made.
SecondRejectedUntilDrop == \A p \in Outputs : Cardinality(Holders(p)) <= 1
=============================================================================
