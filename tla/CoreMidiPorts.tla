---------------------------- MODULE CoreMidiPorts ----------------------------
(***************************************************************************)
(* platform/coremidi.rs: three threads and the maps they share, each under *)
(* a lock of its own.  The global thread fills the caches, registers for   *)
(* notifications and handles them; the command thread of a client connects,*)
(* disconnects and keeps virtual ports; PlatformClient::drop runs on_drop  *)
(* wherever the last handle is dropped.  A step is what a thread does      *)
(* under one lock, so that anything may happen between two of them.        *)
(*                                                                         *)
(* An endpoint is known by its unique id, which it may have again when it  *)
(* comes back; "gen" tells the objects apart.  A connection is told from   *)
(* others of its endpoint by a number, which the code does not have.  The  *)
(* commands come in any order: CommandChannel has the channel.  There is   *)
(* one client, and one subscriber, as long as the client is open.          *)
(***************************************************************************)
EXTENDS Integers, Sequences, FiniteSets

CONSTANTS Sources,          \* unique ids of sources
          Destinations,     \* unique ids of destinations
          Virtual,          \* ids CoreMIDI may make up for a virtual port
          Connectable,      \* ids the application connects
          RemovedKnown,     \* whether a removed object still tells its id
          MaxGens,          \* bound: endpoints that appear
          MaxConnects       \* bound: connections begun

Uids == Sources \cup Destinations

\* Unique ids are 32 bits wide.
ASSUME CoreMidiAssumption == /\ IsFiniteSet(Uids)
                             /\ Sources \cap Destinations = {}
                             /\ Virtual \subseteq Uids
                             /\ Connectable \subseteq Uids
                             /\ RemovedKnown \in BOOLEAN
                             /\ MaxGens \in Nat
                             /\ MaxConnects \in Nat

VARIABLES
  \* CoreMIDI
  obj,           \* the endpoint that has a unique id
  made,          \* endpoints made so far
  notes,         \* notifications not yet delivered
  \* GlobalContext
  cache,         \* source_cache and dest_cache
  handlers,      \* disconnect_handlers and output_disconnect_handlers
  known,         \* what the subscriber was last told of an endpoint
  \* the client's shared maps
  conn,          \* connections and destination_connections
  told,          \* source connections whose stream got PortDisconnected
  disconnected,  \* disconnected_outputs
  \* the threads
  global,        \* where the global thread is
  cmd,           \* where the command thread is
  connects,      \* connections begun so far
  vports,        \* the client's virtual ports
  drop,          \* where on_drop is
  shutdown,      \* whether Shutdown is in the channel
  \* history
  unnoticed,     \* ids whose change, without a notice, misled the global thread
  late,          \* source connections finished after on_drop began
  missed,        \* connections whose handler came after their removal was handled
  crossed        \* ids that both threads were about to tell the subscriber of

coremidi == <<obj, made, notes>>
maps     == <<cache, handlers>>
clientv  == <<conn, told, disconnected>>
cmdv     == <<cmd, connects, vports>>
dropv    == <<drop, shutdown>>
tellv    == <<known, crossed>>
history  == <<unnoticed, late, missed>>
vars     == <<coremidi, maps, clientv, global, cmdv, dropv, tellv, history>>

None   == 0
NoConn == [no |-> None, gen |-> None]
NoUid  == "no uid"

GlobalAt(s, u, g, fns) == [at |-> s, uid |-> u, gen |-> g, fns |-> fns]
At(s)                  == GlobalAt(s, NoUid, None, {})
CmdAt(s, u, g, n)      == [at |-> s, uid |-> u, gen |-> g, no |-> n]
Idle                   == CmdAt("idle", NoUid, None, None)

Init == /\ obj = [u \in Uids |-> None]
        /\ made = 0
        /\ notes = <<>>
        /\ cache = [u \in Uids |-> None]
        /\ handlers = [u \in Uids |-> {}]
        /\ known = [u \in Uids |-> "unheard"]
        /\ conn = [u \in Uids |-> NoConn]
        /\ told = {} /\ disconnected = {}
        /\ global = At("scan_sources")
        /\ cmd = CmdAt("start", NoUid, None, None)
        /\ connects = 0
        /\ vports = {}
        /\ drop = [at |-> "open", conns |-> {}]
        /\ shutdown = FALSE
        /\ unnoticed = {} /\ late = {} /\ missed = {} /\ crossed = {}

-----------------------------------------------------------------------------
(* CoreMIDI: endpoints and notifications, queued once somebody registered. *)

Listening == global.at \notin {"scan_sources", "scan_dests", "register"}

Note(event, u, g) == [event |-> event, uid |-> u, gen |-> g]

Queue(events) == notes' = IF Listening THEN notes \o events ELSE notes

\* Kinds that are in the cache before anybody registered for changes of them.
Scanned(u) == \/ global.at = "register"
              \/ global.at = "scan_dests" /\ u \in Sources

Changes(u) == /\ unnoticed' = IF Scanned(u) THEN unnoticed \cup {u} ELSE unnoticed
              /\ UNCHANGED <<maps, clientv, global, cmdv, dropv, tellv, late, missed>>

\* An id that a virtual port was just assigned and gives up is not reused at once.
Appears(u) == /\ obj[u] = None
              /\ ~(cmd.at = "forget" /\ cmd.uid = u)
              /\ made < MaxGens
              /\ made' = made + 1
              /\ obj' = [obj EXCEPT ![u] = made + 1]
              /\ Queue(<<Note("added", u, made + 1)>>)
              /\ Changes(u)

Vanishes(u) == /\ obj[u] \notin {None} \cup vports
               /\ obj' = [obj EXCEPT ![u] = None]
               /\ Queue(<<Note("removed", u, obj[u])>>)
               /\ Changes(u) /\ UNCHANGED made

-----------------------------------------------------------------------------
(* init_global_io: the caches are filled before the notifications begin.   *)

Scan(here, uids, next) ==
  /\ global.at = here
  /\ cache' = [u \in Uids |-> IF u \in uids THEN obj[u] ELSE cache[u]]
  /\ global' = At(next)
  /\ UNCHANGED <<coremidi, handlers, clientv, cmdv, dropv, tellv, history>>

InitSourceCache == Scan("scan_sources", Sources, "scan_dests")
InitDestCache   == Scan("scan_dests", Destinations, "register")

Register == /\ global.at = "register"
            /\ global' = At("idle")
            /\ UNCHANGED <<coremidi, maps, clientv, cmdv, dropv, tellv, history>>

-----------------------------------------------------------------------------
(* Subscribers are told after the lock of the cache is given up.           *)

GlobalWillTell(u) == global.at \in {"tell_added", "take", "run", "tell_removed"}
                     /\ global.uid = u
CommandWillTell(u) == cmd.at \in {"connect_tell", "tell_forgotten", "add_tell"}
                      /\ cmd.uid = u

Tell(u, what) == /\ known' = IF drop.at = "open" THEN [known EXCEPT ![u] = what]
                             ELSE known
                 /\ crossed' = IF GlobalWillTell(u) /\ CommandWillTell(u)
                               THEN crossed \cup {u} ELSE crossed

-----------------------------------------------------------------------------
(* on_global_notification: on_source_added, on_source_removed and their    *)
(* twins for destinations.                                                 *)

GlobalStep == UNCHANGED <<obj, made, conn, cmdv, dropv, late>>

Take(event) == /\ global.at = "idle"
               /\ notes # <<>>
               /\ Head(notes).event = event
               /\ notes' = Tail(notes)
               /\ GlobalStep /\ UNCHANGED <<handlers, told, disconnected, tellv, missed>>

Going(at) == global.at = at /\ GlobalStep /\ UNCHANGED <<notes, unnoticed>>

\* The id an object tells: the one it has, or the one it had, if it tells that still.
IdTold(g) ==
  LET has == {u \in Uids : obj[u] = g}
      had == {u \in Uids : \E i \in DOMAIN notes : notes[i] = Note("removed", u, g)}
  IN IF has = {} /\ RemovedKnown THEN had ELSE has

\* The object is asked for its id; it may be gone.
AddedRead ==
  LET uids == IdTold(Head(notes).gen)
  IN /\ Take("added")
     /\ global' = IF uids = {} THEN global
                  ELSE GlobalAt("insert", CHOOSE u \in uids : TRUE, Head(notes).gen, {})
     /\ UNCHANGED <<cache, unnoticed>>

AddedInsert ==
  /\ Going("insert")
  /\ IF cache[global.uid] # None
     THEN UNCHANGED cache /\ global' = At("idle")
     ELSE /\ cache' = [cache EXCEPT ![global.uid] = global.gen]
          /\ global' = [global EXCEPT !.at = "tell_added"]
  /\ UNCHANGED <<handlers, told, disconnected, tellv, missed>>

AddedTell == /\ Going("tell_added")
             /\ Tell(global.uid, "there")
             /\ global' = At("idle")
             /\ UNCHANGED <<maps, told, disconnected, missed>>

SameKind(u, v) == u \in Sources <=> v \in Sources

\* Slip: any id that is listed.
AnyListed(u) == {v \in Uids : SameKind(u, v) /\ cache[v] # None}

\* find_stale_uid: any id of the kind that is listed and not there.
StaleUids(u) == {v \in Uids : SameKind(u, v) /\ cache[v] # None /\ obj[v] = None}

\* The id that choose_unique_id replaced, listed still: no notification comes for it,
\* and one that comes for another may be spent on it.
BeingForgotten == IF ~RemovedKnown /\ cmd.at = "forget" THEN {cmd.uid} ELSE {}

\* The id, from the object or else from what is missing, and the removal from
\* the cache are under one lock.
RemovedRead ==
  LET u    == Head(notes).uid
      uids == IF RemovedKnown THEN {u} \cap {v \in Uids : cache[v] # None}
              ELSE StaleUids(u)
  IN /\ Take("removed")
     /\ IF uids = {} THEN UNCHANGED <<cache, global, unnoticed>>
        ELSE \E v \in uids : /\ cache' = [cache EXCEPT ![v] = None]
                              /\ global' = GlobalAt("take", v, None, {})
                              /\ unnoticed' = unnoticed \cup ({v} \cap BeingForgotten)

ToPush(u) == IF cmd.at \in {"connect_tell", "clear", "handler"} /\ cmd.uid = u
             THEN {cmd.no} ELSE {}

\* Slip: the handlers of the other kind are looked up.
RemovedTakeOther == /\ Going("take")
                    /\ global' = GlobalAt("run", global.uid, None, {})
                    /\ missed' = missed \cup ToPush(global.uid)
                    /\ UNCHANGED <<maps, told, disconnected, tellv>>

RemovedTake == /\ Going("take")
               /\ handlers' = [handlers EXCEPT ![global.uid] = {}]
               /\ global' = GlobalAt("run", global.uid, None, handlers[global.uid])
               /\ missed' = missed \cup ToPush(global.uid)
               /\ UNCHANGED <<cache, told, disconnected, tellv>>

\* The closures: a source's stream gets an error, a destination's id a mark.
RemovedRun ==
  /\ Going("run")
  /\ told' = IF global.uid \in Sources THEN told \cup global.fns ELSE told
  /\ disconnected' = IF global.uid \in Destinations /\ global.fns # {}
                     THEN disconnected \cup {global.uid} ELSE disconnected
  /\ global' = GlobalAt("tell_removed", global.uid, None, {})
  /\ UNCHANGED <<maps, tellv, missed>>

RemovedTell == /\ Going("tell_removed")
               /\ Tell(global.uid, "gone")
               /\ global' = At("idle")
               /\ UNCHANGED <<maps, told, disconnected, missed>>

-----------------------------------------------------------------------------
(* The command thread.                                                     *)

CmdStep        == UNCHANGED <<global, dropv, missed>>
Working        == cmd.at = "idle" /\ CmdStep /\ UNCHANGED unnoticed
Continuing(at) == cmd.at = at /\ CmdStep /\ UNCHANGED <<connects, made>>
Carrying(at)   == Continuing(at) /\ UNCHANGED unnoticed

\* Backend::start, once init_global_io is through.
Start == /\ Carrying("start")
         /\ Listening
         /\ cmd' = Idle
         /\ UNCHANGED <<coremidi, maps, clientv, vports, tellv, late>>

\* The endpoint comes from the cache or else from CoreMIDI.
ConnectLookup(u) ==
  LET g == IF cache[u] # None THEN cache[u] ELSE obj[u]
  IN /\ Working
     /\ u \in Connectable
     /\ conn[u] = NoConn
     /\ g # None
     /\ connects < MaxConnects
     /\ connects' = connects + 1
     /\ cache' = [cache EXCEPT ![u] = g]
     /\ cmd' = CmdAt(IF cache[u] = None THEN "connect_tell"
                     ELSE IF u \in Sources THEN "handler" ELSE "clear",
                     u, g, connects + 1)
     /\ UNCHANGED <<coremidi, handlers, clientv, vports, tellv, late>>

ConnectTell ==
  /\ Carrying("connect_tell")
  /\ Tell(cmd.uid, "there")
  /\ cmd' = [cmd EXCEPT !.at = IF cmd.uid \in Sources THEN "handler" ELSE "clear"]
  /\ UNCHANGED <<coremidi, maps, clientv, vports, late>>

\* A destination only.
ConnectClear ==
  /\ Carrying("clear")
  /\ disconnected' = disconnected \ {cmd.uid}
  /\ cmd' = [cmd EXCEPT !.at = "handler"]
  /\ UNCHANGED <<coremidi, maps, conn, told, vports, tellv, late>>

Made == [conn EXCEPT ![cmd.uid] = [no |-> cmd.no, gen |-> cmd.gen]]

\* Slip: a destination's connection made without its handler.
ConnectHandlerSources ==
  /\ Carrying("handler")
  /\ IF cmd.uid \in Sources
     THEN /\ handlers' = [handlers EXCEPT ![cmd.uid] = @ \cup {cmd.no}]
          /\ cmd' = [cmd EXCEPT !.at = "attach"] /\ UNCHANGED conn
     ELSE cmd' = Idle /\ conn' = Made /\ UNCHANGED handlers
  /\ UNCHANGED <<notes, obj, cache, told, disconnected, vports, tellv, late>>

ConnectHandler ==
  /\ Carrying("handler")
  /\ handlers' = [handlers EXCEPT ![cmd.uid] = @ \cup {cmd.no}]
  /\ IF cmd.uid \in Sources
     THEN cmd' = [cmd EXCEPT !.at = "attach"] /\ UNCHANGED conn
     ELSE cmd' = Idle /\ conn' = Made
  /\ UNCHANGED <<coremidi, cache, told, disconnected, vports, tellv, late>>

\* Slip: a failure to attach that leaves the handler behind.
ConnectAttachKeepsHandler ==
  /\ Carrying("attach")
  /\ \/ obj[cmd.uid] = cmd.gen /\ cmd' = [cmd EXCEPT !.at = "insert"]
     \/ cmd' = Idle
  /\ UNCHANGED <<coremidi, maps, clientv, vports, tellv, late>>

\* A source only: the port is attached to the endpoint, which must be there and
\* may be refused even then.
ConnectAttach ==
  /\ Carrying("attach")
  /\ \E next \in {"unhandle"} \cup IF obj[cmd.uid] = cmd.gen THEN {"insert"} ELSE {} :
       cmd' = [cmd EXCEPT !.at = next]
  /\ UNCHANGED <<coremidi, maps, clientv, vports, tellv, late>>

ConnectInsert ==
  /\ Carrying("insert")
  /\ conn' = Made
  /\ late' = IF drop.at = "open" THEN late ELSE late \cup {cmd.no}
  /\ cmd' = Idle
  /\ UNCHANGED <<coremidi, maps, told, disconnected, vports, tellv>>

Disconnect(u) ==
  /\ Working
  /\ conn[u] # NoConn
  /\ conn' = [conn EXCEPT ![u] = NoConn]
  /\ disconnected' = disconnected \ {u}
  /\ cmd' = CmdAt("unhandle", u, None, None)
  /\ UNCHANGED <<coremidi, maps, told, connects, vports, tellv, late>>

\* remove_client_handlers.
Unhandle == /\ Carrying("unhandle")
            /\ handlers' = [handlers EXCEPT ![cmd.uid] = {}]
            /\ cmd' = Idle
            /\ UNCHANGED <<coremidi, cache, clientv, vports, tellv, late>>

\* Other ids a virtual destination may ask for.
Wanted(u) == IF u \in Destinations THEN Destinations \ {u} ELSE {}

\* A virtual port is an endpoint like others, with an id CoreMIDI makes up; for
\* a destination another id may have been asked for.
CreateVirtual(u) ==
  /\ Working
  /\ u \in Virtual
  /\ obj[u] = None /\ cache[u] = None
  /\ made < MaxGens
  /\ made' = made + 1
  /\ obj' = [obj EXCEPT ![u] = made + 1]
  /\ vports' = vports \cup {made + 1}
  /\ Queue(<<Note("added", u, made + 1)>>)
  /\ \E next \in IF Wanted(u) = {} THEN {"add"} ELSE {"add", "choose"} :
       cmd' = CmdAt(next, u, made + 1, None)
  /\ UNCHANGED <<maps, clientv, connects, tellv, late>>

BeingInserted == IF global.at = "insert" THEN {global.uid} ELSE {}

\* Ids that a removal on its way will take off the list, whoever has them by then.
BeingRemoved ==
  {u \in Uids : RemovedKnown /\ \E i \in DOMAIN notes :
                   notes[i].event = "removed" /\ notes[i].uid = u}

\* choose_unique_id.  An id that is taken is refused and the port dropped.
ChooseUniqueId(wanted) ==
  /\ Continuing("choose")
  /\ wanted \in Wanted(cmd.uid)
  /\ IF obj[wanted] = None
     THEN /\ obj' = [obj EXCEPT ![cmd.uid] = None, ![wanted] = cmd.gen]
          /\ cmd' = [cmd EXCEPT !.at = "forget"]
          /\ unnoticed' = unnoticed \cup ({cmd.uid} \cap BeingInserted)
                                   \cup ({wanted} \cap BeingRemoved)
          /\ UNCHANGED <<notes, vports>>
     ELSE /\ obj' = [obj EXCEPT ![cmd.uid] = None]
          /\ Queue(<<Note("removed", cmd.uid, cmd.gen)>>)
          /\ vports' = vports \ {cmd.gen}
          /\ cmd' = Idle
          /\ UNCHANGED unnoticed
  /\ UNCHANGED <<maps, clientv, tellv, late>>

Chosen == CHOOSE u \in Uids : obj[u] = cmd.gen

\* Slip: the list changed without telling the subscriber.
ForgetAssignedSilent ==
  /\ Carrying("forget")
  /\ cache' = [cache EXCEPT ![cmd.uid] = None]
  /\ cmd' = CmdAt("add", Chosen, cmd.gen, None)
  /\ UNCHANGED <<coremidi, handlers, clientv, vports, tellv, late>>

\* The id it had is taken off the list.
ForgetAssigned ==
  /\ Carrying("forget")
  /\ cache' = [cache EXCEPT ![cmd.uid] = None]
  /\ cmd' = IF cache[cmd.uid] = None THEN CmdAt("add", Chosen, cmd.gen, None)
            ELSE [cmd EXCEPT !.at = "tell_forgotten"]
  /\ UNCHANGED <<coremidi, handlers, clientv, vports, tellv, late>>

TellForgotten == /\ Carrying("tell_forgotten")
                 /\ Tell(cmd.uid, "gone")
                 /\ cmd' = CmdAt("add", Chosen, cmd.gen, None)
                 /\ UNCHANGED <<coremidi, maps, clientv, vports, late>>

\* on_source_added, on_dest_added on this thread.
VirtualAdd == /\ Carrying("add")
              /\ IF cache[cmd.uid] # None
                 THEN UNCHANGED cache /\ cmd' = Idle
                 ELSE /\ cache' = [cache EXCEPT ![cmd.uid] = cmd.gen]
                      /\ cmd' = [cmd EXCEPT !.at = "add_tell"]
              /\ UNCHANGED <<coremidi, handlers, clientv, vports, tellv, late>>

VirtualTell == /\ Carrying("add_tell")
               /\ Tell(cmd.uid, "there")
               /\ cmd' = Idle
               /\ UNCHANGED <<coremidi, maps, clientv, vports, late>>

DestroyVirtual(u) == /\ Working
                     /\ obj[u] \in vports
                     /\ obj' = [obj EXCEPT ![u] = None]
                     /\ vports' = vports \ {obj[u]}
                     /\ Queue(<<Note("removed", u, obj[u])>>)
                     /\ UNCHANGED <<made, maps, clientv, cmd, connects, tellv, late>>

\* The thread ends on Shutdown, or when the channel is empty and has no sender
\* left; it takes the handlers of its destinations and its virtual ports along.
Stop == LET gone == {u \in Uids : obj[u] \in vports}
        IN /\ Carrying("idle")
           /\ shutdown \/ drop.at = "closed"
           /\ handlers' = [u \in Uids |-> IF u \in Destinations /\ conn[u] # NoConn
                                          THEN {} ELSE handlers[u]]
           /\ obj' = [u \in Uids |-> IF u \in gone THEN None ELSE obj[u]]
           /\ \E order \in [1..Cardinality(gone) -> gone] :
                /\ \A i, j \in DOMAIN order : order[i] = order[j] => i = j
                /\ Queue([i \in DOMAIN order |->
                            Note("removed", order[i], obj[order[i]])])
           /\ vports' = {}
           /\ conn' = [u \in Uids |-> NoConn]
           /\ cmd' = CmdAt("gone", NoUid, None, None)
           /\ UNCHANGED <<cache, told, disconnected, tellv, late>>

-----------------------------------------------------------------------------
(* on_drop, on the thread of the last handle; the command thread may still *)
(* have commands of requests and guards given up before.                   *)

DropStep(at, next) == /\ drop.at = at
                      /\ drop' = next
                      /\ UNCHANGED <<coremidi, cache, clientv, global, cmdv, tellv, history>>

\* The client's entries in senders, output_senders and command_senders go.
OnDrop == /\ DropStep("open", [drop EXCEPT !.at = "read"])
          /\ cmd.at # "start"
          /\ UNCHANGED <<handlers, shutdown>>

OnDropRead == /\ DropStep("read", [at |-> "unhandle",
                                   conns |-> {u \in Sources : conn[u] # NoConn}])
              /\ UNCHANGED <<handlers, shutdown>>

OnDropUnhandle ==
  /\ DropStep("unhandle", [at |-> "shutdown", conns |-> {}])
  /\ handlers' = [u \in Uids |-> IF u \in drop.conns THEN {} ELSE handlers[u]]
  /\ UNCHANGED shutdown

\* A full channel loses the Shutdown.
OnDropShutdown == /\ DropStep("shutdown", [drop EXCEPT !.at = "closed"])
                  /\ shutdown' \in BOOLEAN
                  /\ UNCHANGED handlers

-----------------------------------------------------------------------------
CoreMidi == \E u \in Uids : Appears(u) \/ Vanishes(u)

GlobalThread == \/ InitSourceCache \/ InitDestCache \/ Register
                \/ AddedRead \/ AddedInsert \/ AddedTell
                \/ RemovedRead \/ RemovedTake \/ RemovedRun \/ RemovedTell

CommandThread == \/ Start
                 \/ \E u \in Uids : \/ ConnectLookup(u) \/ Disconnect(u)
                                    \/ CreateVirtual(u) \/ DestroyVirtual(u)
                                    \/ ChooseUniqueId(u)
                 \/ ConnectTell \/ ConnectClear \/ ConnectHandler \/ ConnectAttach
                 \/ ConnectInsert \/ Unhandle
                 \/ ForgetAssigned \/ TellForgotten \/ VirtualAdd \/ VirtualTell
                 \/ Stop

DropThread == OnDrop \/ OnDropRead \/ OnDropUnhandle \/ OnDropShutdown

Next == CoreMidi \/ GlobalThread \/ CommandThread \/ DropThread

Spec == Init /\ [][Next]_vars

-----------------------------------------------------------------------------
Gens == 0..MaxGens
Nos  == 0..MaxConnects

\* The types: in particular a mark is set on destinations only.
TypeOK ==
  /\ obj \in [Uids -> Gens] /\ cache \in [Uids -> Gens]
  /\ made \in Gens /\ connects \in Nos
  /\ notes \in Seq([event : {"added", "removed"}, uid : Uids, gen : Gens])
  /\ handlers \in [Uids -> SUBSET (Nos \ {None})]
  /\ known \in [Uids -> {"unheard", "there", "gone"}]
  /\ conn \in [Uids -> [no : Nos, gen : Gens]]
  /\ told \subseteq Nos /\ disconnected \subseteq Destinations
  /\ global \in [at : {"scan_sources", "scan_dests", "register", "idle", "insert",
                       "tell_added", "take", "run", "tell_removed"},
                 uid : Uids \cup {NoUid}, gen : Gens, fns : SUBSET Nos]
  /\ cmd \in [at : {"start", "idle", "connect_tell", "clear", "handler", "attach",
                    "insert", "unhandle", "choose", "forget", "tell_forgotten",
                    "add", "add_tell", "gone"},
              uid : Uids \cup {NoUid}, gen : Gens, no : Nos]
  /\ vports \subseteq Gens
  /\ drop \in [at : {"open", "read", "unhandle", "shutdown", "closed"},
               conns : SUBSET Sources]
  /\ shutdown \in BOOLEAN
  /\ unnoticed \subseteq Uids /\ crossed \subseteq Uids
  /\ late \subseteq Nos /\ missed \subseteq Nos

\* Nobody is at work and no notification is left.
Quiet == notes = <<>> /\ global.at = "idle" /\ cmd.at \in {"idle", "gone"}

\* Whether the application is told that a connection's endpoint went: by the
\* stream of a source, by the next send to a destination (resolve_output_state).
Told(u) == IF u \in Sources THEN conn[u].no \in told ELSE u \in disconnected

\* A connection of an open client has a handler in the map, or in the hands of
\* the global thread, or was told that its endpoint went: no order of connects,
\* disconnects, failures to attach and removals loses a handler.
HandlerOrTold ==
  drop.at = "open" =>
    \A u \in Uids : conn[u] # NoConn =>
      conn[u].no \in handlers[u] \cup global.fns \/ Told(u)

\* Once no thread has anything left to do, a connection whose endpoint is gone was
\* told so, whichever id find_stale_uid guessed for which removal, unless the
\* removal was handled while handle_connect_destination or connect_source was
\* between its lookup and its push, or something changed without a notice.
EveryTold ==
  Quiet /\ unnoticed = {} /\ drop.at = "open" =>
    \A u \in Uids : conn[u] # NoConn /\ obj[u] = None /\ conn[u].no \notin missed =>
      Told(u)

\* A client that is gone leaves no handler in the global maps, except those of
\* source connections that the command thread finished after on_drop began.
HandlersReleased ==
  cmd.at = "gone" /\ drop.at = "closed" => \A u \in Uids : handlers[u] \subseteq late

\* Once no thread has anything left to do, every endpoint is in the cache: neither
\* a wrong guess of find_stale_uid nor the changes of choose_unique_id lose one,
\* except those that appeared while the caches were filled (coremidi.rs:206) and a
\* virtual port that was given an id which a removal on its way takes off the list.
ExistsListed ==
  Quiet => \A u \in Uids \ unnoticed : obj[u] # None => cache[u] # None

\* enumerate_sources_with_cache, enumerate_destinations_with_cache: what is
\* there, and what the cache has besides.
Listed(u) == obj[u] # None \/ cache[u] # None

\* Nor does a list show an endpoint that is gone, unless something changed
\* without a notice: while the caches were filled, or when choose_unique_id
\* replaced an id that the global thread had read and not yet inserted, or took for
\* the one that another removal was about.
ListedExists == Quiet /\ unnoticed = {} => \A u \in Uids : Listed(u) => obj[u] # None

\* The list is right in both directions.
ListExact == ExistsListed /\ ListedExists

\* Two threads change the cache and tell the subscriber after they gave up its
\* lock.  What a subscriber was last told of an id is what the cache says, unless
\* both were about to tell it of that id at once.
SubscriberAgrees ==
  Quiet /\ drop.at = "open" =>
    \A u \in Uids \ crossed : known[u] # "unheard" =>
      (known[u] = "there" <=> cache[u] # None)

\* connect_destination_clears_stale_disconnected_flag (coremidi.rs:1228): a
\* connection to an endpoint that is there is not taken for disconnected.  The
\* handlers of an earlier connection may still run after the mark was cleared.
LiveNotMarked == \A u \in Uids : conn[u] # NoConn /\ conn[u].gen = obj[u] => ~Told(u)
=============================================================================
