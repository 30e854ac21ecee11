------------------------------ MODULE AlsaPorts ------------------------------
(***************************************************************************)
(* PortRegistry of platform/alsa.rs: which ports the backend lists, which  *)
(* connections and virtual ports it keeps, and how it follows the          *)
(* sequencer's announcements while ports come and go.                      *)
(*                                                                         *)
(* The sequencer changes at any time; the backend learns of it from a      *)
(* queue of announcements it reads later, and asks the sequencer for what  *)
(* an announcement does not say.  Numbers are reused: an address names     *)
(* different ports over time, told apart here by "gen", which the code     *)
(* does not have (a port's name stands in the same place of the record).   *)
(*                                                                         *)
(* A command is one step that begins with the application's call: nothing  *)
(* else about the channel matters here (CommandChannel has it).  A command *)
(* that is refused changes nothing and is no step.                         *)
(***************************************************************************)
EXTENDS Integers, Sequences, FiniteSets

CONSTANTS Ports,        \* addresses of other clients' ports
          Clients,      \* other clients
          ClientOf,     \* the client of each of Ports
          CapSets,      \* capabilities a port of theirs may have
          MaxStarts,    \* bound: ports other clients start
          MaxVirtual,   \* bound: virtual ports created
          MaxPorts      \* bound: both together

Kinds == {"source", "destination"}

ASSUME PortsAssumption == /\ ClientOf \in [Ports -> Clients]
                          /\ CapSets \subseteq SUBSET Kinds
                          /\ MaxStarts \in Nat
                          /\ MaxVirtual \in Nat
                          /\ MaxPorts \in Nat

Own   == 1..MaxVirtual          \* numbers of the client's virtual ports
Ids   == 1..MaxVirtual          \* VirtualPortId
Addrs == Ports \cup Own

ASSUME AddrsAssumption == Ports \cap Own = {}

VARIABLES
  \* the sequencer
  port,         \* the port at each address
  subscribed,   \* subscriptions between our own two ports and others
  announced,    \* announcements not yet read
  starts,       \* ports other clients have started
  \* the backend thread
  phase,        \* where run_thread is
  scan,         \* addresses build_cache has yet to look at
  cache,        \* source_cache and destination_cache: the gen listed, or None
  conn,         \* connections and destination_connections
  vports,       \* vsrc_send and vdest_ports: the number of a virtual port's id
  vdest_recv,   \* the virtual destination whose streams a number feeds
  created,      \* next_virtual_id
  \* a subscriber of the changes of one kind
  sub,          \* how far it is
  known         \* the ports it knows: listed, then changed as it was told

sequencer  == <<port, subscribed, announced, starts>>
registry   == <<cache, conn>>
virtual    == <<vports, vdest_recv, created>>
subscriber == <<sub, known>>
vars       == <<sequencer, phase, scan, registry, virtual, subscriber>>

None    == 0
Unheard == -1

NoPort == [gen |-> None, caps |-> {}]
NoConn == [gen |-> None, told |-> FALSE, unlisted |-> FALSE]

Exists(a) == port[a].gen # None

Announce(event, of) ==
  announced' = IF phase = "subscribe" THEN announced
               ELSE Append(announced, [event |-> event, of |-> of])

Init == /\ port = [a \in Addrs |-> NoPort]
        /\ subscribed = {}
        /\ announced = <<>>
        /\ starts = 0
        /\ phase = "subscribe"
        /\ scan = [k \in Kinds |-> {}]
        /\ cache = [k \in Kinds |-> [a \in Addrs |-> None]]
        /\ conn = [k \in Kinds |-> [a \in Addrs |-> NoConn]]
        /\ vports = [k \in Kinds |-> [id \in Ids |-> None]]
        /\ vdest_recv = [n \in Own |-> None]
        /\ created = 0
        /\ sub = [k \in Kinds |-> "none"]
        /\ known = [k \in Kinds |-> [a \in Addrs |-> Unheard]]

-----------------------------------------------------------------------------
(* The sequencer: other clients' ports.  A port takes its subscriptions    *)
(* with it; a client that goes takes its ports with it, announced once.    *)

Delete(gone) ==
  /\ port' = [a \in Addrs |-> IF a \in gone THEN NoPort ELSE port[a]]
  /\ subscribed' = {s \in subscribed : s[2] \notin gone}

NewGen == starts + created + 1

PortStarts(a) == /\ ~Exists(a)
                 /\ starts < MaxStarts /\ starts + created < MaxPorts
                 /\ starts' = starts + 1
                 /\ \E caps \in CapSets :
                       port' = [port EXCEPT ![a] = [gen |-> NewGen, caps |-> caps]]
                 /\ Announce("port_start", a)
                 /\ UNCHANGED <<subscribed, phase, scan, registry, virtual, subscriber>>

PortExits(a) == /\ Exists(a)
                /\ Delete({a})
                /\ Announce("port_exit", a)
                /\ UNCHANGED <<starts, phase, scan, registry, virtual, subscriber>>

ClientExits(c) ==
  LET ports == {a \in Ports : ClientOf[a] = c}
  IN /\ \E a \in ports : Exists(a)
     /\ Delete(ports)
     /\ Announce("client_exit", c)
     /\ UNCHANGED <<starts, phase, scan, registry, virtual, subscriber>>

-----------------------------------------------------------------------------
(* add_source, remove_source and their twins: the cache, the connections   *)
(* and what subscribers hear change together.                              *)

\* A table of both kinds, with New in place of the entries of kinds and addrs.
Update(table, kinds, addrs, New(_, _)) ==
  [k \in Kinds |-> [a \in Addrs |->
     IF k \in kinds /\ a \in addrs THEN New(k, a) ELSE table[k][a]]]

Listed(k, a) == cache[k][a] # None

Hears(k, a, gen) == IF sub[k] = "none" THEN known[k][a] ELSE gen

AddPort(kinds, a) ==
  LET Gen(k, b)  == port'[b].gen
      Told(k, b) == Hears(k, b, Gen(k, b))
  IN /\ cache' = Update(cache, kinds, {a}, Gen)
     /\ known' = Update(known, kinds, {a}, Told)

\* Slip: the connection is not told.
TellConnectionsNever(kinds, gone) == UNCHANGED conn

\* A source's stream gets an error, a destination is marked disconnected.
TellConnections(kinds, gone) ==
  LET Told(k, a) == IF Listed(k, a) /\ conn[k][a] # NoConn
                    THEN [conn[k][a] EXCEPT !.told = TRUE] ELSE conn[k][a]
  IN conn' = Update(conn, kinds, gone, Told)

\* Slip: with a connection to tell, the subscribers are not told.
TellSubscribersElse(kinds, gone) ==
  LET Told(k, a) == IF Listed(k, a) /\ conn[k][a] = NoConn
                    THEN Hears(k, a, None) ELSE known[k][a]
  IN known' = Update(known, kinds, gone, Told)

TellSubscribers(kinds, gone) ==
  LET Told(k, a) == IF Listed(k, a) THEN Hears(k, a, None) ELSE known[k][a]
  IN known' = Update(known, kinds, gone, Told)

Unlist(kinds, gone) ==
  LET Nothing(k, a) == None IN cache' = Update(cache, kinds, gone, Nothing)

\* Only what was listed is removed, once.
RemovePorts(kinds, gone) ==
  /\ Unlist(kinds, gone)
  /\ TellConnections(kinds, gone)
  /\ TellSubscribers(kinds, gone)

-----------------------------------------------------------------------------
(* The start: init_seq subscribes to the announcements, then build_cache   *)
(* looks at one port after another, first as sources, then as destinations.*)

SubscribeAnnouncements ==
  /\ phase = "subscribe"
  /\ phase' = "build"
  /\ scan' = [k \in Kinds |-> Ports]
  /\ UNCHANGED <<sequencer, registry, virtual, subscriber>>

BuildCache(k, a) ==
  /\ phase = "build"
  /\ a \in scan[k]
  /\ k = "destination" => scan["source"] = {}
  /\ scan' = [scan EXCEPT ![k] = @ \ {a}]
  /\ cache' = IF k \in port[a].caps
              THEN [cache EXCEPT ![k][a] = port[a].gen] ELSE cache
  /\ UNCHANGED <<sequencer, phase, conn, virtual, subscriber>>

Ready == /\ phase = "build"
         /\ \A k \in Kinds : scan[k] = {}
         /\ phase' = "dispatch"
         /\ UNCHANGED <<sequencer, scan, registry, virtual, subscriber>>

-----------------------------------------------------------------------------
(* dispatch_commands.                                                      *)

\* The port need not be listed: it is the sequencer that is asked.  "unlisted"
\* is for the properties, they alone read it.
Connect(k, a) ==
  /\ phase = "dispatch"
  /\ conn[k][a] = NoConn
  /\ k \in port[a].caps
  /\ <<k, a>> \notin subscribed
  /\ subscribed' = subscribed \cup {<<k, a>>}
  /\ conn' = [conn EXCEPT ![k][a] =
                      [gen |-> port[a].gen, told |-> FALSE, unlisted |-> ~Listed(k, a)]]
  /\ UNCHANGED <<port, announced, starts, phase, scan, cache, virtual, subscriber>>

\* Slip: a connection that was told is taken to have lost its subscription.
DisconnectTold(k, a) ==
  /\ phase = "dispatch"
  /\ conn[k][a] # NoConn
  /\ conn' = [conn EXCEPT ![k][a] = NoConn]
  /\ subscribed' = IF conn[k][a].told THEN subscribed
                   ELSE subscribed \ {<<k, a>>}
  /\ UNCHANGED <<port, announced, starts, phase, scan, cache, virtual, subscriber>>

Disconnect(k, a) ==
  /\ phase = "dispatch"
  /\ conn[k][a] # NoConn
  /\ conn' = [conn EXCEPT ![k][a] = NoConn]
  /\ subscribed' = subscribed \ {<<k, a>>}
  /\ UNCHANGED <<port, announced, starts, phase, scan, cache, virtual, subscriber>>

\* The sequencer gives the lowest number that is free.
FreeNumber == CHOOSE n \in Own : ~Exists(n) /\ \A i \in Own : i < n => Exists(i)

CreatePort(k, n) == port' = [port EXCEPT ![n] = [gen |-> NewGen, caps |-> {k}]]

CreateVirtual(k) ==
  LET id == created + 1
      n  == FreeNumber
  IN /\ phase = "dispatch"
     /\ created < MaxVirtual /\ starts + created < MaxPorts
     /\ created' = id
     /\ CreatePort(k, n)
     /\ Announce("port_start", n)
     /\ AddPort({k}, n)
     /\ vports' = [vports EXCEPT ![k][id] = n]
     /\ vdest_recv' = IF k = "destination" THEN [vdest_recv EXCEPT ![n] = id]
                      ELSE vdest_recv
     /\ UNCHANGED <<subscribed, starts, phase, scan, conn, sub>>

\* Slip: the streams of a destroyed destination stay in place.
DestroyVirtualKeeps(k, id) ==
  LET n == vports[k][id]
  IN /\ phase = "dispatch"
     /\ n # None
     /\ vports' = [vports EXCEPT ![k][id] = None]
     /\ RemovePorts({k}, {n})
     /\ Delete({n})
     /\ Announce("port_exit", n)
     /\ UNCHANGED <<starts, phase, scan, vdest_recv, created, sub>>

DestroyVirtual(k, id) ==
  LET n == vports[k][id]
  IN /\ phase = "dispatch"
     /\ n # None
     /\ vports' = [vports EXCEPT ![k][id] = None]
     /\ vdest_recv' = IF k = "destination" THEN [vdest_recv EXCEPT ![n] = None]
                      ELSE vdest_recv
     /\ RemovePorts({k}, {n})
     /\ Delete({n})
     /\ Announce("port_exit", n)
     /\ UNCHANGED <<starts, phase, scan, created, sub>>

\* The list answers for the ports of which nothing was heard since subscribing;
\* a change that was heard came with the cache's last change.
List(k) == /\ phase = "dispatch"
           /\ sub[k] = "subscribed"
           /\ sub' = [sub EXCEPT ![k] = "listed"]
           /\ known' = [known EXCEPT ![k] = [a \in Addrs |->
                          IF @[a] = Unheard THEN cache[k][a] ELSE @[a]]]
           /\ UNCHANGED <<sequencer, phase, scan, registry, virtual>>

DispatchDone == /\ phase = "dispatch"
                /\ phase' = "drain"
                /\ UNCHANGED <<sequencer, scan, registry, virtual, subscriber>>

-----------------------------------------------------------------------------
(* drain_seq_events: the announcements, in their order.                    *)

Reads(event, of) == /\ phase = "drain"
                    /\ announced # <<>>
                    /\ Head(announced) = [event |-> event, of |-> of]
                    /\ announced' = Tail(announced)
                    /\ UNCHANGED <<port, subscribed, starts, phase, scan, virtual, sub>>

\* The port is looked up now: it may be gone, or another one.
HandlePortStart(a) == /\ Reads("port_start", a)
                      /\ AddPort(IF a \in Own THEN {} ELSE port[a].caps, a)
                      /\ UNCHANGED conn

\* Slip: a port is removed from the list of sources only.
HandlePortExitSource(a) == /\ Reads("port_exit", a)
                           /\ RemovePorts({"source"}, {a})

HandlePortExit(a) == /\ Reads("port_exit", a)
                     /\ RemovePorts(Kinds, {a})

HandleClientExit(c) ==
  /\ Reads("client_exit", c)
  /\ RemovePorts(Kinds, {a \in Ports : ClientOf[a] = c})

DrainDone == /\ phase = "drain"
             /\ announced = <<>>
             /\ phase' = "dispatch"
             /\ UNCHANGED <<sequencer, scan, registry, virtual, subscriber>>

-----------------------------------------------------------------------------
\* A subscriber may register at any time once the client exists; it follows one
\* kind, since nothing relates the two.
Subscribe(k) == /\ phase \in {"dispatch", "drain"}
                /\ \A j \in Kinds : sub[j] = "none"
                /\ sub' = [sub EXCEPT ![k] = "subscribed"]
                /\ UNCHANGED <<sequencer, phase, scan, registry, virtual, known>>

Next == \/ \E a \in Ports : PortStarts(a) \/ PortExits(a)
        \/ \E c \in Clients : ClientExits(c) \/ HandleClientExit(c)
        \/ SubscribeAnnouncements \/ Ready \/ DispatchDone \/ DrainDone
        \/ \E k \in Kinds : \/ \E a \in Ports : BuildCache(k, a)
                            \/ \E a \in Addrs : Connect(k, a) \/ Disconnect(k, a)
                            \/ \E id \in Ids : DestroyVirtual(k, id)
                            \/ CreateVirtual(k) \/ List(k) \/ Subscribe(k)
        \/ \E a \in Addrs : HandlePortStart(a) \/ HandlePortExit(a)

Spec == Init /\ [][Next]_vars

-----------------------------------------------------------------------------
Gens     == 0..(MaxStarts + MaxVirtual)
Events   == [event : {"port_start", "port_exit"}, of : Addrs]
              \cup [event : {"client_exit"}, of : Clients]

\* Every variable has its type.
TypeOK ==
  /\ port \in [Addrs -> [gen : Gens, caps : SUBSET Kinds]]
  /\ subscribed \subseteq Kinds \X Addrs
  /\ announced \in Seq(Events)
  /\ starts \in 0..MaxStarts
  /\ phase \in {"subscribe", "build", "dispatch", "drain"}
  /\ scan \in [Kinds -> SUBSET Ports]
  /\ cache \in [Kinds -> [Addrs -> Gens]]
  /\ conn \in [Kinds -> [Addrs ->
                {NoConn} \cup [gen : Gens \ {None}, told : BOOLEAN, unlisted : BOOLEAN]]]
  /\ vports \in [Kinds -> [Ids -> Own \cup {None}]]
  /\ vdest_recv \in [Own -> Ids \cup {None}]
  /\ created \in 0..MaxVirtual
  /\ sub \in [Kinds -> {"none", "subscribed", "listed"}]
  /\ known \in [Kinds -> [Addrs -> Gens \cup {Unheard}]]

\* Announcements of an event about a that are not yet read.
Pending(events, a) ==
  \E i \in DOMAIN announced :
    /\ announced[i].event \in events
    /\ \/ announced[i].of = a
       \/ a \in Ports /\ announced[i] = [event |-> "client_exit", of |-> ClientOf[a]]

Started == phase \in {"dispatch", "drain"}

\* build_cache, handle_port_start and handle_port_exit together: once nothing is
\* pending about the port of another client, it is listed if and only if it
\* exists, as what it is now, whatever came between the subscription to the
\* announcements, the scan and the announcements, and although a start is
\* looked up when it is read.
ExternalListed ==
  \A k \in Kinds, a \in Ports :
    Started /\ ~Pending({"port_start", "port_exit", "client_exit"}, a) =>
      cache[k][a] = IF k \in port[a].caps THEN port[a].gen ELSE None

Gone(k, a) == conn[k][a] # NoConn /\ conn[k][a].gen # port[a].gen

\* remove_source and remove_destination: a connection to a listed port that has gone
\* has been told, or the exit is still to be read, even if the port came back.
ToldWhenGone ==
  \A k \in Kinds, a \in Addrs :
    Gone(k, a) => \/ conn[k][a].told \/ conn[k][a].unlisted
                  \/ Pending({"port_exit", "client_exit"}, a)

\* handle_connect, Disconnect and their twins: the sequencer's subscriptions are
\* those of the connections whose port still is the one connected to.  None is
\* left behind, to feed a stream or be refused when connecting again.
SubscribedExactly ==
  subscribed = {s \in Kinds \X Addrs : LET c == conn[s[1]][s[2]]
                                       IN c # NoConn /\ c.gen = port[s[2]].gen}

\* source_changes_rx, then list_sources: one who subscribes, then lists, then
\* applies the changes knows what the cache knows, from then on.
SubscriberAgrees ==
  \A k \in Kinds : sub[k] = "listed" => known[k] = cache[k]

\* The maps of virtual ports: a number has one id and exists in the sequencer
\* exactly while a map has it, the streams are those of the destination with that
\* number, and a virtual port that is listed is the one that exists.
VirtualPortsExact ==
  \A n \in Own :
    LET owners == {o \in Kinds \X Ids : vports[o[1]][o[2]] = n}
    IN /\ Exists(n) => Cardinality(owners) = 1
       /\ ~Exists(n) => owners = {}
       /\ \A id \in Ids : vdest_recv[n] = id <=> <<"destination", id>> \in owners
       /\ \A k \in Kinds : Listed(k, n) => k \in port[n].caps /\ cache[k][n] = port[n].gen

\* tests/hotplug_e2e.rs, virtual_ports_emit_added_and_removed: a virtual port is
\* listed from its creation until it is destroyed.
VirtualListed ==
  \A k \in Kinds, n \in Own : k \in port[n].caps => Listed(k, n)
=============================================================================
