--------------------------- MODULE AlsaPortsProofs ---------------------------
(***************************************************************************)
(* What a subscriber of port changes knows, for every set of ports and     *)
(* clients and every number of starts and virtual ports.                   *)
(***************************************************************************)
EXTENDS AlsaPorts, FiniteSetTheorems, WellFoundedInduction, TLAPS

Tables == [Kinds -> [Addrs -> Int]]

TablesOK == /\ cache \in Tables
            /\ known \in Tables
            /\ sub \in [Kinds -> {"none", "subscribed", "listed"}]
            /\ port \in [Addrs -> [gen : Int, caps : SUBSET Kinds]]
            /\ starts \in Nat
            /\ created \in Nat

\* What a subscriber has heard of a port is what the cache has; what it has not
\* heard of it takes from the list; and nobody subscribes before the thread is
\* past the scan, which fills the cache without telling anybody.
Follows(k) ==
  /\ phase \in {"subscribe", "build"} => sub[k] = "none"
  /\ sub[k] = "none" => \A a \in Addrs : known[k][a] = Unheard
  /\ sub[k] = "subscribed" => \A a \in Addrs : known[k][a] \in {Unheard, cache[k][a]}
  /\ sub[k] = "listed" => \A a \in Addrs : known[k][a] = cache[k][a]

Consistent == TablesOK /\ \A k \in Kinds : Follows(k)

-----------------------------------------------------------------------------
LEMMA InitConsistent == Init => Consistent
<1> SUFFICES ASSUME Init PROVE Consistent
  OBVIOUS
<1>1. TablesOK
  BY DEF Init, TablesOK, Tables, NoPort, None, Unheard
<1>2. \A k \in Kinds : Follows(k)
  BY DEF Init, Follows
<1> QED BY <1>1, <1>2 DEF Consistent

\* add_source, add_destination: the cache and what a subscriber knows get the
\* same port.
LEMMA AddPortFollows ==
  ASSUME Consistent, NEW kinds, NEW a, AddPort(kinds, a), UNCHANGED <<phase, sub>>,
         port' \in [Addrs -> [gen : Int, caps : SUBSET Kinds]]
  PROVE  cache' \in Tables /\ known' \in Tables /\ \A k \in Kinds : Follows(k)'
<1>1. \A b \in Addrs : port'[b].gen \in Int
  OBVIOUS
<1>2. /\ cache' \in Tables
      /\ \A k \in Kinds, b \in Addrs :
           cache'[k][b] = IF k \in kinds /\ b \in {a} THEN port'[b].gen ELSE cache[k][b]
  BY <1>1 DEF AddPort, Update, Consistent, TablesOK, Tables
<1>3. \A k \in Kinds, b \in Addrs : known[k][b] \in Int
  BY DEF Consistent, TablesOK, Tables
<1>4. /\ known' \in Tables
      /\ \A k \in Kinds, b \in Addrs :
           known'[k][b] = IF k \in kinds /\ b \in {a} /\ sub[k] # "none"
                          THEN port'[b].gen ELSE known[k][b]
  BY <1>1, <1>3 DEF AddPort, Update, Hears, Tables
<1>5. ASSUME NEW k \in Kinds PROVE Follows(k)'
  BY <1>2, <1>4 DEF Consistent, Follows
<1> QED BY <1>2, <1>4, <1>5

\* remove_source, remove_destination: what is not listed is not known either, so
\* nothing has to be told of it.
LEMMA RemovePortsFollows ==
  ASSUME Consistent, NEW kinds, NEW gone, RemovePorts(kinds, gone),
         UNCHANGED <<phase, sub>>
  PROVE  cache' \in Tables /\ known' \in Tables /\ \A k \in Kinds : Follows(k)'
<1>1. \A k \in Kinds, b \in Addrs : cache[k][b] \in Int /\ known[k][b] \in Int
  BY DEF Consistent, TablesOK, Tables
<1>2. /\ cache' \in Tables
      /\ \A k \in Kinds, b \in Addrs :
           cache'[k][b] = IF k \in kinds /\ b \in gone THEN None ELSE cache[k][b]
  BY <1>1 DEF RemovePorts, Unlist, Update, Tables, None
<1>3. /\ known' \in Tables
      /\ \A k \in Kinds, b \in Addrs :
           known'[k][b] = IF k \in kinds /\ b \in gone /\ Listed(k, b) /\ sub[k] # "none"
                          THEN None ELSE known[k][b]
  BY <1>1 DEF RemovePorts, TellSubscribers, Update, Hears, Tables, None
<1>4. ASSUME NEW k \in Kinds PROVE Follows(k)'
  BY <1>2, <1>3 DEF Consistent, Follows, Listed
<1> QED BY <1>2, <1>3, <1>4

LEMMA PutKeepsPorts ==
  ASSUME TablesOK, NEW a, NEW caps \in SUBSET Kinds,
         port' = [port EXCEPT ![a] = [gen |-> NewGen, caps |-> caps]]
  PROVE  port' \in [Addrs -> [gen : Int, caps : SUBSET Kinds]]
<1>1. NewGen \in Int
  BY DEF TablesOK, NewGen
<1> DEFINE new == [gen |-> NewGen, caps |-> caps]
<1>2. new \in [gen : Int, caps : SUBSET Kinds]
  BY <1>1
<1> HIDE DEF new
<1>3. port' = [port EXCEPT ![a] = new]
  BY DEF new
<1> QED BY <1>2, <1>3 DEF TablesOK

LEMMA DeleteKeepsPorts ==
  ASSUME TablesOK, NEW gone, Delete(gone)
  PROVE  port' \in [Addrs -> [gen : Int, caps : SUBSET Kinds]]
BY DEF TablesOK, Delete, NoPort, None

\* A step that leaves the backend's list and the subscriber alone.
LEMMA SameFollows ==
  ASSUME Consistent, UNCHANGED <<phase, sub, known, cache>>,
         port' \in [Addrs -> [gen : Int, caps : SUBSET Kinds]],
         starts' \in Nat, created' \in Nat
  PROVE  Consistent'
BY DEF Consistent, TablesOK, Follows

-----------------------------------------------------------------------------
LEMMA SequencerConsistent ==
  ASSUME Consistent,
         \/ \E a \in Ports : PortStarts(a) \/ PortExits(a)
         \/ \E c \in Clients : ClientExits(c)
  PROVE  Consistent'
<1> USE DEF sequencer, registry, virtual, subscriber
<1>1. /\ starts \in Nat /\ created \in Nat
      /\ port \in [Addrs -> [gen : Int, caps : SUBSET Kinds]]
  BY DEF Consistent, TablesOK
<1>2. ASSUME NEW a \in Ports, PortStarts(a) PROVE Consistent'
  <2>1. PICK caps \in CapSets :
          port' = [port EXCEPT ![a] = [gen |-> NewGen, caps |-> caps]]
    BY <1>2 DEF PortStarts
  <2>2. port' \in [Addrs -> [gen : Int, caps : SUBSET Kinds]]
    BY <2>1, PutKeepsPorts, PortsAssumption DEF Consistent
  <2>3. starts' \in Nat /\ UNCHANGED <<phase, sub, known, cache, created>>
    BY <1>1, <1>2 DEF PortStarts
  <2> QED BY <1>1, <2>2, <2>3, SameFollows
<1>3. ASSUME NEW gone, Delete(gone), UNCHANGED <<starts, phase, registry, virtual, subscriber>>
      PROVE  Consistent'
  BY <1>1, <1>3, DeleteKeepsPorts, SameFollows DEF Consistent
<1>4. ASSUME NEW a \in Ports, PortExits(a) PROVE Consistent'
  BY <1>3, <1>4 DEF PortExits
<1>5. ASSUME NEW c \in Clients, ClientExits(c) PROVE Consistent'
  BY <1>3, <1>5 DEF ClientExits
<1> QED BY <1>2, <1>4, <1>5

\* The start, and going back and forth between dispatch and drain.
LEMMA PhaseConsistent ==
  ASSUME Consistent,
         \/ SubscribeAnnouncements \/ Ready \/ DispatchDone \/ DrainDone
         \/ \E k \in Kinds, a \in Ports : BuildCache(k, a)
  PROVE  Consistent'
<1> USE DEF sequencer, registry, virtual, subscriber
<1>1. CASE SubscribeAnnouncements \/ Ready \/ DispatchDone \/ DrainDone
  <2>1. UNCHANGED <<port, starts, created, cache, known, sub>>
    BY <1>1 DEF SubscribeAnnouncements, Ready, DispatchDone, DrainDone
  <2>2. phase' \in {"subscribe", "build"} => phase \in {"subscribe", "build"}
    BY <1>1 DEF SubscribeAnnouncements, Ready, DispatchDone, DrainDone
  <2> QED BY <2>1, <2>2 DEF Consistent, TablesOK, Follows
<1>2. ASSUME NEW k \in Kinds, NEW a \in Ports, BuildCache(k, a) PROVE Consistent'
  <2>1. UNCHANGED <<port, starts, created, known, sub, phase>>
    BY <1>2 DEF BuildCache
  <2>2. cache' \in Tables
    BY <1>2 DEF BuildCache, Consistent, TablesOK, Tables, Addrs
  <2>3. \A j \in Kinds : sub[j] = "none"
    BY <1>2 DEF BuildCache, Consistent, Follows
  <2> QED BY <2>1, <2>2, <2>3 DEF Consistent, TablesOK, Follows
<1> QED BY <1>1, <1>2

LEMMA ConnectionConsistent ==
  ASSUME Consistent,
         \E k \in Kinds, a \in Addrs : Connect(k, a) \/ Disconnect(k, a)
  PROVE  Consistent'
<1>1. UNCHANGED <<port, starts, created, phase, cache, sub, known>>
  BY DEF Connect, Disconnect, virtual, subscriber
<1> QED BY <1>1, SameFollows DEF Consistent, TablesOK

LEMMA VirtualConsistent ==
  ASSUME Consistent,
         NEW k \in Kinds,
         CreateVirtual(k) \/ \E id \in Ids : DestroyVirtual(k, id)
  PROVE  Consistent'
<1>1. /\ starts \in Nat /\ created \in Nat
      /\ port \in [Addrs -> [gen : Int, caps : SUBSET Kinds]]
  BY DEF Consistent, TablesOK
<1>2. CASE CreateVirtual(k)
  <2>1. port' \in [Addrs -> [gen : Int, caps : SUBSET Kinds]]
    <3>1. {k} \in SUBSET Kinds
      OBVIOUS
    <3>2. port' = [port EXCEPT ![FreeNumber] = [gen |-> NewGen, caps |-> {k}]]
      BY <1>2 DEF CreateVirtual, CreatePort
    <3> QED BY <3>1, <3>2, PutKeepsPorts DEF Consistent
  <2>2. /\ AddPort({k}, FreeNumber)
        /\ UNCHANGED <<phase, sub, starts>>
        /\ created' \in Nat
    BY <1>1, <1>2 DEF CreateVirtual
  <2> QED BY <1>1, <2>1, <2>2, AddPortFollows DEF Consistent, TablesOK
<1>3. ASSUME NEW id \in Ids, DestroyVirtual(k, id) PROVE Consistent'
  <2>1. /\ RemovePorts({k}, {vports[k][id]})
        /\ Delete({vports[k][id]})
        /\ UNCHANGED <<phase, sub, starts, created>>
    BY <1>3 DEF DestroyVirtual
  <2> QED BY <1>1, <2>1, RemovePortsFollows, DeleteKeepsPorts DEF Consistent, TablesOK
<1> QED BY <1>2, <1>3

LEMMA AnnouncementConsistent ==
  ASSUME Consistent,
         \/ \E a \in Addrs : HandlePortStart(a) \/ HandlePortExit(a)
         \/ \E c \in Clients : HandleClientExit(c)
  PROVE  Consistent'
<1>1. UNCHANGED <<port, starts, phase, created, sub>>
  BY DEF HandlePortStart, HandlePortExit, HandleClientExit, Reads, virtual
<1>2. \/ \E kinds, a : AddPort(kinds, a)
      \/ \E kinds, gone : RemovePorts(kinds, gone)
  BY DEF HandlePortStart, HandlePortExit, HandleClientExit
<1>3. port' \in [Addrs -> [gen : Int, caps : SUBSET Kinds]]
  BY <1>1 DEF Consistent, TablesOK
<1>4. cache' \in Tables /\ known' \in Tables /\ \A k \in Kinds : Follows(k)'
  BY <1>1, <1>2, <1>3, AddPortFollows, RemovePortsFollows
<1> QED BY <1>1, <1>3, <1>4 DEF Consistent, TablesOK

LEMMA SubscriberConsistent ==
  ASSUME Consistent, NEW k \in Kinds, List(k) \/ Subscribe(k)
  PROVE  Consistent'
<1> USE DEF sequencer, registry, virtual
<1>1. UNCHANGED <<port, starts, created, phase, cache>>
  BY DEF List, Subscribe
<1>2. CASE List(k)
  <2>1. /\ sub' = [sub EXCEPT ![k] = "listed"]
        /\ sub[k] = "subscribed"
        /\ phase = "dispatch"
    BY <1>2 DEF List
  <2>2. /\ known' \in Tables
        /\ \A a \in Addrs : known'[k][a] = IF known[k][a] = Unheard
                                           THEN cache[k][a] ELSE known[k][a]
        /\ \A j \in Kinds : j # k => known'[j] = known[j]
    BY <1>2 DEF List, Consistent, TablesOK, Tables
  <2>3. ASSUME NEW j \in Kinds PROVE Follows(j)'
    <3>1. CASE j = k
      BY <1>1, <2>1, <2>2, <3>1 DEF Consistent, TablesOK, Follows
    <3>2. CASE j # k
      BY <1>1, <2>1, <2>2, <3>2 DEF Consistent, TablesOK, Follows
    <3> QED BY <3>1, <3>2
  <2> QED BY <1>1, <2>1, <2>2, <2>3 DEF Consistent, TablesOK
<1>3. CASE Subscribe(k)
  <2>1. /\ sub' = [sub EXCEPT ![k] = "subscribed"]
        /\ sub[k] = "none"
        /\ phase \notin {"subscribe", "build"}
        /\ known' = known
    BY <1>3 DEF Subscribe
  <2> QED BY <1>1, <2>1 DEF Consistent, TablesOK, Follows
<1> QED BY <1>2, <1>3

LEMMA StepConsistent == Consistent /\ [Next]_vars => Consistent'
<1> SUFFICES ASSUME Consistent, [Next]_vars PROVE Consistent'
  OBVIOUS
<1>1. CASE UNCHANGED vars
  BY <1>1 DEF vars, sequencer, registry, virtual, subscriber, Consistent, TablesOK, Follows
<1>2. CASE Next
  BY <1>2, SequencerConsistent, PhaseConsistent, ConnectionConsistent, VirtualConsistent,
     AnnouncementConsistent, SubscriberConsistent DEF Next
<1> QED BY <1>1, <1>2

-----------------------------------------------------------------------------
\* The inductive invariant.
THEOREM ConsistentAlways == Spec => []Consistent
BY InitConsistent, StepConsistent, PTL DEF Spec

\* An application that subscribes to the changes, then lists the ports, knows what
\* the backend's list has, whatever happens before, in between and afterwards.
THEOREM SubscriberAgreesAlways == Spec => []SubscriberAgrees
<1>1. Consistent => SubscriberAgrees
  BY DEF Consistent, TablesOK, Tables, Follows, SubscriberAgrees
<1> QED BY <1>1, ConsistentAlways, PTL

-----------------------------------------------------------------------------
(* Ports, numbers and connections.                                         *)

\* A port is younger than what was there before it.
PortsOK ==
  /\ \A a \in Addrs : /\ port[a].gen <= starts + created
                      /\ ~Exists(a) => port[a].caps = {}
  /\ \A k \in Kinds, a \in Addrs : conn[k][a].gen <= starts + created

\* A virtual port has an id of its own, which has no other port, and a number of its own,
\* which the sequencer has a port for.
VirtualOK ==
  /\ \A k \in Kinds, id \in Ids : vports[k][id] # None =>
       /\ id <= created
       /\ Exists(vports[k][id]) /\ port[vports[k][id]].caps = {k}
       /\ \A j \in Kinds, i \in Ids : vports[j][i] = vports[k][id] => j = k /\ i = id
       /\ \A j \in Kinds : vports[j][id] # None => j = k
  /\ \A n \in Own : Exists(n) => \E k \in Kinds, id \in Ids : vports[k][id] = n
  /\ \A n \in Own, id \in Ids : vdest_recv[n] = id <=> vports["destination"][id] = n
  /\ \A k \in Kinds, n \in Own : Listed(k, n) =>
       k \in port[n].caps /\ cache[k][n] = port[n].gen

-----------------------------------------------------------------------------
(* The announcements.                                                      *)

StartOf(i, a) == announced[i].event = "port_start" /\ announced[i].of = a
ExitOf(i, a)  == \/ announced[i].event = "port_exit" /\ announced[i].of = a
                 \/ /\ a \in Ports
                    /\ announced[i].event = "client_exit" /\ announced[i].of = ClientOf[a]

StartComes(a) == \E i \in DOMAIN announced : StartOf(i, a)
ExitComes(a)  == \E i \in DOMAIN announced : ExitOf(i, a)

\* The last announcement of a port says whether it is there.
LastSays(a) ==
  \A i \in DOMAIN announced :
    /\ Exists(a) /\ ExitOf(i, a) => \E j \in DOMAIN announced : i < j /\ StartOf(j, a)
    /\ ~Exists(a) /\ StartOf(i, a) => \E j \in DOMAIN announced : i < j /\ ExitOf(j, a)

Want(k, a) == IF k \in port[a].caps THEN port[a].gen ELSE None

Seen(k, a) == phase # "subscribe" /\ a \notin scan[k]

\* Once build_cache looked at a port, the list has it right or an announcement to come
\* puts it right: a start only what the port can do, an exit the rest.
ListedRight(k, a) ==
  IF Seen(k, a)
  THEN \/ cache[k][a] = Want(k, a)
       \/ ExitComes(a)
       \/ k \in port[a].caps /\ StartComes(a)
  ELSE cache[k][a] = None

AnnouncedOK ==
  /\ phase = "subscribe" => announced = <<>>
  /\ Started => \A k \in Kinds : scan[k] = {}
  /\ \A a \in Ports : LastSays(a)
  /\ \A k \in Kinds, a \in Ports : ListedRight(k, a)

\* A connection that was made to a listed port is told when the port comes off the list.
ToldOK ==
  \A k \in Kinds, a \in Addrs : conn[k][a] # NoConn =>
    /\ Started
    /\ Listed(k, a) \/ conn[k][a].told \/ conn[k][a].unlisted
    /\ Gone(k, a) => conn[k][a].told \/ conn[k][a].unlisted \/ ExitComes(a)

Exact == TypeOK /\ PortsOK /\ VirtualOK /\ AnnouncedOK /\ ToldOK /\ SubscribedExactly

-----------------------------------------------------------------------------
(* The types.                                                              *)

PortTs == [gen : Gens, caps : SUBSET Kinds]
ConnTs == {NoConn} \cup [gen : Gens \ {None}, told : BOOLEAN, unlisted : BOOLEAN]

LEMMA Numbers == /\ Gens = 0..(MaxStarts + MaxVirtual) /\ None \in Gens /\ None = 0
                 /\ MaxStarts \in Nat /\ MaxVirtual \in Nat /\ MaxPorts \in Nat
                 /\ Own = 1..MaxVirtual /\ Ids = 1..MaxVirtual /\ None \notin Own
                 /\ Addrs = Ports \cup Own /\ Ports \cap Own = {}
                 /\ ClientOf \in [Ports -> Clients]
                 /\ NoPort \in PortTs /\ NoPort.gen = None /\ NoPort.caps = {}
                 /\ NoConn \in ConnTs /\ NoConn.gen = None
BY PortsAssumption, AddrsAssumption
   DEF Gens, None, Own, Ids, Addrs, NoPort, NoConn, PortTs, ConnTs

LEMMA TypesAre ==
  TypeOK <=>
    /\ port \in [Addrs -> PortTs]
    /\ subscribed \subseteq Kinds \X Addrs
    /\ announced \in Seq(Events)
    /\ starts \in 0..MaxStarts
    /\ phase \in {"subscribe", "build", "dispatch", "drain"}
    /\ scan \in [Kinds -> SUBSET Ports]
    /\ cache \in [Kinds -> [Addrs -> Gens]]
    /\ conn \in [Kinds -> [Addrs -> ConnTs]]
    /\ vports \in [Kinds -> [Ids -> Own \cup {None}]]
    /\ vdest_recv \in [Own -> Ids \cup {None}]
    /\ created \in 0..MaxVirtual
    /\ sub \in [Kinds -> {"none", "subscribed", "listed"}]
    /\ known \in [Kinds -> [Addrs -> Gens \cup {Unheard}]]
BY DEF TypeOK, PortTs, ConnTs

LEMMA TypesAreNext ==
  TypeOK' <=>
    /\ port' \in [Addrs -> PortTs]
    /\ subscribed' \subseteq Kinds \X Addrs
    /\ announced' \in Seq(Events)
    /\ starts' \in 0..MaxStarts
    /\ phase' \in {"subscribe", "build", "dispatch", "drain"}
    /\ scan' \in [Kinds -> SUBSET Ports]
    /\ cache' \in [Kinds -> [Addrs -> Gens]]
    /\ conn' \in [Kinds -> [Addrs -> ConnTs]]
    /\ vports' \in [Kinds -> [Ids -> Own \cup {None}]]
    /\ vdest_recv' \in [Own -> Ids \cup {None}]
    /\ created' \in 0..MaxVirtual
    /\ sub' \in [Kinds -> {"none", "subscribed", "listed"}]
    /\ known' \in [Kinds -> [Addrs -> Gens \cup {Unheard}]]
BY DEF TypeOK, PortTs, ConnTs

\* A connection, told or not.
LEMMA ConnIs ==
  \A c \in ConnTs : /\ c = NoConn <=> c.gen = None
                    /\ c.gen \in Gens
                    /\ c # NoConn => /\ c.told \in BOOLEAN /\ c.unlisted \in BOOLEAN
                                     /\ [c EXCEPT !.told = TRUE] \in ConnTs \ {NoConn}
                                     /\ [c EXCEPT !.told = TRUE].gen = c.gen
                                     /\ [c EXCEPT !.told = TRUE].told
                                     /\ [c EXCEPT !.told = TRUE].unlisted = c.unlisted
BY Numbers DEF ConnTs, NoConn

LEMMA EntriesAre ==
  ASSUME TypeOK
  PROVE  /\ \A a \in Addrs : port[a] \in PortTs /\ port[a].gen \in Gens /\ port[a].gen \in Nat
                             /\ port[a].caps \subseteq Kinds
         /\ \A k \in Kinds, a \in Addrs :
              /\ conn[k][a] \in ConnTs
              /\ conn[k][a].gen \in Gens /\ conn[k][a].gen \in Nat
              /\ conn[k][a] = NoConn <=> conn[k][a].gen = None
              /\ cache[k][a] \in Gens /\ cache[k][a] \in Nat
         /\ starts \in Nat /\ created \in Nat
         /\ starts <= MaxStarts /\ created <= MaxVirtual
<1>1. \A a \in Addrs : port[a] \in PortTs
  BY TypesAre
<1>2. \A k \in Kinds, a \in Addrs : conn[k][a] \in ConnTs /\ cache[k][a] \in Gens
  BY TypesAre
<1>3. \A a \in Addrs : port[a].gen \in Gens /\ port[a].caps \subseteq Kinds
  BY <1>1 DEF PortTs
<1>4. \A k \in Kinds, a \in Addrs : conn[k][a].gen \in Gens
                                    /\ (conn[k][a] = NoConn <=> conn[k][a].gen = None)
  BY <1>2, ConnIs
<1>5. Gens \subseteq Nat
  BY Numbers
<1> QED BY <1>1, <1>2, <1>3, <1>4, <1>5, TypesAre, Numbers

\* An announcement goes to the end of the queue, from the subscription on.
LEMMA AnnouncedIs ==
  ASSUME announced \in Seq(Events), NEW event, NEW of, [event |-> event, of |-> of] \in Events,
         Announce(event, of)
  PROVE  /\ announced' \in Seq(Events)
         /\ phase = "subscribe" => announced' = announced
         /\ phase # "subscribe" =>
              \E n \in Nat : /\ DOMAIN announced = 1..n /\ DOMAIN announced' = 1..(n + 1)
                             /\ \A i \in 1..n : announced'[i] = announced[i]
                             /\ announced'[n + 1] = [event |-> event, of |-> of]
<1>1. CASE phase = "subscribe"
  BY <1>1 DEF Announce
<1>2. CASE phase # "subscribe"
  <2>1. announced' = Append(announced, [event |-> event, of |-> of])
    BY <1>2 DEF Announce
  <2>2. /\ Len(announced) \in Nat /\ DOMAIN announced = 1..Len(announced)
        /\ DOMAIN announced' = 1..(Len(announced) + 1)
        /\ \A i \in 1..Len(announced) : announced'[i] = announced[i]
        /\ announced'[Len(announced) + 1] = [event |-> event, of |-> of]
        /\ announced' \in Seq(Events)
    BY <2>1
  <2> QED BY <1>2, <2>2
<1> QED BY <1>1, <1>2

\* The first announcement read leaves the others.
LEMMA ReadIs ==
  ASSUME announced \in Seq(Events), NEW event, NEW of, Reads(event, of)
  PROVE  /\ announced' \in Seq(Events) /\ phase = "drain"
         /\ 1 \in DOMAIN announced /\ announced[1].event = event /\ announced[1].of = of
         /\ DOMAIN announced \subseteq Nat /\ DOMAIN announced' \subseteq Nat
         /\ \A i \in DOMAIN announced' : i + 1 \in DOMAIN announced
                                         /\ announced'[i] = announced[i + 1]
         /\ \A i \in DOMAIN announced : i # 1 => i - 1 \in DOMAIN announced'
                                                 /\ announced'[i - 1] = announced[i]
<1>1. /\ announced # <<>> /\ announced' = Tail(announced) /\ phase = "drain"
      /\ Head(announced) = [event |-> event, of |-> of]
  BY DEF Reads
<1>2. announced[1] = [event |-> event, of |-> of] /\ 1 \in DOMAIN announced
  BY <1>1
<1>3. /\ announced' \in Seq(Events) /\ DOMAIN announced = 1..Len(announced)
      /\ Len(announced) \in Nat \ {0} /\ DOMAIN announced' = 1..(Len(announced) - 1)
      /\ \A i \in 1..(Len(announced) - 1) : announced'[i] = announced[i + 1]
  BY <1>1
<1> QED BY <1>1, <1>2, <1>3

LEMMA EventsAre ==
  /\ \A a \in Addrs : /\ [event |-> "port_start", of |-> a] \in Events
                      /\ [event |-> "port_exit", of |-> a] \in Events
  /\ \A c \in Clients : [event |-> "client_exit", of |-> c] \in Events
  /\ \A a \in Ports : ClientOf[a] \in Clients
BY Numbers DEF Events

-----------------------------------------------------------------------------
(* What the operations on the tables do, place by place.                   *)

LEMMA AddPortIs ==
  ASSUME TypeOK, port' \in [Addrs -> PortTs], NEW kinds, NEW a, AddPort(kinds, a)
  PROVE  /\ cache' \in [Kinds -> [Addrs -> Gens]]
         /\ known' \in [Kinds -> [Addrs -> Gens \cup {Unheard}]]
         /\ \A k \in Kinds, b \in Addrs :
              cache'[k][b] = IF k \in kinds /\ b = a THEN port'[b].gen ELSE cache[k][b]
<1>1. \A b \in Addrs : port'[b].gen \in Gens
  BY DEF PortTs
<1>2. /\ cache' \in [Kinds -> [Addrs -> Gens]]
      /\ \A k \in Kinds, b \in Addrs :
           cache'[k][b] = IF k \in kinds /\ b = a THEN port'[b].gen ELSE cache[k][b]
  BY <1>1, TypesAre DEF AddPort, Update
<1>3. \A k \in Kinds, b \in Addrs : known[k][b] \in Gens \cup {Unheard}
  BY TypesAre
<1>4. known' \in [Kinds -> [Addrs -> Gens \cup {Unheard}]]
  BY <1>1, <1>3 DEF AddPort, Update, Hears
<1> QED BY <1>2, <1>4

LEMMA RemovePortsIs ==
  ASSUME TypeOK, NEW kinds, NEW gone, RemovePorts(kinds, gone)
  PROVE  /\ cache' \in [Kinds -> [Addrs -> Gens]]
         /\ known' \in [Kinds -> [Addrs -> Gens \cup {Unheard}]]
         /\ conn' \in [Kinds -> [Addrs -> ConnTs]]
         /\ \A k \in Kinds, b \in Addrs :
              /\ cache'[k][b] = IF k \in kinds /\ b \in gone THEN None ELSE cache[k][b]
              /\ conn'[k][b].gen = conn[k][b].gen
              /\ conn'[k][b] = NoConn <=> conn[k][b] = NoConn
              /\ conn[k][b] # NoConn =>
                   /\ conn'[k][b].unlisted = conn[k][b].unlisted
                   /\ conn'[k][b].told <=>
                        (conn[k][b].told \/ (k \in kinds /\ b \in gone /\ Listed(k, b)))
<1>1. \A k \in Kinds, b \in Addrs : /\ known[k][b] \in Gens \cup {Unheard}
                                    /\ cache[k][b] \in Gens /\ conn[k][b] \in ConnTs
  BY TypesAre
<1>2. /\ cache' \in [Kinds -> [Addrs -> Gens]]
      /\ \A k \in Kinds, b \in Addrs :
           cache'[k][b] = IF k \in kinds /\ b \in gone THEN None ELSE cache[k][b]
  BY <1>1, Numbers DEF RemovePorts, Unlist, Update
<1>3. known' \in [Kinds -> [Addrs -> Gens \cup {Unheard}]]
  BY <1>1, Numbers DEF RemovePorts, TellSubscribers, Update, Hears
<1> DEFINE New(k, b) == IF k \in kinds /\ b \in gone /\ Listed(k, b) /\ conn[k][b] # NoConn
                        THEN [conn[k][b] EXCEPT !.told = TRUE] ELSE conn[k][b]
<1>4. conn' = [k \in Kinds |-> [b \in Addrs |-> New(k, b)]]
  BY DEF RemovePorts, TellConnections, Update
<1>5. \A k \in Kinds, b \in Addrs :
        /\ New(k, b) \in ConnTs
        /\ New(k, b).gen = conn[k][b].gen
        /\ New(k, b) = NoConn <=> conn[k][b] = NoConn
        /\ conn[k][b] # NoConn =>
             /\ New(k, b).unlisted = conn[k][b].unlisted
             /\ New(k, b).told <=>
                  (conn[k][b].told \/ (k \in kinds /\ b \in gone /\ Listed(k, b)))
  <2> SUFFICES ASSUME NEW k \in Kinds, NEW b \in Addrs
               PROVE  /\ New(k, b) \in ConnTs
                      /\ New(k, b).gen = conn[k][b].gen
                      /\ New(k, b) = NoConn <=> conn[k][b] = NoConn
                      /\ conn[k][b] # NoConn =>
                           /\ New(k, b).unlisted = conn[k][b].unlisted
                           /\ New(k, b).told <=> (conn[k][b].told \/
                                (k \in kinds /\ b \in gone /\ Listed(k, b)))
    OBVIOUS
  <2> QED BY <1>1, ConnIs
<1> HIDE DEF New
<1>6. /\ conn' \in [Kinds -> [Addrs -> ConnTs]]
      /\ \A k \in Kinds, b \in Addrs : conn'[k][b] = New(k, b)
  BY <1>4, <1>5
<1> QED BY <1>2, <1>3, <1>5, <1>6

LEMMA DeleteIs ==
  ASSUME TypeOK, NEW gone, Delete(gone)
  PROVE  /\ port' \in [Addrs -> PortTs]
         /\ \A a \in Addrs : port'[a] = IF a \in gone THEN NoPort ELSE port[a]
         /\ subscribed' = {s \in subscribed : s[2] \notin gone}
         /\ subscribed' \subseteq Kinds \X Addrs
BY TypesAre, Numbers DEF Delete

LEMMA PutIs ==
  ASSUME TypeOK, NEW a \in Addrs, NEW caps \in SUBSET Kinds, starts + created < MaxStarts + MaxVirtual,
         port' = [port EXCEPT ![a] = [gen |-> NewGen, caps |-> caps]]
  PROVE  /\ port' \in [Addrs -> PortTs]
         /\ port'[a].gen = starts + created + 1 /\ port'[a].caps = caps
         /\ starts \in Nat /\ created \in Nat
         /\ \A b \in Addrs : b # a => port'[b] = port[b]
<1>1. NewGen \in Gens /\ NewGen = starts + created + 1 /\ starts \in Nat /\ created \in Nat
  BY TypesAre, Numbers DEF NewGen
<1>2. [gen |-> NewGen, caps |-> caps] \in PortTs
  BY <1>1 DEF PortTs
<1> QED BY <1>1, <1>2, TypesAre

\* The number the sequencer gives to a virtual port is one of those there are, and free.
LEMMA FreeNumberIs ==
  ASSUME TypeOK, VirtualOK, created < MaxVirtual
  PROVE  FreeNumber \in Own /\ ~Exists(FreeNumber)
<1>0. created \in Nat /\ vports \in [Kinds -> [Ids -> Own \cup {None}]]
  BY TypesAre, Numbers
<1>1. ASSUME \A n \in Own : Exists(n) PROVE FALSE
  <2> DEFINE Id(n) == CHOOSE id \in Ids : \E k \in Kinds : vports[k][id] = n
  <2>1. ASSUME NEW n \in Own PROVE Id(n) \in Ids /\ \E k \in Kinds : vports[k][Id(n)] = n
    <3>1. \E id \in Ids : \E k \in Kinds : vports[k][id] = n
      BY <1>1 DEF VirtualOK
    <3> QED BY <3>1
  <2> HIDE DEF Id
  <2>a. \A k \in Kinds, id \in Ids : vports[k][id] # None =>
          id <= created /\ \A j \in Kinds : vports[j][id] # None => j = k
    BY DEF VirtualOK
  <2>2. ASSUME NEW n \in Own PROVE Id(n) \in 1..created
    <3>1. PICK k \in Kinds : vports[k][Id(n)] = n
      BY <2>1
    <3>2. n # None /\ Id(n) \in Ids
      BY <2>1, Numbers
    <3>3. Id(n) <= created
      BY <2>a, <3>1, <3>2
    <3> QED BY <1>0, <3>2, <3>3, Numbers
  <2> DEFINE f == [n \in Own |-> Id(n)]
  <2>3. f \in [Own -> 1..created] /\ \A n \in Own : f[n] = Id(n)
    BY <2>2
  <2>4. /\ IsFiniteSet(Own) /\ Cardinality(Own) = MaxVirtual
        /\ IsFiniteSet(1..created) /\ Cardinality(1..created) = created
    <3>1. IsFiniteSet(1..MaxVirtual) /\ Cardinality(1..MaxVirtual) = MaxVirtual
      BY Numbers, FS_Interval
    <3>2. IsFiniteSet(1..created) /\ Cardinality(1..created) = created
      BY <1>0, FS_Interval
    <3> QED BY <3>1, <3>2, Numbers
  <2>5. PICK x \in Own, y \in Own : x # y /\ Id(x) = Id(y)
    <3> HIDE DEF f
    <3>1. Cardinality(1..created) < Cardinality(Own)
      BY <1>0, <2>4, Numbers
    <3>2. ASSUME NEW S, NEW T, S = Own, T = 1..created PROVE \E x, y \in S : x # y /\ f[x] = f[y]
      <4>1. IsFiniteSet(S) /\ IsFiniteSet(T) /\ Cardinality(T) < Cardinality(S) /\ f \in [S -> T]
        BY <2>3, <2>4, <3>1, <3>2
      <4> QED BY <4>1, FS_PigeonHole
    <3> QED BY <2>3, <3>2
  <2>6. PICK k \in Kinds, j \in Kinds : vports[k][Id(x)] = x /\ vports[j][Id(x)] = y
    BY <2>1, <2>5
  <2>7. x # None /\ y # None /\ Id(x) \in Ids
    BY <2>1, Numbers
  <2>8. j = k
    BY <2>a, <2>6, <2>7
  <2> QED BY <2>5, <2>6, <2>8
<1> DEFINE Free == {n \in Own : ~Exists(n)}
<1>2. Free # {} /\ Free \subseteq Nat
  BY <1>1, Numbers
<1>3. PICK n \in Free : \A i \in Free : ~ (<<i, n>> \in OpToRel(<, Nat))
  BY <1>2, NatLessThanWellFounded, WFMin
<1>4. \A i \in Own : i < n => Exists(i)
  BY <1>2, <1>3 DEF OpToRel
<1> QED BY <1>4 DEF FreeNumber

-----------------------------------------------------------------------------
(* The announcements.                                                      *)

\* Whether an announcement is an exit of a port.
IsExit(event, of, a) == \/ event = "port_exit" /\ of = a
                        \/ a \in Ports /\ event = "client_exit" /\ of = ClientOf[a]

LEMMA Announcing ==
  ASSUME announced \in Seq(Events), NEW event, NEW of, [event |-> event, of |-> of] \in Events,
         Announce(event, of), phase # "subscribe", NEW a \in Addrs
  PROVE  /\ ExitComes(a) => ExitComes(a)'
         /\ StartComes(a) => StartComes(a)'
         /\ event = "port_start" /\ of = a =>
              StartComes(a)' /\ (Exists(a)' => LastSays(a)')
         /\ IsExit(event, of, a) => ExitComes(a)' /\ (~Exists(a)' => LastSays(a)')
         /\ LastSays(a) /\ (Exists(a)' <=> Exists(a)) /\ ~(event = "port_start" /\ of = a)
              /\ ~IsExit(event, of, a) => LastSays(a)'
<1>1. PICK n \in Nat : /\ DOMAIN announced = 1..n /\ DOMAIN announced' = 1..(n + 1)
                       /\ \A i \in 1..n : announced'[i] = announced[i]
                       /\ announced'[n + 1] = [event |-> event, of |-> of]
  BY AnnouncedIs
<1>2. /\ \A i \in 1..n : /\ StartOf(i, a)' <=> StartOf(i, a)
                         /\ ExitOf(i, a)' <=> ExitOf(i, a)
      /\ StartOf(n + 1, a)' <=> event = "port_start" /\ of = a
      /\ ExitOf(n + 1, a)' <=> IsExit(event, of, a)
  BY <1>1 DEF StartOf, ExitOf, IsExit
<1>3. n + 1 \in 1..(n + 1) /\ 1..n \subseteq 1..(n + 1)
      /\ \A i \in 1..(n + 1) : i = n + 1 \/ (i \in 1..n /\ i < n + 1)
  OBVIOUS
<1>4. /\ ExitComes(a) => ExitComes(a)'
      /\ StartComes(a) => StartComes(a)'
      /\ event = "port_start" /\ of = a => StartComes(a)'
      /\ IsExit(event, of, a) => ExitComes(a)'
  BY <1>1, <1>2, <1>3 DEF ExitComes, StartComes
<1>5. ~(event = "port_start" /\ IsExit(event, of, a))
  BY DEF IsExit
<1>6. /\ event = "port_start" /\ of = a /\ Exists(a)' => LastSays(a)'
      /\ IsExit(event, of, a) /\ ~Exists(a)' => LastSays(a)'
  BY <1>1, <1>2, <1>3, <1>5 DEF LastSays
<1>7. LastSays(a) /\ (Exists(a)' <=> Exists(a)) /\ ~(event = "port_start" /\ of = a)
        /\ ~IsExit(event, of, a) => LastSays(a)'
  BY <1>1, <1>2, <1>3 DEF LastSays
<1> QED BY <1>4, <1>6, <1>7

LEMMA Reading ==
  ASSUME announced \in Seq(Events), NEW event, NEW of, Reads(event, of), NEW a \in Addrs,
         LastSays(a)
  PROVE  /\ ~IsExit(event, of, a) /\ ExitComes(a) => ExitComes(a)'
         /\ ~(event = "port_start" /\ of = a) /\ StartComes(a) => StartComes(a)'
         /\ IsExit(event, of, a) /\ Exists(a) => StartComes(a)'
         /\ (Exists(a)' <=> Exists(a)) => LastSays(a)'
<1>1. /\ 1 \in DOMAIN announced /\ announced[1].event = event /\ announced[1].of = of
      /\ DOMAIN announced \subseteq Nat /\ DOMAIN announced' \subseteq Nat
      /\ \A i \in DOMAIN announced' : i + 1 \in DOMAIN announced
                                      /\ announced'[i] = announced[i + 1]
      /\ \A i \in DOMAIN announced : i # 1 => i - 1 \in DOMAIN announced'
                                              /\ announced'[i - 1] = announced[i]
  BY ReadIs
<1>2. /\ \A i \in DOMAIN announced : i # 1 => /\ StartOf(i - 1, a)' <=> StartOf(i, a)
                                              /\ ExitOf(i - 1, a)' <=> ExitOf(i, a)
      /\ \A i \in DOMAIN announced' : /\ StartOf(i, a)' <=> StartOf(i + 1, a)
                                      /\ ExitOf(i, a)' <=> ExitOf(i + 1, a)
      /\ StartOf(1, a) <=> event = "port_start" /\ of = a
      /\ ExitOf(1, a) <=> IsExit(event, of, a)
  BY <1>1 DEF StartOf, ExitOf, IsExit
<1>3. /\ ~IsExit(event, of, a) /\ ExitComes(a) => ExitComes(a)'
      /\ ~(event = "port_start" /\ of = a) /\ StartComes(a) => StartComes(a)'
  BY <1>1, <1>2 DEF ExitComes, StartComes
<1>4. ASSUME IsExit(event, of, a), Exists(a) PROVE StartComes(a)'
  <2>1. PICK j \in DOMAIN announced : 1 < j /\ StartOf(j, a)
    BY <1>1, <1>2, <1>4 DEF LastSays
  <2> QED BY <1>1, <1>2, <2>1 DEF StartComes
<1>5. ASSUME Exists(a)' <=> Exists(a), NEW i \in DOMAIN announced'
      PROVE  /\ Exists(a)' /\ ExitOf(i, a)' =>
                  \E j \in DOMAIN announced' : i < j /\ StartOf(j, a)'
             /\ ~Exists(a)' /\ StartOf(i, a)' =>
                  \E j \in DOMAIN announced' : i < j /\ ExitOf(j, a)'
  <2>1. i + 1 \in DOMAIN announced /\ i \in Nat
    BY <1>1
  <2>2. \A j \in DOMAIN announced : i + 1 < j => j - 1 \in DOMAIN announced' /\ i < j - 1
                                                 /\ j # 1 /\ j \in Nat
    BY <1>1, <2>1
  <2>3. /\ Exists(a) /\ ExitOf(i + 1, a) =>
             \E j \in DOMAIN announced : i + 1 < j /\ StartOf(j, a)
        /\ ~Exists(a) /\ StartOf(i + 1, a) =>
             \E j \in DOMAIN announced : i + 1 < j /\ ExitOf(j, a)
    BY <2>1 DEF LastSays
  <2> QED BY <1>2, <1>5, <2>2, <2>3
<1>6. (Exists(a)' <=> Exists(a)) => LastSays(a)'
  BY <1>5 DEF LastSays
<1> QED BY <1>3, <1>4, <1>6

\* The same announcements, and the same ports.
LEMMA SayingNothing ==
  ASSUME UNCHANGED announced, NEW a \in Addrs
  PROVE  /\ ExitComes(a)' <=> ExitComes(a)
         /\ StartComes(a)' <=> StartComes(a)
         /\ LastSays(a) /\ (Exists(a)' <=> Exists(a)) => LastSays(a)'
BY DEF ExitComes, StartComes, LastSays, ExitOf, StartOf

\* The subscriptions, one by one.
LEMMA SubscribedIs ==
  ASSUME TypeOK
  PROVE  SubscribedExactly <=>
           \A k \in Kinds, a \in Addrs :
             <<k, a>> \in subscribed <=> conn[k][a] # NoConn /\ conn[k][a].gen = port[a].gen
<1> DEFINE Right(k, a) == conn[k][a] # NoConn /\ conn[k][a].gen = port[a].gen
           Those == {s \in Kinds \X Addrs : Right(s[1], s[2])}
<1>1. \A s \in Kinds \X Addrs : s = <<s[1], s[2]>> /\ s[1] \in Kinds /\ s[2] \in Addrs
  OBVIOUS
<1>2. SubscribedExactly <=> subscribed = Those
  BY DEF SubscribedExactly
<1>3. subscribed \subseteq Kinds \X Addrs
  BY TypesAre
<1> HIDE DEF Right
<1>4. subscribed = Those <=>
        \A k \in Kinds, a \in Addrs : <<k, a>> \in subscribed <=> Right(k, a)
  <2>1. ASSUME subscribed = Those, NEW k \in Kinds, NEW a \in Addrs
        PROVE  <<k, a>> \in subscribed <=> Right(k, a)
    BY <2>1
  <2>2. ASSUME \A k \in Kinds, a \in Addrs : <<k, a>> \in subscribed <=> Right(k, a)
        PROVE  subscribed = Those
    BY <1>1, <1>3, <2>2
  <2> QED BY <2>1, <2>2
<1> QED BY <1>2, <1>4 DEF Right

LEMMA SubscribedIsNext ==
  ASSUME TypeOK'
  PROVE  SubscribedExactly' <=>
           \A k \in Kinds, a \in Addrs :
             <<k, a>> \in subscribed' <=>
               conn'[k][a] # NoConn /\ conn'[k][a].gen = port'[a].gen
<1> DEFINE Right(k, a) == conn'[k][a] # NoConn /\ conn'[k][a].gen = port'[a].gen
           Those == {s \in Kinds \X Addrs : Right(s[1], s[2])}
<1>1. \A s \in Kinds \X Addrs : s = <<s[1], s[2]>> /\ s[1] \in Kinds /\ s[2] \in Addrs
  OBVIOUS
<1>2. SubscribedExactly' <=> subscribed' = Those
  BY DEF SubscribedExactly
<1>3. subscribed' \subseteq Kinds \X Addrs
  BY TypesAreNext
<1> HIDE DEF Right
<1>4. subscribed' = Those <=>
        \A k \in Kinds, a \in Addrs : <<k, a>> \in subscribed' <=> Right(k, a)
  <2>1. ASSUME subscribed' = Those, NEW k \in Kinds, NEW a \in Addrs
        PROVE  <<k, a>> \in subscribed' <=> Right(k, a)
    BY <2>1
  <2>2. ASSUME \A k \in Kinds, a \in Addrs : <<k, a>> \in subscribed' <=> Right(k, a)
        PROVE  subscribed' = Those
    BY <1>1, <1>3, <2>2
  <2> QED BY <2>1, <2>2
<1> QED BY <1>2, <1>4 DEF Right

-----------------------------------------------------------------------------
(* The sequencer.                                                          *)

\* The virtual ports are as they were, but some may be off the list.
LEMMA VirtualStays ==
  ASSUME Exact, UNCHANGED <<vports, vdest_recv, created>>,
         \A n \in Own : port'[n] = port[n],
         \A k \in Kinds, n \in Own : cache'[k][n] \in {cache[k][n], None}
  PROVE  VirtualOK'
<1>1. \A n \in Own : Exists(n)' <=> Exists(n)
  BY DEF Exists
<1>2. \A k \in Kinds, id \in Ids : vports[k][id] # None => vports[k][id] \in Own
  BY TypesAre DEF Exact
<1>3. ASSUME NEW k \in Kinds, NEW id \in Ids, vports[k][id] # None
      PROVE  /\ id <= created
             /\ Exists(vports[k][id])' /\ port'[vports[k][id]].caps = {k}
             /\ \A j \in Kinds, i \in Ids : vports[j][i] = vports[k][id] => j = k /\ i = id
             /\ \A j \in Kinds : vports[j][id] # None => j = k
  <2>1. PICK n \in Own : n = vports[k][id]
    BY <1>2, <1>3
  <2>2. /\ id <= created
        /\ Exists(vports[k][id]) /\ port[vports[k][id]].caps = {k}
        /\ \A j \in Kinds, i \in Ids : vports[j][i] = vports[k][id] => j = k /\ i = id
        /\ \A j \in Kinds : vports[j][id] # None => j = k
    BY <1>3 DEF Exact, VirtualOK
  <2>3. Exists(vports[k][id])' /\ port'[vports[k][id]].caps = {k}
    BY <2>1, <2>2 DEF Exists
  <2> QED BY <2>2, <2>3
<1>4. /\ \A n \in Own : Exists(n)' => \E k \in Kinds, id \in Ids : vports[k][id] = n
      /\ \A n \in Own, id \in Ids : vdest_recv[n] = id <=> vports["destination"][id] = n
      /\ \A k \in Kinds, n \in Own : Listed(k, n)' =>
           k \in port'[n].caps /\ cache'[k][n] = port'[n].gen
  BY <1>1 DEF Exact, VirtualOK, Listed
<1>5. \A k \in Kinds, id \in Ids : vports'[k][id] # None =>
        /\ id <= created'
        /\ Exists(vports[k][id])' /\ port'[vports'[k][id]].caps = {k}
        /\ \A j \in Kinds, i \in Ids : vports'[j][i] = vports'[k][id] => j = k /\ i = id
        /\ \A j \in Kinds : vports'[j][id] # None => j = k
  BY <1>3
<1> QED BY <1>4, <1>5 DEF VirtualOK

LEMMA StartExact ==
  ASSUME Exact, NEW a \in Ports, PortStarts(a)
  PROVE  Exact'
<1> USE DEF registry, virtual, subscriber
<1>0. /\ a \in Addrs /\ a \notin Own /\ ~Exists(a) /\ starts + created < MaxStarts + MaxVirtual
      /\ starts' = starts + 1 /\ starts' \in 0..MaxStarts /\ TypeOK
      /\ UNCHANGED <<subscribed, phase, scan, cache, conn, vports, vdest_recv, created, sub, known>>
  BY TypesAre, Numbers DEF Exact, PortStarts
<1>1. PICK caps \in SUBSET Kinds : port' = [port EXCEPT ![a] = [gen |-> NewGen, caps |-> caps]]
  BY PortsAssumption DEF PortStarts
<1>2. /\ port' \in [Addrs -> PortTs] /\ starts \in Nat /\ created \in Nat
      /\ port'[a].gen = starts + created + 1
      /\ \A b \in Addrs : b # a => port'[b] = port[b]
  BY <1>0, <1>1, PutIs
<1>3. Announce("port_start", a) /\ [event |-> "port_start", of |-> a] \in Events
  BY <1>0, EventsAre DEF PortStarts
<1>4. announced \in Seq(Events) /\ announced' \in Seq(Events)
  BY <1>0, <1>3, TypesAre, AnnouncedIs
<1>5. TypeOK'
  BY <1>0, <1>2, <1>4, TypesAre, TypesAreNext
<1>6. /\ \A b \in Addrs : port[b].gen <= starts + created /\ (~Exists(b) => port[b].caps = {})
      /\ \A k \in Kinds, b \in Addrs : conn[k][b].gen <= starts + created
                                       /\ conn[k][b].gen \in Nat
  BY <1>0, EntriesAre DEF Exact, PortsOK
<1>7. Exists(a)' /\ \A b \in Addrs : b # a => (Exists(b)' <=> Exists(b))
  BY <1>2, Numbers DEF Exists
<1>8. PortsOK'
  <2>1. \A b \in Addrs : port'[b].gen <= starts' + created' /\ (~Exists(b)' => port'[b].caps = {})
    <3>1. \A b \in Addrs : port[b].gen \in Nat
      BY <1>0, TypesAre, Numbers DEF PortTs
    <3> QED BY <1>0, <1>2, <1>6, <1>7, <3>1
  <2> QED BY <1>0, <1>2, <1>6, <2>1 DEF PortsOK
<1>9. VirtualOK'
  <2>1. \A n \in Own : n # a /\ n \in Addrs /\ port'[n] = port[n]
    BY <1>0, <1>2, Numbers
  <2> QED BY <1>0, <2>1, VirtualStays
<1>10. AnnouncedOK'
  <2>1. CASE phase = "subscribe"
    <3>1. announced' = <<>> /\ announced = <<>>
      BY <1>3, <1>4, <2>1, AnnouncedIs DEF Exact, AnnouncedOK
    <3>2. \A b \in Ports : LastSays(b)'
      BY <3>1 DEF LastSays
    <3>3. \A k \in Kinds, b \in Ports : ListedRight(k, b)'
      BY <1>0, <2>1 DEF Exact, AnnouncedOK, ListedRight, Seen
    <3> QED BY <1>0, <2>1, <3>1, <3>2, <3>3 DEF AnnouncedOK, Started
  <2>2. CASE phase # "subscribe"
    <3>1. \A b \in Ports : b \in Addrs /\ (b # a => ~IsExit("port_start", a, b))
                           /\ ~IsExit("port_start", a, b)
      BY Numbers DEF IsExit
    <3>2. \A b \in Ports : LastSays(b)' /\ (ExitComes(b) => ExitComes(b)')
                           /\ (StartComes(b) => StartComes(b)')
      BY <1>3, <1>4, <1>7, <2>2, <3>1, Announcing DEF Exact, AnnouncedOK
    <3>3. StartComes(a)'
      BY <1>0, <1>3, <1>4, <2>2, Announcing
    <3>4. ASSUME NEW k \in Kinds, NEW b \in Ports PROVE ListedRight(k, b)'
      <4>1. ListedRight(k, b) /\ (Seen(k, b)' <=> Seen(k, b)) /\ cache' = cache
        BY <1>0 DEF Exact, AnnouncedOK, Seen
      <4>2. CASE b # a
        <5>1. port'[b] = port[b]
          BY <1>2, <3>1, <4>2
        <5> QED BY <3>2, <4>1, <5>1 DEF ListedRight, Want
      <4>3. CASE b = a
        <5>1. port[a].caps = {}
          BY <1>0, <1>6
        <5> QED BY <3>2, <3>3, <4>1, <4>3, <5>1 DEF ListedRight, Want
      <4> QED BY <4>2, <4>3
    <3> QED BY <1>0, <2>2, <3>2, <3>4 DEF Exact, AnnouncedOK, Started
  <2> QED BY <2>1, <2>2
<1>11. ToldOK'
  <2> SUFFICES ASSUME NEW k \in Kinds, NEW b \in Addrs, conn[k][b] # NoConn
               PROVE  /\ Started
                      /\ Listed(k, b) \/ conn[k][b].told \/ conn[k][b].unlisted
                      /\ Gone(k, b)' => conn[k][b].told \/ conn[k][b].unlisted \/ ExitComes(b)'
    BY <1>0 DEF ToldOK, Started, Listed
  <2>1. /\ Started
        /\ Listed(k, b) \/ conn[k][b].told \/ conn[k][b].unlisted
        /\ Gone(k, b) => conn[k][b].told \/ conn[k][b].unlisted \/ ExitComes(b)
    BY DEF Exact, ToldOK
  <2>2. Gone(k, b)' => Gone(k, b)
    <3>1. conn[k][b].gen # None
      BY <1>0, EntriesAre
    <3> QED BY <1>0, <1>2, <3>1 DEF Gone, Exists
  <2>3. ExitComes(b) => ExitComes(b)'
    BY <1>3, <1>4, <2>1, Announcing DEF Started
  <2> QED BY <2>1, <2>2, <2>3
<1>12. SubscribedExactly'
  <2>1. \A k \in Kinds, b \in Addrs :
          <<k, b>> \in subscribed <=> conn[k][b] # NoConn /\ conn[k][b].gen = port[b].gen
    BY <1>0, SubscribedIs DEF Exact
  <2>2. \A k \in Kinds : conn[k][a] # NoConn => conn[k][a].gen # None
    BY <1>0, EntriesAre
  <2>3. \A k \in Kinds, b \in Addrs :
          <<k, b>> \in subscribed' <=> conn'[k][b] # NoConn /\ conn'[k][b].gen = port'[b].gen
    <3>1. \A k \in Kinds : ~(conn[k][a] # NoConn /\ conn[k][a].gen = port[a].gen)
                           /\ conn[k][a].gen # port'[a].gen
      BY <1>0, <1>2, <1>6, <2>2 DEF Exists
    <3>2. \A k \in Kinds : <<k, a>> \notin subscribed
      BY <1>0, <2>1, <3>1
    <3> QED BY <1>0, <1>2, <2>1, <3>1, <3>2, ZenonT(60)
  <2> QED BY <1>5, <2>3, SubscribedIsNext
<1> QED BY <1>5, <1>8, <1>9, <1>10, <1>11, <1>12 DEF Exact

\* A port that goes takes its subscriptions along.
LEMMA DeleteExact ==
  ASSUME Exact, NEW gone, Delete(gone), NEW k \in Kinds, NEW b \in Addrs, TypeOK',
         conn'[k][b].gen = conn[k][b].gen, conn'[k][b] = NoConn <=> conn[k][b] = NoConn
  PROVE  <<k, b>> \in subscribed' <=> conn'[k][b] # NoConn /\ conn'[k][b].gen = port'[b].gen
<1>1. <<k, b>> \in subscribed <=> conn[k][b] # NoConn /\ conn[k][b].gen = port[b].gen
  BY SubscribedIs DEF Exact
<1>2. conn[k][b] # NoConn => conn[k][b].gen # None
  BY EntriesAre DEF Exact
<1>3. /\ port'[b] = IF b \in gone THEN NoPort ELSE port[b]
      /\ subscribed' = {s \in subscribed : s[2] \notin gone}
  BY DeleteIs DEF Exact
<1> QED BY <1>1, <1>2, <1>3, Numbers

LEMMA ExitExact ==
  ASSUME Exact, NEW gone, gone \subseteq Ports, NEW event, NEW of,
         [event |-> event, of |-> of] \in Events, event # "port_start",
         \A b \in Addrs : IsExit(event, of, b) <=> b \in gone,
         Delete(gone), Announce(event, of),
         UNCHANGED <<starts, phase, scan, registry, virtual, subscriber>>
  PROVE  Exact'
<1> USE DEF registry, virtual, subscriber
<1>0. /\ TypeOK /\ gone \subseteq Addrs /\ \A n \in Own : n \in Addrs /\ n \notin gone
      /\ UNCHANGED <<starts, phase, scan, cache, conn, vports, vdest_recv, created, sub, known>>
  BY Numbers DEF Exact
<1>1. /\ port' \in [Addrs -> PortTs] /\ subscribed' \subseteq Kinds \X Addrs
      /\ \A b \in Addrs : port'[b] = IF b \in gone THEN NoPort ELSE port[b]
  BY <1>0, DeleteIs
<1>2. announced \in Seq(Events) /\ announced' \in Seq(Events)
  BY <1>0, TypesAre, AnnouncedIs
<1>3. TypeOK'
  BY <1>0, <1>1, <1>2, TypesAre, TypesAreNext
<1>4. \A b \in Addrs : /\ b \in gone => ~Exists(b)' /\ port'[b].gen = None /\ port'[b].caps = {}
                       /\ b \notin gone => (Exists(b)' <=> Exists(b)) /\ port'[b] = port[b]
  BY <1>1, Numbers DEF Exists
<1>5. PortsOK'
  <2>1. \A b \in Addrs : port'[b].gen <= starts + created /\ (~Exists(b)' => port'[b].caps = {})
    BY <1>0, <1>4, EntriesAre, Numbers DEF Exact, PortsOK
  <2> QED BY <1>0, <2>1 DEF Exact, PortsOK
<1>6. VirtualOK'
  <2>1. \A n \in Own : port'[n] = port[n]
    BY <1>0, <1>4
  <2> QED BY <1>0, <2>1, VirtualStays
<1>7. phase # "subscribe" =>
        \A b \in Addrs : /\ ExitComes(b) => ExitComes(b)'
                         /\ StartComes(b) => StartComes(b)'
                         /\ b \in gone => ExitComes(b)'
                         /\ LastSays(b) => LastSays(b)'
  BY <1>0, <1>2, <1>4, Announcing
<1>8. AnnouncedOK'
  <2>1. CASE phase = "subscribe"
    <3>1. announced' = <<>>
      BY <1>2, <2>1, AnnouncedIs DEF Exact, AnnouncedOK
    <3>2. \A b \in Ports : LastSays(b)'
      BY <3>1 DEF LastSays
    <3>3. \A k \in Kinds, b \in Ports : ListedRight(k, b)'
      BY <1>0, <2>1 DEF Exact, AnnouncedOK, ListedRight, Seen
    <3> QED BY <1>0, <2>1, <3>1, <3>2, <3>3 DEF AnnouncedOK, Started
  <2>2. CASE phase # "subscribe"
    <3>1. \A b \in Ports : b \in Addrs
      BY Numbers
    <3>2. \A b \in Ports : LastSays(b)'
      BY <1>7, <2>2, <3>1 DEF Exact, AnnouncedOK
    <3>3. ASSUME NEW k \in Kinds, NEW b \in Ports PROVE ListedRight(k, b)'
      <4>1. ListedRight(k, b) /\ (Seen(k, b)' <=> Seen(k, b)) /\ cache' = cache
        BY <1>0 DEF Exact, AnnouncedOK, Seen
      <4>2. CASE b \in gone
        BY <1>7, <2>2, <3>1, <4>1, <4>2 DEF ListedRight
      <4>3. CASE b \notin gone
        BY <1>4, <1>7, <2>2, <3>1, <4>1, <4>3 DEF ListedRight, Want
      <4> QED BY <4>2, <4>3
    <3> QED BY <1>0, <2>2, <3>2, <3>3 DEF Exact, AnnouncedOK, Started
  <2> QED BY <2>1, <2>2
<1>9. ToldOK'
  <2> SUFFICES ASSUME NEW k \in Kinds, NEW b \in Addrs, conn[k][b] # NoConn
               PROVE  /\ Started
                      /\ Listed(k, b) \/ conn[k][b].told \/ conn[k][b].unlisted
                      /\ Gone(k, b)' => conn[k][b].told \/ conn[k][b].unlisted \/ ExitComes(b)'
    BY <1>0 DEF ToldOK, Started, Listed
  <2>1. /\ Started
        /\ Listed(k, b) \/ conn[k][b].told \/ conn[k][b].unlisted
        /\ Gone(k, b) => conn[k][b].told \/ conn[k][b].unlisted \/ ExitComes(b)
    BY DEF Exact, ToldOK
  <2>2. Gone(k, b)' => Gone(k, b) \/ b \in gone
    BY <1>0, <1>4 DEF Gone
  <2> QED BY <1>7, <2>1, <2>2 DEF Started
<1>10. SubscribedExactly'
  BY <1>0, <1>3, DeleteExact, SubscribedIsNext
<1> QED BY <1>3, <1>5, <1>6, <1>8, <1>9, <1>10 DEF Exact

-----------------------------------------------------------------------------
(* The start of the thread, and its commands.                              *)

LEMMA PhaseExact ==
  ASSUME Exact,
         \/ SubscribeAnnouncements \/ Ready \/ DispatchDone \/ DrainDone
         \/ \E k \in Kinds, a \in Ports : BuildCache(k, a)
  PROVE  Exact'
<1> USE DEF sequencer, registry, virtual, subscriber
<1>0. /\ TypeOK
      /\ UNCHANGED <<port, subscribed, announced, starts, conn, vports, vdest_recv, created, sub,
                     known>>
  BY DEF Exact, SubscribeAnnouncements, Ready, DispatchDone, DrainDone, BuildCache
<1>1. \A a \in Ports : a \in Addrs /\ a \notin Own
  BY Numbers
<1>2. /\ phase' \in {"subscribe", "build", "dispatch", "drain"} /\ scan' \in [Kinds -> SUBSET Ports]
      /\ cache' \in [Kinds -> [Addrs -> Gens]]
      /\ \A k \in Kinds, n \in Own : cache'[k][n] = cache[k][n]
  <2>1. CASE SubscribeAnnouncements \/ Ready \/ DispatchDone \/ DrainDone
    BY <1>0, <2>1, TypesAre DEF SubscribeAnnouncements, Ready, DispatchDone, DrainDone
  <2>2. ASSUME NEW k \in Kinds, NEW a \in Ports, BuildCache(k, a)
        PROVE  /\ phase' = phase /\ scan' \in [Kinds -> SUBSET Ports]
               /\ cache' \in [Kinds -> [Addrs -> Gens]]
               /\ \A j \in Kinds, n \in Own : cache'[j][n] = cache[j][n]
    <3>1. port[a].gen \in Gens
      BY <1>0, <1>1, EntriesAre
    <3> QED BY <1>0, <1>1, <2>2, <3>1, TypesAre DEF BuildCache
  <2> QED BY <1>0, <2>1, <2>2, TypesAre
<1>3. TypeOK'
  BY <1>0, <1>2, TypesAre, TypesAreNext
<1>4. PortsOK' /\ VirtualOK'
  BY <1>0, <1>2, VirtualStays DEF Exact, PortsOK, Exists
<1>5. \A a \in Ports : LastSays(a)' /\ (ExitComes(a)' <=> ExitComes(a))
                       /\ (StartComes(a)' <=> StartComes(a))
  BY <1>0, <1>1, SayingNothing DEF Exact, AnnouncedOK, Exists
<1>6. AnnouncedOK'
  <2>1. CASE SubscribeAnnouncements
    <3>1. phase = "subscribe" /\ phase' = "build" /\ cache' = cache
          /\ scan' = [k \in Kinds |-> Ports]
      BY <2>1 DEF SubscribeAnnouncements
    <3>2. \A k \in Kinds, a \in Ports : ListedRight(k, a)'
      BY <3>1 DEF Exact, AnnouncedOK, ListedRight, Seen
    <3> QED BY <1>5, <3>1, <3>2 DEF AnnouncedOK, Started
  <2>2. CASE Ready \/ DispatchDone \/ DrainDone
    <3>1. /\ phase # "subscribe" /\ phase' # "subscribe" /\ UNCHANGED <<cache, scan>>
          /\ \A k \in Kinds : scan[k] = {}
      BY <2>2 DEF Ready, DispatchDone, DrainDone, Exact, AnnouncedOK, Started
    <3>2. \A k \in Kinds, a \in Ports : ListedRight(k, a)'
      BY <1>0, <1>5, <3>1 DEF Exact, AnnouncedOK, ListedRight, Seen, Want
    <3> QED BY <1>5, <3>1, <3>2 DEF AnnouncedOK
  <2>3. ASSUME NEW k \in Kinds, NEW a \in Ports, BuildCache(k, a) PROVE AnnouncedOK'
    <3>1. /\ phase = "build" /\ phase' = phase /\ a \in scan[k]
          /\ scan' = [scan EXCEPT ![k] = @ \ {a}]
          /\ cache' = IF k \in port[a].caps THEN [cache EXCEPT ![k][a] = port[a].gen] ELSE cache
      BY <2>3 DEF BuildCache
    <3>2. ASSUME NEW j \in Kinds, NEW b \in Ports PROVE ListedRight(j, b)'
      <4>1. ListedRight(j, b)
        BY DEF Exact, AnnouncedOK
      <4>2. CASE j = k /\ b = a
        <5>1. cache[k][a] = None
          BY <3>1, <4>1, <4>2 DEF ListedRight, Seen
        <5>2. cache'[k][a] = Want(k, a)'
          BY <1>0, <1>1, <3>1, <5>1, TypesAre DEF Want
        <5>3. Seen(k, a)'
          BY <1>0, <3>1, TypesAre DEF Seen
        <5> QED BY <4>2, <5>2, <5>3 DEF ListedRight
      <4>3. CASE ~(j = k /\ b = a)
        <5>1. cache'[j][b] = cache[j][b] /\ (Seen(j, b)' <=> Seen(j, b))
          BY <1>0, <1>1, <3>1, <4>3, TypesAre DEF Seen
        <5> QED BY <1>0, <1>5, <4>1, <5>1 DEF ListedRight, Want
      <4> QED BY <4>2, <4>3
    <3> QED BY <1>5, <3>1, <3>2 DEF AnnouncedOK, Started
  <2> QED BY <2>1, <2>2, <2>3
<1>7. ToldOK'
  <2> SUFFICES ASSUME NEW k \in Kinds, NEW a \in Addrs, conn[k][a] # NoConn
               PROVE  /\ Started'
                      /\ Listed(k, a)' \/ conn[k][a].told \/ conn[k][a].unlisted
                      /\ Gone(k, a)' => conn[k][a].told \/ conn[k][a].unlisted \/ ExitComes(a)'
    BY <1>0 DEF ToldOK
  <2>1. /\ Started
        /\ Listed(k, a) \/ conn[k][a].told \/ conn[k][a].unlisted
        /\ Gone(k, a) => conn[k][a].told \/ conn[k][a].unlisted \/ ExitComes(a)
    BY DEF Exact, ToldOK
  <2>2. Started' /\ cache' = cache
    BY <2>1 DEF Started, SubscribeAnnouncements, Ready, DispatchDone, DrainDone, BuildCache
  <2> QED BY <1>0, <2>1, <2>2, SayingNothing DEF Gone, Listed
<1>8. SubscribedExactly'
  BY <1>0 DEF Exact, SubscribedExactly
<1> QED BY <1>3, <1>4, <1>6, <1>7, <1>8 DEF Exact

\* Connect adds a connection to the port that is there, Disconnect takes one away.
LEMMA ConnectExact ==
  ASSUME Exact, NEW k \in Kinds, NEW a \in Addrs, Connect(k, a) \/ Disconnect(k, a)
  PROVE  Exact'
<1> USE DEF virtual, subscriber
<1>0. /\ TypeOK /\ Started /\ phase # "subscribe"
      /\ UNCHANGED <<port, announced, starts, phase, scan, cache, vports, vdest_recv, created, sub,
                     known>>
  BY DEF Exact, Connect, Disconnect, Started
<1> DEFINE new == [gen |-> port[a].gen, told |-> FALSE, unlisted |-> ~Listed(k, a)]
<1>1. Connect(k, a) => /\ port[a].gen # None /\ new \in ConnTs /\ new # NoConn
                       /\ new.gen = port[a].gen /\ new.told = FALSE
                       /\ new.unlisted = ~Listed(k, a)
  <2>1. Connect(k, a) => port[a].gen # None
    BY <1>0 DEF Connect, Exact, PortsOK, Exists
  <2>2. port[a].gen \in Gens /\ (~Listed(k, a)) \in BOOLEAN
    BY <1>0, EntriesAre DEF Listed
  <2> QED BY <2>1, <2>2 DEF ConnTs, NoConn
<1>2. PICK c \in ConnTs : /\ conn' = [conn EXCEPT ![k][a] = c]
                          /\ \/ Connect(k, a) /\ c = new /\ subscribed' = subscribed \cup {<<k, a>>}
                             \/ Disconnect(k, a) /\ c = NoConn /\ subscribed' = subscribed \ {<<k, a>>}
  BY <1>1, Numbers DEF Connect, Disconnect
<1> HIDE DEF new
<1>3. /\ conn' \in [Kinds -> [Addrs -> ConnTs]] /\ conn'[k][a] = c
      /\ \A j \in Kinds, b \in Addrs : ~(j = k /\ b = a) => conn'[j][b] = conn[j][b]
      /\ subscribed' \subseteq Kinds \X Addrs
  BY <1>0, <1>2, TypesAre
<1>4. TypeOK'
  BY <1>0, <1>3, TypesAre, TypesAreNext
<1>5. PortsOK'
  <2>1. c.gen <= starts + created
    BY <1>0, <1>1, <1>2, EntriesAre, Numbers DEF Exact, PortsOK
  <2> QED BY <1>0, <1>3, <2>1 DEF Exact, PortsOK, Exists
<1>6. VirtualOK'
  BY <1>0, VirtualStays
<1>7. AnnouncedOK'
  <2>1. \A b \in Ports : LastSays(b)' /\ (ExitComes(b)' <=> ExitComes(b))
                         /\ (StartComes(b)' <=> StartComes(b))
    BY <1>0, Numbers, SayingNothing DEF Exact, AnnouncedOK, Exists
  <2> QED BY <1>0, <2>1 DEF Exact, AnnouncedOK, ListedRight, Seen, Want, Started
<1>8. ToldOK'
  <2> SUFFICES ASSUME NEW j \in Kinds, NEW b \in Addrs, conn'[j][b] # NoConn
               PROVE  /\ Started'
                      /\ Listed(j, b)' \/ conn'[j][b].told \/ conn'[j][b].unlisted
                      /\ Gone(j, b)' => conn'[j][b].told \/ conn'[j][b].unlisted \/ ExitComes(b)'
    BY DEF ToldOK
  <2>1. Started' /\ (Listed(j, b)' <=> Listed(j, b)) /\ (ExitComes(b)' <=> ExitComes(b))
    BY <1>0, SayingNothing DEF Started, Listed
  <2>2. CASE j = k /\ b = a
    BY <1>0, <1>1, <1>2, <1>3, <2>1, <2>2 DEF Gone
  <2>3. CASE ~(j = k /\ b = a)
    BY <1>0, <1>3, <2>1, <2>3 DEF Exact, ToldOK, Gone
  <2> QED BY <2>2, <2>3
<1>9. SubscribedExactly'
  <2>1. \A j \in Kinds, b \in Addrs :
          <<j, b>> \in subscribed <=> conn[j][b] # NoConn /\ conn[j][b].gen = port[b].gen
    BY <1>0, SubscribedIs DEF Exact
  <2>2. ASSUME NEW j \in Kinds, NEW b \in Addrs
        PROVE  <<j, b>> \in subscribed' <=> conn'[j][b] # NoConn /\ conn'[j][b].gen = port'[b].gen
    <3>1. CASE j = k /\ b = a
      BY <1>0, <1>1, <1>2, <1>3, <3>1
    <3>2. CASE ~(j = k /\ b = a)
      <4>1. <<j, b>> \in subscribed' <=> <<j, b>> \in subscribed
        BY <1>2, <3>2
      <4> QED BY <1>0, <1>3, <2>1, <3>2, <4>1
    <3> QED BY <3>1, <3>2
  <2> QED BY <1>4, <2>2, SubscribedIsNext
<1> QED BY <1>4, <1>5, <1>6, <1>7, <1>8, <1>9 DEF Exact

LEMMA SubscriberExact ==
  ASSUME Exact, NEW k \in Kinds, List(k) \/ Subscribe(k)
  PROVE  Exact'
<1> USE DEF sequencer, registry, virtual
<1>0. /\ TypeOK
      /\ UNCHANGED <<port, subscribed, announced, starts, phase, scan, cache, conn, vports,
                     vdest_recv, created>>
  BY DEF Exact, List, Subscribe
<1>1. TypeOK'
  <2>1. sub' \in [Kinds -> {"none", "subscribed", "listed"}]
    BY <1>0, TypesAre DEF List, Subscribe
  <2>2. known' \in [Kinds -> [Addrs -> Gens \cup {Unheard}]]
    <3>1. CASE List(k)
      <4>1. \A a \in Addrs : known[k][a] \in Gens \cup {Unheard} /\ cache[k][a] \in Gens
        BY <1>0, TypesAre
      <4>2. [a \in Addrs |-> IF known[k][a] = Unheard THEN cache[k][a] ELSE known[k][a]]
              \in [Addrs -> Gens \cup {Unheard}]
        BY <4>1
      <4> QED BY <1>0, <3>1, <4>2, TypesAre DEF List
    <3>2. CASE Subscribe(k)
      BY <1>0, <3>2, TypesAre DEF Subscribe
    <3> QED BY <3>1, <3>2
  <2> QED BY <1>0, <2>1, <2>2, TypesAre, TypesAreNext
<1>2. PortsOK' /\ VirtualOK' /\ SubscribedExactly'
  BY <1>0, VirtualStays DEF Exact, PortsOK, Exists, SubscribedExactly
<1>3. \A b \in Addrs : (ExitComes(b)' <=> ExitComes(b)) /\ (StartComes(b)' <=> StartComes(b))
                       /\ (LastSays(b) => LastSays(b)')
  BY <1>0, SayingNothing DEF Exists
<1>4. AnnouncedOK'
  BY <1>0, <1>3, Numbers DEF Exact, AnnouncedOK, ListedRight, Seen, Want, Started
<1>5. ToldOK'
  BY <1>0, <1>3 DEF Exact, ToldOK, Started, Listed, Gone
<1> QED BY <1>1, <1>2, <1>4, <1>5 DEF Exact

-----------------------------------------------------------------------------
(* The announcements read.                                                 *)

\* A start is looked up when it is read.
LEMMA HandleStartExact ==
  ASSUME Exact, NEW a \in Addrs, HandlePortStart(a)
  PROVE  Exact'
<1> USE DEF virtual
<1> DEFINE kinds == IF a \in Own THEN {} ELSE port[a].caps
<1>0. /\ TypeOK /\ Reads("port_start", a) /\ AddPort(kinds, a)
      /\ UNCHANGED <<port, subscribed, starts, phase, scan, conn, vports, vdest_recv, created, sub>>
      /\ phase = "drain" /\ Started /\ announced \in Seq(Events)
  BY TypesAre DEF Exact, HandlePortStart, Reads, Started
<1> HIDE DEF kinds
<1>1. /\ cache' \in [Kinds -> [Addrs -> Gens]]
      /\ known' \in [Kinds -> [Addrs -> Gens \cup {Unheard}]]
      /\ \A k \in Kinds, b \in Addrs :
           cache'[k][b] = IF k \in kinds /\ b = a THEN port[b].gen ELSE cache[k][b]
  BY <1>0, TypesAre, AddPortIs
<1>2. announced' \in Seq(Events)
  BY <1>0, ReadIs
<1>3. TypeOK'
  BY <1>0, <1>1, <1>2, TypesAre, TypesAreNext
<1>4. PortsOK' /\ SubscribedExactly'
  BY <1>0 DEF Exact, PortsOK, Exists, SubscribedExactly
<1>5. VirtualOK'
  BY <1>0, <1>1, Numbers, VirtualStays DEF kinds
<1>6. \A b \in Addrs : LastSays(b) =>
        /\ ExitComes(b) => ExitComes(b)'
        /\ b # a /\ StartComes(b) => StartComes(b)'
        /\ LastSays(b)'
  BY <1>0, Reading DEF IsExit, Exists
<1>7. AnnouncedOK'
  <2>1. ASSUME NEW k \in Kinds, NEW b \in Ports PROVE ListedRight(k, b)'
    <3>1. /\ ListedRight(k, b) /\ b \in Addrs /\ LastSays(b) /\ Seen(k, b) /\ Seen(k, b)'
          /\ b \notin Own
      BY <1>0, Numbers DEF Exact, AnnouncedOK, Seen
    <3>2. cache'[k][b] = IF k \in kinds /\ b = a THEN port[b].gen ELSE cache[k][b]
      BY <1>1, <3>1
    <3>3. CASE b = a
      BY <1>0, <1>6, <3>1, <3>2, <3>3 DEF ListedRight, Want, kinds
    <3>4. CASE b # a
      BY <1>0, <1>6, <3>1, <3>2, <3>4 DEF ListedRight, Want
    <3> QED BY <3>3, <3>4
  <2> QED BY <1>0, <1>6, <2>1, Numbers DEF Exact, AnnouncedOK, Started
<1>8. ToldOK'
  <2> SUFFICES ASSUME NEW k \in Kinds, NEW b \in Addrs, conn[k][b] # NoConn
               PROVE  /\ Started'
                      /\ Listed(k, b)' \/ conn[k][b].told \/ conn[k][b].unlisted
                      /\ Gone(k, b)' => conn[k][b].told \/ conn[k][b].unlisted \/ ExitComes(b)'
    BY <1>0 DEF ToldOK
  <2>1. /\ Started
        /\ Listed(k, b) \/ conn[k][b].told \/ conn[k][b].unlisted
        /\ Gone(k, b) => conn[k][b].told \/ conn[k][b].unlisted \/ ExitComes(b)
    BY DEF Exact, ToldOK
  <2>2. Listed(k, b) => Listed(k, b)'
    <3>1. k \in kinds /\ b = a => port[b].gen # None
      BY DEF Exact, PortsOK, Exists, kinds
    <3> QED BY <1>1, <3>1 DEF Listed
  <2>3. ExitComes(b) => ExitComes(b)'
    <3>1. \A i \in DOMAIN announced : i = 1 => ~ExitOf(i, b)
      BY <1>0, ReadIs DEF ExitOf
    <3>2. \A i \in DOMAIN announced : i # 1 => i - 1 \in DOMAIN announced'
                                               /\ announced'[i - 1] = announced[i]
      BY <1>0, ReadIs
    <3> QED BY <3>1, <3>2 DEF ExitComes, ExitOf
  <2> QED BY <1>0, <2>1, <2>2, <2>3 DEF Started, Gone
<1> QED BY <1>3, <1>4, <1>5, <1>7, <1>8 DEF Exact

\* What is off the list was told; what is gone was listed, or is told already, or is
\* still to be read of.
LEMMA HandleExitExact ==
  ASSUME Exact, NEW gone, gone \subseteq Addrs, NEW event, NEW of, Reads(event, of),
         event # "port_start", \A b \in Addrs : IsExit(event, of, b) <=> b \in gone,
         RemovePorts(Kinds, gone)
  PROVE  Exact'
<1> USE DEF virtual
<1>0. /\ TypeOK
      /\ UNCHANGED <<port, subscribed, starts, phase, scan, vports, vdest_recv, created, sub>>
      /\ phase = "drain" /\ Started /\ announced \in Seq(Events)
  BY TypesAre DEF Exact, Reads, Started
<1>1. /\ cache' \in [Kinds -> [Addrs -> Gens]]
      /\ known' \in [Kinds -> [Addrs -> Gens \cup {Unheard}]]
      /\ conn' \in [Kinds -> [Addrs -> ConnTs]]
      /\ \A k \in Kinds, b \in Addrs :
           /\ cache'[k][b] = IF b \in gone THEN None ELSE cache[k][b]
           /\ conn'[k][b].gen = conn[k][b].gen
           /\ conn'[k][b] = NoConn <=> conn[k][b] = NoConn
           /\ conn[k][b] # NoConn =>
                /\ conn'[k][b].unlisted = conn[k][b].unlisted
                /\ conn'[k][b].told <=> (conn[k][b].told \/ (b \in gone /\ Listed(k, b)))
  BY <1>0, RemovePortsIs
<1>2. announced' \in Seq(Events)
  BY <1>0, ReadIs
<1>3. TypeOK'
  BY <1>0, <1>1, <1>2, TypesAre, TypesAreNext
<1>4. PortsOK'
  BY <1>0, <1>1 DEF Exact, PortsOK, Exists
<1>5. VirtualOK'
  BY <1>0, <1>1, Numbers, VirtualStays
<1>6. \A b \in Addrs : LastSays(b) =>
        /\ b \notin gone /\ ExitComes(b) => ExitComes(b)'
        /\ StartComes(b) => StartComes(b)'
        /\ b \in gone /\ Exists(b) => StartComes(b)'
        /\ LastSays(b)'
  BY <1>0, Reading DEF Exists
<1>7. AnnouncedOK'
  <2>1. ASSUME NEW k \in Kinds, NEW b \in Ports PROVE ListedRight(k, b)'
    <3>1. /\ ListedRight(k, b) /\ b \in Addrs /\ LastSays(b) /\ Seen(k, b) /\ Seen(k, b)'
      BY <1>0, Numbers DEF Exact, AnnouncedOK, Seen
    <3>2. cache'[k][b] = IF b \in gone THEN None ELSE cache[k][b]
      BY <1>1, <3>1
    <3>3. CASE b \in gone
      <4>1. k \in port[b].caps => Exists(b)
        BY <3>1 DEF Exact, PortsOK
      <4> QED BY <1>0, <1>6, <3>1, <3>2, <3>3, <4>1 DEF ListedRight, Want
    <3>4. CASE b \notin gone
      BY <1>0, <1>6, <3>1, <3>2, <3>4 DEF ListedRight, Want
    <3> QED BY <3>3, <3>4
  <2> QED BY <1>0, <1>6, <2>1, Numbers DEF Exact, AnnouncedOK, Started
<1>8. ToldOK'
  <2> SUFFICES ASSUME NEW k \in Kinds, NEW b \in Addrs, conn'[k][b] # NoConn
               PROVE  /\ Started'
                      /\ Listed(k, b)' \/ conn'[k][b].told \/ conn'[k][b].unlisted
                      /\ Gone(k, b)' => conn'[k][b].told \/ conn'[k][b].unlisted \/ ExitComes(b)'
    BY DEF ToldOK
  <2>1. /\ conn[k][b] # NoConn /\ Started
        /\ Listed(k, b) \/ conn[k][b].told \/ conn[k][b].unlisted
        /\ Gone(k, b) => conn[k][b].told \/ conn[k][b].unlisted \/ ExitComes(b)
    BY <1>1 DEF Exact, ToldOK
  <2>2. CASE b \in gone
    BY <1>0, <1>1, <2>1, <2>2 DEF Started
  <2>3. CASE b \notin gone
    <3>1. ExitComes(b) => ExitComes(b)'
      <4>1. \A i \in DOMAIN announced : i = 1 => ~ExitOf(i, b)
        BY <1>0, <2>3, ReadIs DEF ExitOf, IsExit
      <4>2. \A i \in DOMAIN announced : i # 1 => i - 1 \in DOMAIN announced'
                                                 /\ announced'[i - 1] = announced[i]
        BY <1>0, ReadIs
      <4> QED BY <4>1, <4>2 DEF ExitComes, ExitOf
    <3> QED BY <1>0, <1>1, <2>1, <2>3, <3>1 DEF Started, Listed, Gone
  <2> QED BY <2>2, <2>3
<1>9. SubscribedExactly'
  BY <1>0, <1>1, <1>3, SubscribedIs, SubscribedIsNext DEF Exact
<1> QED BY <1>3, <1>4, <1>5, <1>7, <1>8, <1>9 DEF Exact

-----------------------------------------------------------------------------
(* Virtual ports.                                                          *)

LEMMA CreateExact ==
  ASSUME Exact, NEW k \in Kinds, CreateVirtual(k)
  PROVE  Exact'
<1>0. /\ TypeOK /\ phase = "dispatch" /\ phase # "subscribe" /\ Started
      /\ created < MaxVirtual /\ starts + created < MaxStarts + MaxVirtual
      /\ UNCHANGED <<subscribed, starts, phase, scan, conn, sub>> /\ created' = created + 1
      /\ announced \in Seq(Events)
  BY TypesAre, EntriesAre, Numbers DEF Exact, CreateVirtual, Started
<1>1. PICK n \in Own : n = FreeNumber /\ ~Exists(n)
  BY <1>0, FreeNumberIs DEF Exact
<1>2. PICK id \in Ids : id = created + 1
  BY <1>0, EntriesAre, Numbers
<1>3. /\ port' = [port EXCEPT ![n] = [gen |-> NewGen, caps |-> {k}]]
      /\ Announce("port_start", n) /\ AddPort({k}, n)
      /\ vports' = [vports EXCEPT ![k][id] = n]
      /\ vdest_recv' = IF k = "destination" THEN [vdest_recv EXCEPT ![n] = id] ELSE vdest_recv
  BY <1>1, <1>2 DEF CreateVirtual, CreatePort
<1>4. /\ n \in Addrs /\ n \notin Ports /\ n # None /\ [event |-> "port_start", of |-> n] \in Events
  BY Numbers, EventsAre
<1>5. /\ port' \in [Addrs -> PortTs] /\ starts \in Nat /\ created \in Nat
      /\ port'[n].gen = starts + created + 1 /\ port'[n].caps = {k}
      /\ \A b \in Addrs : b # n => port'[b] = port[b]
  <2>1. {k} \in SUBSET Kinds
    OBVIOUS
  <2> QED BY <1>0, <1>3, <1>4, <2>1, PutIs
<1>6. /\ cache' \in [Kinds -> [Addrs -> Gens]]
      /\ known' \in [Kinds -> [Addrs -> Gens \cup {Unheard}]]
      /\ \A j \in Kinds, b \in Addrs :
           cache'[j][b] = IF j = k /\ b = n THEN port'[b].gen ELSE cache[j][b]
  BY <1>0, <1>3, <1>5, AddPortIs
<1>7. announced' \in Seq(Events)
  BY <1>0, <1>3, <1>4, AnnouncedIs
<1>8. /\ vports' \in [Kinds -> [Ids -> Own \cup {None}]] /\ vports'[k][id] = n
      /\ \A j \in Kinds, i \in Ids : ~(j = k /\ i = id) => vports'[j][i] = vports[j][i]
      /\ vdest_recv' \in [Own -> Ids \cup {None}]
      /\ \A m \in Own : vdest_recv'[m] = IF k = "destination" /\ m = n THEN id ELSE vdest_recv[m]
  BY <1>0, <1>3, TypesAre
<1>9. TypeOK'
  <2>1. created' \in 0..MaxVirtual
    BY <1>0, <1>5, Numbers
  <2> QED BY <1>0, <1>5, <1>6, <1>7, <1>8, <2>1, TypesAre, TypesAreNext
<1>10. /\ \A b \in Addrs : port[b].gen <= starts + created /\ (~Exists(b) => port[b].caps = {})
       /\ \A j \in Kinds, b \in Addrs : conn[j][b].gen <= starts + created
  BY DEF Exact, PortsOK
<1>11. Exists(n)' /\ \A b \in Addrs : b # n => (Exists(b)' <=> Exists(b))
  BY <1>5, Numbers DEF Exists
<1>12. PortsOK'
  <2>1. \A b \in Addrs : port'[b].gen <= starts' + created' /\ (~Exists(b)' => port'[b].caps = {})
    BY <1>0, <1>5, <1>10, <1>11, EntriesAre
  <2>2. \A j \in Kinds, b \in Addrs : conn'[j][b].gen <= starts' + created'
    BY <1>0, <1>5, <1>10, EntriesAre
  <2> QED BY <2>1, <2>2 DEF PortsOK
<1>13. /\ \A j \in Kinds, i \in Ids : vports[j][i] \in Own \cup {None}
       /\ \A j \in Kinds, i \in Ids : vports[j][i] # None =>
            /\ i <= created
            /\ Exists(vports[j][i]) /\ port[vports[j][i]].caps = {j}
            /\ \A l \in Kinds, h \in Ids : vports[l][h] = vports[j][i] => l = j /\ h = i
            /\ \A l \in Kinds : vports[l][i] # None => l = j
  BY <1>0, TypesAre DEF Exact, VirtualOK
<1>14. /\ \A j \in Kinds : vports[j][id] = None
       /\ \A j \in Kinds, i \in Ids : vports[j][i] # n
  <2>1. ~(id <= created)
    BY <1>2, <1>5
  <2> QED BY <1>1, <1>4, <1>13, <2>1
<1>15. VirtualOK'
  <2>1. ASSUME NEW j \in Kinds, NEW i \in Ids, vports'[j][i] # None
        PROVE  /\ i <= created'
               /\ Exists(vports[j][i])' /\ port'[vports'[j][i]].caps = {j}
               /\ \A l \in Kinds, h \in Ids : vports'[l][h] = vports'[j][i] => l = j /\ h = i
               /\ \A l \in Kinds : vports'[l][i] # None => l = j
    <3>1. CASE j = k /\ i = id
      <4>1. vports'[j][i] = n /\ i <= created'
        BY <1>0, <1>2, <1>5, <1>8, <3>1
      <4>2. Exists(vports[j][i])' /\ port'[vports'[j][i]].caps = {j}
        BY <1>5, <1>11, <3>1, <4>1 DEF Exists
      <4>3. \A l \in Kinds, h \in Ids : vports'[l][h] = n => l = j /\ h = i
        BY <1>8, <1>14, <3>1
      <4>4. \A l \in Kinds : vports'[l][i] # None => l = j
        BY <1>8, <1>14, <3>1
      <4> QED BY <4>1, <4>2, <4>3, <4>4
    <3>2. CASE ~(j = k /\ i = id)
      <4>1. PICK m \in Own : m = vports[j][i] /\ m = vports'[j][i] /\ m # n
        BY <1>8, <1>13, <1>14, <2>1, <3>2
      <4>2. /\ i <= created /\ Exists(m) /\ port[m].caps = {j}
            /\ \A l \in Kinds, h \in Ids : vports[l][h] = m => l = j /\ h = i
            /\ \A l \in Kinds : vports[l][i] # None => l = j
        <5>1. vports[j][i] # None
          BY <4>1, Numbers
        <5>2. /\ i <= created
              /\ Exists(vports[j][i]) /\ port[vports[j][i]].caps = {j}
              /\ \A l \in Kinds, h \in Ids : vports[l][h] = vports[j][i] => l = j /\ h = i
              /\ \A l \in Kinds : vports[l][i] # None => l = j
          BY <1>13, <5>1
        <5> QED BY <4>1, <5>2
      <4>3. i # id /\ i <= created'
        BY <1>0, <1>2, <1>5, <4>2, Numbers, SMTT(30)
      <4>4. Exists(m)' /\ port'[m].caps = {j}
        BY <1>5, <1>11, <4>1, <4>2, Numbers
      <4>5. Exists(vports[j][i])'
        BY <4>1, <4>4 DEF Exists
      <4>6. \A l \in Kinds, h \in Ids : vports'[l][h] = m => l = j /\ h = i
        BY <1>8, <4>1, <4>2
      <4>7. \A l \in Kinds : vports'[l][i] # None => l = j
        BY <1>8, <4>2, <4>3
      <4> QED BY <4>1, <4>3, <4>4, <4>5, <4>6, <4>7
    <3> QED BY <3>1, <3>2
  <2>2. \A m \in Own : Exists(m)' => \E j \in Kinds, i \in Ids : vports'[j][i] = m
    <3> SUFFICES ASSUME NEW m \in Own, Exists(m)', m # n
                 PROVE  \E j \in Kinds, i \in Ids : vports'[j][i] = m
      BY <1>8
    <3>1. Exists(m)
      BY <1>11, Numbers
    <3>2. PICK j \in Kinds, i \in Ids : vports[j][i] = m
      BY <3>1 DEF Exact, VirtualOK
    <3>3. m # None
      BY Numbers
    <3>4. ~(j = k /\ i = id)
      BY <1>14, <3>2, <3>3
    <3> QED BY <1>8, <3>2, <3>4
  <2>3. \A m \in Own, i \in Ids : vdest_recv'[m] = i <=> vports'["destination"][i] = m
    <3> SUFFICES ASSUME NEW m \in Own, NEW i \in Ids
                 PROVE  vdest_recv'[m] = i <=> vports'["destination"][i] = m
      OBVIOUS
    <3>1. vdest_recv[m] = i <=> vports["destination"][i] = m
      BY DEF Exact, VirtualOK
    <3>2. vdest_recv[n] = i <=> vports["destination"][i] = n
      BY DEF Exact, VirtualOK
    <3>3. "destination" \in Kinds /\ m # None
      BY Numbers DEF Kinds
    <3> QED BY <1>8, <1>14, <3>1, <3>2, <3>3
  <2>4. \A j \in Kinds, m \in Own : Listed(j, m)' =>
          j \in port'[m].caps /\ cache'[j][m] = port'[m].gen
    <3> SUFFICES ASSUME NEW j \in Kinds, NEW m \in Own, Listed(j, m)'
                 PROVE  j \in port'[m].caps /\ cache'[j][m] = port'[m].gen
      OBVIOUS
    <3>1. m \in Addrs
      BY Numbers
    <3>2. Listed(j, m) => j \in port[m].caps /\ cache[j][m] = port[m].gen
      BY DEF Exact, VirtualOK
    <3>3. CASE m = n
      <4>1. ~Listed(j, n)
        BY <1>1, <1>4, <1>10, <3>2, <3>3
      <4> QED BY <1>5, <1>6, <3>1, <3>3, <4>1 DEF Listed
    <3>4. CASE m # n
      BY <1>5, <1>6, <3>1, <3>2, <3>4 DEF Listed
    <3> QED BY <3>3, <3>4
  <2> QED BY <2>1, <2>2, <2>3, <2>4 DEF VirtualOK
<1>16. AnnouncedOK'
  <2>1. \A b \in Ports : b \in Addrs /\ b # n
    BY <1>4, Numbers
  <2>2. \A b \in Ports : LastSays(b)' /\ (ExitComes(b) => ExitComes(b)')
                         /\ (StartComes(b) => StartComes(b)')
    BY <1>0, <1>3, <1>4, <1>11, <2>1, Announcing DEF Exact, AnnouncedOK, IsExit
  <2>3. ASSUME NEW j \in Kinds, NEW b \in Ports PROVE ListedRight(j, b)'
    <3>1. ListedRight(j, b) /\ (Seen(j, b)' <=> Seen(j, b))
      BY <1>0 DEF Exact, AnnouncedOK, Seen
    <3>2. cache'[j][b] = cache[j][b] /\ port'[b] = port[b]
      BY <1>5, <1>6, <2>1
    <3> QED BY <2>2, <3>1, <3>2 DEF ListedRight, Want
  <2> QED BY <1>0, <2>2, <2>3 DEF Exact, AnnouncedOK, Started
<1>17. ToldOK'
  <2> SUFFICES ASSUME NEW j \in Kinds, NEW b \in Addrs, conn[j][b] # NoConn
               PROVE  /\ Started'
                      /\ Listed(j, b)' \/ conn[j][b].told \/ conn[j][b].unlisted
                      /\ Gone(j, b)' => conn[j][b].told \/ conn[j][b].unlisted \/ ExitComes(b)'
    BY <1>0 DEF ToldOK
  <2>1. /\ Listed(j, b) \/ conn[j][b].told \/ conn[j][b].unlisted
        /\ Gone(j, b) => conn[j][b].told \/ conn[j][b].unlisted \/ ExitComes(b)
    BY DEF Exact, ToldOK
  <2>2. Listed(j, b) => Listed(j, b)'
    BY <1>5, <1>6, Numbers DEF Listed
  <2>3. Gone(j, b)' => Gone(j, b)
    <3>1. conn[j][b].gen # None
      BY <1>0, EntriesAre
    <3> QED BY <1>0, <1>1, <1>5, <3>1 DEF Gone, Exists
  <2>4. ExitComes(b) => ExitComes(b)'
    BY <1>0, <1>3, <1>4, Announcing
  <2> QED BY <1>0, <2>1, <2>2, <2>3, <2>4 DEF Started
<1>18. SubscribedExactly'
  <2>1. \A j \in Kinds, b \in Addrs :
          <<j, b>> \in subscribed <=> conn[j][b] # NoConn /\ conn[j][b].gen = port[b].gen
    BY <1>0, SubscribedIs DEF Exact
  <2>2. \A j \in Kinds : conn[j][n] # NoConn =>
          conn[j][n].gen # port[n].gen /\ conn[j][n].gen # port'[n].gen
    BY <1>0, <1>1, <1>4, <1>5, <1>10, EntriesAre DEF Exists
  <2>3. \A j \in Kinds, b \in Addrs :
          <<j, b>> \in subscribed' <=> conn'[j][b] # NoConn /\ conn'[j][b].gen = port'[b].gen
    <3>1. \A j \in Kinds : <<j, n>> \notin subscribed
      BY <1>4, <2>1, <2>2
    <3> SUFFICES ASSUME NEW j \in Kinds, NEW b \in Addrs
                 PROVE  <<j, b>> \in subscribed <=>
                          conn[j][b] # NoConn /\ conn[j][b].gen = port'[b].gen
      BY <1>0
    <3>2. CASE b = n
      BY <2>2, <3>1, <3>2
    <3>3. CASE b # n
      BY <1>5, <2>1, <3>3
    <3> QED BY <3>2, <3>3
  <2> QED BY <1>9, <2>3, SubscribedIsNext
<1> QED BY <1>9, <1>12, <1>15, <1>16, <1>17, <1>18 DEF Exact

LEMMA DestroyExact ==
  ASSUME Exact, NEW k \in Kinds, NEW id \in Ids, DestroyVirtual(k, id)
  PROVE  Exact'
<1>0. /\ TypeOK /\ phase = "dispatch" /\ phase # "subscribe" /\ Started
      /\ UNCHANGED <<starts, phase, scan, created, sub>> /\ announced \in Seq(Events)
  BY TypesAre DEF Exact, DestroyVirtual, Started
<1>1. PICK n \in Own : n = vports[k][id]
  BY <1>0, TypesAre DEF DestroyVirtual
<1>2. /\ vports' = [vports EXCEPT ![k][id] = None]
      /\ vdest_recv' = IF k = "destination" THEN [vdest_recv EXCEPT ![n] = None] ELSE vdest_recv
      /\ RemovePorts({k}, {n}) /\ Delete({n}) /\ Announce("port_exit", n)
  BY <1>1 DEF DestroyVirtual
<1>3. /\ n \in Addrs /\ n \notin Ports /\ n # None /\ [event |-> "port_exit", of |-> n] \in Events
  BY Numbers, EventsAre
<1>4. /\ port' \in [Addrs -> PortTs] /\ subscribed' \subseteq Kinds \X Addrs
      /\ ~Exists(n)' /\ port'[n].gen = None /\ port'[n].caps = {}
      /\ \A b \in Addrs : b # n => port'[b] = port[b] /\ (Exists(b)' <=> Exists(b))
  <2>1. /\ port' \in [Addrs -> PortTs] /\ subscribed' \subseteq Kinds \X Addrs
        /\ \A b \in Addrs : port'[b] = IF b \in {n} THEN NoPort ELSE port[b]
    <3>1. TypeOK /\ Delete({n})
      BY <1>0, <1>2
    <3> QED BY <3>1, DeleteIs
  <2>2. port'[n] = NoPort /\ NoPort.gen = None /\ NoPort.caps = {}
    BY <1>3, <2>1 DEF NoPort
  <2>3. \A b \in Addrs : b # n => port'[b] = port[b]
    BY <2>1
  <2>4. ~Exists(n)' /\ \A b \in Addrs : b # n => (Exists(b)' <=> Exists(b))
    BY <2>2, <2>3 DEF Exists
  <2> QED BY <2>1, <2>2, <2>3, <2>4
<1>5. /\ cache' \in [Kinds -> [Addrs -> Gens]]
      /\ known' \in [Kinds -> [Addrs -> Gens \cup {Unheard}]]
      /\ conn' \in [Kinds -> [Addrs -> ConnTs]]
      /\ \A j \in Kinds, b \in Addrs :
           /\ cache'[j][b] = IF j = k /\ b = n THEN None ELSE cache[j][b]
           /\ conn'[j][b].gen = conn[j][b].gen
           /\ conn'[j][b] = NoConn <=> conn[j][b] = NoConn
           /\ conn[j][b] # NoConn =>
                /\ conn'[j][b].unlisted = conn[j][b].unlisted
                /\ conn'[j][b].told <=> (conn[j][b].told \/ (j = k /\ b = n /\ Listed(j, b)))
  BY <1>0, <1>2, RemovePortsIs
<1>6. announced' \in Seq(Events)
  BY <1>0, <1>2, <1>3, AnnouncedIs
<1>7. /\ vports' \in [Kinds -> [Ids -> Own \cup {None}]] /\ vports'[k][id] = None
      /\ \A j \in Kinds, i \in Ids : ~(j = k /\ i = id) => vports'[j][i] = vports[j][i]
      /\ vdest_recv' \in [Own -> Ids \cup {None}]
      /\ \A m \in Own : vdest_recv'[m] = IF k = "destination" /\ m = n THEN None ELSE vdest_recv[m]
  BY <1>0, <1>2, TypesAre
<1>8. TypeOK'
  BY <1>0, <1>4, <1>5, <1>6, <1>7, TypesAre, TypesAreNext
<1>9. PortsOK'
  <2>1. \A b \in Addrs : port'[b].gen <= starts + created /\ (~Exists(b)' => port'[b].caps = {})
    <3> SUFFICES ASSUME NEW b \in Addrs
                 PROVE  port'[b].gen <= starts + created /\ (~Exists(b)' => port'[b].caps = {})
      OBVIOUS
    <3>1. starts \in Nat /\ created \in Nat /\ None = 0
      BY <1>0, EntriesAre, Numbers
    <3>2. port[b].gen <= starts + created /\ (~Exists(b) => port[b].caps = {})
      BY DEF Exact, PortsOK
    <3>3. CASE b = n
      <4>1. port'[b].gen = 0 /\ port'[b].caps = {}
        BY <1>4, <3>1, <3>3
      <4> QED BY <3>1, <4>1
    <3>4. CASE b # n
      BY <1>4, <3>2, <3>4
    <3> QED BY <3>3, <3>4
  <2> QED BY <1>0, <1>5, <2>1 DEF Exact, PortsOK
<1>10. /\ \A j \in Kinds, i \in Ids : vports[j][i] \in Own \cup {None}
       /\ \A j \in Kinds, i \in Ids : vports[j][i] # None =>
            /\ i <= created
            /\ Exists(vports[j][i]) /\ port[vports[j][i]].caps = {j}
            /\ \A l \in Kinds, h \in Ids : vports[l][h] = vports[j][i] => l = j /\ h = i
            /\ \A l \in Kinds : vports[l][i] # None => l = j
  BY <1>0, TypesAre DEF Exact, VirtualOK
<1>11. /\ port[n].caps = {k}
       /\ \A j \in Kinds, i \in Ids : vports[j][i] = n => j = k /\ i = id
       /\ \A j \in Kinds, i \in Ids : vports'[j][i] # n
  BY <1>1, <1>3, <1>7, <1>10
<1>12. VirtualOK'
  <2>1. ASSUME NEW j \in Kinds, NEW i \in Ids, vports'[j][i] # None
        PROVE  /\ i <= created'
               /\ Exists(vports[j][i])' /\ port'[vports'[j][i]].caps = {j}
               /\ \A l \in Kinds, h \in Ids : vports'[l][h] = vports'[j][i] => l = j /\ h = i
               /\ \A l \in Kinds : vports'[l][i] # None => l = j
    <3>1. PICK m \in Own : m = vports[j][i] /\ m = vports'[j][i] /\ m # n
      BY <1>7, <1>10, <1>11, <2>1
    <3>2. /\ i <= created /\ Exists(vports[j][i]) /\ port[vports[j][i]].caps = {j}
          /\ \A l \in Kinds, h \in Ids : vports[l][h] = vports[j][i] => l = j /\ h = i
          /\ \A l \in Kinds : vports[l][i] # None => l = j
      <4>1. vports[j][i] # None
        BY <3>1, Numbers
      <4> QED BY <1>10, <4>1
    <3>3. Exists(m)' /\ port'[m].caps = {j}
      <4>1. Exists(m) /\ port[m].caps = {j} /\ m \in Addrs
        BY <3>1, <3>2, Numbers
      <4> QED BY <1>4, <3>1, <4>1
    <3>4. Exists(vports[j][i])'
      BY <3>1, <3>3 DEF Exists
    <3>5. \A l \in Kinds, h \in Ids : vports'[l][h] = m => l = j /\ h = i
      <4>1. \A l \in Kinds, h \in Ids : vports[l][h] = m => l = j /\ h = i
        BY <3>1, <3>2
      <4>2. m # None
        BY <3>1, Numbers
      <4>3. \A l \in Kinds, h \in Ids : vports'[l][h] = m => vports[l][h] = m
        <5> SUFFICES ASSUME NEW l \in Kinds, NEW h \in Ids, vports'[l][h] = m
                     PROVE  vports[l][h] = m
          OBVIOUS
        <5>1. ~(l = k /\ h = id)
          BY <1>7, <4>2
        <5> QED BY <1>7, <5>1
      <4> QED BY <4>1, <4>3, Zenon
    <3>6. \A l \in Kinds : vports'[l][i] # None => l = j
      BY <1>7, <3>2
    <3> QED BY <1>0, <3>1, <3>2, <3>3, <3>4, <3>5, <3>6
  <2>2. ASSUME NEW m \in Own, Exists(m)' PROVE \E j \in Kinds, i \in Ids : vports'[j][i] = m
    <3>1. m # n /\ Exists(m)
      BY <1>4, <2>2, Numbers
    <3>2. PICK j \in Kinds, i \in Ids : vports[j][i] = m
      BY <3>1 DEF Exact, VirtualOK
    <3> QED BY <1>1, <1>7, <3>1, <3>2
  <2>3. ASSUME NEW m \in Own, NEW i \in Ids
        PROVE  vdest_recv'[m] = i <=> vports'["destination"][i] = m
    <3>1. vdest_recv[m] = i <=> vports["destination"][i] = m
      BY DEF Exact, VirtualOK
    <3>2. "destination" \in Kinds /\ m # None /\ i # None
      BY Numbers DEF Kinds
    <3> QED BY <1>1, <1>7, <1>11, <3>1, <3>2
  <2>4. ASSUME NEW j \in Kinds, NEW m \in Own, Listed(j, m)'
        PROVE  j \in port'[m].caps /\ cache'[j][m] = port'[m].gen
    <3>1. m \in Addrs
      BY Numbers
    <3>2. ~(j = k /\ m = n) /\ cache'[j][m] = cache[j][m]
      BY <1>5, <2>4, <3>1 DEF Listed
    <3>3. j \in port[m].caps /\ cache[j][m] = port[m].gen
      BY <2>4, <3>2 DEF Exact, VirtualOK, Listed
    <3> QED BY <1>4, <1>11, <3>1, <3>2, <3>3
  <2> QED BY <2>1, <2>2, <2>3, <2>4 DEF VirtualOK
<1>13. AnnouncedOK'
  <2>1. \A b \in Ports : b \in Addrs /\ b # n
    BY <1>3, Numbers
  <2>2. \A b \in Ports : LastSays(b)' /\ (ExitComes(b) => ExitComes(b)')
                         /\ (StartComes(b) => StartComes(b)')
    BY <1>0, <1>2, <1>3, <1>4, <2>1, Announcing DEF Exact, AnnouncedOK, IsExit
  <2>3. ASSUME NEW j \in Kinds, NEW b \in Ports PROVE ListedRight(j, b)'
    <3>1. ListedRight(j, b) /\ (Seen(j, b)' <=> Seen(j, b))
      BY <1>0 DEF Exact, AnnouncedOK, Seen
    <3>2. cache'[j][b] = cache[j][b] /\ port'[b] = port[b]
      BY <1>4, <1>5, <2>1
    <3> QED BY <2>2, <3>1, <3>2 DEF ListedRight, Want
  <2> QED BY <1>0, <2>2, <2>3 DEF Exact, AnnouncedOK, Started
<1>14. ToldOK'
  <2> SUFFICES ASSUME NEW j \in Kinds, NEW b \in Addrs, conn'[j][b] # NoConn
               PROVE  /\ Started'
                      /\ Listed(j, b)' \/ conn'[j][b].told \/ conn'[j][b].unlisted
                      /\ Gone(j, b)' => conn'[j][b].told \/ conn'[j][b].unlisted \/ ExitComes(b)'
    BY DEF ToldOK
  <2>1. /\ conn[j][b] # NoConn
        /\ Listed(j, b) \/ conn[j][b].told \/ conn[j][b].unlisted
        /\ Gone(j, b) => conn[j][b].told \/ conn[j][b].unlisted \/ ExitComes(b)
    BY <1>5 DEF Exact, ToldOK
  <2>2. Listed(j, b)' \/ conn'[j][b].told \/ conn'[j][b].unlisted
    BY <1>5, <2>1 DEF Listed
  <2>3. b = n => ExitComes(b)'
    BY <1>0, <1>2, <1>3, Announcing DEF IsExit
  <2>4. ExitComes(b) => ExitComes(b)'
    BY <1>0, <1>2, <1>3, Announcing
  <2>5. b # n => (Gone(j, b)' <=> Gone(j, b))
    BY <1>4, <1>5 DEF Gone
  <2> QED BY <1>0, <1>5, <2>1, <2>2, <2>3, <2>4, <2>5 DEF Started
<1>15. SubscribedExactly'
  BY <1>2, <1>5, <1>8, DeleteExact, SubscribedIsNext
<1> QED BY <1>8, <1>9, <1>12, <1>13, <1>14, <1>15 DEF Exact

-----------------------------------------------------------------------------
(* The theorems.                                                           *)

LEMMA InitExact == Init => Exact
<1> SUFFICES ASSUME Init PROVE Exact
  OBVIOUS
<1>1. /\ \A a \in Addrs : port[a].gen = None /\ port[a].caps = {}
      /\ \A k \in Kinds, a \in Addrs : conn[k][a] = NoConn /\ conn[k][a].gen = None
                                       /\ cache[k][a] = None
      /\ \A k \in Kinds, id \in Ids : vports[k][id] = None
      /\ \A n \in Own : n \in Addrs /\ vdest_recv[n] = None
      /\ subscribed = {} /\ announced = <<>> /\ starts = 0 /\ created = 0 /\ phase = "subscribe"
      /\ \A k \in Kinds : scan[k] = {}
  BY Numbers DEF Init
<1>2. TypeOK
  BY Numbers, TypesAre DEF Init
<1>3. PortsOK
  BY <1>1, Numbers DEF PortsOK
<1>4. VirtualOK
  BY <1>1, Numbers, SMTT(30) DEF VirtualOK, Exists, Listed, Kinds
<1>5. AnnouncedOK
  BY <1>1, Numbers DEF AnnouncedOK, LastSays, ListedRight, Seen, Started
<1>6. ToldOK
  BY <1>1 DEF ToldOK
<1>7. SubscribedExactly
  BY <1>1, <1>2, SubscribedIs
<1> QED BY <1>2, <1>3, <1>4, <1>5, <1>6, <1>7 DEF Exact

LEMMA StepExact == Exact /\ [Next]_vars => Exact'
<1> SUFFICES ASSUME Exact, [Next]_vars PROVE Exact'
  OBVIOUS
<1>1. CASE UNCHANGED vars
  <2> USE <1>1 DEF vars, sequencer, registry, virtual, subscriber
  <2>1. TypeOK' /\ PortsOK' /\ VirtualOK' /\ SubscribedExactly'
    BY VirtualStays DEF Exact, TypeOK, PortsOK, Exists, SubscribedExactly
  <2>2. AnnouncedOK' /\ ToldOK'
    BY DEF Exact, AnnouncedOK, LastSays, StartOf, ExitOf, Exists, ListedRight, Seen, Want,
       ExitComes, StartComes, Started, ToldOK, Listed, Gone
  <2> QED BY <2>1, <2>2 DEF Exact
<1>2. ASSUME NEW a \in Ports, PortExits(a) PROVE Exact'
  <2>1. /\ [event |-> "port_exit", of |-> a] \in Events
        /\ \A b \in Addrs : IsExit("port_exit", a, b) <=> b \in {a}
    BY Numbers, EventsAre DEF IsExit
  <2> QED BY <1>2, <2>1, ExitExact DEF PortExits
<1>3. ASSUME NEW c \in Clients PROVE ClientExits(c) \/ HandleClientExit(c) => Exact'
  <2> DEFINE gone == {a \in Ports : ClientOf[a] = c}
  <2>1. /\ [event |-> "client_exit", of |-> c] \in Events
        /\ gone \subseteq Ports /\ gone \subseteq Addrs
        /\ \A b \in Addrs : IsExit("client_exit", c, b) <=> b \in gone
    BY Numbers, EventsAre DEF IsExit
  <2>2. ClientExits(c) => Delete(gone) /\ Announce("client_exit", c)
          /\ UNCHANGED <<starts, phase, scan, registry, virtual, subscriber>>
    BY DEF ClientExits
  <2>3. HandleClientExit(c) => Reads("client_exit", c) /\ RemovePorts(Kinds, gone)
    BY DEF HandleClientExit
  <2> HIDE DEF gone
  <2> QED BY <2>1, <2>2, <2>3, ExitExact, HandleExitExact
<1>4. ASSUME NEW a \in Addrs, HandlePortExit(a) PROVE Exact'
  <2>1. \A b \in Addrs : IsExit("port_exit", a, b) <=> b \in {a}
    BY DEF IsExit
  <2> QED BY <1>4, <2>1, HandleExitExact DEF HandlePortExit
<1> QED BY <1>1, <1>2, <1>3, <1>4, StartExact, PhaseExact, ConnectExact, CreateExact, DestroyExact,
           HandleStartExact, SubscriberExact DEF Next

\* The inductive invariant of the sequencer and the registry together.
THEOREM ExactAlways == Spec => []Exact
BY InitExact, StepExact, PTL DEF Spec

\* Types: in particular FreeNumber always is a number of the client's own.
THEOREM TypeCorrect == Spec => []TypeOK
<1>1. Exact => TypeOK
  BY DEF Exact
<1> QED BY <1>1, ExactAlways, PTL

\* Once nothing is to be read of another client's port, it is listed if and only if it is
\* there, as what it is now, whatever came between the subscription to the announcements,
\* the scan and the announcements (build_cache, handle_port_start, handle_port_exit).
THEOREM ExternalListedAlways == Spec => []ExternalListed
<1>1. Exact => ExternalListed
  <2> SUFFICES ASSUME Exact, NEW k \in Kinds, NEW a \in Ports, Started,
                      ~Pending({"port_start", "port_exit", "client_exit"}, a)
               PROVE  cache[k][a] = Want(k, a)
    BY DEF ExternalListed, Want
  <2>1. ~ExitComes(a) /\ ~StartComes(a)
    <3>1. \A i \in DOMAIN announced : StartOf(i, a) \/ ExitOf(i, a) =>
            /\ announced[i].event \in {"port_start", "port_exit", "client_exit"}
            /\ \/ announced[i].of = a
               \/ a \in Ports /\ announced[i] = [event |-> "client_exit", of |-> ClientOf[a]]
      <4>1. \A i \in DOMAIN announced : announced[i] \in Events
        BY TypesAre DEF Exact
      <4> QED BY <4>1 DEF StartOf, ExitOf, Events
    <3> QED BY <3>1 DEF ExitComes, StartComes, Pending
  <2> QED BY <2>1 DEF Exact, AnnouncedOK, ListedRight, Seen, Started
<1> QED BY <1>1, ExactAlways, PTL

\* A connection to a listed port that has gone has been told, or its exit is still to be
\* read, even if the port came back (remove_source, remove_destination).
THEOREM ToldWhenGoneAlways == Spec => []ToldWhenGone
<1>1. Exact => ToldWhenGone
  <2> SUFFICES ASSUME Exact, NEW k \in Kinds, NEW a \in Addrs, Gone(k, a),
                      ~conn[k][a].told, ~conn[k][a].unlisted
               PROVE  Pending({"port_exit", "client_exit"}, a)
    BY DEF ToldWhenGone
  <2>1. PICK i \in DOMAIN announced : ExitOf(i, a)
    BY DEF Exact, ToldOK, Gone, ExitComes
  <2>2. announced[i] \in Events
    BY TypesAre DEF Exact
  <2> QED BY <2>1, <2>2 DEF Pending, ExitOf, Events
<1> QED BY <1>1, ExactAlways, PTL

\* The sequencer's subscriptions are those of the connections whose port still is the one
\* connected to (handle_connect, Disconnect and their twins).
THEOREM SubscribedExactlyAlways == Spec => []SubscribedExactly
<1>1. Exact => SubscribedExactly
  BY DEF Exact
<1> QED BY <1>1, ExactAlways, PTL

\* A number has one id and exists exactly while a map has it, the streams are those of the
\* destination with that number, and a virtual port that is listed is the one there is.
THEOREM VirtualPortsExactAlways == Spec => []VirtualPortsExact
<1>1. Exact => VirtualPortsExact
  <2> SUFFICES ASSUME Exact, NEW n \in Own
               PROVE  LET owners == {o \in Kinds \X Ids : vports[o[1]][o[2]] = n}
                      IN /\ Exists(n) => Cardinality(owners) = 1
                         /\ ~Exists(n) => owners = {}
                         /\ \A id \in Ids : vdest_recv[n] = id <=> <<"destination", id>> \in owners
                         /\ \A k \in Kinds : Listed(k, n) =>
                              k \in port[n].caps /\ cache[k][n] = port[n].gen
    BY DEF VirtualPortsExact
  <2> DEFINE owners == {o \in Kinds \X Ids : vports[o[1]][o[2]] = n}
  <2>0. n # None
    BY Numbers
  <2>1. \A k \in Kinds, id \in Ids : vports[k][id] = n =>
          /\ Exists(n)
          /\ \A j \in Kinds, i \in Ids : vports[j][i] = n => j = k /\ i = id
    BY <2>0 DEF Exact, VirtualOK
  <2>2. ~Exists(n) => owners = {}
    BY <2>1
  <2>3. ASSUME Exists(n) PROVE Cardinality(owners) = 1
    <3>1. PICK k \in Kinds, id \in Ids : vports[k][id] = n
      BY <2>3 DEF Exact, VirtualOK
    <3>2. owners = {<<k, id>>}
      BY <2>1, <3>1
    <3> QED BY <3>2, FS_Singleton
  <2>4. \A id \in Ids : vdest_recv[n] = id <=> <<"destination", id>> \in owners
    BY DEF Exact, VirtualOK, Kinds
  <2>5. \A k \in Kinds : Listed(k, n) => k \in port[n].caps /\ cache[k][n] = port[n].gen
    BY DEF Exact, VirtualOK
  <2> QED BY <2>2, <2>3, <2>4, <2>5
<1> QED BY <1>1, ExactAlways, PTL

=============================================================================
