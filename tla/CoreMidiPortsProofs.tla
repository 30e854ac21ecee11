------------------------- MODULE CoreMidiPortsProofs -------------------------
(***************************************************************************)
(* Safety of the CoreMIDI backend: the handlers, what the subscriber knows *)
(* and the list, for every set of endpoints and any number of connects.    *)
(***************************************************************************)
EXTENDS CoreMidiPorts, FiniteSetTheorems, TLAPS

Connecting == {"connect_tell", "clear", "handler", "attach", "insert"}
Replacing  == {"choose", "forget", "tell_forgotten", "add", "add_tell"}

\* A connect goes on as long as there is no connection to its endpoint, and so does
\* the removal of its handlers.
ConnectOK ==
  /\ cmd.at \in Connecting => cmd.no # None
  /\ cmd.at \in Connecting \cup {"unhandle"} => cmd.uid \in Uids /\ conn[cmd.uid] = NoConn
  /\ cmd.at = "clear" => cmd.uid \in Destinations
  /\ cmd.at \in {"attach", "insert"} => cmd.uid \in Sources

\* The virtual port at work is an endpoint, under the id it was assigned until it is
\* given another.
VirtualOK ==
  /\ cmd.at \in Replacing => cmd.uid \in Uids /\ cmd.gen \in vports
  /\ cmd.at \in {"choose", "add", "add_tell"} => obj[cmd.uid] = cmd.gen
  /\ cmd.at \in {"forget", "tell_forgotten"} => \E u \in Uids : obj[u] = cmd.gen
  /\ cmd.at = "forget" => obj[cmd.uid] = None
  /\ \A g \in vports : g \in 1..made
  /\ \A u \in Uids : obj[u] <= made
  /\ \A u, v \in Uids : obj[u] = obj[v] /\ obj[u] # None => u = v

\* What the global thread has in hand.
GlobalOK ==
  /\ global.at \in {"insert", "tell_added", "take", "run", "tell_removed"} =>
       global.uid \in Uids
  /\ global.at = "insert" => global.gen # None
  /\ global.at # "run" => global.fns = {}
  /\ \A i \in DOMAIN notes : notes[i].gen # None
  /\ ~Listening => /\ cmd.at = "start" /\ notes = <<>>
                   /\ \A u \in Uids : known[u] = "unheard"

ThreadsOK == ConnectOK /\ VirtualOK /\ GlobalOK

-----------------------------------------------------------------------------
(* The handlers.                                                           *)

\* Who has the handler of connection no to u, or what became of it.
HandlerKept(u, no) == \/ no \in handlers[u]
                      \/ global.at = "run" /\ global.uid = u /\ no \in global.fns

\* A source's connect has its handler in the map before it has its connection.
HandlerOK ==
  drop.at = "open" =>
    /\ \A u \in Uids : conn[u] # NoConn => HandlerKept(u, conn[u].no) \/ Told(u)
    /\ cmd.at \in {"attach", "insert"} =>
         HandlerKept(cmd.uid, cmd.no) \/ cmd.no \in told

\* The handlers of the connect under way.
UnderWay(u) == IF cmd.at \in {"attach", "insert"} /\ cmd.uid = u THEN {cmd.no} ELSE {}

\* Without a connection there are no handlers but those of the connect under way;
\* once on_drop has read the connections, none but those of later ones.
ReleaseOK ==
  /\ \A u \in Uids :
       /\ cmd.at # "gone" /\ conn[u] = NoConn /\ ~(cmd.at = "unhandle" /\ cmd.uid = u) =>
            handlers[u] \subseteq UnderWay(u)
       /\ cmd.at = "gone" /\ u \in Destinations => handlers[u] = {}
  /\ cmd.at = "gone" \/ shutdown => drop.at = "closed"
  /\ \A u \in Sources :
       \/ drop.at \in {"open", "read"}
       \/ drop.at = "unhandle" /\ u \in drop.conns
       \/ cmd.at = "unhandle" /\ cmd.uid = u
       \/ handlers[u] \subseteq late \cup UnderWay(u)

-----------------------------------------------------------------------------
(* What the subscriber is told.                                            *)

\* What a thread is about to tell of an id is what the cache says, and so is what was
\* told last, if nothing is about to be told.
TellOK ==
  drop.at = "open" =>
    \A u \in Uids \ crossed :
      /\ GlobalWillTell(u) /\ ~CommandWillTell(u) =>
           (global.at = "tell_added" <=> cache[u] # None)
      /\ CommandWillTell(u) /\ ~GlobalWillTell(u) =>
           (cmd.at # "tell_forgotten" <=> cache[u] # None)
      /\ ~GlobalWillTell(u) /\ ~CommandWillTell(u) /\ known[u] # "unheard" =>
           (known[u] = "there" <=> cache[u] # None)

-----------------------------------------------------------------------------
(* The list.                                                               *)

Removes(i, u) == notes[i].event = "removed" /\ notes[i].uid = u
Adds(i, g)    == notes[i].event = "added" /\ notes[i].gen = g

\* Who will put an endpoint on the list that is not there yet.
Coming(u) == \/ \E i \in DOMAIN notes : Adds(i, obj[u])
             \/ global.at = "insert" /\ global.uid = u
             \/ /\ cmd.at \in {"choose", "forget", "tell_forgotten", "add"}
                /\ cmd.gen = obj[u]

\* An endpoint is on the list or coming, and if its id's removal is on its way, so is
\* its own appearance after it.
ExistAt(u) ==
  obj[u] # None =>
    /\ Listening \/ Scanned(u) => cache[u] # None \/ Coming(u)
    /\ RemovedKnown =>
         \A i \in DOMAIN notes : Removes(i, u) =>
           \E j \in DOMAIN notes : i < j /\ Adds(j, obj[u])

ExistOK == \A u \in Uids \ unnoticed : ExistAt(u)

\* An id that is on the list, or about to be, and is nobody's.
Leaving == {u \in Uids : /\ obj[u] = None
                         /\ ~(cmd.at = "forget" /\ cmd.uid = u)
                         /\ cache[u] # None \/ u \in BeingInserted}

\* For each there is a removal on its way: its own if removals tell their id, and one
\* of its kind for it alone if they do not.
Matched(f) == \A u \in Leaving :
                /\ notes[f[u]].event = "removed" /\ SameKind(notes[f[u]].uid, u)
                /\ \A v \in Leaving : f[u] = f[v] => u = v

Owed == IF RemovedKnown
        THEN \A u \in Leaving : \E i \in DOMAIN notes : Removes(i, u)
        ELSE \E f \in [Leaving -> DOMAIN notes] : Matched(f)

LeavingOK == unnoticed = {} => Owed

ListOK ==
  /\ ExistOK /\ LeavingOK
  /\ ~Listening => \A u \in Uids : ~Scanned(u) => cache[u] = None
  /\ unnoticed = {} /\ cmd.at = "forget" /\ cmd.uid \in BeingInserted =>
       RemovedKnown /\ \E i \in DOMAIN notes : Removes(i, cmd.uid)

-----------------------------------------------------------------------------
(* The removals of connected endpoints.                                    *)

\* The global thread is at the removal of u, with the handler of connection no.
Removal(u, no) == \/ global.at = "take" /\ global.uid = u
                  \/ global.at = "run" /\ global.uid = u /\ no \in global.fns

\* A connection whose endpoint's removal was handled in time was told of it.
RemovalOK ==
  drop.at = "open" =>
    /\ \A u \in Uids : conn[u] # NoConn /\ conn[u].no \notin missed =>
         /\ Told(u) \/ Removal(u, conn[u].no) \/ cache[u] # None
         /\ cmd.at \in {"choose", "forget"} /\ cmd.uid = u =>
              Told(u) \/ Removal(u, conn[u].no)
    /\ cmd.at \in {"attach", "insert"} /\ cmd.no \notin missed =>
         cmd.no \in told \/ Removal(cmd.uid, cmd.no) \/ cache[cmd.uid] # None
    /\ cmd.at \in {"connect_tell", "clear", "handler"} /\ cmd.no \notin missed =>
         (global.at = "take" /\ global.uid = cmd.uid) \/ cache[cmd.uid] # None
    /\ cmd.at = "start" => \A u \in Uids : conn[u] = NoConn

Consistent == /\ TypeOK /\ ThreadsOK /\ HandlerOK /\ ReleaseOK /\ TellOK
              /\ ListOK /\ RemovalOK

-----------------------------------------------------------------------------
(* The types.                                                              *)

Notes     == [event : {"added", "removed"}, uid : Uids, gen : Gens]
GlobalAts == {"scan_sources", "scan_dests", "register", "idle", "insert", "tell_added",
              "take", "run", "tell_removed"}
CmdAts    == {"start", "idle", "connect_tell", "clear", "handler", "attach", "insert",
              "unhandle", "choose", "forget", "tell_forgotten", "add", "add_tell", "gone"}
GlobalTs  == [at : GlobalAts, uid : Uids \cup {NoUid}, gen : Gens, fns : SUBSET Nos]
CmdTs     == [at : CmdAts, uid : Uids \cup {NoUid}, gen : Gens, no : Nos]

LEMMA TypesAre ==
  TypeOK <=>
    /\ obj \in [Uids -> Gens] /\ cache \in [Uids -> Gens]
    /\ made \in Gens /\ connects \in Nos
    /\ notes \in Seq(Notes)
    /\ handlers \in [Uids -> SUBSET (Nos \ {None})]
    /\ known \in [Uids -> {"unheard", "there", "gone"}]
    /\ conn \in [Uids -> [no : Nos, gen : Gens]]
    /\ told \subseteq Nos /\ disconnected \subseteq Destinations
    /\ global \in GlobalTs /\ cmd \in CmdTs
    /\ vports \subseteq Gens
    /\ drop \in [at : {"open", "read", "unhandle", "shutdown", "closed"},
                 conns : SUBSET Sources]
    /\ shutdown \in BOOLEAN
    /\ unnoticed \subseteq Uids /\ crossed \subseteq Uids
    /\ late \subseteq Nos /\ missed \subseteq Nos
BY DEF TypeOK, Notes, GlobalTs, GlobalAts, CmdTs, CmdAts

LEMMA Zeros == /\ None \in Gens /\ None \in Nos /\ None = 0
               /\ Gens = 0..MaxGens /\ Nos = 0..MaxConnects
               /\ MaxGens \in Nat /\ MaxConnects \in Nat
               /\ NoConn \in [no : Nos, gen : Gens]
BY CoreMidiAssumption DEF None, Gens, Nos, NoConn

LEMMA InitTyped == Init => TypeOK
<1> SUFFICES ASSUME Init PROVE TypeOK
  OBVIOUS
<1>1. At("scan_sources") \in GlobalTs /\ CmdAt("start", NoUid, None, None) \in CmdTs
  BY Zeros DEF At, GlobalAt, CmdAt, GlobalTs, GlobalAts, CmdTs, CmdAts
<1>2. notes \in Seq(Notes) /\ made \in Gens /\ connects \in Nos
  BY Zeros DEF Init
<1> QED BY <1>1, <1>2, Zeros, TypesAre DEF Init

\* The records a step may put into a thread's place.
LEMMA Places ==
  /\ \A s \in GlobalAts, u \in Uids \cup {NoUid}, g \in Gens, f \in SUBSET Nos :
       GlobalAt(s, u, g, f) \in GlobalTs
  /\ \A s \in GlobalAts : At(s) \in GlobalTs /\ At(s).at = s /\ At(s).fns = {}
  /\ \A s, u, g, f : LET r == GlobalAt(s, u, g, f)
                     IN  r.at = s /\ r.uid = u /\ r.gen = g /\ r.fns = f
  /\ \A x \in GlobalTs, s \in GlobalAts :
       LET r == [x EXCEPT !.at = s]
       IN  r \in GlobalTs /\ r.at = s /\ r.uid = x.uid /\ r.gen = x.gen /\ r.fns = x.fns
  /\ \A s \in CmdAts, u \in Uids \cup {NoUid}, g \in Gens, n \in Nos :
       CmdAt(s, u, g, n) \in CmdTs
  /\ Idle \in CmdTs /\ Idle.at = "idle"
  /\ \A s, u, g, n : LET r == CmdAt(s, u, g, n)
                     IN  r.at = s /\ r.uid = u /\ r.gen = g /\ r.no = n
  /\ \A x \in CmdTs, s \in CmdAts :
       LET r == [x EXCEPT !.at = s]
       IN  r \in CmdTs /\ r.at = s /\ r.uid = x.uid /\ r.gen = x.gen /\ r.no = x.no
<1>1. \A s \in GlobalAts : At(s) \in GlobalTs /\ At(s).at = s /\ At(s).fns = {}
  BY Zeros DEF At, GlobalAt, GlobalTs
<1>2. Idle \in CmdTs /\ Idle.at = "idle"
  BY Zeros DEF Idle, CmdAt, CmdTs, CmdAts
<1> QED BY <1>1, <1>2 DEF GlobalAt, GlobalTs, CmdAt, CmdTs

\* Notifications queued come behind those there are.
LEMMA Queued ==
  ASSUME notes \in Seq(Notes), NEW events \in Seq(Notes), Queue(events)
  PROVE  /\ notes' \in Seq(Notes)
         /\ Len(notes) \in Nat /\ Len(notes') \in Nat /\ Len(notes) <= Len(notes')
         /\ DOMAIN notes = 1..Len(notes) /\ DOMAIN notes' = 1..Len(notes')
         /\ \A i \in DOMAIN notes : notes'[i] = notes[i]
         /\ Listening => /\ Len(notes') = Len(notes) + Len(events)
                         /\ \A i \in 1..Len(events) : notes'[Len(notes) + i] = events[i]
                         /\ \A i \in DOMAIN notes' \ DOMAIN notes :
                              /\ i - Len(notes) \in 1..Len(events)
                              /\ notes'[i] = events[i - Len(notes)]
         /\ ~Listening => notes' = notes
BY DEF Queue

\* The first one taken leaves the others.
LEMMA TakenNote ==
  ASSUME notes \in Seq(Notes), notes # <<>>, notes' = Tail(notes)
  PROVE  /\ notes' \in Seq(Notes) /\ Head(notes) \in Notes
         /\ Len(notes) \in Nat \ {0} /\ Len(notes') = Len(notes) - 1
         /\ DOMAIN notes = 1..Len(notes) /\ DOMAIN notes' = 1..Len(notes')
         /\ 1 \in DOMAIN notes /\ notes[1] = Head(notes)
         /\ \A i \in DOMAIN notes' : i + 1 \in DOMAIN notes /\ notes'[i] = notes[i + 1]
         /\ \A i \in DOMAIN notes : i # 1 => i - 1 \in DOMAIN notes' /\ notes'[i - 1] = notes[i]
OBVIOUS

LEMMA OneNote ==
  ASSUME NEW event \in {"added", "removed"}, NEW u \in Uids, NEW g \in Gens
  PROVE  /\ Note(event, u, g) \in Notes
         /\ Note(event, u, g).event = event /\ Note(event, u, g).uid = u
         /\ Note(event, u, g).gen = g
         /\ <<Note(event, u, g)>> \in Seq(Notes)
         /\ Len(<<Note(event, u, g)>>) = 1
         /\ <<Note(event, u, g)>>[1] = Note(event, u, g)
BY DEF Note, Notes

LEMMA TellTyped ==
  ASSUME TypeOK, NEW u \in Uids, NEW what \in {"there", "gone"}, Tell(u, what)
  PROVE  /\ known' \in [Uids -> {"unheard", "there", "gone"}]
         /\ crossed' \subseteq Uids
         /\ \A v \in Uids : known'[v] = IF v = u /\ drop.at = "open" THEN what ELSE known[v]
         /\ crossed' = IF GlobalWillTell(u) /\ CommandWillTell(u)
                       THEN crossed \cup {u} ELSE crossed
BY DEF TypeOK, Tell

LEMMA TypesAreNext ==
  TypeOK' <=>
    /\ obj' \in [Uids -> Gens] /\ cache' \in [Uids -> Gens]
    /\ made' \in Gens /\ connects' \in Nos
    /\ notes' \in Seq(Notes)
    /\ handlers' \in [Uids -> SUBSET (Nos \ {None})]
    /\ known' \in [Uids -> {"unheard", "there", "gone"}]
    /\ conn' \in [Uids -> [no : Nos, gen : Gens]]
    /\ told' \subseteq Nos /\ disconnected' \subseteq Destinations
    /\ global' \in GlobalTs /\ cmd' \in CmdTs
    /\ vports' \subseteq Gens
    /\ drop' \in [at : {"open", "read", "unhandle", "shutdown", "closed"},
                  conns : SUBSET Sources]
    /\ shutdown' \in BOOLEAN
    /\ unnoticed' \subseteq Uids /\ crossed' \subseteq Uids
    /\ late' \subseteq Nos /\ missed' \subseteq Nos
BY DEF TypeOK, Notes, GlobalTs, GlobalAts, CmdTs, CmdAts

\* The endpoints.
LEMMA EndpointsTyped ==
  ASSUME TypeOK, ThreadsOK, NEW u \in Uids, Appears(u) \/ Vanishes(u)
  PROVE  TypeOK'
<1> USE TypesAre, Zeros
<1>1. UNCHANGED <<cache, handlers, conn, told, disconnected, global, cmd, connects, vports,
                  drop, shutdown, known, crossed, late, missed>>
  BY DEF Appears, Vanishes, Changes, maps, clientv, cmdv, dropv, tellv
<1>2. unnoticed' \subseteq Uids /\ obj' \in [Uids -> Gens] /\ made' \in Gens
  <2>1. unnoticed' \subseteq Uids
    BY DEF Appears, Vanishes, Changes
  <2>2. obj' \in [Uids -> Gens] /\ made' \in Gens
    <3>1. CASE Appears(u)
      <4>1. made' = made + 1 /\ made + 1 \in Gens /\ obj' = [obj EXCEPT ![u] = made + 1]
        BY <3>1 DEF Appears
      <4> QED BY <4>1
    <3>2. CASE Vanishes(u)
      BY <3>2 DEF Vanishes
    <3> QED BY <3>1, <3>2
  <2> QED BY <2>1, <2>2
<1>3. notes' \in Seq(Notes)
  <2>1. made + 1 \in Gens \/ ~(made < MaxGens)
    OBVIOUS
  <2>2. CASE Appears(u)
    <3>1. <<Note("added", u, made + 1)>> \in Seq(Notes)
      BY <2>1, <2>2, OneNote DEF Appears
    <3> QED BY <2>2, <3>1, Queued DEF Appears
  <2>3. CASE Vanishes(u)
    <3>1. <<Note("removed", u, obj[u])>> \in Seq(Notes)
      BY OneNote
    <3> QED BY <2>3, <3>1, Queued DEF Vanishes
  <2> QED BY <2>2, <2>3
<1> QED BY <1>1, <1>2, <1>3, TypesAreNext

\* The global thread.
LEMMA GlobalTyped ==
  ASSUME TypeOK, ThreadsOK, GlobalThread
  PROVE  TypeOK'
<1> USE TypesAre, Zeros DEF coremidi, maps, clientv, cmdv, dropv, tellv, history, GlobalStep
<1> DEFINE u == global.uid
<1>0. /\ u \in Uids \cup {NoUid} /\ global.gen \in Gens /\ global.fns \subseteq Nos
      /\ cmd.no \in Nos /\ cmd.uid \in Uids \cup {NoUid} /\ ToPush(u) \subseteq Nos
  BY DEF GlobalTs, CmdTs, ToPush
<1>1. ASSUME NEW here \in GlobalAts, NEW uids, NEW next \in GlobalAts, Scan(here, uids, next)
      PROVE  TypeOK'
  BY <1>1, Places, TypesAreNext DEF Scan
<1>2. CASE Register
  BY <1>2, Places, TypesAreNext DEF Register, GlobalAts
<1>3. CASE AddedRead
  <2>1. notes' \in Seq(Notes) /\ Head(notes) \in Notes
    BY <1>3, TakenNote DEF AddedRead, Take
  <2>2. global' \in GlobalTs
    <3> DEFINE uids == IdTold(Head(notes).gen)
    <3>1. uids # {} => (CHOOSE v \in uids : TRUE) \in Uids
      BY DEF IdTold
    <3>2. Head(notes).gen \in Gens /\ "insert" \in GlobalAts
      BY <2>1 DEF Notes, GlobalAts
    <3>3. uids # {} => GlobalAt("insert", CHOOSE v \in uids : TRUE, Head(notes).gen, {})
                         \in GlobalTs
      BY <3>1, <3>2, Places
    <3>4. global' = IF uids = {} THEN global
                    ELSE GlobalAt("insert", CHOOSE v \in uids : TRUE, Head(notes).gen, {})
      BY <1>3 DEF AddedRead
    <3>5. global \in GlobalTs
      BY TypesAre
    <3> HIDE DEF uids
    <3> QED BY <3>3, <3>4, <3>5
  <2>3. UNCHANGED <<obj, made, cache, handlers, conn, told, disconnected, cmd, connects,
                    vports, drop, shutdown, known, crossed, unnoticed, late, missed>>
    BY <1>3 DEF AddedRead, Take
  <2> QED BY <2>1, <2>2, <2>3, TypesAreNext
<1>4. CASE AddedInsert
  <2>1. global' \in GlobalTs
    <3>1. At("idle") \in GlobalTs /\ [global EXCEPT !.at = "tell_added"] \in GlobalTs
      BY DEF At, GlobalAt, GlobalTs, GlobalAts
    <3> QED BY <1>4, <3>1 DEF AddedInsert
  <2>2. cache' \in [Uids -> Gens]
    BY <1>0, <1>4, ZenonT(60) DEF AddedInsert
  <2> QED BY <1>4, <2>1, <2>2, TypesAreNext DEF AddedInsert, Going
<1>5. CASE AddedTell \/ RemovedTell
  <2>1. u \in Uids
    BY <1>5 DEF ThreadsOK, GlobalOK, AddedTell, RemovedTell, Going
  <2>2. known' \in [Uids -> {"unheard", "there", "gone"}] /\ crossed' \subseteq Uids
    BY <1>5, <2>1, TellTyped DEF AddedTell, RemovedTell
  <2>3. global' \in GlobalTs
    BY <1>5, Places DEF AddedTell, RemovedTell, GlobalAts
  <2>4. UNCHANGED <<obj, made, notes, cache, handlers, conn, told, disconnected, cmd,
                    connects, vports, drop, shutdown, unnoticed, late, missed>>
    BY <1>5 DEF AddedTell, RemovedTell, Going
  <2> QED BY <2>2, <2>3, <2>4, TypesAreNext
<1>6. CASE RemovedRead
  <2>1. notes' \in Seq(Notes)
    BY <1>6, TakenNote DEF RemovedRead, Take
  <2>2. /\ global' \in GlobalTs /\ cache' \in [Uids -> Gens] /\ unnoticed' \subseteq Uids
    <3>1. CASE UNCHANGED <<cache, global, unnoticed>>
      BY <3>1
    <3>2. ASSUME NEW v \in Uids, cache' = [cache EXCEPT ![v] = None],
                 global' = GlobalAt("take", v, None, {}),
                 unnoticed' = unnoticed \cup ({v} \cap BeingForgotten)
          PROVE  /\ global' \in GlobalTs /\ cache' \in [Uids -> Gens]
                 /\ unnoticed' \subseteq Uids
      <4>1. "take" \in GlobalAts
        BY DEF GlobalAts
      <4> QED BY <3>2, <4>1, Places, ZenonT(60)
    <3>3. \/ UNCHANGED <<cache, global, unnoticed>>
          \/ \E v \in Uids : /\ cache' = [cache EXCEPT ![v] = None]
                            /\ global' = GlobalAt("take", v, None, {})
                            /\ unnoticed' = unnoticed \cup ({v} \cap BeingForgotten)
      BY <1>6 DEF RemovedRead, StaleUids
    <3> QED BY <3>1, <3>2, <3>3
  <2> QED BY <1>6, <2>1, <2>2, TypesAreNext DEF RemovedRead, Take
<1>7. CASE RemovedTake
  <2>1. u \in Uids /\ handlers[u] \subseteq Nos
    BY <1>7 DEF ThreadsOK, GlobalOK, RemovedTake, Going
  <2>2. global' \in GlobalTs /\ handlers' \in [Uids -> SUBSET (Nos \ {None})]
    BY <1>7, <2>1, Places DEF RemovedTake, GlobalAts
  <2>3. missed' \subseteq Nos
    BY <1>0, <1>7 DEF RemovedTake
  <2> QED BY <1>7, <2>2, <2>3, TypesAreNext DEF RemovedTake, Going
<1>8. CASE RemovedRun
  <2>1. u \in Uids
    BY <1>8 DEF ThreadsOK, GlobalOK, RemovedRun, Going
  <2>2. global' \in GlobalTs
    BY <1>8, <2>1, Places DEF RemovedRun, GlobalAts
  <2>3. told' \subseteq Nos /\ disconnected' \subseteq Destinations
    BY <1>0, <1>8 DEF RemovedRun
  <2> QED BY <1>8, <2>2, <2>3, TypesAreNext DEF RemovedRun, Going
<1> QED BY <1>1, <1>2, <1>3, <1>4, <1>5, <1>6, <1>7, <1>8
        DEF GlobalThread, InitSourceCache, InitDestCache, GlobalAts

\* The virtual ports that Stop disposes of, and the notifications it queues for them,
\* in any order.
Gone            == {u \in Uids : obj[u] \in vports}
Removals(order) == [i \in DOMAIN order |-> Note("removed", order[i], obj[order[i]])]

LEMMA StopQueues ==
  ASSUME TypeOK, Stop
  PROVE  \E order \in [1..Cardinality(Gone) -> Gone] :
           /\ Queue(Removals(order))
           /\ Removals(order) \in Seq(Notes)
           /\ Cardinality(Gone) \in Nat /\ Len(Removals(order)) = Cardinality(Gone)
           /\ \A i \in 1..Cardinality(Gone) :
                Removals(order)[i] = Note("removed", order[i], obj[order[i]])
           /\ \A u \in Gone : \E i \in 1..Cardinality(Gone) : order[i] = u
<1>0. PICK order \in [1..Cardinality(Gone) -> Gone] :
        /\ \A i, j \in DOMAIN order : order[i] = order[j] => i = j
        /\ Queue([i \in DOMAIN order |-> Note("removed", order[i], obj[order[i]])])
  BY DEF Stop, Gone
<1>1. Gone \subseteq Uids /\ IsFiniteSet(Gone)
  BY CoreMidiAssumption, FS_Subset DEF Gone
<1>2. Cardinality(Gone) \in Nat
  BY <1>1, FS_CardinalityType
<1>3. \A i \in 1..Cardinality(Gone) : Note("removed", order[i], obj[order[i]]) \in Notes
  BY <1>1, OneNote, TypesAre, ZenonT(60)
<1>4. \A u \in Gone : \E i \in 1..Cardinality(Gone) : order[i] = u
  <2>1. order \in Injection(1..Cardinality(Gone), Gone)
    BY <1>0 DEF Injection, IsInjective
  <2>2. IsFiniteSet(1..Cardinality(Gone)) /\ Cardinality(1..Cardinality(Gone)) = Cardinality(Gone)
    BY <1>2, FS_Interval
  <2>3. order \in Surjection(1..Cardinality(Gone), Gone)
    BY <1>1, <2>1, <2>2, FS_Injection
  <2> QED BY <2>3 DEF Surjection
<1>5. Queue(Removals(order))
  BY <1>0 DEF Removals
<1>6. /\ Removals(order) \in Seq(Notes) /\ Len(Removals(order)) = Cardinality(Gone)
      /\ \A i \in 1..Cardinality(Gone) :
           Removals(order)[i] = Note("removed", order[i], obj[order[i]])
  <2>1. DOMAIN order = 1..Cardinality(Gone)
    OBVIOUS
  <2> QED BY <1>2, <1>3, <2>1 DEF Removals
<1> QED BY <1>2, <1>4, <1>5, <1>6

LEMMA MadeTyped ==
  ASSUME conn \in [Uids -> [no : Nos, gen : Gens]], cmd \in CmdTs
  PROVE  Made \in [Uids -> [no : Nos, gen : Gens]]
<1> DEFINE r == [no |-> cmd.no, gen |-> cmd.gen]
           S == [no : Nos, gen : Gens]
<1>1. r \in S
  BY DEF CmdTs
<1> HIDE DEF r, S
<1>2. [conn EXCEPT ![cmd.uid] = r] \in [Uids -> S]
  BY <1>1 DEF S
<1> QED BY <1>2 DEF Made, r, S

LEMMA CommandTyped ==
  ASSUME TypeOK, ThreadsOK, CommandThread
  PROVE  TypeOK'
<1> USE DEF coremidi, maps, clientv, cmdv, dropv, tellv, history, CmdStep, Working, Continuing,
        Carrying
<1> DEFINE u == cmd.uid
<1>0. /\ u \in Uids \cup {NoUid} /\ cmd.gen \in Gens /\ cmd.no \in Nos
      /\ \A s \in CmdAts : [cmd EXCEPT !.at = s] \in CmdTs
      /\ \A s \in CmdAts, v \in Uids, g \in Gens, n \in Nos : CmdAt(s, v, g, n) \in CmdTs
      /\ \A s \in {"handler", "clear", "attach", "insert", "unhandle", "forget",
                   "tell_forgotten", "add", "add_tell", "choose", "connect_tell"} :
           s \in CmdAts
      /\ Idle \in CmdTs /\ CmdAt("gone", NoUid, None, None) \in CmdTs
  <2>1. \A s \in {"handler", "clear", "attach", "insert", "unhandle", "forget",
                  "tell_forgotten", "add", "add_tell", "choose", "connect_tell", "gone"} :
          s \in CmdAts
    BY DEF CmdAts
  <2>2. cmd \in CmdTs
    BY TypesAre
  <2>3. u \in Uids \cup {NoUid} /\ cmd.gen \in Gens /\ cmd.no \in Nos
    BY <2>2 DEF CmdTs
  <2>4. \A s \in CmdAts : [cmd EXCEPT !.at = s] \in CmdTs
    BY <2>2 DEF CmdTs
  <2>5. Idle \in CmdTs /\ CmdAt("gone", NoUid, None, None) \in CmdTs
    BY <2>1, Places, Zeros
  <2> QED BY <2>1, <2>3, <2>4, <2>5, Places
<1> USE TypesAre, Zeros
<1>1. CASE Start
  BY <1>0, <1>1, TypesAreNext DEF Start
<1>2. ASSUME NEW v \in Uids, ConnectLookup(v) PROVE TypeOK'
  <2> DEFINE g == IF cache[v] # None THEN cache[v] ELSE obj[v]
  <2>1. g \in Gens /\ connects + 1 \in Nos
    BY <1>2 DEF ConnectLookup
  <2>2. cmd' \in CmdTs
    BY <1>0, <1>2, <2>1 DEF ConnectLookup
  <2>3. cache' \in [Uids -> Gens] /\ connects' \in Nos
    BY <1>2, <2>1 DEF ConnectLookup
  <2> QED BY <1>2, <2>2, <2>3, TypesAreNext DEF ConnectLookup
<1>3. ASSUME NEW v \in Uids, NEW what \in {"there", "gone"}, Tell(v, what), cmd' \in CmdTs,
             UNCHANGED <<coremidi, maps, clientv, vports, late, global, dropv, missed,
                         connects, unnoticed>>
      PROVE  TypeOK'
  <2>1. known' \in [Uids -> {"unheard", "there", "gone"}] /\ crossed' \subseteq Uids
    BY <1>3, TellTyped
  <2> QED BY <1>3, <2>1, TypesAreNext
<1>4. CASE ConnectTell
  <2>1. u \in Uids /\ cmd' \in CmdTs
    BY <1>0, <1>4 DEF ConnectTell, ThreadsOK, ConnectOK, Connecting
  <2> QED BY <1>3, <1>4, <2>1 DEF ConnectTell
<1>5. CASE ConnectClear
  BY <1>0, <1>5, TypesAreNext DEF ConnectClear
<1>6. CASE ConnectHandler
  <2>1. u \in Uids /\ cmd.no \in Nos \ {None}
    BY <1>0, <1>6 DEF ConnectHandler, ThreadsOK, ConnectOK, Connecting
  <2>2. cmd' \in CmdTs
    BY <1>0, <1>6 DEF ConnectHandler
  <2>3. conn' \in [Uids -> [no : Nos, gen : Gens]]
    BY <1>6, MadeTyped DEF ConnectHandler
  <2>4. handlers' \in [Uids -> SUBSET (Nos \ {None})]
    <3>1. /\ handlers' = [handlers EXCEPT ![u] = handlers[u] \cup {cmd.no}]
          /\ handlers[u] \cup {cmd.no} \subseteq Nos \ {None}
      BY <1>6, <2>1 DEF ConnectHandler
    <3> QED BY <3>1
  <2>5. UNCHANGED <<coremidi, cache, told, disconnected, vports, tellv, late, global, dropv,
                    missed, connects, made, unnoticed>>
    BY <1>6 DEF ConnectHandler
  <2> QED BY <2>2, <2>3, <2>4, <2>5, TypesAreNext
<1>7. CASE ConnectAttach
  <2>1. PICK next \in {"insert", "unhandle"} : cmd' = [cmd EXCEPT !.at = next]
    BY <1>7 DEF ConnectAttach
  <2>2. cmd' \in CmdTs
    BY <1>0, <2>1 DEF CmdAts
  <2>3. UNCHANGED <<coremidi, maps, conn, told, disconnected, vports, tellv, late, global, dropv,
                    missed, connects, made, unnoticed>>
    BY <1>7 DEF ConnectAttach
  <2> QED BY <2>2, <2>3, TypesAreNext
<1>8. CASE ConnectInsert
  <2>1. conn' \in [Uids -> [no : Nos, gen : Gens]] /\ late' \subseteq Nos
    BY <1>0, <1>8, MadeTyped DEF ConnectInsert
  <2>2. cmd' \in CmdTs
    BY <1>0, <1>8 DEF ConnectInsert
  <2> QED BY <1>8, <2>2, <2>1, TypesAreNext DEF ConnectInsert
<1>9. ASSUME NEW v \in Uids, Disconnect(v) PROVE TypeOK'
  <2>1. cmd' \in CmdTs
    BY <1>0, <1>9 DEF Disconnect
  <2> QED BY <1>9, <2>1, TypesAreNext DEF Disconnect
<1>10. CASE Unhandle
  BY <1>0, <1>10, TypesAreNext DEF Unhandle
<1>11. ASSUME NEW v \in Uids, CreateVirtual(v) PROVE TypeOK'
  <2>1. made + 1 \in Gens
    BY <1>11 DEF CreateVirtual
  <2>2. <<Note("added", v, made + 1)>> \in Seq(Notes)
    BY <2>1, OneNote
  <2>3. notes' \in Seq(Notes)
    BY <1>11, <2>2, Queued DEF CreateVirtual
  <2>4. cmd' \in CmdTs
    <3>1. PICK next \in {"add", "choose"} : cmd' = CmdAt(next, v, made + 1, None)
      BY <1>11 DEF CreateVirtual
    <3> QED BY <1>0, <2>1, <3>1
  <2> QED BY <1>11, <2>1, <2>3, <2>4, TypesAreNext DEF CreateVirtual
<1>12. ASSUME NEW v \in Uids, ChooseUniqueId(v) PROVE TypeOK'
  <2>1. u \in Uids
    BY <1>12 DEF ChooseUniqueId, ThreadsOK, VirtualOK, Replacing
  <2>2. <<Note("removed", u, cmd.gen)>> \in Seq(Notes)
    BY <1>0, <2>1, OneNote
  <2>3. notes' \in Seq(Notes)
    BY <1>12, <2>2, Queued DEF ChooseUniqueId
  <2>4. cmd' \in CmdTs /\ vports' \subseteq Gens
    BY <1>0, <1>12 DEF ChooseUniqueId
  <2>5. v \in Uids /\ cmd.gen \in Gens
    BY <1>0
  <2>7. [obj EXCEPT ![u] = None, ![v] = cmd.gen] \in [Uids -> Gens]
    BY <2>1, <2>5
  <2>8. [obj EXCEPT ![u] = None] \in [Uids -> Gens]
    BY <2>1
  <2>9. obj' \in [Uids -> Gens] /\ unnoticed' \subseteq Uids
    <3>1. obj' \in [Uids -> Gens]
      BY <1>12, <2>7, <2>8 DEF ChooseUniqueId
    <3>2. {u} \cap BeingInserted \subseteq Uids /\ {v} \cap BeingRemoved \subseteq Uids
      BY <2>1
    <3>3. \/ unnoticed' = unnoticed
          \/ unnoticed' = unnoticed \cup ({u} \cap BeingInserted) \cup ({v} \cap BeingRemoved)
      BY <1>12 DEF ChooseUniqueId
    <3> QED BY <3>1, <3>2, <3>3
  <2>6. UNCHANGED <<maps, clientv, tellv, late, global, dropv, missed, connects, made>>
    BY <1>12 DEF ChooseUniqueId
  <2> QED BY <2>3, <2>4, <2>9, <2>6, TypesAreNext
<1>13. cmd.at \in {"forget", "tell_forgotten"} => Chosen \in Uids
  BY DEF Chosen, ThreadsOK, VirtualOK
<1>14. CASE ForgetAssigned
  <2>1. cmd' \in CmdTs
    BY <1>0, <1>13, <1>14 DEF ForgetAssigned
  <2> QED BY <1>14, <2>1, TypesAreNext DEF ForgetAssigned
<1>15. CASE TellForgotten
  <2>1. cmd' \in CmdTs /\ u \in Uids
    BY <1>0, <1>13, <1>15 DEF TellForgotten, ThreadsOK, VirtualOK, Replacing
  <2> QED BY <1>3, <1>15, <2>1 DEF TellForgotten
<1>16. CASE VirtualAdd
  <2>1. cmd' \in CmdTs
    BY <1>0, <1>16 DEF VirtualAdd
  <2>2. u \in Uids
    BY <1>16 DEF VirtualAdd, ThreadsOK, VirtualOK, Replacing
  <2>3. cache' \in [Uids -> Gens]
    BY <1>0, <1>16, <2>2, ZenonT(60) DEF VirtualAdd
  <2> QED BY <1>16, <2>1, <2>3, TypesAreNext DEF VirtualAdd
<1>17. CASE VirtualTell
  <2>1. cmd' \in CmdTs /\ u \in Uids
    BY <1>0, <1>17 DEF VirtualTell, ThreadsOK, VirtualOK, Replacing
  <2> QED BY <1>3, <1>17, <2>1 DEF VirtualTell
<1>18. ASSUME NEW v \in Uids, DestroyVirtual(v) PROVE TypeOK'
  <2>1. <<Note("removed", v, obj[v])>> \in Seq(Notes)
    BY OneNote
  <2>2. notes' \in Seq(Notes)
    BY <1>18, <2>1, Queued DEF DestroyVirtual
  <2> QED BY <1>18, <2>2, TypesAreNext DEF DestroyVirtual
<1>19. CASE Stop
  <2>1. notes' \in Seq(Notes)
    <3>1. PICK order \in [1..Cardinality(Gone) -> Gone] :
            Queue(Removals(order)) /\ Removals(order) \in Seq(Notes)
      BY <1>19, StopQueues
    <3> QED BY <3>1, Queued
  <2>2. cmd' \in CmdTs
    BY <1>0, <1>19 DEF Stop
  <2>3. /\ handlers' \in [Uids -> SUBSET (Nos \ {None})] /\ obj' \in [Uids -> Gens]
        /\ conn' \in [Uids -> [no : Nos, gen : Gens]] /\ vports' = {}
    BY <1>19 DEF Stop
  <2>4. UNCHANGED <<cache, told, disconnected, tellv, late, global, dropv, missed, connects,
                    made, unnoticed>>
    BY <1>19 DEF Stop
  <2> QED BY <2>1, <2>2, <2>3, <2>4, TypesAreNext
<1> QED BY <1>1, <1>2, <1>4, <1>5, <1>6, <1>7, <1>8, <1>9, <1>10, <1>11, <1>12, <1>14,
           <1>15, <1>16, <1>17, <1>18, <1>19 DEF CommandThread

LEMMA DropTyped ==
  ASSUME TypeOK, DropThread
  PROVE  TypeOK'
<1> USE TypesAre DEF coremidi, clientv, cmdv, tellv, history
<1>1. /\ UNCHANGED <<coremidi, cache, clientv, global, cmdv, tellv, history>>
      /\ shutdown' \in BOOLEAN /\ handlers' \in [Uids -> SUBSET (Nos \ {None})]
      /\ drop' \in [at : {"open", "read", "unhandle", "shutdown", "closed"},
                    conns : SUBSET Sources]
  BY DEF DropThread, OnDrop, OnDropRead, OnDropUnhandle, OnDropShutdown, DropStep
<1> QED BY <1>1, TypesAreNext

-----------------------------------------------------------------------------
(* The threads.                                                            *)

\* What the steps of each leave alone.
LEMMA Frames ==
  /\ \A u \in Uids : Appears(u) \/ Vanishes(u) =>
       UNCHANGED <<cache, handlers, conn, told, disconnected, global, cmd, connects, vports,
                   drop, shutdown, known, crossed, late, missed>>
  /\ GlobalThread => UNCHANGED <<obj, made, conn, cmd, connects, vports, drop, shutdown, late>>
  /\ CommandThread => UNCHANGED <<global, drop, shutdown, missed>>
  /\ DropThread =>
       UNCHANGED <<obj, made, notes, cache, conn, told, disconnected, global, cmd, connects,
                   vports, known, crossed, unnoticed, late, missed>>
<1> USE DEF coremidi, maps, clientv, cmdv, dropv, tellv, history
<1>1. \A u \in Uids : Appears(u) \/ Vanishes(u) =>
        UNCHANGED <<cache, handlers, conn, told, disconnected, global, cmd, connects, vports,
                    drop, shutdown, known, crossed, late, missed>>
  BY DEF Appears, Vanishes, Changes
<1>2. GlobalThread =>
        UNCHANGED <<obj, made, conn, cmd, connects, vports, drop, shutdown, late>>
  BY DEF GlobalThread, InitSourceCache, InitDestCache, Scan, Register, AddedRead, AddedInsert,
         AddedTell, RemovedRead, RemovedTake, RemovedRun, RemovedTell, Take, Going, GlobalStep
<1>3. CommandThread => UNCHANGED <<global, drop, shutdown, missed>>
  BY DEF CommandThread, Start, ConnectLookup, ConnectTell, ConnectClear, ConnectHandler,
         ConnectAttach, ConnectInsert, Disconnect, Unhandle, CreateVirtual, ChooseUniqueId,
         ForgetAssigned, TellForgotten, VirtualAdd, VirtualTell, DestroyVirtual, Stop,
         CmdStep, Working, Continuing, Carrying
<1>4. DropThread =>
        UNCHANGED <<obj, made, notes, cache, conn, told, disconnected, global, cmd, connects,
                    vports, known, crossed, unnoticed, late, missed>>
  BY DEF DropThread, OnDrop, OnDropRead, OnDropUnhandle, OnDropShutdown, DropStep
<1> QED BY <1>1, <1>2, <1>3, <1>4

\* The place of the command thread after a step that takes it somewhere else.
LEMMA NextConnect ==
  ASSUME TypeOK, ThreadsOK, Next
  PROVE  ConnectOK'
<1>0. conn \in [Uids -> [no : Nos, gen : Gens]] /\ cmd \in CmdTs /\ cmd.no \in Nos
      /\ connects \in Nat
  BY TypesAre, Zeros DEF CmdTs
<1>1. CASE UNCHANGED <<cmd, conn>>
  BY <1>1 DEF ThreadsOK, ConnectOK, Connecting
<1>2. ASSUME NEW u \in Uids, ConnectLookup(u) PROVE ConnectOK'
  <2>1. /\ cmd'.uid = u /\ cmd'.no = connects + 1 /\ conn' = conn /\ conn[u] = NoConn
        /\ cmd'.at \in {"connect_tell", "handler", "clear"}
        /\ cmd'.at = "clear" => u \in Destinations
    BY <1>2 DEF ConnectLookup, CmdAt, clientv, Uids
  <2>2. connects + 1 # None
    BY <1>0, Zeros
  <2> QED BY <2>1, <2>2 DEF ConnectOK, Connecting
<1>3. CASE ConnectTell \/ ConnectClear \/ ConnectAttach
  <2>1. /\ cmd'.uid = cmd.uid /\ cmd'.no = cmd.no /\ conn' = conn
        /\ cmd.at \in {"connect_tell", "clear", "attach"}
        /\ \/ cmd'.at = "handler"
           \/ cmd'.at = "clear" /\ cmd.uid \notin Sources
           \/ cmd'.at \in {"insert", "unhandle"} /\ cmd.at = "attach"
    BY <1>0, <1>3
       DEF ConnectTell, ConnectClear, ConnectAttach, Carrying, Continuing, clientv, CmdTs
  <2>2. cmd.uid \in Uids /\ conn[cmd.uid] = NoConn /\ cmd.no # None
        /\ (cmd.at = "attach" => cmd.uid \in Sources)
    BY <2>1 DEF ThreadsOK, ConnectOK, Connecting
  <2> QED BY <2>1, <2>2 DEF ConnectOK, Connecting, Uids
<1>4. CASE ConnectHandler
  <2>1. \/ /\ cmd'.uid = cmd.uid /\ cmd'.no = cmd.no /\ conn' = conn
           /\ cmd'.at = "attach" /\ cmd.uid \in Sources
        \/ cmd'.at = "idle"
    BY <1>0, <1>4 DEF ConnectHandler, Idle, CmdAt, CmdTs
  <2>2. cmd.uid \in Uids /\ conn[cmd.uid] = NoConn /\ cmd.no # None
    BY <1>4 DEF ConnectHandler, Carrying, Continuing, ThreadsOK, ConnectOK, Connecting
  <2> QED BY <2>1, <2>2 DEF ConnectOK, Connecting
<1>5. ASSUME NEW u \in Uids, Disconnect(u) PROVE ConnectOK'
  <2>1. cmd'.at = "unhandle" /\ cmd'.uid = u /\ conn'[u] = NoConn
    BY <1>0, <1>5 DEF Disconnect, CmdAt
  <2> QED BY <2>1 DEF ConnectOK, Connecting
<1>6. CASE cmd'.at \in {"idle", "gone"} \cup Replacing
  BY <1>6 DEF ConnectOK, Connecting, Replacing
<1>7. Start \/ ConnectInsert \/ Unhandle \/ VirtualAdd \/ VirtualTell \/ Stop
      \/ ForgetAssigned \/ TellForgotten =>
        cmd'.at \in {"idle", "gone"} \cup Replacing
  BY <1>0 DEF Start, ConnectInsert, Unhandle, VirtualAdd, VirtualTell, Stop, ForgetAssigned,
         TellForgotten, Idle, CmdAt, Replacing, CmdTs
<1>8. \A u \in Uids : CreateVirtual(u) \/ ChooseUniqueId(u) =>
        cmd'.at \in {"idle", "gone"} \cup Replacing
  BY <1>0 DEF CreateVirtual, ChooseUniqueId, Idle, CmdAt, Replacing, CmdTs
<1>9. \A u \in Uids : DestroyVirtual(u) => UNCHANGED <<cmd, conn>>
  BY DEF DestroyVirtual, clientv
<1> QED BY <1>1, <1>2, <1>3, <1>4, <1>5, <1>6, <1>7, <1>8, <1>9, Frames
        DEF Next, CoreMidi, CommandThread

\* An id is of one endpoint, and the one at work keeps its id until it is given another.
LEMMA NextVirtual ==
  ASSUME TypeOK, ThreadsOK, Next
  PROVE  VirtualOK'
<1>0. /\ obj \in [Uids -> Nat] /\ made \in Nat /\ None = 0 /\ cmd \in CmdTs
      /\ cmd.gen \in Nat /\ cmd.uid \in Uids \cup {NoUid}
  BY TypesAre, Zeros DEF CmdTs
<1>a. VirtualOK
  BY DEF ThreadsOK
<1>b. None \notin vports /\ made + 1 \notin vports
  BY <1>0, <1>a DEF VirtualOK
<1>1. ASSUME NEW u \in Uids, Appears(u) PROVE VirtualOK'
  <2>1. /\ UNCHANGED <<cmd, vports>> /\ obj[u] = None /\ ~(cmd.at = "forget" /\ cmd.uid = u)
        /\ made' = made + 1 /\ obj' = [obj EXCEPT ![u] = made + 1]
    BY <1>1, Frames DEF Appears
  <2>2. obj'[u] = made + 1 /\ \A v \in Uids : v # u => obj'[v] = obj[v] /\ obj[v] <= made
    BY <1>0, <1>a, <2>1 DEF VirtualOK
  <2>3. cmd.at \in Replacing => cmd.uid \in Uids /\ cmd.gen \in vports /\ cmd.gen # None
    BY <1>a, <1>b DEF VirtualOK
  <2>4. cmd.at \in {"choose", "add", "add_tell"} => obj'[cmd.uid] = cmd.gen
    BY <1>a, <2>1, <2>2, <2>3 DEF VirtualOK, Replacing
  <2>5. cmd.at \in {"forget", "tell_forgotten"} => \E v \in Uids : obj'[v] = cmd.gen
    BY <1>a, <2>1, <2>2, <2>3 DEF VirtualOK, Replacing
  <2>6. cmd.at = "forget" => obj'[cmd.uid] = None
    BY <1>a, <2>1, <2>2, <2>3 DEF VirtualOK, Replacing
  <2>7. \A g \in vports : g \in 1..made + 1
    BY <1>0, <1>a DEF VirtualOK
  <2>8. \A v \in Uids : obj'[v] <= made + 1
    BY <1>0, <2>2
  <2>9. \A v, w \in Uids : obj'[v] = obj'[w] /\ obj'[v] # None => v = w
    BY <1>0, <1>a, <2>2 DEF VirtualOK
  <2> QED BY <2>1, <2>3, <2>4, <2>5, <2>6, <2>7, <2>8, <2>9 DEF VirtualOK
<1>2. ASSUME NEW u \in Uids, Vanishes(u) PROVE VirtualOK'
  <2>1. /\ UNCHANGED <<cmd, vports, made>> /\ obj[u] \notin vports
        /\ obj' = [obj EXCEPT ![u] = None]
    BY <1>2, Frames DEF Vanishes
  <2>2. obj'[u] = None /\ \A v \in Uids : v # u => obj'[v] = obj[v]
    BY <1>0, <2>1
  <2>3. cmd.at \in Replacing => cmd.uid \in Uids /\ cmd.gen \in vports
    BY <1>a DEF VirtualOK
  <2>4. cmd.at \in {"choose", "add", "add_tell"} => obj'[cmd.uid] = cmd.gen
    BY <1>a, <2>1, <2>2, <2>3 DEF VirtualOK, Replacing
  <2>5. cmd.at \in {"forget", "tell_forgotten"} => \E v \in Uids : obj'[v] = cmd.gen
    BY <1>a, <2>1, <2>2, <2>3 DEF VirtualOK, Replacing
  <2>6. cmd.at = "forget" => obj'[cmd.uid] = None
    BY <1>a, <2>2, <2>3 DEF VirtualOK, Replacing
  <2>8. \A v \in Uids : obj'[v] <= made
    BY <1>0, <1>a, <2>2 DEF VirtualOK
  <2>9. \A v, w \in Uids : obj'[v] = obj'[w] /\ obj'[v] # None => v = w
    BY <1>a, <2>2 DEF VirtualOK
  <2> QED BY <1>a, <2>1, <2>3, <2>4, <2>5, <2>6, <2>8, <2>9 DEF VirtualOK
<1>3. ASSUME UNCHANGED <<obj, made, vports>>, cmd'.at \notin Replacing PROVE VirtualOK'
  BY <1>a, <1>3 DEF VirtualOK, Replacing
<1>4. ASSUME UNCHANGED <<obj, made, vports, cmd>> PROVE VirtualOK'
  BY <1>a, <1>4 DEF VirtualOK
<1>5. ASSUME NEW u \in Uids, CreateVirtual(u) PROVE VirtualOK'
  <2>1. /\ obj[u] = None /\ made' = made + 1 /\ obj' = [obj EXCEPT ![u] = made + 1]
        /\ vports' = vports \cup {made + 1}
        /\ cmd'.at \in {"add", "choose"} /\ cmd'.uid = u /\ cmd'.gen = made + 1
    BY <1>5 DEF CreateVirtual, CmdAt
  <2>2. obj'[u] = made + 1 /\ \A v \in Uids : v # u => obj'[v] = obj[v] /\ obj[v] <= made
    BY <1>0, <1>a, <2>1 DEF VirtualOK
  <2>3. \A g \in vports' : g \in 1..made + 1
    BY <1>0, <1>a, <2>1 DEF VirtualOK
  <2>4. \A v \in Uids : obj'[v] <= made + 1
    BY <1>0, <2>2
  <2>5. \A v, w \in Uids : obj'[v] = obj'[w] /\ obj'[v] # None => v = w
    BY <1>0, <1>a, <2>2 DEF VirtualOK
  <2> QED BY <2>1, <2>2, <2>3, <2>4, <2>5 DEF VirtualOK, Replacing
<1>6. ASSUME NEW w \in Uids, ChooseUniqueId(w) PROVE VirtualOK'
  <2>0. /\ cmd.at = "choose" /\ w # cmd.uid /\ made' = made
        /\ cmd.uid \in Uids /\ cmd.gen \in vports /\ obj[cmd.uid] = cmd.gen
    BY <1>6, <1>a
       DEF ChooseUniqueId, Wanted, Continuing, VirtualOK, Replacing
  <2>1. CASE obj[w] = None
    <3>1. /\ obj' = [obj EXCEPT ![cmd.uid] = None, ![w] = cmd.gen] /\ vports' = vports
          /\ cmd'.at = "forget" /\ cmd'.uid = cmd.uid /\ cmd'.gen = cmd.gen
      BY <1>0, <1>6, <2>1 DEF ChooseUniqueId, CmdTs
    <3>2. /\ obj'[cmd.uid] = None /\ obj'[w] = cmd.gen
          /\ \A v \in Uids : v \notin {cmd.uid, w} => obj'[v] = obj[v]
      BY <1>0, <2>0, <3>1
    <3>3. \A v \in Uids : obj'[v] <= made
      BY <1>0, <1>a, <2>0, <3>2 DEF VirtualOK
    <3>4. \A v \in Uids : v # cmd.uid => obj[v] # cmd.gen
      BY <1>a, <1>b, <2>0 DEF VirtualOK
    <3>5. \A v, x \in Uids : obj'[v] = obj'[x] /\ obj'[v] # None => v = x
      BY <1>a, <2>0, <3>2, <3>4 DEF VirtualOK
    <3> QED BY <1>a, <2>0, <3>1, <3>2, <3>3, <3>5 DEF VirtualOK, Replacing
  <2>2. CASE obj[w] # None
    <3>1. /\ obj' = [obj EXCEPT ![cmd.uid] = None] /\ vports' = vports \ {cmd.gen}
          /\ cmd'.at = "idle"
      BY <1>6, <2>2 DEF ChooseUniqueId, Idle, CmdAt
    <3>2. obj'[cmd.uid] = None /\ \A v \in Uids : v # cmd.uid => obj'[v] = obj[v]
      BY <1>0, <2>0, <3>1
    <3>3. \A v \in Uids : obj'[v] <= made
      BY <1>0, <1>a, <3>2 DEF VirtualOK
    <3>4. \A v, x \in Uids : obj'[v] = obj'[x] /\ obj'[v] # None => v = x
      BY <1>a, <3>2 DEF VirtualOK
    <3> QED BY <1>a, <2>0, <3>1, <3>3, <3>4 DEF VirtualOK, Replacing
  <2> QED BY <2>1, <2>2
<1>7. ASSUME UNCHANGED <<obj, made, vports>>, cmd.at \in {"forget", "tell_forgotten"},
             cmd'.gen = cmd.gen,
             \/ cmd'.at = "add" /\ cmd'.uid = Chosen
             \/ cmd'.at = "tell_forgotten" /\ cmd'.uid = cmd.uid
      PROVE  VirtualOK'
  <2>1. /\ Chosen \in Uids /\ obj[Chosen] = cmd.gen
        /\ cmd.gen \in vports /\ cmd.uid \in Uids
    BY <1>a, <1>7 DEF VirtualOK, Chosen, Replacing
  <2> QED BY <1>a, <1>7, <2>1 DEF VirtualOK, Replacing
<1>8. CASE VirtualAdd
  <2>1. /\ UNCHANGED <<obj, made, vports>> /\ cmd.at = "add"
        /\ \/ cmd'.at = "idle"
           \/ cmd'.at = "add_tell" /\ cmd'.uid = cmd.uid /\ cmd'.gen = cmd.gen
    BY <1>0, <1>8 DEF VirtualAdd, Idle, CmdAt, coremidi, CmdTs, Carrying, Continuing
  <2> QED BY <1>a, <2>1 DEF VirtualOK, Replacing
<1>9. ASSUME NEW u \in Uids, DestroyVirtual(u) PROVE VirtualOK'
  <2>1. /\ cmd' = cmd /\ cmd.at = "idle" /\ made' = made /\ vports' \subseteq vports
        /\ obj' = [obj EXCEPT ![u] = None]
    BY <1>9 DEF DestroyVirtual, Working
  <2>2. obj'[u] = None /\ \A v \in Uids : v # u => obj'[v] = obj[v]
    BY <1>0, <2>1
  <2>3. \A v \in Uids : obj'[v] <= made
    BY <1>0, <1>a, <2>2 DEF VirtualOK
  <2> QED BY <1>a, <2>1, <2>2, <2>3 DEF VirtualOK, Replacing
<1>10. CASE Stop
  <2>1. /\ cmd'.at = "gone" /\ made' = made /\ vports' = {}
        /\ obj' = [u \in Uids |-> IF u \in Gone THEN None ELSE obj[u]]
    BY <1>10 DEF Stop, CmdAt, Carrying, Continuing, Gone
  <2>2. \A v \in Uids : obj'[v] \in {None, obj[v]}
    BY <2>1
  <2>3. \A v \in Uids : obj'[v] <= made
    BY <1>0, <1>a, <2>2 DEF VirtualOK
  <2>4. \A v, x \in Uids : obj'[v] = obj'[x] /\ obj'[v] # None => v = x
    BY <1>a, <2>2 DEF VirtualOK
  <2> QED BY <2>1, <2>3, <2>4 DEF VirtualOK, Replacing
<1> USE DEF coremidi, cmdv
<1>11. GlobalThread \/ DropThread => UNCHANGED <<obj, made, vports, cmd>>
  BY Frames
<1>12. Start \/ ConnectTell \/ ConnectClear \/ ConnectHandler \/ ConnectAttach \/ ConnectInsert
       \/ Unhandle \/ VirtualTell =>
         UNCHANGED <<obj, made, vports>> /\ cmd'.at \notin Replacing
  BY <1>0 DEF Start, ConnectTell, ConnectClear, ConnectHandler, ConnectAttach, ConnectInsert,
         Unhandle, VirtualTell, Carrying, Continuing, Idle, CmdAt, Replacing, CmdTs
<1>13. \A u \in Uids : ConnectLookup(u) \/ Disconnect(u) =>
         UNCHANGED <<obj, made, vports>> /\ cmd'.at \notin Replacing
  BY DEF ConnectLookup, Disconnect, CmdAt, Replacing
<1>14. ForgetAssigned \/ TellForgotten =>
         /\ UNCHANGED <<obj, made, vports>> /\ cmd.at \in {"forget", "tell_forgotten"}
         /\ cmd'.gen = cmd.gen
         /\ \/ cmd'.at = "add" /\ cmd'.uid = Chosen
            \/ cmd'.at = "tell_forgotten" /\ cmd'.uid = cmd.uid
  BY <1>0 DEF ForgetAssigned, TellForgotten, Carrying, Continuing, CmdAt, CmdTs
<1> QED BY <1>1, <1>2, <1>3, <1>4, <1>5, <1>6, <1>7, <1>8, <1>9, <1>10, <1>11, <1>12, <1>13,
           <1>14 DEF Next, CoreMidi, CommandThread

\* What becomes of the notifications.
LEMMA NextNotes ==
  ASSUME TypeOK, ThreadsOK, Next
  PROVE  \/ UNCHANGED notes
         \/ notes # <<>> /\ notes' = Tail(notes) /\ global.at = "idle"
         \/ \E event \in {"added", "removed"}, u \in Uids, g \in Gens \ {None} :
              Queue(<<Note(event, u, g)>>)
         \/ Stop
<1>0. made + 1 # None /\ (made < MaxGens => made + 1 \in Gens) /\ obj \in [Uids -> Gens]
      /\ cmd.gen \in Gens
  BY TypesAre, Zeros, SMTT(30) DEF CmdTs
<1>1. \A u \in Uids : Appears(u) \/ CreateVirtual(u) =>
        made + 1 \in Gens \ {None} /\ Queue(<<Note("added", u, made + 1)>>)
  BY <1>0 DEF Appears, CreateVirtual
<1>2. None \notin vports
  BY Zeros DEF ThreadsOK, VirtualOK
<1>3. \A u \in Uids : Vanishes(u) \/ DestroyVirtual(u) =>
        obj[u] \in Gens \ {None} /\ Queue(<<Note("removed", u, obj[u])>>)
  BY <1>0, <1>2 DEF Vanishes, DestroyVirtual
<1>4. \A u \in Uids : ChooseUniqueId(u) =>
        \/ UNCHANGED notes
        \/ /\ cmd.uid \in Uids /\ cmd.gen \in Gens \ {None}
           /\ Queue(<<Note("removed", cmd.uid, cmd.gen)>>)
  BY <1>0, <1>2 DEF ChooseUniqueId, Continuing, ThreadsOK, VirtualOK, Replacing
<1>5. AddedRead \/ RemovedRead => notes # <<>> /\ notes' = Tail(notes) /\ global.at = "idle"
  BY DEF AddedRead, RemovedRead, Take
<1> USE DEF coremidi
<1>6. InitSourceCache \/ InitDestCache \/ Register \/ AddedInsert \/ AddedTell \/ RemovedTake
      \/ RemovedRun \/ RemovedTell => UNCHANGED notes
  BY DEF InitSourceCache, InitDestCache, Scan, Register, AddedInsert, AddedTell, RemovedTake,
         RemovedRun, RemovedTell, Going
<1>7. Start \/ ConnectTell \/ ConnectClear \/ ConnectHandler \/ ConnectAttach \/ ConnectInsert
      \/ Unhandle \/ ForgetAssigned \/ TellForgotten \/ VirtualAdd \/ VirtualTell =>
        UNCHANGED notes
  BY DEF Start, ConnectTell, ConnectClear, ConnectHandler, ConnectAttach, ConnectInsert,
         Unhandle, ForgetAssigned, TellForgotten, VirtualAdd, VirtualTell
<1>8. \A u \in Uids : ConnectLookup(u) \/ Disconnect(u) => UNCHANGED notes
  BY DEF ConnectLookup, Disconnect
<1> QED BY <1>1, <1>3, <1>4, <1>5, <1>6, <1>7, <1>8, Frames
        DEF Next, CoreMidi, GlobalThread, CommandThread

\* The notifications are of endpoints that exist or did.
LEMMA NextNotesOf ==
  ASSUME TypeOK, ThreadsOK, Next
  PROVE  \A i \in DOMAIN notes' : notes'[i].gen # None
<1>0. notes \in Seq(Notes) /\ \A i \in DOMAIN notes : notes[i].gen # None
  BY TypesAre DEF ThreadsOK, GlobalOK
<1>1. CASE UNCHANGED notes
  BY <1>0, <1>1
<1>2. CASE notes # <<>> /\ notes' = Tail(notes)
  <2>1. \A i \in DOMAIN notes' : i + 1 \in DOMAIN notes /\ notes'[i] = notes[i + 1]
    BY <1>0, <1>2, TakenNote
  <2>2. ASSUME NEW i \in DOMAIN notes' PROVE notes'[i].gen # None
    <3>1. PICK j \in DOMAIN notes : notes'[i] = notes[j]
      BY <2>1
    <3> QED BY <1>0, <3>1
  <2> QED BY <2>2
<1>3. ASSUME NEW events \in Seq(Notes), Queue(events),
             \A i \in 1..Len(events) : events[i].gen # None
      PROVE  \A i \in DOMAIN notes' : notes'[i].gen # None
  <2>1. ASSUME NEW i \in DOMAIN notes', i \in DOMAIN notes PROVE notes'[i].gen # None
    BY <1>0, <1>3, <2>1, Queued
  <2>2. ASSUME NEW i \in DOMAIN notes', i \notin DOMAIN notes PROVE notes'[i].gen # None
    <3>1. PICK j \in 1..Len(events) : notes'[i] = events[j]
      <4>1. notes \in Seq(Notes)
        BY <1>0
      <4>2. CASE Listening
        <5>1. i - Len(notes) \in 1..Len(events) /\ notes'[i] = events[i - Len(notes)]
          BY <1>3, <2>2, <4>1, <4>2, Queued
        <5> QED BY <5>1
      <4>3. CASE ~Listening
        <5>1. notes' = notes
          BY <1>3, <4>1, <4>3, Queued
        <5> QED BY <2>2, <5>1
      <4> QED BY <4>2, <4>3
    <3> QED BY <1>3, <3>1
  <2> QED BY <2>1, <2>2
<1>4. ASSUME NEW event \in {"added", "removed"}, NEW u \in Uids, NEW g \in Gens \ {None},
             Queue(<<Note(event, u, g)>>)
      PROVE  \A i \in DOMAIN notes' : notes'[i].gen # None
  <2> DEFINE e == <<Note(event, u, g)>>
  <2>1. e \in Seq(Notes) /\ Len(e) = 1 /\ e[1] = Note(event, u, g)
        /\ Note(event, u, g).gen # None
    BY OneNote
  <2>2. \A i \in 1..Len(e) : e[i].gen # None
    BY <2>1
  <2> QED BY <1>3, <1>4, <2>1, <2>2
<1>5. CASE Stop
  <2>1. PICK order \in [1..Cardinality(Gone) -> Gone] :
          /\ Queue(Removals(order)) /\ Removals(order) \in Seq(Notes)
          /\ Len(Removals(order)) = Cardinality(Gone) /\ Cardinality(Gone) \in Nat
          /\ \A i \in 1..Cardinality(Gone) :
               Removals(order)[i] = Note("removed", order[i], obj[order[i]])
    BY <1>5, StopQueues
  <2>2. \A u \in Gone : obj[u] # None
    BY Zeros DEF Gone, ThreadsOK, VirtualOK
  <2>3. \A i \in 1..Cardinality(Gone) : Removals(order)[i].gen # None
    BY <2>1, <2>2 DEF Note
  <2> QED BY <1>3, <2>1, <2>3
<1> QED BY <1>1, <1>2, <1>4, <1>5, NextNotes

\* The global thread.
LEMMA NextGlobal ==
  ASSUME TypeOK, ThreadsOK, Next
  PROVE  GlobalOK'
<1>0. /\ notes \in Seq(Notes) /\ global \in GlobalTs /\ global.uid \in Uids \cup {NoUid}
      /\ cmd \in CmdTs
  BY TypesAre DEF GlobalTs
<1>a. GlobalOK
  BY DEF ThreadsOK
<1> DEFINE Hands == /\ global.at \in {"insert", "tell_added", "take", "run", "tell_removed"} =>
                         global.uid \in Uids
                    /\ global.at = "insert" => global.gen # None
                    /\ global.at # "run" => global.fns = {}
<1>1. Hands'
  <2>1. CASE UNCHANGED global
    BY <1>a, <2>1 DEF GlobalOK
  <2>2. CASE InitSourceCache \/ InitDestCache \/ Register \/ AddedTell \/ RemovedTell
    BY <2>2 DEF InitSourceCache, InitDestCache, Scan, Register, AddedTell, RemovedTell, At,
       GlobalAt
  <2>3. CASE AddedRead
    <3> DEFINE uids == IdTold(Head(notes).gen)
    <3>1. notes # <<>>
      BY <2>3 DEF AddedRead, Take
    <3>2. Head(notes).gen # None
      <4>1. Head(notes) = notes[1] /\ 1 \in DOMAIN notes
        BY <1>0, <3>1
      <4> QED BY <1>a, <4>1 DEF GlobalOK
    <3>3. uids # {} => (CHOOSE u \in uids : TRUE) \in Uids
      BY DEF IdTold
    <3>4. global' = IF uids = {} THEN global
                    ELSE GlobalAt("insert", CHOOSE u \in uids : TRUE, Head(notes).gen, {})
      BY <2>3 DEF AddedRead
    <3> HIDE DEF uids
    <3>5. CASE uids = {}
      BY <1>a, <3>4, <3>5 DEF GlobalOK
    <3>6. CASE uids # {}
      <4>1. /\ global'.at = "insert" /\ global'.uid = CHOOSE u \in uids : TRUE
            /\ global'.gen = Head(notes).gen /\ global'.fns = {}
        BY <3>4, <3>6 DEF GlobalAt
      <4> QED BY <3>2, <3>3, <3>6, <4>1
    <3> QED BY <3>5, <3>6
  <2>4. CASE AddedInsert
    BY <1>0, <1>a, <2>4 DEF AddedInsert, Going, At, GlobalAt, GlobalOK, GlobalTs
  <2>5. CASE RemovedRead
    <3>1. UNCHANGED global \/ \E v \in Uids : global' = GlobalAt("take", v, None, {})
      BY <2>5 DEF RemovedRead, StaleUids
    <3> QED BY <1>a, <3>1 DEF GlobalAt, GlobalOK
  <2>6. CASE RemovedTake \/ RemovedRun
    BY <1>a, <2>6 DEF RemovedTake, RemovedRun, Going, GlobalAt, GlobalOK
  <2> QED BY <2>1, <2>2, <2>3, <2>4, <2>5, <2>6, Frames DEF Next, CoreMidi, GlobalThread
<1>2. ASSUME ~Listening' PROVE cmd'.at = "start" /\ notes' = <<>>
                               /\ \A u \in Uids : known'[u] = "unheard"
  <2>1. ~Listening
    <3>1. UNCHANGED global => ~Listening
      BY <1>2 DEF Listening
    <3>2. GlobalThread => ~Listening
      BY <1>0, <1>2 DEF GlobalThread, InitSourceCache, InitDestCache, Scan, Register, AddedRead,
         AddedInsert, AddedTell, RemovedRead, RemovedTake, RemovedRun, RemovedTell, Take, Going,
         At, GlobalAt, Listening, GlobalTs
    <3> QED BY <3>1, <3>2, Frames DEF Next, CoreMidi
  <2>2. cmd.at = "start" /\ notes = <<>> /\ \A u \in Uids : known[u] = "unheard"
    BY <1>a, <2>1 DEF GlobalOK
  <2>3. ~CommandThread
    BY <2>1, <2>2 DEF CommandThread, Start, ConnectLookup, ConnectTell, ConnectClear,
       ConnectHandler, ConnectAttach, ConnectInsert, Disconnect, Unhandle, CreateVirtual,
       ChooseUniqueId, ForgetAssigned, TellForgotten, VirtualAdd, VirtualTell, DestroyVirtual,
       Stop, Working, Continuing, Carrying
  <2>4. \A u \in Uids : Appears(u) \/ Vanishes(u) => notes' = notes
    BY <2>1 DEF Appears, Vanishes, Queue
  <2>5. GlobalThread => notes' = notes /\ known' = known
    BY <2>1, <2>2 DEF GlobalThread, InitSourceCache, InitDestCache, Scan, Register, AddedRead,
       AddedInsert, AddedTell, RemovedRead, RemovedTake, RemovedRun, RemovedTell, Take, Going,
       Listening, coremidi, tellv
  <2> QED BY <2>2, <2>3, <2>4, <2>5, Frames DEF Next, CoreMidi
<1> QED BY <1>1, <1>2, NextNotesOf DEF GlobalOK

LEMMA NextThreads ==
  ASSUME TypeOK, ThreadsOK, Next
  PROVE  ThreadsOK'
BY NextConnect, NextVirtual, NextGlobal DEF ThreadsOK

-----------------------------------------------------------------------------
(* The handlers.                                                           *)

\* The handler is there, or its closure ran.
KeptOrTold(u, no) == \/ HandlerKept(u, no)
                     \/ IF u \in Sources THEN no \in told ELSE u \in disconnected

LEMMA HandlerOKIs ==
  ASSUME ConnectOK
  PROVE  HandlerOK <=>
           (drop.at = "open" =>
              /\ \A u \in Uids : conn[u] # NoConn => KeptOrTold(u, conn[u].no)
              /\ cmd.at \in {"attach", "insert"} => KeptOrTold(cmd.uid, cmd.no))
BY DEF HandlerOK, KeptOrTold, Told, ConnectOK

LEMMA HandlerOKIsNext ==
  ASSUME ConnectOK'
  PROVE  HandlerOK' <=>
           (drop'.at = "open" =>
              /\ \A u \in Uids : conn'[u] # NoConn => KeptOrTold(u, conn[u].no)'
              /\ cmd'.at \in {"attach", "insert"} => KeptOrTold(cmd.uid, cmd.no)')
BY DEF HandlerOK, KeptOrTold, HandlerKept, Told, ConnectOK

\* The global thread takes the handlers out of the map to run them, and the mark or the
\* error comes of it.
LEMMA GlobalKeeps ==
  ASSUME TypeOK, ThreadsOK, GlobalThread, NEW u \in Uids, NEW no \in Nos, KeptOrTold(u, no)
  PROVE  /\ no \in handlers'[u] \/ (global'.at = "run" /\ global'.uid = u /\ no \in global'.fns)
            \/ IF u \in Sources THEN no \in told' ELSE u \in disconnected'
<1> USE DEF KeptOrTold, HandlerKept
<1>0. /\ handlers \in [Uids -> SUBSET (Nos \ {None})] /\ Sources \cap Destinations = {}
      /\ Uids = Sources \cup Destinations
  BY TypesAre, CoreMidiAssumption DEF Uids
<1>1. CASE RemovedTake
  <2>1. /\ global.at = "take" /\ global.uid \in Uids
        /\ handlers' = [handlers EXCEPT ![global.uid] = {}]
        /\ global'.at = "run" /\ global'.uid = global.uid
        /\ global'.fns = handlers[global.uid]
        /\ UNCHANGED <<told, disconnected>>
    BY <1>1 DEF RemovedTake, Going, GlobalAt, ThreadsOK, GlobalOK
  <2> QED BY <1>0, <2>1
<1>2. CASE RemovedRun
  <2>1. /\ global.at = "run" /\ global.uid \in Uids /\ handlers' = handlers
        /\ told' = IF global.uid \in Sources THEN told \cup global.fns ELSE told
        /\ disconnected' = IF global.uid \in Destinations /\ global.fns # {}
                           THEN disconnected \cup {global.uid} ELSE disconnected
    BY <1>2 DEF RemovedRun, Going, ThreadsOK, GlobalOK, maps
  <2> QED BY <1>0, <2>1
<1>3. CASE AddedRead \/ RemovedRead \/ AddedInsert \/ AddedTell \/ RemovedTell \/ Register
           \/ InitSourceCache \/ InitDestCache
  <2>1. global.at # "run" /\ UNCHANGED <<handlers, told, disconnected>>
    BY <1>3 DEF AddedRead, RemovedRead, Take, AddedInsert, AddedTell, RemovedTell, Register,
       InitSourceCache, InitDestCache, Scan, Going, maps, clientv
  <2> QED BY <2>1
<1> QED BY <1>1, <1>2, <1>3 DEF GlobalThread

LEMMA NextHandler ==
  ASSUME TypeOK, ThreadsOK, HandlerOK, Next
  PROVE  HandlerOK'
<1>0. /\ handlers \in [Uids -> SUBSET (Nos \ {None})] /\ cmd \in CmdTs /\ cmd.no \in Nos
      /\ conn \in [Uids -> [no : Nos, gen : Gens]]
      /\ \A u \in Uids : conn[u].no \in Nos
  BY TypesAre DEF CmdTs
<1>a. ConnectOK /\ ConnectOK'
  BY NextThreads DEF ThreadsOK
<1>b. SUFFICES ASSUME drop'.at = "open"
               PROVE  /\ \A u \in Uids : conn'[u] # NoConn => KeptOrTold(u, conn[u].no)'
                      /\ cmd'.at \in {"attach", "insert"} => KeptOrTold(cmd.uid, cmd.no)'
  BY <1>a, HandlerOKIsNext
<1>1. drop.at = "open" /\ ~DropThread
  <2>1. ~DropThread
    <3>1. drop \in [at : {"open", "read", "unhandle", "shutdown", "closed"},
                     conns : SUBSET Sources]
      BY TypesAre
    <3> QED BY <1>b, <3>1
            DEF DropThread, OnDrop, OnDropRead, OnDropUnhandle, OnDropShutdown, DropStep
  <2> QED BY <1>b, <2>1, Frames DEF Next, CoreMidi
<1>2. /\ \A u \in Uids : conn[u] # NoConn => KeptOrTold(u, conn[u].no)
      /\ cmd.at \in {"attach", "insert"} =>
           KeptOrTold(cmd.uid, cmd.no) /\ cmd.uid \in Sources /\ cmd.uid \in Uids
  <2>1. cmd.at \in {"attach", "insert"} => cmd.uid \in Sources /\ cmd.uid \in Uids
    BY <1>a DEF ConnectOK, Uids
  <2> QED BY <1>1, <1>a, <2>1, HandlerOKIs
<1>3. ASSUME UNCHANGED <<handlers, global, told, disconnected, conn, cmd>>
      PROVE  /\ \A u \in Uids : conn'[u] # NoConn => KeptOrTold(u, conn[u].no)'
             /\ cmd'.at \in {"attach", "insert"} => KeptOrTold(cmd.uid, cmd.no)'
  BY <1>2, <1>3 DEF KeptOrTold, HandlerKept
<1>4. CASE GlobalThread
  <2>1. conn' = conn /\ cmd' = cmd
    BY <1>4, Frames
  <2> QED BY <1>0, <1>2, <1>4, <2>1, GlobalKeeps DEF KeptOrTold, HandlerKept
<1>5. ASSUME UNCHANGED <<handlers, global, told, disconnected, conn>>,
             cmd'.at \notin {"attach", "insert"}
      PROVE  /\ \A u \in Uids : conn'[u] # NoConn => KeptOrTold(u, conn[u].no)'
             /\ cmd'.at \in {"attach", "insert"} => KeptOrTold(cmd.uid, cmd.no)'
  BY <1>2, <1>5 DEF KeptOrTold, HandlerKept
<1> USE DEF CmdStep, Working, Continuing, Carrying, coremidi, maps, clientv, dropv
<1>6. Start \/ ConnectTell \/ ForgetAssigned \/ TellForgotten \/ VirtualAdd \/ VirtualTell =>
        /\ UNCHANGED <<handlers, global, told, disconnected, conn>>
        /\ cmd'.at \notin {"attach", "insert"}
  BY <1>0 DEF Start, ConnectTell, ForgetAssigned, TellForgotten, VirtualAdd, VirtualTell, Idle,
     CmdAt, CmdTs
<1>7. \A u \in Uids : ConnectLookup(u) \/ CreateVirtual(u) \/ ChooseUniqueId(u) =>
        /\ UNCHANGED <<handlers, global, told, disconnected, conn>>
        /\ cmd'.at \notin {"attach", "insert"}
  BY <1>0 DEF ConnectLookup, CreateVirtual, ChooseUniqueId, Idle, CmdAt, CmdTs
<1>8. \A u \in Uids : DestroyVirtual(u) =>
        UNCHANGED <<handlers, global, told, disconnected, conn, cmd>>
  BY DEF DestroyVirtual
<1>9. CASE ConnectClear
  <2>1. /\ UNCHANGED <<handlers, global, told, conn>> /\ cmd'.at = "handler"
        /\ disconnected' = disconnected \ {cmd.uid} /\ conn[cmd.uid] = NoConn
    <3>1. conn[cmd.uid] = NoConn
      BY <1>9, <1>a DEF ConnectClear, ConnectOK, Connecting
    <3>2. cmd'.at = "handler"
      BY <1>0, <1>9 DEF ConnectClear, CmdTs
    <3> QED BY <1>9, <3>1, <3>2 DEF ConnectClear
  <2> QED BY <1>2, <2>1 DEF KeptOrTold, HandlerKept
<1>10. CASE ConnectHandler
  <2>1. /\ cmd.uid \in Uids /\ conn[cmd.uid] = NoConn
        /\ handlers' = [handlers EXCEPT ![cmd.uid] = @ \cup {cmd.no}]
        /\ UNCHANGED <<global, told, disconnected>>
    BY <1>10, <1>a DEF ConnectHandler, ConnectOK, Connecting
  <2>2. /\ cmd.no \in handlers'[cmd.uid]
        /\ \A u \in Uids : handlers[u] \subseteq handlers'[u]
    BY <1>0, <2>1
  <2>3. CASE cmd.uid \in Sources
    <3>1. cmd'.uid = cmd.uid /\ cmd'.no = cmd.no /\ conn' = conn
      BY <1>0, <1>10, <2>3 DEF ConnectHandler, CmdTs
    <3> QED BY <1>2, <2>1, <2>2, <3>1 DEF KeptOrTold, HandlerKept
  <2>4. CASE cmd.uid \notin Sources
    <3>1. cmd'.at = "idle" /\ conn' = Made
      BY <1>10, <2>4 DEF ConnectHandler, Idle, CmdAt
    <3>2. /\ conn'[cmd.uid].no = cmd.no
          /\ \A u \in Uids : u # cmd.uid => conn'[u] = conn[u]
      BY <1>0, <2>1, <3>1 DEF Made
    <3> QED BY <1>2, <2>1, <2>2, <3>1, <3>2 DEF KeptOrTold, HandlerKept
  <2> QED BY <2>3, <2>4
<1>11. CASE ConnectAttach
  <2>1. /\ UNCHANGED <<handlers, global, told, disconnected, conn>> /\ cmd.at = "attach"
        /\ cmd'.uid = cmd.uid /\ cmd'.no = cmd.no
    BY <1>0, <1>11 DEF ConnectAttach, CmdTs
  <2> QED BY <1>2, <2>1 DEF KeptOrTold, HandlerKept
<1>12. CASE ConnectInsert
  <2>1. /\ UNCHANGED <<handlers, global, told, disconnected>> /\ cmd.at = "insert"
        /\ cmd'.at = "idle" /\ conn' = Made
    BY <1>12 DEF ConnectInsert, Idle, CmdAt
  <2>2. /\ conn'[cmd.uid].no = cmd.no
        /\ \A u \in Uids : u # cmd.uid => conn'[u] = conn[u]
    BY <1>0, <1>2, <2>1 DEF Made
  <2> QED BY <1>2, <2>1, <2>2 DEF KeptOrTold, HandlerKept
<1>13. ASSUME NEW u \in Uids, Disconnect(u)
       PROVE  /\ \A v \in Uids : conn'[v] # NoConn => KeptOrTold(v, conn[v].no)'
              /\ cmd'.at \in {"attach", "insert"} => KeptOrTold(cmd.uid, cmd.no)'
  <2>1. /\ UNCHANGED <<handlers, global, told>> /\ cmd'.at = "unhandle"
        /\ disconnected' = disconnected \ {u} /\ conn' = [conn EXCEPT ![u] = NoConn]
    BY <1>13 DEF Disconnect, CmdAt
  <2>2. conn'[u] = NoConn /\ \A v \in Uids : v # u => conn'[v] = conn[v]
    BY <1>0, <2>1
  <2> QED BY <1>2, <2>1, <2>2 DEF KeptOrTold, HandlerKept
<1>14. CASE Unhandle
  <2>1. /\ UNCHANGED <<global, told, disconnected, conn>> /\ cmd'.at = "idle"
        /\ handlers' = [handlers EXCEPT ![cmd.uid] = {}] /\ conn[cmd.uid] = NoConn
    BY <1>14, <1>a DEF Unhandle, Idle, CmdAt, ConnectOK
  <2>2. \A v \in Uids : v # cmd.uid => handlers'[v] = handlers[v]
    BY <1>0, <2>1
  <2> QED BY <1>2, <2>1, <2>2 DEF KeptOrTold, HandlerKept
<1>15. CASE Stop
  <2>1. cmd'.at = "gone" /\ \A u \in Uids : conn'[u] = NoConn
    BY <1>15 DEF Stop, CmdAt
  <2> QED BY <2>1
<1> QED BY <1>1, <1>3, <1>4, <1>5, <1>6, <1>7, <1>8, <1>9, <1>10, <1>11, <1>12, <1>13, <1>14,
           <1>15, Frames DEF Next, CoreMidi, CommandThread

\* A handler is in the map for a connection, for the connect under way, for the
\* disconnect under way or because on_drop did not see the connection.
LEMMA NextRelease ==
  ASSUME TypeOK, ThreadsOK, ReleaseOK, Next
  PROVE  ReleaseOK'
<1>0. /\ handlers \in [Uids -> SUBSET (Nos \ {None})] /\ cmd \in CmdTs
      /\ conn \in [Uids -> [no : Nos, gen : Gens]] /\ Sources \subseteq Uids
      /\ drop \in [at : {"open", "read", "unhandle", "shutdown", "closed"},
                   conns : SUBSET Sources]
      /\ Sources \cap Destinations = {} /\ Uids = Sources \cup Destinations
  BY TypesAre, CoreMidiAssumption DEF Uids
<1>a. ConnectOK
  BY DEF ThreadsOK
<1>1. ASSUME UNCHANGED <<conn, cmd, drop, shutdown, late>>,
             \A u \in Uids : handlers'[u] \subseteq handlers[u]
      PROVE  ReleaseOK'
  <2>1. \A u \in Uids : UnderWay(u)' = UnderWay(u)
    BY <1>1 DEF UnderWay
  <2> QED BY <1>0, <1>1, <2>1 DEF ReleaseOK
<1>2. ASSUME UNCHANGED <<handlers, conn, drop, shutdown, late>>,
             cmd.at \notin {"attach", "insert", "unhandle", "gone"},
             cmd'.at \notin {"attach", "insert", "unhandle", "gone"}
      PROVE  ReleaseOK'
  <2>1. \A u \in Uids : UnderWay(u)' = {} /\ UnderWay(u) = {}
    BY <1>2 DEF UnderWay
  <2> QED BY <1>0, <1>2, <2>1 DEF ReleaseOK
<1> USE DEF CmdStep, Working, Continuing, Carrying, coremidi, maps, clientv, dropv, cmdv,
            history
<1>3. \A u \in Uids : Appears(u) \/ Vanishes(u) \/ DestroyVirtual(u) =>
        UNCHANGED <<conn, cmd, drop, shutdown, late, handlers>>
  BY Frames DEF DestroyVirtual
<1>4. CASE GlobalThread
  <2>1. \A u \in Uids : handlers'[u] \subseteq handlers[u]
    <3>1. CASE RemovedTake
      <4>1. handlers' = [handlers EXCEPT ![global.uid] = {}]
        BY <3>1 DEF RemovedTake
      <4> QED BY <1>0, <4>1
    <3>2. ~RemovedTake => UNCHANGED handlers
      BY <1>4 DEF GlobalThread, AddedRead, RemovedRead, Take, AddedInsert, AddedTell,
         RemovedTell, RemovedRun, Register, InitSourceCache, InitDestCache, Scan, Going
    <3> QED BY <3>1, <3>2
  <2> QED BY <1>1, <1>4, <2>1, Frames
<1>5. Start \/ ConnectTell \/ ConnectClear \/ ForgetAssigned \/ TellForgotten \/ VirtualAdd
      \/ VirtualTell =>
        /\ UNCHANGED <<handlers, conn, drop, shutdown, late>>
        /\ cmd.at \notin {"attach", "insert", "unhandle", "gone"}
        /\ cmd'.at \notin {"attach", "insert", "unhandle", "gone"}
  BY <1>0 DEF Start, ConnectTell, ConnectClear, ForgetAssigned, TellForgotten, VirtualAdd,
     VirtualTell, Idle, CmdAt, CmdTs
<1>6. \A u \in Uids : ConnectLookup(u) \/ CreateVirtual(u) \/ ChooseUniqueId(u) =>
        /\ UNCHANGED <<handlers, conn, drop, shutdown, late>>
        /\ cmd.at \notin {"attach", "insert", "unhandle", "gone"}
        /\ cmd'.at \notin {"attach", "insert", "unhandle", "gone"}
  BY <1>0 DEF ConnectLookup, CreateVirtual, ChooseUniqueId, Idle, CmdAt, CmdTs
<1>7. CASE ConnectHandler
  <2>1. /\ cmd.at = "handler" /\ cmd.uid \in Uids /\ conn[cmd.uid] = NoConn /\ cmd.no # None
        /\ handlers' = [handlers EXCEPT ![cmd.uid] = @ \cup {cmd.no}]
        /\ UNCHANGED <<drop, shutdown, late>>
    BY <1>7, <1>a DEF ConnectHandler, ConnectOK, Connecting
  <2>2. /\ \A u \in Uids : UnderWay(u) = {}
        /\ handlers[cmd.uid] = {}
    BY <2>1 DEF UnderWay, ReleaseOK
  <2>3. handlers'[cmd.uid] = {cmd.no} /\ \A u \in Uids : u # cmd.uid => handlers'[u] = handlers[u]
    BY <1>0, <2>1, <2>2
  <2>4. CASE cmd.uid \in Sources
    <3>1. cmd'.uid = cmd.uid /\ cmd'.no = cmd.no /\ conn' = conn /\ cmd'.at = "attach"
      BY <1>0, <1>7, <2>4 DEF ConnectHandler, CmdTs
    <3>2. \A u \in Uids : UnderWay(u)' = IF u = cmd.uid THEN {cmd.no} ELSE {}
      BY <3>1 DEF UnderWay
    <3> QED BY <1>0, <2>1, <2>2, <2>3, <3>1, <3>2 DEF ReleaseOK
  <2>5. CASE cmd.uid \notin Sources
    <3>1. cmd'.at = "idle" /\ conn' = Made
      BY <1>7, <2>5 DEF ConnectHandler, Idle, CmdAt
    <3>2. /\ conn'[cmd.uid].no = cmd.no
          /\ \A u \in Uids : u # cmd.uid => conn'[u] = conn[u]
      BY <1>0, <2>1, <3>1 DEF Made
    <3>3. conn'[cmd.uid] # NoConn
      BY <2>1, <3>2 DEF NoConn
    <3>4. \A u \in Uids : UnderWay(u)' = {}
      BY <3>1 DEF UnderWay
    <3> QED BY <1>0, <2>1, <2>2, <2>3, <2>5, <3>1, <3>2, <3>3, <3>4 DEF ReleaseOK
  <2> QED BY <2>4, <2>5
<1>8. CASE ConnectAttach
  <2>1. /\ UNCHANGED <<handlers, conn, drop, shutdown, late>> /\ cmd.at = "attach"
        /\ cmd'.uid = cmd.uid /\ cmd'.no = cmd.no /\ cmd'.at \in {"insert", "unhandle"}
    BY <1>0, <1>8 DEF ConnectAttach, CmdTs
  <2>2. CASE cmd'.at = "insert"
    <3>1. \A u \in Uids : UnderWay(u)' = UnderWay(u)
      BY <2>1, <2>2 DEF UnderWay
    <3> QED BY <1>0, <2>1, <2>2, <3>1 DEF ReleaseOK
  <2>3. CASE cmd'.at = "unhandle"
    <3>1. \A u \in Uids : u # cmd.uid => UnderWay(u)' = {} /\ UnderWay(u) = {}
      BY <2>1, <2>3 DEF UnderWay
    <3> QED BY <1>0, <2>1, <2>3, <3>1 DEF ReleaseOK
  <2> QED BY <2>1, <2>2, <2>3
<1>9. CASE ConnectInsert
  <2>1. /\ cmd.at = "insert" /\ cmd.uid \in Uids /\ cmd.no # None
        /\ UNCHANGED <<handlers, drop, shutdown>>
        /\ cmd'.at = "idle" /\ conn' = Made
        /\ late' = IF drop.at = "open" THEN late ELSE late \cup {cmd.no}
    BY <1>9, <1>a DEF ConnectInsert, Idle, CmdAt, ConnectOK, Connecting
  <2>2. /\ conn'[cmd.uid].no = cmd.no
        /\ \A u \in Uids : u # cmd.uid => conn'[u] = conn[u]
    BY <1>0, <2>1 DEF Made
  <2>3. conn'[cmd.uid] # NoConn
    BY <2>1, <2>2 DEF NoConn
  <2>4. \A u \in Uids : UnderWay(u) = (IF u = cmd.uid THEN {cmd.no} ELSE {}) /\ UnderWay(u)' = {}
    BY <2>1 DEF UnderWay
  <2> QED BY <1>0, <2>1, <2>2, <2>3, <2>4 DEF ReleaseOK
<1>10. ASSUME NEW u \in Uids, Disconnect(u) PROVE ReleaseOK'
  <2>1. /\ UNCHANGED <<handlers, drop, shutdown, late>> /\ cmd.at = "idle"
        /\ cmd'.at = "unhandle" /\ cmd'.uid = u /\ conn' = [conn EXCEPT ![u] = NoConn]
    BY <1>10 DEF Disconnect, CmdAt
  <2>2. \A v \in Uids : v # u => conn'[v] = conn[v]
    BY <1>0, <2>1
  <2>3. \A v \in Uids : UnderWay(v)' = {} /\ UnderWay(v) = {}
    BY <2>1 DEF UnderWay
  <2> QED BY <1>0, <2>1, <2>2, <2>3 DEF ReleaseOK
<1>11. CASE Unhandle
  <2>1. /\ UNCHANGED <<conn, drop, shutdown, late>> /\ cmd.at = "unhandle"
        /\ cmd'.at = "idle" /\ cmd.uid \in Uids
        /\ handlers' = [handlers EXCEPT ![cmd.uid] = {}]
    BY <1>11, <1>a DEF Unhandle, Idle, CmdAt, ConnectOK
  <2>2. handlers'[cmd.uid] = {} /\ \A v \in Uids : v # cmd.uid => handlers'[v] = handlers[v]
    BY <1>0, <2>1
  <2>3. \A v \in Uids : UnderWay(v)' = {} /\ UnderWay(v) = {}
    BY <2>1 DEF UnderWay
  <2> QED BY <1>0, <2>1, <2>2, <2>3 DEF ReleaseOK
<1>12. CASE Stop
  <2>1. /\ UNCHANGED <<drop, shutdown, late>> /\ cmd.at = "idle" /\ cmd'.at = "gone"
        /\ shutdown \/ drop.at = "closed"
        /\ handlers' = [u \in Uids |-> IF u \in Destinations /\ conn[u] # NoConn
                                       THEN {} ELSE handlers[u]]
    BY <1>12 DEF Stop, CmdAt
  <2>2. \A u \in Uids : UnderWay(u)' = {} /\ UnderWay(u) = {}
    BY <2>1 DEF UnderWay
  <2>3. \A u \in Uids : handlers'[u] \subseteq handlers[u]
    BY <2>1
  <2>4. \A u \in Destinations : handlers'[u] = {}
    BY <1>0, <2>1, <2>2 DEF ReleaseOK
  <2> QED BY <1>0, <2>1, <2>2, <2>3, <2>4 DEF ReleaseOK
<1>13. CASE DropThread
  <2>0. /\ UNCHANGED <<conn, cmd, late>>
        /\ \A u \in Uids : UnderWay(u)' = UnderWay(u)
    BY <1>13, Frames DEF UnderWay
  <2>1. CASE OnDrop
    <3>1. drop.at = "open" /\ drop'.at = "read" /\ UNCHANGED <<handlers, shutdown>>
      BY <1>0, <2>1 DEF OnDrop, DropStep
    <3> QED BY <1>0, <2>0, <3>1 DEF ReleaseOK
  <2>2. CASE OnDropRead
    <3>1. /\ drop.at = "read" /\ drop'.at = "unhandle" /\ UNCHANGED <<handlers, shutdown>>
          /\ drop'.conns = {u \in Sources : conn[u] # NoConn}
      BY <2>2 DEF OnDropRead, DropStep
    <3>2. cmd.at # "gone"
      BY <3>1 DEF ReleaseOK
    <3> QED BY <1>0, <2>0, <3>1, <3>2 DEF ReleaseOK
  <2>3. CASE OnDropUnhandle
    <3>1. /\ drop.at = "unhandle" /\ drop'.at = "shutdown" /\ UNCHANGED shutdown
          /\ handlers' = [u \in Uids |-> IF u \in drop.conns THEN {} ELSE handlers[u]]
      BY <2>3 DEF OnDropUnhandle, DropStep
    <3>2. /\ \A u \in Uids : handlers'[u] \subseteq handlers[u]
          /\ \A u \in Uids : u \in drop.conns => handlers'[u] = {}
      BY <3>1
    <3>3. cmd.at # "gone" /\ ~shutdown
      BY <3>1 DEF ReleaseOK
    <3> QED BY <1>0, <2>0, <3>1, <3>2, <3>3 DEF ReleaseOK
  <2>4. CASE OnDropShutdown
    <3>1. drop.at = "shutdown" /\ drop'.at = "closed" /\ UNCHANGED handlers
      BY <1>0, <2>4 DEF OnDropShutdown, DropStep
    <3> QED BY <1>0, <2>0, <3>1 DEF ReleaseOK
  <2> QED BY <1>13, <2>1, <2>2, <2>3, <2>4 DEF DropThread
<1>14. ASSUME UNCHANGED <<conn, cmd, drop, shutdown, late, handlers>> PROVE ReleaseOK'
  BY <1>1, <1>14
<1> QED BY <1>2, <1>3, <1>4, <1>5, <1>6, <1>7, <1>8, <1>9, <1>10, <1>11, <1>12, <1>13, <1>14
        DEF Next, CoreMidi, CommandThread

-----------------------------------------------------------------------------
(* What the subscriber is told.                                            *)

LEMMA NextTell ==
  ASSUME TypeOK, ThreadsOK, TellOK, Next
  PROVE  TellOK'
<1>0. /\ cache \in [Uids -> Gens] /\ cmd \in CmdTs /\ global \in GlobalTs
      /\ drop \in [at : {"open", "read", "unhandle", "shutdown", "closed"},
                   conns : SUBSET Sources]
      /\ known \in [Uids -> {"unheard", "there", "gone"}]
  BY TypesAre
<1>b. SUFFICES ASSUME drop'.at = "open" PROVE TellOK'
  BY DEF TellOK
<1>c. drop.at = "open" /\ ~DropThread
  <2>1. ~DropThread
    BY <1>0, <1>b DEF DropThread, OnDrop, OnDropRead, OnDropUnhandle, OnDropShutdown, DropStep
  <2> QED BY <1>b, <2>1, Frames DEF Next, CoreMidi
<1> DEFINE GT(u)  == GlobalWillTell(u)
           CT(u)  == CommandWillTell(u)
<1>d. ASSUME NEW u \in Uids \ crossed
      PROVE  /\ GT(u) /\ ~CT(u) => (global.at = "tell_added" <=> cache[u] # None)
             /\ CT(u) /\ ~GT(u) => (cmd.at # "tell_forgotten" <=> cache[u] # None)
             /\ ~GT(u) /\ ~CT(u) /\ known[u] # "unheard" =>
                  (known[u] = "there" <=> cache[u] # None)
  BY <1>c DEF TellOK
<1>1. ASSUME UNCHANGED <<cache, known, crossed, cmd>>,
             \A u \in Uids : GT(u)' <=> GT(u),
             \A u \in Uids : GT(u) => (global'.at = "tell_added" <=> global.at = "tell_added")
      PROVE  TellOK'
  <2>1. \A u \in Uids : CT(u)' <=> CT(u)
    BY <1>1 DEF CommandWillTell
  <2> QED BY <1>1, <1>d, <2>1 DEF TellOK
<1>2. ASSUME UNCHANGED <<cache, known, crossed, global>>,
             \A u \in Uids : ~CT(u)' /\ ~CT(u)
      PROVE  TellOK'
  <2>1. \A u \in Uids : GT(u)' <=> GT(u)
    BY <1>2 DEF GlobalWillTell
  <2> QED BY <1>2, <1>d, <2>1 DEF TellOK
\* The cache is changed, and the one who changed it is about to tell.
<1>3. ASSUME NEW v \in Uids, \A u \in Uids : u # v => cache'[u] = cache[u],
             UNCHANGED <<known, crossed, cmd>>,
             \A u \in Uids : GT(u)' <=> u = v, \A u \in Uids : ~GT(u),
             global'.at = "tell_added" <=> cache'[v] # None
      PROVE  TellOK'
  <2>1. \A u \in Uids : CT(u)' <=> CT(u)
    BY <1>3 DEF CommandWillTell
  <2> QED BY <1>3, <1>d, <2>1 DEF TellOK
<1>4. ASSUME NEW v \in Uids, \A u \in Uids : u # v => cache'[u] = cache[u],
             UNCHANGED <<known, crossed, global>>,
             \A u \in Uids : CT(u)' <=> u = v, \A u \in Uids : ~CT(u),
             cmd'.at # "tell_forgotten" <=> cache'[v] # None
      PROVE  TellOK'
  <2>1. \A u \in Uids : GT(u)' <=> GT(u)
    BY <1>4 DEF GlobalWillTell
  <2> QED BY <1>4, <1>d, <2>1 DEF TellOK
\* One tells.
<1>5. ASSUME NEW v \in Uids, NEW what \in {"there", "gone"}, Tell(v, what), cache' = cache,
             \A u \in Uids : GT(u) <=> u = v, \A u \in Uids : ~GT(u)', cmd' = cmd,
             what = "there" <=> global.at = "tell_added"
      PROVE  TellOK'
  <2>1. /\ \A u \in Uids : known'[u] = IF u = v THEN what ELSE known[u]
        /\ crossed' = IF GT(v) /\ CT(v) THEN crossed \cup {v} ELSE crossed
    BY <1>0, <1>5, <1>c DEF Tell
  <2>2. \A u \in Uids : CT(u)' <=> CT(u)
    BY <1>5 DEF CommandWillTell
  <2> QED BY <1>5, <1>d, <2>1, <2>2 DEF TellOK
<1>6. ASSUME NEW v \in Uids, NEW what \in {"there", "gone"}, Tell(v, what), cache' = cache,
             \A u \in Uids : CT(u) <=> u = v, \A u \in Uids : ~CT(u)', global' = global,
             what = "there" <=> cmd.at # "tell_forgotten"
      PROVE  TellOK'
  <2>1. /\ \A u \in Uids : known'[u] = IF u = v THEN what ELSE known[u]
        /\ crossed' = IF GT(v) /\ CT(v) THEN crossed \cup {v} ELSE crossed
    BY <1>0, <1>6, <1>c DEF Tell
  <2>2. \A u \in Uids : GT(u)' <=> GT(u)
    BY <1>6 DEF GlobalWillTell
  <2> QED BY <1>6, <1>d, <2>1, <2>2 DEF TellOK
<1> USE DEF CmdStep, Working, Continuing, Carrying, coremidi, maps, clientv, tellv, cmdv,
            GlobalWillTell, CommandWillTell
<1>7. \A u \in Uids : Appears(u) \/ Vanishes(u) \/ DestroyVirtual(u) =>
        UNCHANGED <<cache, known, crossed, cmd, global>>
  BY Frames DEF DestroyVirtual
<1>8. ASSUME UNCHANGED <<cache, known, crossed, cmd, global>> PROVE TellOK'
  BY <1>1, <1>8
<1>9. CASE InitSourceCache \/ InitDestCache
  <2>1. /\ ~Listening /\ UNCHANGED <<known, crossed, cmd>>
        /\ global'.at \in {"scan_dests", "register"}
    BY <1>9 DEF InitSourceCache, InitDestCache, Scan, At, GlobalAt, Listening
  <2>2. cmd.at = "start" /\ \A u \in Uids : known[u] = "unheard"
    BY <2>1 DEF ThreadsOK, GlobalOK
  <2> QED BY <2>1, <2>2 DEF TellOK
<1>10. CASE Register \/ AddedRead
  <2>1. /\ UNCHANGED <<cache, known, crossed, cmd>>
        /\ global.at \in {"register", "idle"} /\ global'.at \in {"idle", "insert"}
    BY <1>10 DEF Register, AddedRead, Take, At, GlobalAt, GlobalStep
  <2> QED BY <1>1, <2>1
<1>11. CASE AddedInsert
  <2>1. /\ global.at = "insert" /\ global.uid \in Uids /\ global.gen # None
        /\ UNCHANGED <<known, crossed, cmd>>
    BY <1>11 DEF AddedInsert, Going, GlobalStep, ThreadsOK, GlobalOK
  <2>2. CASE cache[global.uid] # None
    <3>1. cache' = cache /\ global'.at = "idle"
      BY <1>11, <2>2 DEF AddedInsert, At, GlobalAt
    <3> QED BY <1>1, <2>1, <3>1
  <2>3. CASE cache[global.uid] = None
    <3>1. /\ cache' = [cache EXCEPT ![global.uid] = global.gen]
          /\ global'.at = "tell_added" /\ global'.uid = global.uid
      BY <1>0, <1>11, <2>3 DEF AddedInsert, GlobalTs
    <3>2. /\ \A u \in Uids : u # global.uid => cache'[u] = cache[u]
          /\ cache'[global.uid] # None
      BY <1>0, <2>1, <3>1
    <3> QED BY <1>3, <2>1, <3>1, <3>2
  <2> QED BY <2>2, <2>3
<1>12. CASE AddedTell \/ RemovedTell
  <2>1. /\ global.uid \in Uids /\ cache' = cache /\ cmd' = cmd
        /\ global.at \in {"tell_added", "tell_removed"} /\ global'.at = "idle"
    BY <1>12 DEF AddedTell, RemovedTell, Going, GlobalStep, At, GlobalAt, ThreadsOK, GlobalOK
  <2>2. /\ \A u \in Uids : GT(u) <=> u = global.uid
        /\ \A u \in Uids : ~GT(u)'
    BY <2>1
  <2>3. PICK what \in {"there", "gone"} :
          Tell(global.uid, what) /\ (what = "there" <=> global.at = "tell_added")
    BY <1>12 DEF AddedTell, RemovedTell, Going
  <2> HIDE DEF GlobalWillTell, CommandWillTell
  <2> QED BY <1>5, <2>1, <2>2, <2>3
<1>13. CASE RemovedRead
  <2>1. global.at = "idle" /\ UNCHANGED <<known, crossed, cmd>>
    BY <1>13 DEF RemovedRead, Take, GlobalStep
  <2>2. \/ UNCHANGED <<cache, global>>
        \/ \E v \in Uids : /\ cache' = [cache EXCEPT ![v] = None]
                           /\ global' = GlobalAt("take", v, None, {})
    BY <1>13 DEF RemovedRead, StaleUids
  <2>3. ASSUME NEW v \in Uids, cache' = [cache EXCEPT ![v] = None],
               global' = GlobalAt("take", v, None, {})
        PROVE  TellOK'
    <3>1. global'.at = "take" /\ global'.uid = v
      BY <2>3 DEF GlobalAt
    <3>2. cache'[v] = None /\ \A u \in Uids : u # v => cache'[u] = cache[u]
      BY <1>0, <2>3
    <3> QED BY <1>3, <2>1, <3>1, <3>2
  <2> QED BY <1>8, <2>1, <2>2, <2>3
<1>14. CASE RemovedTake \/ RemovedRun
  <2>1. /\ UNCHANGED <<cache, known, crossed, cmd>> /\ global'.uid = global.uid
        /\ global.at \in {"take", "run"} /\ global'.at \in {"run", "tell_removed"}
    BY <1>14 DEF RemovedTake, RemovedRun, Going, GlobalStep, GlobalAt
  <2> QED BY <1>1, <2>1
<1>15. Start \/ ConnectClear \/ ConnectHandler \/ ConnectAttach \/ ConnectInsert \/ Unhandle
       \/ Stop =>
         /\ UNCHANGED <<cache, known, crossed, global>>
         /\ \A u \in Uids : ~CT(u)' /\ ~CT(u)
  BY <1>0 DEF Start, ConnectClear, ConnectHandler, ConnectAttach, ConnectInsert, Unhandle, Stop,
     Idle, CmdAt, CmdTs
<1>16. \A v \in Uids : Disconnect(v) \/ CreateVirtual(v) \/ ChooseUniqueId(v) =>
         /\ UNCHANGED <<cache, known, crossed, global>>
         /\ \A u \in Uids : ~CT(u)' /\ ~CT(u)
  BY <1>0 DEF Disconnect, CreateVirtual, ChooseUniqueId, Idle, CmdAt, CmdTs
<1>17. ASSUME NEW v \in Uids, ConnectLookup(v) PROVE TellOK'
  <2> DEFINE g == IF cache[v] # None THEN cache[v] ELSE obj[v]
  <2>1. /\ cmd.at = "idle" /\ UNCHANGED <<known, crossed, global>> /\ g # None
        /\ cache' = [cache EXCEPT ![v] = g]
        /\ cmd'.uid = v
        /\ cmd'.at = IF cache[v] = None THEN "connect_tell"
                     ELSE IF v \in Sources THEN "handler" ELSE "clear"
    BY <1>17 DEF ConnectLookup, CmdAt
  <2>2. cache'[v] = g /\ \A u \in Uids : u # v => cache'[u] = cache[u]
    BY <1>0, <2>1
  <2>3. CASE cache[v] = None
    BY <1>4, <2>1, <2>2, <2>3
  <2>4. CASE cache[v] # None
    <3>1. cache' = cache
      BY <1>0, <2>1, <2>4
    <3> QED BY <1>2, <2>1, <2>4, <3>1
  <2> QED BY <2>3, <2>4
<1>18. CASE ConnectTell \/ TellForgotten \/ VirtualTell
  <2>1. /\ cache' = cache /\ global' = global
        /\ cmd.at \in {"connect_tell", "tell_forgotten", "add_tell"}
        /\ cmd'.at \in {"handler", "clear", "add", "idle"}
    BY <1>0, <1>18 DEF ConnectTell, TellForgotten, VirtualTell, Idle, CmdAt, CmdTs
  <2>2. cmd.uid \in Uids
    BY <2>1 DEF ThreadsOK, ConnectOK, VirtualOK, Connecting, Replacing
  <2>3. /\ \A u \in Uids : CT(u) <=> u = cmd.uid
        /\ \A u \in Uids : ~CT(u)'
    BY <2>1
  <2>4. PICK what \in {"there", "gone"} :
          Tell(cmd.uid, what) /\ (what = "there" <=> cmd.at # "tell_forgotten")
    BY <1>18 DEF ConnectTell, TellForgotten, VirtualTell
  <2> HIDE DEF GlobalWillTell, CommandWillTell
  <2> QED BY <1>6, <2>1, <2>2, <2>3, <2>4
<1>19. CASE ForgetAssigned
  <2>1. /\ cmd.at = "forget" /\ cmd.uid \in Uids /\ UNCHANGED <<known, crossed, global>>
        /\ cache' = [cache EXCEPT ![cmd.uid] = None]
    BY <1>19 DEF ForgetAssigned, ThreadsOK, VirtualOK, Replacing
  <2>2. cache'[cmd.uid] = None /\ \A u \in Uids : u # cmd.uid => cache'[u] = cache[u]
    BY <1>0, <2>1
  <2>3. CASE cache[cmd.uid] = None
    <3>1. cache' = cache /\ cmd'.at = "add"
      BY <1>0, <1>19, <2>1, <2>3 DEF ForgetAssigned, CmdAt
    <3> QED BY <1>2, <2>1, <3>1
  <2>4. CASE cache[cmd.uid] # None
    <3>1. cmd'.at = "tell_forgotten" /\ cmd'.uid = cmd.uid
      BY <1>0, <1>19, <2>4 DEF ForgetAssigned, CmdTs
    <3> QED BY <1>4, <2>1, <2>2, <3>1
  <2> QED BY <2>3, <2>4
<1>20. CASE VirtualAdd
  <2>1. /\ cmd.at = "add" /\ cmd.uid \in Uids /\ cmd.gen # None
        /\ UNCHANGED <<known, crossed, global>>
    BY <1>20, Zeros DEF VirtualAdd, ThreadsOK, VirtualOK, Replacing
  <2>2. CASE cache[cmd.uid] # None
    <3>1. cache' = cache /\ cmd'.at = "idle"
      BY <1>20, <2>2 DEF VirtualAdd, Idle, CmdAt
    <3> QED BY <1>2, <2>1, <3>1
  <2>3. CASE cache[cmd.uid] = None
    <3>1. /\ cmd'.at = "add_tell" /\ cmd'.uid = cmd.uid
          /\ cache' = [cache EXCEPT ![cmd.uid] = cmd.gen]
      BY <1>0, <1>20, <2>3 DEF VirtualAdd, CmdTs
    <3>2. cache'[cmd.uid] # None /\ \A u \in Uids : u # cmd.uid => cache'[u] = cache[u]
      BY <1>0, <2>1, <3>1
    <3> QED BY <1>4, <2>1, <3>1, <3>2
  <2> QED BY <2>2, <2>3
<1> HIDE DEF GlobalWillTell, CommandWillTell
<1> QED BY <1>2, <1>7, <1>8, <1>9, <1>10, <1>11, <1>12, <1>13, <1>14, <1>15, <1>16, <1>17,
           <1>18, <1>19, <1>20, <1>c DEF Next, CoreMidi, GlobalThread, CommandThread

-----------------------------------------------------------------------------
(* The notifications queued and taken.                                     *)

\* Those there were stay where they are.
Longer == \A i \in DOMAIN notes : i \in DOMAIN notes' /\ notes'[i] = notes[i]

LEMMA OneMore ==
  ASSUME notes \in Seq(Notes), NEW event \in {"added", "removed"}, NEW u \in Uids,
         NEW g \in Gens, Queue(<<Note(event, u, g)>>), Listening
  PROVE  /\ Longer
         /\ \E k \in DOMAIN notes' \ DOMAIN notes :
              /\ notes'[k] = Note(event, u, g)
              /\ \A i \in DOMAIN notes' : i \in DOMAIN notes \/ i = k
              /\ \A i \in DOMAIN notes : i < k
<1> DEFINE e == <<Note(event, u, g)>>
           k == Len(notes) + 1
<1>1. e \in Seq(Notes) /\ Len(e) = 1 /\ e[1] = Note(event, u, g)
  BY OneNote
<1>2. Queue(e)
  OBVIOUS
<1> HIDE DEF e
<1>3. /\ Longer /\ Len(notes) \in Nat
      /\ DOMAIN notes = 1..Len(notes) /\ DOMAIN notes' = 1..Len(notes')
      /\ Len(notes') = Len(notes) + 1 /\ notes'[Len(notes) + 1] = e[1]
  <2>1. /\ Len(notes) \in Nat
        /\ DOMAIN notes = 1..Len(notes) /\ DOMAIN notes' = 1..Len(notes')
        /\ Len(notes') = Len(notes) + Len(e)
        /\ \A i \in 1..Len(e) : notes'[Len(notes) + i] = e[i]
    BY <1>1, <1>2, Queued
  <2>2. Longer
    <3>1. /\ \A i \in DOMAIN notes : notes'[i] = notes[i]
          /\ Len(notes) <= Len(notes') /\ Len(notes') \in Nat
      BY <1>1, <1>2, Queued
    <3>2. \A i \in DOMAIN notes : i \in DOMAIN notes'
      BY <2>1, <3>1
    <3> QED BY <3>1, <3>2 DEF Longer
  <2>3. 1 \in 1..Len(e)
    BY <1>1
  <2> QED BY <1>1, <2>1, <2>2, <2>3
<1>4. k \in DOMAIN notes' \ DOMAIN notes
  BY <1>3
<1>5. \A i \in DOMAIN notes' : i \in DOMAIN notes \/ i = k
  BY <1>3
<1>6. \A i \in DOMAIN notes : i < k
  BY <1>3
<1>7. notes'[k] = Note(event, u, g)
  BY <1>1, <1>3
<1> QED BY <1>3, <1>4, <1>5, <1>6, <1>7

LEMMA NoMore ==
  ASSUME notes \in Seq(Notes), UNCHANGED notes
  PROVE  Longer
BY DEF Longer

\* Stop queues a removal for each virtual port.
LEMMA StopMore ==
  ASSUME TypeOK, ThreadsOK, Stop
  PROVE  /\ Longer
         /\ \A k \in DOMAIN notes' \ DOMAIN notes :
              \E u \in Gone : notes'[k] = Note("removed", u, obj[u])
         /\ \A u \in Gone : \E k \in DOMAIN notes' \ DOMAIN notes :
              notes'[k] = Note("removed", u, obj[u])
<1>0. notes \in Seq(Notes)
  BY TypesAre
<1>1. Listening
  BY DEF Stop, Carrying, Continuing, ThreadsOK, GlobalOK
<1>2. PICK order \in [1..Cardinality(Gone) -> Gone] :
        /\ Queue(Removals(order)) /\ Removals(order) \in Seq(Notes)
        /\ Cardinality(Gone) \in Nat /\ Len(Removals(order)) = Cardinality(Gone)
        /\ \A i \in 1..Cardinality(Gone) :
             Removals(order)[i] = Note("removed", order[i], obj[order[i]])
        /\ \A u \in Gone : \E i \in 1..Cardinality(Gone) : order[i] = u
  BY StopQueues
<1> DEFINE es == Removals(order)
           n  == Cardinality(Gone)
<1>3. es \in Seq(Notes) /\ Queue(es) /\ Len(es) = n /\ n \in Nat
  BY <1>2
<1> HIDE DEF es
<1>4. /\ Len(notes) \in Nat /\ Len(notes') \in Nat
      /\ DOMAIN notes = 1..Len(notes) /\ DOMAIN notes' = 1..Len(notes')
      /\ Len(notes') = Len(notes) + n
      /\ \A i \in DOMAIN notes : notes'[i] = notes[i]
      /\ \A i \in 1..n : notes'[Len(notes) + i] = es[i]
      /\ \A i \in DOMAIN notes' \ DOMAIN notes :
           i - Len(notes) \in 1..n /\ notes'[i] = es[i - Len(notes)]
  BY <1>0, <1>1, <1>3, Queued
<1>5. Longer
  <2>1. \A i \in DOMAIN notes : i \in DOMAIN notes'
    BY <1>3, <1>4
  <2> QED BY <1>4, <2>1 DEF Longer
<1>6. ASSUME NEW k \in DOMAIN notes' \ DOMAIN notes
      PROVE  \E u \in Gone : notes'[k] = Note("removed", u, obj[u])
  <2>1. PICK i \in 1..n : notes'[k] = es[i]
    BY <1>4
  <2>2. order[i] \in Gone /\ es[i] = Note("removed", order[i], obj[order[i]])
    BY <1>2 DEF es
  <2> QED BY <2>1, <2>2
<1>7. ASSUME NEW u \in Gone
      PROVE  \E k \in DOMAIN notes' \ DOMAIN notes : notes'[k] = Note("removed", u, obj[u])
  <2>1. PICK i \in 1..n : order[i] = u
    BY <1>2
  <2>2. Len(notes) + i \in DOMAIN notes' \ DOMAIN notes
    BY <1>3, <1>4
  <2>3. notes'[Len(notes) + i] = es[i]
    BY <1>4
  <2>4. es[i] = Note("removed", u, obj[u])
    BY <1>2, <2>1 DEF es
  <2> QED BY <2>2, <2>3, <2>4
<1> QED BY <1>5, <1>6, <1>7

\* What is taken is the first; the others move up, in their order.
LEMMA MoveUp ==
  ASSUME notes \in Seq(Notes), notes # <<>>, notes' = Tail(notes)
  PROVE  /\ \A i \in DOMAIN notes' : \E k \in DOMAIN notes :
              k = i + 1 /\ notes'[i] = notes[k]
         /\ \A k \in DOMAIN notes : k # 1 =>
              \E i \in DOMAIN notes' : k = i + 1 /\ notes'[i] = notes[k]
         /\ 1 \in DOMAIN notes /\ notes[1] = Head(notes)
         /\ DOMAIN notes \subseteq Nat /\ DOMAIN notes' \subseteq Nat
<1>1. \A i \in DOMAIN notes' : i + 1 \in DOMAIN notes /\ notes'[i] = notes[i + 1]
  BY TakenNote
<1>2. \A k \in DOMAIN notes : k # 1 => k - 1 \in DOMAIN notes' /\ notes'[k - 1] = notes[k]
  BY TakenNote
<1>3. 1 \in DOMAIN notes /\ notes[1] = Head(notes)
  BY TakenNote
<1>4. DOMAIN notes \subseteq Nat /\ DOMAIN notes' \subseteq Nat
  BY TakenNote
<1>5. ASSUME NEW k \in DOMAIN notes, k # 1
      PROVE  \E i \in DOMAIN notes' : k = i + 1 /\ notes'[i] = notes[k]
  <2>1. k - 1 \in DOMAIN notes' /\ notes'[k - 1] = notes[k]
    BY <1>2, <1>5
  <2>2. k = (k - 1) + 1
    BY <1>4
  <2> QED BY <2>1, <2>2
<1> QED BY <1>1, <1>3, <1>4, <1>5

-----------------------------------------------------------------------------
(* Every endpoint is on the list, or coming.                               *)

Onward == {"choose", "forget", "tell_forgotten", "add"}

\* A step that leaves an endpoint and its place on the list alone, and what is to put
\* it there.
LEMMA ExistStays ==
  ASSUME NEW u, ExistAt(u), Longer, obj'[u] = obj[u],
         cache[u] # None => cache'[u] # None,
         Listening' \/ Scanned(u)' => Listening \/ Scanned(u),
         \A k \in DOMAIN notes' \ DOMAIN notes : ~Removes(k, u)',
         global.at = "insert" /\ global.uid = u =>
           (global'.at = "insert" /\ global'.uid = u) \/ cache'[u] # None,
         obj[u] # None /\ cmd.at \in Onward /\ cmd.gen = obj[u] =>
           (cmd'.at \in Onward /\ cmd'.gen = obj[u]) \/ cache'[u] # None
  PROVE  ExistAt(u)'
<1> SUFFICES ASSUME obj'[u] # None
             PROVE  /\ Listening' \/ Scanned(u)' => cache'[u] # None \/ Coming(u)'
                    /\ RemovedKnown =>
                         \A i \in DOMAIN notes' : Removes(i, u)' =>
                           \E j \in DOMAIN notes' : i < j /\ Adds(j, obj[u])'
  BY DEF ExistAt
<1>1. ASSUME NEW i \in DOMAIN notes PROVE i \in DOMAIN notes' /\ notes'[i] = notes[i]
  BY DEF Longer
<1>2. ASSUME Listening' \/ Scanned(u)' PROVE cache'[u] # None \/ Coming(u)'
  <2>1. cache[u] # None \/ Coming(u)
    BY <1>2 DEF ExistAt
  <2>2. CASE \E i \in DOMAIN notes : Adds(i, obj[u])
    BY <1>1, <2>2 DEF Adds, Coming
  <2>3. CASE global.at = "insert" /\ global.uid = u
    BY <2>3 DEF Coming
  <2>4. CASE cmd.at \in Onward /\ cmd.gen = obj[u]
    BY <2>4 DEF Coming, Onward
  <2> QED BY <2>1, <2>2, <2>3, <2>4 DEF Coming, Onward
<1>3. ASSUME RemovedKnown, NEW i \in DOMAIN notes', Removes(i, u)'
      PROVE  \E j \in DOMAIN notes' : i < j /\ Adds(j, obj[u])'
  <2>1. i \in DOMAIN notes /\ Removes(i, u)
    BY <1>1, <1>3 DEF Removes
  <2>2. PICK j \in DOMAIN notes : i < j /\ Adds(j, obj[u])
    BY <1>3, <2>1 DEF ExistAt
  <2> QED BY <1>1, <2>2 DEF Adds
<1> QED BY <1>2, <1>3

\* An endpoint appears, and the notification says so.
LEMMA ExistAppears ==
  ASSUME TypeOK, ThreadsOK, NEW u \in Uids, obj'[u] = made + 1, made + 1 \in Gens,
         Queue(<<Note("added", u, made + 1)>>), UNCHANGED global,
         Listening \/ ~Scanned(u)
  PROVE  ExistAt(u)'
<1>0. notes \in Seq(Notes)
  BY TypesAre
<1>1. CASE Listening
  <2>1. PICK k \in DOMAIN notes' \ DOMAIN notes :
          /\ notes'[k] = Note("added", u, made + 1)
          /\ \A i \in DOMAIN notes' : i \in DOMAIN notes \/ i = k
          /\ \A i \in DOMAIN notes : i < k
    BY <1>0, <1>1, OneMore
  <2>2. Adds(k, obj[u])'
    BY <2>1 DEF Adds, Note
  <2>3. \A i \in DOMAIN notes' : Removes(i, u)' => i < k
    BY <2>1 DEF Removes, Note
  <2> QED BY <2>2, <2>3 DEF ExistAt, Coming
<1>2. CASE ~Listening
  <2>1. notes' = <<>> /\ ~Listening' /\ ~Scanned(u)'
    BY <1>2 DEF Queue, ThreadsOK, GlobalOK, Listening, Scanned
  <2> QED BY <2>1 DEF ExistAt
<1> QED BY <1>1, <1>2

LEMMA ExistEndpoints ==
  ASSUME TypeOK, ThreadsOK, ExistOK, NEW v \in Uids, Appears(v) \/ Vanishes(v)
  PROVE  ExistOK'
<1> SUFFICES ASSUME NEW u \in Uids \ unnoticed' PROVE ExistAt(u)'
  BY DEF ExistOK
<1>0. /\ notes \in Seq(Notes) /\ obj \in [Uids -> Gens] /\ cache \in [Uids -> Gens]
      /\ UNCHANGED <<cache, cmd, global>>
      /\ unnoticed' = IF Scanned(v) THEN unnoticed \cup {v} ELSE unnoticed
  BY TypesAre, Frames DEF Appears, Vanishes, Changes
<1>1. u \notin unnoticed /\ ExistAt(u) /\ (u = v => ~Scanned(u))
  BY <1>0 DEF ExistOK
<1>2. made < MaxGens => made + 1 \in Gens
  BY TypesAre, Zeros, SMTT(30)
<1>3. CASE u = v /\ Appears(v)
  <2>1. made + 1 \in Gens /\ obj'[u] = made + 1 /\ Queue(<<Note("added", u, made + 1)>>)
    BY <1>0, <1>2, <1>3 DEF Appears
  <2> QED BY <1>0, <1>1, <1>3, <2>1, ExistAppears
<1>4. CASE u = v /\ Vanishes(v)
  BY <1>0, <1>4 DEF Vanishes, ExistAt
<1>5. CASE u # v
  <2>1. obj'[u] = obj[u]
    BY <1>0, <1>5 DEF Appears, Vanishes
  <2>2. PICK event \in {"added", "removed"}, g \in Gens : Queue(<<Note(event, v, g)>>)
    BY <1>0, <1>2 DEF Appears, Vanishes
  <2>3. Longer /\ \A k \in DOMAIN notes' \ DOMAIN notes : ~Removes(k, u)'
    <3>1. CASE Listening
      BY <1>0, <1>5, <2>2, <3>1, OneMore DEF Removes, Note
    <3>2. CASE ~Listening
      BY <1>0, <2>2, <3>2, NoMore DEF Queue
    <3> QED BY <3>1, <3>2
  <2>4. Listening' \/ Scanned(u)' => Listening \/ Scanned(u)
    BY <1>0 DEF Listening, Scanned
  <2> QED BY <1>0, <1>1, <2>1, <2>3, <2>4, ExistStays
<1> QED BY <1>3, <1>4, <1>5

\* A notification is taken, and nothing it announces is lost by it.
LEMMA ExistTaken ==
  ASSUME TypeOK, NEW u \in Uids, ExistAt(u), notes # <<>>, notes' = Tail(notes),
         UNCHANGED <<obj, cmd>>, global.at = "idle", Listening,
         Adds(1, obj[u]) => global'.at = "insert" /\ global'.uid = u,
         cache'[u] = None /\ obj[u] # None /\ cache[u] # None =>
           RemovedKnown /\ Removes(1, u)
  PROVE  ExistAt(u)'
<1> SUFFICES ASSUME obj[u] # None
             PROVE  /\ cache'[u] # None \/ Coming(u)'
                    /\ RemovedKnown =>
                         \A i \in DOMAIN notes' : Removes(i, u)' =>
                           \E j \in DOMAIN notes' : i < j /\ Adds(j, obj[u])'
  BY DEF ExistAt
<1>0. notes \in Seq(Notes)
  BY TypesAre
<1>1. /\ \A i \in DOMAIN notes' : \E k \in DOMAIN notes : k = i + 1 /\ notes'[i] = notes[k]
      /\ \A k \in DOMAIN notes : k # 1 => \E i \in DOMAIN notes' : k = i + 1 /\ notes'[i] = notes[k]
      /\ 1 \in DOMAIN notes
      /\ DOMAIN notes \subseteq Nat /\ DOMAIN notes' \subseteq Nat
  BY <1>0, MoveUp
<1>2. ASSUME NEW k \in DOMAIN notes, Adds(k, obj[u]) PROVE Coming(u)'
  <2>1. CASE k = 1
    BY <1>2, <2>1 DEF Coming
  <2>2. CASE k # 1
    <3>1. PICK i \in DOMAIN notes' : notes'[i] = notes[k]
      BY <1>1, <2>2
    <3>2. Adds(i, obj[u])'
      BY <1>2, <3>1 DEF Adds
    <3> QED BY <3>2 DEF Coming
  <2> QED BY <2>1, <2>2
<1>3. cache'[u] # None \/ Coming(u)'
  <2>1. cache[u] # None \/ Coming(u)
    BY DEF ExistAt
  <2>2. CASE Coming(u)
    BY <1>2, <2>2 DEF Coming
  <2>3. CASE cache[u] # None /\ cache'[u] = None
    <3>1. \E j \in DOMAIN notes : Adds(j, obj[u])
      BY <1>1, <2>3 DEF ExistAt
    <3> QED BY <1>2, <3>1
  <2> QED BY <2>1, <2>2, <2>3
<1>4. ASSUME RemovedKnown, NEW i \in DOMAIN notes', Removes(i, u)'
      PROVE  \E j \in DOMAIN notes' : i < j /\ Adds(j, obj[u])'
  <2>1. PICK k \in DOMAIN notes : k = i + 1 /\ notes'[i] = notes[k]
    BY <1>1
  <2>2. Removes(k, u)
    BY <1>4, <2>1 DEF Removes
  <2>3. PICK l \in DOMAIN notes : k < l /\ Adds(l, obj[u])
    BY <1>4, <2>2 DEF ExistAt
  <2>4. l # 1
    BY <1>1, <2>1, <2>3
  <2>5. PICK j \in DOMAIN notes' : l = j + 1 /\ notes'[j] = notes[l]
    BY <1>1, <2>4
  <2>6. i < j
    BY <1>1, <2>1, <2>3, <2>5
  <2> QED BY <2>3, <2>5, <2>6 DEF Adds
<1> QED BY <1>3, <1>4

\* An object tells the id it has, or else one whose removal is on its way.
LEMMA AddedReadIs ==
  ASSUME ThreadsOK, notes \in Seq(Notes), AddedRead
  PROVE  \/ global' = global /\ \A u \in Uids : obj[u] # Head(notes).gen
         \/ \E v \in Uids :
              /\ global' = GlobalAt("insert", v, Head(notes).gen, {})
              /\ \A u \in Uids : obj[u] = Head(notes).gen => u = v
              /\ obj[v] # None \/ (RemovedKnown /\ \E i \in DOMAIN notes : Removes(i, v))
<1> DEFINE g == Head(notes).gen
           uids == IdTold(g)
<1>1. g # None
  <2>1. notes # <<>>
    BY DEF AddedRead, Take
  <2>2. notes[1] = Head(notes) /\ 1 \in DOMAIN notes
    BY <2>1
  <2> QED BY <2>2 DEF ThreadsOK, GlobalOK
<1>2. global' = IF uids = {} THEN global ELSE GlobalAt("insert", CHOOSE v \in uids : TRUE, g, {})
  BY DEF AddedRead
<1>3. /\ uids \subseteq Uids
      /\ \A u \in Uids : obj[u] = g => uids = {w \in Uids : obj[w] = g}
  BY DEF IdTold
<1>4. ASSUME NEW v \in uids
      PROVE  obj[v] = g \/ (RemovedKnown /\ \E i \in DOMAIN notes : Removes(i, v))
  BY <1>4 DEF IdTold, Removes, Note
<1>5. ASSUME NEW u \in Uids, obj[u] = g PROVE uids = {u}
  BY <1>1, <1>3, <1>5 DEF ThreadsOK, VirtualOK
<1> HIDE DEF uids, g
<1>6. CASE uids = {}
  <2>1. global' = global /\ \A u \in Uids : obj[u] # g
    BY <1>2, <1>5, <1>6
  <2> QED BY <2>1 DEF g
<1>7. CASE uids # {}
  <2>1. PICK v \in uids : v = CHOOSE w \in uids : TRUE
    BY <1>7
  <2>2. global' = GlobalAt("insert", v, g, {})
    BY <1>2, <1>7, <2>1
  <2>3. \A u \in Uids : obj[u] = g => u = v
    BY <1>5
  <2>4. obj[v] # None \/ (RemovedKnown /\ \E i \in DOMAIN notes : Removes(i, v))
    BY <1>1, <1>4
  <2> QED BY <1>3, <2>2, <2>3, <2>4 DEF g
<1> QED BY <1>6, <1>7

LEMMA ExistGlobal ==
  ASSUME TypeOK, ThreadsOK, ListOK, GlobalThread
  PROVE  ExistOK'
<1>0. /\ notes \in Seq(Notes) /\ obj \in [Uids -> Gens] /\ cache \in [Uids -> Gens]
      /\ UNCHANGED <<obj, cmd>> /\ Uids = Sources \cup Destinations
      /\ global \in GlobalTs
  BY TypesAre, Frames DEF Uids
<1>a. unnoticed \subseteq unnoticed'
  BY DEF GlobalThread, InitSourceCache, InitDestCache, Scan, Register, AddedRead, AddedInsert,
     AddedTell, RemovedRead, RemovedTake, RemovedRun, RemovedTell, Going, history
<1> SUFFICES ASSUME NEW u \in Uids \ unnoticed' PROVE ExistAt(u)'
  BY DEF ExistOK
<1>b. u \notin unnoticed /\ ExistAt(u)
  BY <1>a DEF ListOK, ExistOK
<1>1. CASE InitSourceCache \/ InitDestCache
  <2>1. /\ notes' = notes /\ ~Listening /\ ~Listening'
        /\ cache' = [v \in Uids |-> IF v \in (IF InitSourceCache THEN Sources ELSE Destinations)
                                    THEN obj[v] ELSE cache[v]]
        /\ IF InitSourceCache THEN global'.at = "scan_dests"
           ELSE global.at = "scan_dests" /\ global'.at = "register"
    BY <1>1 DEF InitSourceCache, InitDestCache, Scan, At, GlobalAt, coremidi, Listening
  <2>2. notes = <<>> /\ ~Coming(u)
    BY <2>1 DEF ThreadsOK, GlobalOK, Coming, Listening
  <2>3. Scanned(u)' => cache'[u] = obj[u] \/ (Scanned(u) /\ cache'[u] = cache[u])
    BY <1>0, <2>1 DEF Scanned
  <2> QED BY <1>0, <1>b, <2>1, <2>2, <2>3 DEF ExistAt
<1>2. CASE AddedRead
  <2>0. /\ notes # <<>> /\ notes' = Tail(notes) /\ global.at = "idle" /\ cache' = cache
        /\ notes[1] = Head(notes)
    BY <1>0, <1>2, MoveUp DEF AddedRead, Take
  <2>1. ASSUME Adds(1, obj[u]), obj[u] # None
        PROVE  global'.at = "insert" /\ global'.uid = u
    <3>1. obj[u] = Head(notes).gen
      BY <2>0, <2>1 DEF Adds
    <3>2. PICK v \in Uids : /\ global' = GlobalAt("insert", v, Head(notes).gen, {})
                            /\ \A w \in Uids : obj[w] = Head(notes).gen => w = v
      BY <1>0, <1>2, <3>1, AddedReadIs
    <3> QED BY <3>1, <3>2 DEF GlobalAt
  <2>2. CASE obj[u] # None
    BY <1>0, <1>b, <2>0, <2>1, <2>2, ExistTaken DEF Listening
  <2>3. CASE obj[u] = None
    BY <1>0, <2>3 DEF ExistAt
  <2> QED BY <2>2, <2>3
<1>3. CASE RemovedRead
  <2>0. /\ notes # <<>> /\ notes' = Tail(notes) /\ global.at = "idle"
        /\ notes[1] = Head(notes) /\ Head(notes).event = "removed"
    BY <1>0, <1>3, MoveUp DEF RemovedRead, Take
  <2>1. ~Adds(1, obj[u])
    BY <2>0 DEF Adds
  <2>2. cache'[u] = None /\ obj[u] # None /\ cache[u] # None => RemovedKnown /\ Removes(1, u)
    <3>1. \/ cache' = cache
          \/ \E v \in Uids : /\ cache' = [cache EXCEPT ![v] = None]
                             /\ \/ RemovedKnown /\ v = Head(notes).uid
                                \/ obj[v] = None
      BY <1>3 DEF RemovedRead, StaleUids
    <3>2. ASSUME NEW v \in Uids, cache' = [cache EXCEPT ![v] = None],
                 \/ RemovedKnown /\ v = Head(notes).uid
                 \/ obj[v] = None
          PROVE  cache'[u] = None /\ obj[u] # None /\ cache[u] # None =>
                   RemovedKnown /\ Removes(1, u)
      <4>1. u # v => cache'[u] = cache[u]
        BY <1>0, <3>2
      <4> QED BY <2>0, <3>2, <4>1 DEF Removes
    <3> QED BY <3>1, <3>2
  <2> QED BY <1>0, <1>b, <2>0, <2>1, <2>2, ExistTaken DEF Listening
<1>4. CASE AddedInsert
  <2>1. /\ notes' = notes /\ global.at = "insert" /\ global.gen # None /\ global.uid \in Uids
    BY <1>4 DEF AddedInsert, Going, ThreadsOK, GlobalOK
  <2>2. /\ cache[u] # None => cache'[u] # None
        /\ u = global.uid => cache'[u] # None
    BY <1>0, <1>4, <2>1 DEF AddedInsert
  <2>3. Longer /\ DOMAIN notes' \ DOMAIN notes = {}
    BY <1>0, <2>1, NoMore
  <2>4. Listening' \/ Scanned(u)' => Listening \/ Scanned(u)
    BY <2>1 DEF Listening
  <2> QED BY <1>0, <1>b, <2>2, <2>3, <2>4, ExistStays
<1>5. CASE Register \/ AddedTell \/ RemovedTake \/ RemovedRun \/ RemovedTell
  <2>1. UNCHANGED <<notes, cache>> /\ global.at # "insert"
    BY <1>5 DEF Register, AddedTell, RemovedTake, RemovedRun, RemovedTell, Going, coremidi, maps
  <2>2. Longer /\ DOMAIN notes' \ DOMAIN notes = {}
    BY <1>0, <2>1, NoMore
  <2>3. Listening \/ Scanned(u)
    BY <1>5 DEF Register, AddedTell, RemovedTake, RemovedRun, RemovedTell, Going, Listening,
       Scanned
  <2> QED BY <1>0, <1>b, <2>1, <2>2, <2>3, ExistStays
<1> QED BY <1>1, <1>2, <1>3, <1>4, <1>5 DEF GlobalThread

LEMMA ExistCommand ==
  ASSUME TypeOK, ThreadsOK, ListOK, CommandThread
  PROVE  ExistOK'
<1>0. /\ notes \in Seq(Notes) /\ obj \in [Uids -> Gens] /\ cache \in [Uids -> Gens]
      /\ cmd \in CmdTs /\ cmd.gen \in Gens /\ UNCHANGED global
  BY TypesAre, Frames DEF CmdTs
<1> USE DEF CmdStep, Working, Continuing, Carrying, coremidi, maps
<1>a. unnoticed \subseteq unnoticed'
  BY DEF CommandThread, Start, ConnectLookup, ConnectTell, ConnectClear, ConnectHandler,
         ConnectAttach, ConnectInsert, Disconnect, Unhandle, CreateVirtual, ChooseUniqueId,
         ForgetAssigned, TellForgotten, VirtualAdd, VirtualTell, DestroyVirtual, Stop
<1> SUFFICES ASSUME NEW u \in Uids \ unnoticed' PROVE ExistAt(u)'
  BY DEF ExistOK
<1>b. u \notin unnoticed /\ ExistAt(u)
  BY <1>a DEF ListOK, ExistOK
<1>c. (Listening' <=> Listening) /\ (Scanned(u)' <=> Scanned(u))
  BY <1>0 DEF Listening, Scanned
<1>1. ASSUME UNCHANGED <<notes, obj>>, cache[u] # None => cache'[u] # None,
             obj[u] # None /\ cmd.at \in Onward /\ cmd.gen = obj[u] =>
               (cmd'.at \in Onward /\ cmd'.gen = obj[u]) \/ cache'[u] # None
      PROVE  ExistAt(u)'
  <2>1. Longer /\ DOMAIN notes' \ DOMAIN notes = {}
    BY <1>0, <1>1, NoMore
  <2> QED BY <1>0, <1>1, <1>b, <1>c, <2>1, ExistStays
<1>2. Start \/ ConnectTell \/ ConnectClear \/ ConnectHandler \/ ConnectAttach \/ ConnectInsert
      \/ Unhandle \/ VirtualTell =>
        UNCHANGED <<notes, obj, cache>> /\ cmd.at \notin Onward
  BY DEF Start, ConnectTell, ConnectClear, ConnectHandler, ConnectAttach, ConnectInsert, Unhandle,
     VirtualTell, Onward
<1>3. ASSUME NEW v \in Uids, ConnectLookup(v) PROVE ExistAt(u)'
  <2>1. /\ UNCHANGED <<notes, obj>> /\ cmd.at \notin Onward
        /\ cache' = [cache EXCEPT ![v] = IF cache[v] # None THEN cache[v] ELSE obj[v]]
    BY <1>3 DEF ConnectLookup, Onward
  <2>2. cache[u] # None => cache'[u] # None
    BY <1>0, <2>1
  <2> QED BY <1>1, <2>1, <2>2
<1>4. \A v \in Uids : Disconnect(v) => UNCHANGED <<notes, obj, cache>> /\ cmd.at \notin Onward
  BY DEF Disconnect, Onward
<1>5. ASSUME NEW v \in Uids, NEW g \in Gens, obj'[u] = obj[u],
             Queue(<<Note("removed", v, g)>>), cache' = cache,
             obj[u] # None => u # v,
             obj[u] # None /\ cmd.at \in Onward => cmd.gen # obj[u]
      PROVE  ExistAt(u)'
  <2>0. CASE obj[u] = None
    BY <1>5, <2>0 DEF ExistAt
  <2>1. CASE obj[u] # None /\ Listening
    <3>1. Longer /\ \A k \in DOMAIN notes' \ DOMAIN notes : ~Removes(k, u)'
      BY <1>0, <1>5, <2>1, OneMore DEF Removes, Note
    <3> QED BY <1>0, <1>5, <1>b, <1>c, <2>1, <3>1, ExistStays
  <2>2. CASE ~Listening
    <3>1. Longer /\ DOMAIN notes' \ DOMAIN notes = {}
      BY <1>0, <1>5, <2>2, NoMore DEF Queue
    <3> QED BY <1>0, <1>5, <1>b, <1>c, <3>1, ExistStays
  <2> QED BY <2>0, <2>1, <2>2
<1>6. ASSUME NEW v \in Uids, CreateVirtual(v) PROVE ExistAt(u)'
  <2>1. /\ obj' = [obj EXCEPT ![v] = made + 1] /\ Queue(<<Note("added", v, made + 1)>>)
        /\ cache' = cache /\ cmd.at = "idle" /\ Listening
    BY <1>6 DEF CreateVirtual, ThreadsOK, GlobalOK
  <2>2. made + 1 \in Gens
    BY <1>6, TypesAre, Zeros, SMTT(30) DEF CreateVirtual
  <2>3. CASE u = v
    BY <1>0, <2>1, <2>2, <2>3, ExistAppears
  <2>4. CASE u # v
    <3>1. Longer /\ \A k \in DOMAIN notes' \ DOMAIN notes : ~Removes(k, u)'
      BY <1>0, <2>1, <2>2, <2>4, OneMore DEF Removes, Note
    <3>2. obj'[u] = obj[u] /\ cmd.at \notin Onward
      BY <1>0, <2>1, <2>4 DEF Onward
    <3> QED BY <1>0, <1>b, <1>c, <2>1, <3>1, <3>2, ExistStays
  <2> QED BY <2>3, <2>4
<1>7. ASSUME NEW w \in Uids, ChooseUniqueId(w) PROVE ExistAt(u)'
  <2>0. /\ cmd.at = "choose" /\ w # cmd.uid /\ cache' = cache
        /\ cmd.uid \in Uids /\ obj[cmd.uid] = cmd.gen /\ cmd.gen # None
    BY <1>7, Zeros DEF ChooseUniqueId, Wanted, ThreadsOK, VirtualOK, Replacing
  <2>1. \A v \in Uids : obj[v] = cmd.gen => v = cmd.uid
    BY <2>0 DEF ThreadsOK, VirtualOK
  <2>2. CASE obj[w] = None
    <3>1. /\ obj' = [obj EXCEPT ![cmd.uid] = None, ![w] = cmd.gen] /\ notes' = notes
          /\ cmd'.at = "forget" /\ cmd'.gen = cmd.gen
          /\ {w} \cap BeingRemoved \subseteq unnoticed'
      BY <1>0, <1>7, <2>2 DEF ChooseUniqueId, CmdTs
    <3>2. CASE u = cmd.uid
      <4>1. obj'[u] = None
        BY <1>0, <2>0, <3>1, <3>2
      <4> QED BY <4>1 DEF ExistAt
    <3>3. CASE u = w
      <4>1. obj'[u] = cmd'.gen /\ u \notin BeingRemoved
        BY <1>0, <2>0, <3>1, <3>3
      <4>2. Coming(u)'
        BY <3>1, <4>1 DEF Coming
      <4>3. RemovedKnown => \A i \in DOMAIN notes' : ~Removes(i, u)'
        BY <3>1, <4>1 DEF BeingRemoved, Removes
      <4> QED BY <4>2, <4>3 DEF ExistAt
    <3>4. CASE u \notin {w, cmd.uid}
      <4>1. obj'[u] = obj[u]
        BY <1>0, <2>0, <3>1, <3>4
      <4>2. Longer /\ DOMAIN notes' \ DOMAIN notes = {}
        BY <1>0, <3>1, NoMore
      <4>3. cmd'.at \in Onward
        BY <3>1 DEF Onward
      <4> QED BY <1>0, <1>b, <1>c, <2>0, <3>1, <4>1, <4>2, <4>3, ExistStays
    <3> QED BY <3>2, <3>3, <3>4
  <2>3. CASE obj[w] # None
    <3>1. /\ obj' = [obj EXCEPT ![cmd.uid] = None]
          /\ Queue(<<Note("removed", cmd.uid, cmd.gen)>>)
      BY <1>7, <2>3 DEF ChooseUniqueId
    <3>2. CASE u = cmd.uid
      <4>1. obj'[u] = None
        BY <1>0, <2>0, <3>1, <3>2
      <4> QED BY <4>1 DEF ExistAt
    <3>3. CASE u # cmd.uid
      <4>1. obj'[u] = obj[u] /\ cmd.gen # obj[u]
        BY <1>0, <2>0, <2>1, <3>1, <3>3
      <4> QED BY <1>0, <1>5, <2>0, <3>1, <3>3, <4>1
    <3> QED BY <3>2, <3>3
  <2> QED BY <2>2, <2>3
<1>8. CASE ForgetAssigned \/ TellForgotten
  <2>1. /\ UNCHANGED <<notes, obj>> /\ cmd'.at \in Onward /\ cmd'.gen = cmd.gen
    BY <1>0, <1>8 DEF ForgetAssigned, TellForgotten, CmdAt, CmdTs, Onward
  <2>2. obj[u] # None /\ cache[u] # None => cache'[u] # None
    <3>1. CASE ForgetAssigned
      <4>1. cache' = [cache EXCEPT ![cmd.uid] = None] /\ obj[cmd.uid] = None
        BY <3>1 DEF ForgetAssigned, ThreadsOK, VirtualOK
      <4> QED BY <1>0, <4>1
    <3>2. CASE TellForgotten
      BY <3>2 DEF TellForgotten
    <3> QED BY <1>8, <3>1, <3>2
  <2>3. CASE obj[u] = None
    BY <2>1, <2>3 DEF ExistAt
  <2> QED BY <1>1, <2>1, <2>2, <2>3
<1>9. CASE VirtualAdd
  <2>1. /\ UNCHANGED <<notes, obj>> /\ cmd.at = "add" /\ cmd.uid \in Uids
        /\ obj[cmd.uid] = cmd.gen /\ cmd.gen # None
        /\ IF cache[cmd.uid] # None THEN UNCHANGED cache
           ELSE cache' = [cache EXCEPT ![cmd.uid] = cmd.gen]
    BY <1>9, Zeros DEF VirtualAdd, ThreadsOK, VirtualOK, Replacing
  <2>2. obj[u] = cmd.gen => u = cmd.uid
    BY <2>1 DEF ThreadsOK, VirtualOK
  <2>3. /\ cache[u] # None => cache'[u] # None
        /\ cache'[cmd.uid] # None
    BY <1>0, <2>1
  <2> QED BY <1>1, <2>1, <2>2, <2>3
<1>10. ASSUME NEW v \in Uids, DestroyVirtual(v) PROVE ExistAt(u)'
  <2>1. /\ obj' = [obj EXCEPT ![v] = None] /\ Queue(<<Note("removed", v, obj[v])>>)
        /\ cache' = cache /\ cmd.at \notin Onward
    BY <1>10 DEF DestroyVirtual, Onward
  <2>2. CASE u = v
    <3>1. obj'[u] = None
      BY <1>0, <2>1, <2>2
    <3> QED BY <3>1 DEF ExistAt
  <2>3. CASE u # v
    <3>1. obj'[u] = obj[u]
      BY <1>0, <2>1, <2>3
    <3> QED BY <1>0, <1>5, <2>1, <2>3, <3>1
  <2> QED BY <2>2, <2>3
<1>11. CASE Stop
  <2>1. /\ obj' = [v \in Uids |-> IF v \in Gone THEN None ELSE obj[v]]
        /\ cache' = cache /\ cmd.at \notin Onward
    BY <1>11 DEF Stop, Gone, Onward
  <2>2. CASE u \in Gone
    BY <2>1, <2>2 DEF ExistAt
  <2>3. CASE u \notin Gone
    <3>1. Longer /\ \A k \in DOMAIN notes' \ DOMAIN notes : ~Removes(k, u)'
      BY <1>11, <2>3, StopMore DEF Removes, Note
    <3> QED BY <1>0, <1>b, <1>c, <2>1, <2>3, <3>1, ExistStays
  <2> QED BY <2>2, <2>3
<1> QED BY <1>1, <1>2, <1>3, <1>4, <1>6, <1>7, <1>8, <1>9, <1>10, <1>11 DEF CommandThread

LEMMA NextExist ==
  ASSUME TypeOK, ThreadsOK, ListOK, Next
  PROVE  ExistOK'
<1>1. CASE UNCHANGED <<obj, notes, cache, global, cmd, unnoticed>>
  BY <1>1 DEF ListOK, ExistOK, ExistAt, Coming, Adds, Removes, Listening, Scanned
<1>2. ASSUME NEW u \in Uids, Appears(u) \/ Vanishes(u) PROVE ExistOK'
  BY <1>2, ExistEndpoints DEF ListOK
<1> QED BY <1>1, <1>2, ExistGlobal, ExistCommand, Frames DEF Next, CoreMidi

-----------------------------------------------------------------------------
(* The list has nobody's ids only as long as a removal is on its way.      *)

LEMMA OwedIsNext ==
  ASSUME ~RemovedKnown,
         \E f \in [Leaving' -> DOMAIN notes'] :
           \A u \in Leaving' :
             /\ notes'[f[u]].event = "removed" /\ SameKind(notes'[f[u]].uid, u)
             /\ \A v \in Leaving' : f[u] = f[v] => u = v
  PROVE  Owed'
<1>1. PICK f \in [Leaving' -> DOMAIN notes'] :
        \A u \in Leaving' :
          /\ notes'[f[u]].event = "removed" /\ SameKind(notes'[f[u]].uid, u)
          /\ \A v \in Leaving' : f[u] = f[v] => u = v
  OBVIOUS
<1>2. Matched(f)'
  BY <1>1 DEF Matched, SameKind
<1> QED BY <1>2 DEF Owed

\* Ids that become nobody's bring a removal of their own.
LEMMA OwedMore ==
  ASSUME Owed, Longer, NEW S, Leaving' \subseteq Leaving \cup S,
         \A u \in S : \E k \in DOMAIN notes' \ DOMAIN notes :
                        notes'[k].event = "removed" /\ notes'[k].uid = u
  PROVE  Owed'
<1>1. CASE RemovedKnown
  <2>1. ASSUME NEW u \in Leaving' PROVE \E i \in DOMAIN notes' : Removes(i, u)'
    <3>1. CASE u \in Leaving
      <4>1. PICK i \in DOMAIN notes : Removes(i, u)
        BY <1>1, <3>1 DEF Owed
      <4> QED BY <4>1 DEF Longer, Removes
    <3>2. CASE u \in S
      BY <3>2 DEF Removes
    <3> QED BY <3>1, <3>2
  <2> QED BY <1>1, <2>1 DEF Owed
<1>2. CASE ~RemovedKnown
  <2>1. PICK f \in [Leaving -> DOMAIN notes] : Matched(f)
    BY <1>2 DEF Owed
  <2> DEFINE New(u) == CHOOSE k \in DOMAIN notes' \ DOMAIN notes :
                         notes'[k].event = "removed" /\ notes'[k].uid = u
             g == [u \in Leaving' |-> IF u \in Leaving THEN f[u] ELSE New(u)]
  <2>3. \A u \in S : /\ New(u) \in DOMAIN notes' \ DOMAIN notes
                     /\ notes'[New(u)].event = "removed" /\ notes'[New(u)].uid = u
    OBVIOUS
  <2>4. \A u \in Leaving : f[u] \in DOMAIN notes /\ f[u] \in DOMAIN notes' /\ notes'[f[u]] = notes[f[u]]
    BY DEF Longer
  <2> HIDE DEF New
  <2>5. g \in [Leaving' -> DOMAIN notes']
    BY <2>3, <2>4
  <2>6. ASSUME NEW u \in Leaving'
        PROVE  /\ notes'[g[u]].event = "removed" /\ SameKind(notes'[g[u]].uid, u)
               /\ \A v \in Leaving' : g[u] = g[v] => u = v
    <3>1. CASE u \in Leaving
      <4>1. g[u] = f[u]
        BY <3>1
      <4>2. ASSUME NEW v \in Leaving', g[u] = g[v] PROVE u = v
        <5>1. CASE v \in Leaving
          BY <2>1, <3>1, <4>1, <4>2, <5>1 DEF Matched
        <5>2. CASE v \notin Leaving
          BY <2>3, <2>4, <3>1, <4>1, <4>2, <5>2
        <5> QED BY <5>1, <5>2
      <4> QED BY <2>1, <2>4, <3>1, <4>1, <4>2 DEF Matched
    <3>2. CASE u \notin Leaving
      <4>1. g[u] = New(u) /\ u \in S
        BY <3>2
      <4>2. ASSUME NEW v \in Leaving', g[u] = g[v] PROVE u = v
        <5>1. CASE v \in Leaving
          BY <2>3, <2>4, <4>1, <4>2, <5>1
        <5>2. CASE v \notin Leaving
          <6>1. g[v] = New(v) /\ v \in S
            BY <5>2
          <6> QED BY <2>3, <4>1, <4>2, <6>1
        <5> QED BY <5>1, <5>2
      <4> QED BY <2>3, <4>1, <4>2 DEF SameKind
    <3> QED BY <3>1, <3>2
  <2> HIDE DEF g
  <2> QED BY <1>2, <2>5, <2>6, OwedIsNext
<1> QED BY <1>1, <1>2

\* The places of the notifications that stay.
LEMMA NewPlaces ==
  ASSUME notes \in Seq(Notes), notes # <<>>, notes' = Tail(notes)
  PROVE  \E s \in [DOMAIN notes \ {1} -> DOMAIN notes'] :
           \A k, l \in DOMAIN notes \ {1} :
             notes'[s[k]] = notes[k] /\ (s[k] = s[l] => k = l)
<1> DEFINE s == [k \in DOMAIN notes \ {1} |-> k - 1]
<1>1. \A k \in DOMAIN notes : k # 1 => \E i \in DOMAIN notes' : k = i + 1 /\ notes'[i] = notes[k]
  BY MoveUp
<1>2. DOMAIN notes \subseteq Nat /\ DOMAIN notes' \subseteq Nat
  BY MoveUp
<1>3. \A k \in DOMAIN notes \ {1} : k - 1 \in DOMAIN notes' /\ notes'[k - 1] = notes[k]
  <2> SUFFICES ASSUME NEW k \in DOMAIN notes \ {1}
               PROVE  k - 1 \in DOMAIN notes' /\ notes'[k - 1] = notes[k]
    OBVIOUS
  <2>1. PICK i \in DOMAIN notes' : k = i + 1 /\ notes'[i] = notes[k]
    BY <1>1
  <2>2. k - 1 = i
    BY <1>2, <2>1
  <2> QED BY <2>1, <2>2
<1>4. s \in [DOMAIN notes \ {1} -> DOMAIN notes']
  BY <1>3
<1>5. ASSUME NEW k \in DOMAIN notes \ {1}, NEW l \in DOMAIN notes \ {1}
      PROVE  notes'[s[k]] = notes[k] /\ (s[k] = s[l] => k = l)
  <2>1. s[k] = k - 1 /\ s[l] = l - 1
    OBVIOUS
  <2>2. k - 1 = l - 1 => k = l
    BY <1>2
  <2> QED BY <1>3, <2>1, <2>2
<1> QED BY <1>4, <1>5

\* A notification is taken, for the id that is not nobody's any more or for none.
LEMMA OwedTaken ==
  ASSUME notes \in Seq(Notes), notes # <<>>, notes' = Tail(notes), Owed,
         Leaving' \subseteq Leaving,
         Head(notes).event = "removed" =>
           IF RemovedKnown THEN Head(notes).uid \notin Leaving'
           ELSE \/ \E v \in Leaving : v \notin Leaving' /\ SameKind(Head(notes).uid, v)
                \/ \A v \in Leaving : ~SameKind(Head(notes).uid, v)
  PROVE  Owed'
<1>0. notes[1] = Head(notes) /\ 1 \in DOMAIN notes
  BY MoveUp
<1>1. PICK s \in [DOMAIN notes \ {1} -> DOMAIN notes'] :
        \A k, l \in DOMAIN notes \ {1} :
          notes'[s[k]] = notes[k] /\ (s[k] = s[l] => k = l)
  BY NewPlaces
<1>2. CASE RemovedKnown
  <2>1. ASSUME NEW u \in Leaving' PROVE \E i \in DOMAIN notes' : Removes(i, u)'
    <3>1. PICK k \in DOMAIN notes : Removes(k, u)
      BY <1>2, <2>1 DEF Owed
    <3>2. k # 1
      BY <1>0, <1>2, <2>1, <3>1 DEF Removes
    <3>3. s[k] \in DOMAIN notes' /\ notes'[s[k]] = notes[k]
      BY <1>1, <3>2
    <3> QED BY <3>1, <3>3 DEF Removes
  <2> QED BY <1>2, <2>1 DEF Owed
<1>3. CASE ~RemovedKnown
  <2>1. PICK f \in [Leaving -> DOMAIN notes] : Matched(f)
    BY <1>3 DEF Owed
  <2>2. \A u \in Leaving : f[u] \in DOMAIN notes
    OBVIOUS
  <2>3. CASE \A u \in Leaving' : f[u] # 1
    <3> DEFINE g == [u \in Leaving' |-> s[f[u]]]
    <3>1. \A u \in Leaving' : f[u] \in DOMAIN notes \ {1}
      BY <2>2, <2>3
    <3>2. g \in [Leaving' -> DOMAIN notes']
      BY <1>1, <3>1
    <3>3. \A u \in Leaving' : notes'[g[u]] = notes[f[u]]
      BY <1>1, <3>1
    <3>4. \A u, v \in Leaving' : g[u] = g[v] => u = v
      BY <1>1, <2>1, <3>1 DEF Matched
    <3>5. \A u \in Leaving' :
            notes'[g[u]].event = "removed" /\ SameKind(notes'[g[u]].uid, u)
      BY <2>1, <3>3 DEF Matched
    <3> HIDE DEF g
    <3> QED BY <1>3, <3>2, <3>4, <3>5, OwedIsNext
  <2>4. ASSUME NEW w \in Leaving', f[w] = 1 PROVE Owed'
    <3>1. Head(notes).event = "removed" /\ SameKind(Head(notes).uid, w)
      BY <1>0, <2>1, <2>4 DEF Matched
    <3>2. PICK v \in Leaving : v \notin Leaving' /\ SameKind(Head(notes).uid, v)
      BY <1>3, <3>1
    <3> DEFINE g == [u \in Leaving' |-> IF f[u] = 1 THEN s[f[v]] ELSE s[f[u]]]
    <3>3. f[v] # 1 /\ f[v] \in DOMAIN notes \ {1}
      BY <2>1, <2>2, <2>4, <3>2 DEF Matched
    <3>4. \A u \in Leaving' : f[u] # 1 => f[u] \in DOMAIN notes \ {1}
      BY <2>2
    <3>5. g \in [Leaving' -> DOMAIN notes']
      BY <1>1, <3>3, <3>4
    <3>6. \A u \in Leaving' : notes'[g[u]] = IF f[u] = 1 THEN notes[f[v]] ELSE notes[f[u]]
      BY <1>1, <3>3, <3>4
    <3>7. \A u \in Leaving' : f[u] # f[v]
      BY <2>1, <3>2 DEF Matched
    <3>8. \A u, x \in Leaving' : g[u] = g[x] => f[u] = f[x]
      BY <1>1, <3>3, <3>4, <3>7
    <3>9. \A u, x \in Leaving' : g[u] = g[x] => u = x
      BY <2>1, <3>8 DEF Matched
    <3>10. ASSUME NEW u \in Leaving'
           PROVE  notes'[g[u]].event = "removed" /\ SameKind(notes'[g[u]].uid, u)
      <4>1. CASE f[u] = 1
        <5>1. u = w
          BY <2>1, <2>4, <4>1 DEF Matched
        <5>2. notes[f[v]].event = "removed" /\ SameKind(notes[f[v]].uid, v)
          BY <2>1 DEF Matched
        <5> QED BY <3>1, <3>2, <3>6, <4>1, <5>1, <5>2 DEF SameKind
      <4>2. CASE f[u] # 1
        BY <2>1, <3>6, <4>2 DEF Matched
      <4> QED BY <4>1, <4>2
    <3> HIDE DEF g
    <3> QED BY <1>3, <3>5, <3>9, <3>10, OwedIsNext
  <2> QED BY <2>3, <2>4
<1> QED BY <1>2, <1>3

LEMMA LeavingEndpoints ==
  ASSUME TypeOK, ThreadsOK, ListOK, NEW v \in Uids, Appears(v) \/ Vanishes(v)
  PROVE  LeavingOK'
<1>0. /\ notes \in Seq(Notes) /\ obj \in [Uids -> Gens] /\ cache \in [Uids -> Gens]
      /\ UNCHANGED <<cache, cmd, global>>
      /\ unnoticed' = IF Scanned(v) THEN unnoticed \cup {v} ELSE unnoticed
      /\ BeingInserted' = BeingInserted
  BY TypesAre, Frames DEF Appears, Vanishes, Changes, BeingInserted
<1> SUFFICES ASSUME unnoticed' = {} PROVE Owed'
  BY DEF LeavingOK
<1>1. Owed /\ ~Scanned(v)
  BY <1>0 DEF ListOK, LeavingOK
<1>2. CASE Appears(v)
  <2>1. /\ made + 1 \in Gens \ {None} /\ obj' = [obj EXCEPT ![v] = made + 1]
        /\ Queue(<<Note("added", v, made + 1)>>)
    BY <1>2, TypesAre, Zeros DEF Appears
  <2>2. Longer
    BY <1>0, <2>1, OneMore, NoMore DEF Queue
  <2>3. Leaving' \subseteq Leaving
    BY <1>0, <2>1 DEF Leaving
  <2> QED BY <1>1, <2>2, <2>3, OwedMore
<1>3. CASE Vanishes(v)
  <2>1. /\ obj' = [obj EXCEPT ![v] = None]
        /\ Queue(<<Note("removed", v, obj[v])>>)
    BY <1>3 DEF Vanishes
  <2>2. Leaving' \subseteq Leaving \cup {v}
    BY <1>0, <2>1 DEF Leaving
  <2>3. CASE Listening
    <3>1. PICK k \in DOMAIN notes' \ DOMAIN notes : notes'[k] = Note("removed", v, obj[v])
      BY <1>0, <2>1, <2>3, OneMore
    <3>2. Longer
      BY <1>0, <2>1, <2>3, OneMore
    <3> DEFINE S == {v}
    <3>3. \A u \in S : \E i \in DOMAIN notes' \ DOMAIN notes :
            notes'[i].event = "removed" /\ notes'[i].uid = u
      BY <3>1 DEF Note
    <3>4. Leaving' \subseteq Leaving \cup S
      BY <2>2
    <3> HIDE DEF S
    <3> QED BY <1>1, <3>2, <3>3, <3>4, OwedMore
  <2>4. CASE ~Listening
    <3>1. v \notin Leaving'
      BY <1>0, <1>1, <2>4 DEF Leaving, ListOK, BeingInserted, Listening
    <3>2. Longer
      BY <1>0, <2>1, <2>4, NoMore DEF Queue
    <3>3. Leaving' \subseteq Leaving
      BY <2>2, <3>1
    <3> QED BY <1>1, <3>2, <3>3, OwedMore
  <2> QED BY <2>3, <2>4
<1> QED BY <1>2, <1>3

LEMMA LeavingGlobal ==
  ASSUME TypeOK, ThreadsOK, ListOK, GlobalThread
  PROVE  LeavingOK'
<1>0. /\ notes \in Seq(Notes) /\ obj \in [Uids -> Gens] /\ cache \in [Uids -> Gens]
      /\ UNCHANGED <<obj, cmd>> /\ global \in GlobalTs
  BY TypesAre, Frames
<1>a. unnoticed \subseteq unnoticed'
  BY DEF GlobalThread, InitSourceCache, InitDestCache, Scan, Register, AddedRead, AddedInsert,
     AddedTell, RemovedRead, RemovedTake, RemovedRun, RemovedTell, Going, history
<1> SUFFICES ASSUME unnoticed' = {} PROVE Owed'
  BY DEF LeavingOK
<1>b. Owed /\ unnoticed = {}
  BY <1>a DEF ListOK, LeavingOK
<1>1. ASSUME notes' = notes, Leaving' \subseteq Leaving PROVE Owed'
  <2>1. Longer
    BY <1>0, <1>1, NoMore
  <2> QED BY <1>1, <1>b, <2>1, OwedMore
<1>2. CASE InitSourceCache \/ InitDestCache
  <2>1. /\ notes' = notes /\ ~Listening /\ global'.at \in {"scan_dests", "register"}
        /\ \A u \in Uids : cache'[u] = obj[u] \/ cache'[u] = cache[u]
    BY <1>2 DEF InitSourceCache, InitDestCache, Scan, At, GlobalAt, coremidi, Listening
  <2>2. Leaving' \subseteq Leaving
    BY <1>0, <2>1 DEF Leaving, BeingInserted
  <2> QED BY <1>1, <2>1, <2>2
<1>3. CASE Register \/ AddedTell \/ RemovedTake \/ RemovedRun \/ RemovedTell
  <2>1. UNCHANGED <<notes, cache>> /\ global'.at # "insert"
    BY <1>3 DEF Register, AddedTell, RemovedTake, RemovedRun, RemovedTell, Going, coremidi, maps,
       At, GlobalAt
  <2>2. Leaving' \subseteq Leaving
    BY <1>0, <2>1 DEF Leaving, BeingInserted
  <2> QED BY <1>1, <2>1, <2>2
<1>4. CASE AddedInsert
  <2>1. notes' = notes /\ global.at = "insert" /\ global.uid \in Uids
    BY <1>4 DEF AddedInsert, Going, ThreadsOK, GlobalOK
  <2>2. /\ \A u \in Uids : u # global.uid => cache'[u] = cache[u]
        /\ global'.at # "insert"
    BY <1>0, <1>4, <2>1 DEF AddedInsert, At, GlobalAt, GlobalTs
  <2>3. Leaving' \subseteq Leaving
    BY <1>0, <2>1, <2>2 DEF Leaving, BeingInserted
  <2> QED BY <1>1, <2>1, <2>3
<1>5. CASE AddedRead
  <2>1. /\ notes # <<>> /\ notes' = Tail(notes) /\ cache' = cache /\ Head(notes).event = "added"
    BY <1>5 DEF AddedRead, Take
  <2>2. \/ global' = global
        \/ /\ global'.at = "insert"
           /\ \/ obj[global'.uid] # None
              \/ RemovedKnown /\ \E i \in DOMAIN notes : Removes(i, global'.uid)
    BY <1>0, <1>5, AddedReadIs DEF GlobalAt
  <2>3. CASE RemovedKnown
    <3>1. ASSUME NEW u \in Leaving' PROVE \E i \in DOMAIN notes : Removes(i, u)
      <4>1. CASE u \in Leaving
        BY <1>b, <2>3, <4>1 DEF Owed
      <4>2. CASE u \notin Leaving
        <5>1. u \in BeingInserted' /\ obj[u] = None /\ u \notin BeingInserted
          BY <1>0, <2>1, <4>2 DEF Leaving
        <5> QED BY <2>2, <5>1 DEF BeingInserted
      <4> QED BY <4>1, <4>2
    <3>2. ASSUME NEW u \in Leaving' PROVE \E i \in DOMAIN notes' : Removes(i, u)'
      <4>1. PICK k \in DOMAIN notes : Removes(k, u)
        BY <3>1
      <4>2. notes[1] = Head(notes)
        BY <1>0, <2>1, MoveUp
      <4>3. k # 1
        BY <2>1, <4>1, <4>2 DEF Removes
      <4>4. PICK i \in DOMAIN notes' : notes'[i] = notes[k]
        BY <1>0, <2>1, <4>3, MoveUp
      <4> QED BY <4>1, <4>4 DEF Removes
    <3> QED BY <2>3, <3>2 DEF Owed
  <2>4. CASE ~RemovedKnown
    <3>1. Leaving' \subseteq Leaving
      BY <1>0, <2>1, <2>2, <2>4 DEF Leaving, BeingInserted
    <3> QED BY <1>0, <1>b, <2>1, <3>1, OwedTaken
  <2> QED BY <2>3, <2>4
<1>6. CASE RemovedRead
  <2>1. /\ notes # <<>> /\ notes' = Tail(notes) /\ global.at = "idle"
        /\ Head(notes).event = "removed"
    BY <1>6 DEF RemovedRead, Take
  <2> DEFINE h == Head(notes).uid
  <2>2. CASE UNCHANGED <<cache, global>>
    <3>1. Leaving' = Leaving
      BY <1>0, <2>2 DEF Leaving, BeingInserted
    <3>2. RemovedKnown => cache'[h] = None
      <4>1. Head(notes) \in Notes
        BY <1>0, <2>1, TakenNote
      <4>2. h \in Uids
        BY <4>1 DEF Notes
      <4>3. ASSUME RemovedKnown, cache[h] # None PROVE global'.at = "take"
        <5>1. {h} \cap {v \in Uids : cache[v] # None} # {}
          BY <4>2, <4>3
        <5> QED BY <1>6, <4>3, <5>1 DEF RemovedRead, GlobalAt
      <4> QED BY <2>1, <2>2, <4>3
    <3>3. RemovedKnown => h \notin Leaving'
      BY <2>1, <2>2, <3>2 DEF Leaving, BeingInserted
    <3>4. ~RemovedKnown => \A v \in Leaving : ~SameKind(h, v)
      <4>1. ASSUME ~RemovedKnown, NEW v \in Leaving, SameKind(h, v) PROVE FALSE
        <5>1. v \in StaleUids(h)
          BY <2>1, <4>1 DEF Leaving, BeingInserted, StaleUids
        <5>2. global'.at = "take"
          BY <1>6, <4>1, <5>1 DEF RemovedRead, GlobalAt
        <5> QED BY <2>1, <2>2, <5>2
      <4> QED BY <4>1
    <3> QED BY <1>0, <1>b, <2>1, <3>1, <3>3, <3>4, OwedTaken
  <2>3. ASSUME NEW v \in Uids, cache' = [cache EXCEPT ![v] = None],
               global' = GlobalAt("take", v, None, {}), v \notin BeingForgotten,
               IF RemovedKnown THEN v = h ELSE v \in StaleUids(h)
        PROVE  Owed'
    <3>0. global'.at = "take" /\ cache'[v] = None /\ \A u \in Uids : u # v => cache'[u] = cache[u]
      BY <1>0, <2>3 DEF GlobalAt
    <3>1. Leaving' \subseteq Leaving /\ v \notin Leaving'
      BY <1>0, <3>0 DEF Leaving, BeingInserted
    <3>2. ~RemovedKnown => v \in Leaving /\ SameKind(h, v)
      BY <2>3 DEF StaleUids, Leaving, BeingForgotten
    <3> QED BY <1>0, <1>b, <2>1, <2>3, <3>1, <3>2, OwedTaken
  <2>4. \/ UNCHANGED <<cache, global>>
        \/ \E v \in Uids : /\ cache' = [cache EXCEPT ![v] = None]
                           /\ global' = GlobalAt("take", v, None, {})
                           /\ v \notin BeingForgotten
                           /\ IF RemovedKnown THEN v = h ELSE v \in StaleUids(h)
    BY <1>6 DEF RemovedRead, StaleUids
  <2> QED BY <2>2, <2>3, <2>4
<1> QED BY <1>2, <1>3, <1>4, <1>5, <1>6 DEF GlobalThread

LEMMA LeavingCommand ==
  ASSUME TypeOK, ThreadsOK, ListOK, CommandThread
  PROVE  LeavingOK'
<1>0. /\ notes \in Seq(Notes) /\ obj \in [Uids -> Gens] /\ cache \in [Uids -> Gens]
      /\ cmd \in CmdTs /\ cmd.gen \in Gens /\ BeingInserted' = BeingInserted
      /\ UNCHANGED global
  BY TypesAre, Frames DEF CmdTs, BeingInserted
<1> USE DEF CmdStep, Working, Continuing, Carrying, coremidi, maps
<1>a. unnoticed \subseteq unnoticed'
  BY DEF CommandThread, Start, ConnectLookup, ConnectTell, ConnectClear, ConnectHandler,
         ConnectAttach, ConnectInsert, Disconnect, Unhandle, CreateVirtual, ChooseUniqueId,
         ForgetAssigned, TellForgotten, VirtualAdd, VirtualTell, DestroyVirtual, Stop
<1> SUFFICES ASSUME unnoticed' = {} PROVE Owed'
  BY DEF LeavingOK
<1>b. Owed /\ unnoticed = {}
  BY <1>a DEF ListOK, LeavingOK
<1>1. ASSUME notes' = notes, Leaving' \subseteq Leaving PROVE Owed'
  <2>1. Longer
    BY <1>0, <1>1, NoMore
  <2> QED BY <1>1, <1>b, <2>1, OwedMore
<1>2. ASSUME UNCHANGED <<notes, obj, cache>>, cmd.at # "forget" PROVE Owed'
  <2>1. Leaving' \subseteq Leaving
    BY <1>0, <1>2 DEF Leaving
  <2> QED BY <1>1, <1>2, <2>1
<1>3. Start \/ ConnectTell \/ ConnectClear \/ ConnectHandler \/ ConnectAttach \/ ConnectInsert
      \/ Unhandle \/ VirtualTell \/ TellForgotten =>
        UNCHANGED <<notes, obj, cache>> /\ cmd.at # "forget"
  BY DEF Start, ConnectTell, ConnectClear, ConnectHandler, ConnectAttach, ConnectInsert, Unhandle,
     VirtualTell, TellForgotten
<1>4. \A v \in Uids : Disconnect(v) => UNCHANGED <<notes, obj, cache>> /\ cmd.at # "forget"
  BY DEF Disconnect
<1>5. ASSUME NEW v \in Uids, ConnectLookup(v) PROVE Owed'
  <2> DEFINE g == IF cache[v] # None THEN cache[v] ELSE obj[v]
  <2>1. /\ UNCHANGED <<notes, obj>> /\ cmd.at = "idle" /\ g # None
        /\ cache' = [cache EXCEPT ![v] = g]
    BY <1>5 DEF ConnectLookup
  <2>2. Leaving' \subseteq Leaving
    BY <1>0, <2>1 DEF Leaving
  <2> QED BY <1>1, <2>1, <2>2
\* An endpoint goes, and the notification says so.
<1>6. ASSUME NEW v \in Uids, NEW g \in Gens, Queue(<<Note("removed", v, g)>>), Listening,
             Leaving' \subseteq Leaving \cup {v}
      PROVE  Owed'
  <2>1. PICK k \in DOMAIN notes' \ DOMAIN notes : notes'[k] = Note("removed", v, g)
    BY <1>0, <1>6, OneMore
  <2>2. Longer
    BY <1>0, <1>6, OneMore
  <2>3. notes'[k].event = "removed" /\ notes'[k].uid = v
    BY <2>1 DEF Note
  <2> QED BY <1>6, <1>b, <2>2, <2>3, OwedMore
<1>7. ASSUME NEW v \in Uids, CreateVirtual(v) PROVE Owed'
  <2>1. /\ obj' = [obj EXCEPT ![v] = made + 1] /\ Queue(<<Note("added", v, made + 1)>>)
        /\ cache' = cache /\ cmd.at = "idle"
    BY <1>7 DEF CreateVirtual
  <2>2. made + 1 \in Gens \ {None}
    BY <1>7, TypesAre, Zeros DEF CreateVirtual
  <2>3. Longer
    BY <1>0, <2>1, <2>2, OneMore, NoMore DEF Queue
  <2>4. Leaving' \subseteq Leaving
    BY <1>0, <2>1, <2>2 DEF Leaving
  <2> QED BY <1>b, <2>3, <2>4, OwedMore
<1>8. ASSUME NEW w \in Uids, ChooseUniqueId(w) PROVE Owed'
  <2>0. /\ cmd.at = "choose" /\ w # cmd.uid /\ cache' = cache
        /\ cmd.uid \in Uids /\ cmd.gen # None /\ Listening
    BY <1>8, Zeros
       DEF ChooseUniqueId, Wanted, ThreadsOK, VirtualOK, GlobalOK, Replacing
  <2>1. CASE obj[w] = None
    <3>1. /\ obj' = [obj EXCEPT ![cmd.uid] = None, ![w] = cmd.gen] /\ notes' = notes
          /\ cmd'.at = "forget" /\ cmd'.uid = cmd.uid
      BY <1>0, <1>8, <2>1 DEF ChooseUniqueId, CmdTs
    <3>2. obj'[w] = cmd.gen /\ \A v \in Uids : v \notin {w, cmd.uid} => obj'[v] = obj[v]
      BY <1>0, <2>0, <3>1
    <3>3. Leaving' \subseteq Leaving
      BY <1>0, <2>0, <3>1, <3>2 DEF Leaving
    <3> QED BY <1>1, <3>1, <3>3
  <2>2. CASE obj[w] # None
    <3>1. /\ obj' = [obj EXCEPT ![cmd.uid] = None]
          /\ Queue(<<Note("removed", cmd.uid, cmd.gen)>>)
      BY <1>8, <2>2 DEF ChooseUniqueId
    <3>2. Leaving' \subseteq Leaving \cup {cmd.uid}
      BY <1>0, <2>0, <3>1 DEF Leaving
    <3> QED BY <1>0, <1>6, <2>0, <3>1, <3>2
  <2> QED BY <2>1, <2>2
<1>9. CASE ForgetAssigned
  <2>1. /\ UNCHANGED <<notes, obj>> /\ cmd.at = "forget"
        /\ cache' = [cache EXCEPT ![cmd.uid] = None]
    BY <1>9 DEF ForgetAssigned
  <2>2. CASE cmd.uid \notin BeingInserted
    <3>1. Leaving' \subseteq Leaving
      BY <1>0, <2>1, <2>2 DEF Leaving
    <3> QED BY <1>1, <2>1, <3>1
  \* The global thread is about to list an id whose removal is on its way.
  <2>3. CASE cmd.uid \in BeingInserted
    <3>1. RemovedKnown /\ \E i \in DOMAIN notes : Removes(i, cmd.uid)
      BY <1>b, <2>1, <2>3 DEF ListOK
    <3>2. Leaving' \subseteq Leaving \cup {cmd.uid}
      BY <1>0, <2>1 DEF Leaving
    <3>3. \A u \in Leaving' : \E i \in DOMAIN notes : Removes(i, u)
      BY <1>b, <3>1, <3>2 DEF Owed
    <3>4. \A u \in Leaving' : \E i \in DOMAIN notes' : Removes(i, u)'
      BY <2>1, <3>3 DEF Removes
    <3> QED BY <3>1, <3>4 DEF Owed
  <2> QED BY <2>2, <2>3
<1>10. CASE VirtualAdd
  <2>1. /\ UNCHANGED <<notes, obj>> /\ cmd.at = "add" /\ cmd.uid \in Uids
        /\ obj[cmd.uid] # None
        /\ cache' = cache \/ cache' = [cache EXCEPT ![cmd.uid] = cmd.gen]
    BY <1>10, Zeros DEF VirtualAdd, ThreadsOK, VirtualOK, Replacing
  <2>2. Leaving' \subseteq Leaving
    BY <1>0, <2>1 DEF Leaving
  <2> QED BY <1>1, <2>1, <2>2
<1>11. ASSUME NEW v \in Uids, DestroyVirtual(v) PROVE Owed'
  <2>1. /\ obj' = [obj EXCEPT ![v] = None] /\ Queue(<<Note("removed", v, obj[v])>>)
        /\ UNCHANGED <<cache, cmd>> /\ Listening
    BY <1>11 DEF DestroyVirtual, ThreadsOK, GlobalOK
  <2>2. Leaving' \subseteq Leaving \cup {v}
    BY <1>0, <2>1 DEF Leaving
  <2> QED BY <1>0, <1>6, <2>1, <2>2
<1>12. CASE Stop
  <2>1. /\ obj' = [v \in Uids |-> IF v \in Gone THEN None ELSE obj[v]]
        /\ cache' = cache /\ cmd.at = "idle"
    BY <1>12 DEF Stop, Gone
  <2>2. Leaving' \subseteq Leaving \cup Gone
    BY <1>0, <2>1 DEF Leaving
  <2>3. Longer
    BY <1>12, StopMore
  <2>4. \A u \in Gone : \E k \in DOMAIN notes' \ DOMAIN notes :
          notes'[k].event = "removed" /\ notes'[k].uid = u
    BY <1>12, StopMore DEF Note
  <2> QED BY <1>b, <2>2, <2>3, <2>4, OwedMore
<1> QED BY <1>2, <1>3, <1>4, <1>5, <1>7, <1>8, <1>9, <1>10, <1>11, <1>12 DEF CommandThread

LEMMA NextLeaving ==
  ASSUME TypeOK, ThreadsOK, ListOK, Next
  PROVE  LeavingOK'
<1>1. CASE UNCHANGED <<obj, notes, cache, global, cmd, unnoticed>>
  <2>1. Leaving' = Leaving /\ (unnoticed' = {} <=> unnoticed = {})
    BY <1>1 DEF Leaving, BeingInserted
  <2>2. Longer
    BY <1>1, TypesAre, NoMore
  <2>3. unnoticed = {} => Owed'
    BY <2>1, <2>2, OwedMore DEF ListOK, LeavingOK
  <2> QED BY <2>1, <2>3 DEF LeavingOK
<1>2. ASSUME NEW u \in Uids, Appears(u) \/ Vanishes(u) PROVE LeavingOK'
  BY <1>2, LeavingEndpoints
<1> QED BY <1>1, <1>2, LeavingGlobal, LeavingCommand, Frames DEF Next, CoreMidi

LEMMA NextList ==
  ASSUME TypeOK, ThreadsOK, ListOK, Next
  PROVE  ListOK'
<1>0. /\ cache \in [Uids -> Gens] /\ obj \in [Uids -> Gens]
      /\ Uids = Sources \cup Destinations /\ notes \in Seq(Notes) /\ cmd \in CmdTs
      /\ global \in GlobalTs
  BY TypesAre DEF Uids
<1>1. ASSUME ~Listening' PROVE \A u \in Uids : ~Scanned(u)' => cache'[u] = None
  <2>1. CASE UNCHANGED <<cache, global>>
    BY <1>1, <2>1 DEF ListOK, Listening, Scanned
  <2>2. ~CommandThread
    <3>1. ASSUME CommandThread PROVE Listening
      BY <3>1 DEF CommandThread, Start, ConnectLookup, ConnectTell, ConnectClear,
         ConnectHandler, ConnectAttach, ConnectInsert, Disconnect, Unhandle, CreateVirtual,
         ChooseUniqueId, ForgetAssigned, TellForgotten, VirtualAdd, VirtualTell, DestroyVirtual,
         Stop, Working, Continuing, Carrying, ThreadsOK, GlobalOK
    <3>2. CommandThread => global' = global
      BY Frames
    <3> QED BY <1>1, <3>1, <3>2 DEF Listening
  <2>3. CASE GlobalThread
    <3>1. CASE InitSourceCache
      <4>1. /\ ~Listening /\ \A u \in Uids : ~Scanned(u)
            /\ \A u \in Uids : u \notin Sources => cache'[u] = cache[u]
            /\ global'.at = "scan_dests"
        BY <3>1 DEF InitSourceCache, Scan, Listening, Scanned, At, GlobalAt
      <4> QED BY <4>1 DEF ListOK, Scanned
    <3>2. CASE InitDestCache
      <4>1. global'.at = "register"
        BY <3>2 DEF InitDestCache, Scan, At, GlobalAt
      <4> QED BY <4>1 DEF Scanned
    <3>3. ~InitSourceCache /\ ~InitDestCache => Listening'
      BY <1>0, <2>3 DEF GlobalThread, Register, AddedRead, AddedInsert, AddedTell, RemovedRead,
         RemovedTake, RemovedRun, RemovedTell, Take, Going, At, GlobalAt, Listening, GlobalTs
    <3> QED BY <1>1, <3>1, <3>2, <3>3
  <2> QED BY <2>1, <2>2, <2>3, Frames DEF Next, CoreMidi
\* What the global thread is about to list is replaced only if its removal is on its way.
<1>2. ASSUME unnoticed' = {}, cmd'.at = "forget", cmd'.uid \in BeingInserted'
      PROVE  RemovedKnown /\ \E i \in DOMAIN notes' : Removes(i, cmd.uid)'
  <2>0. ASSUME unnoticed = {}, UNCHANGED <<cmd, global>>, Longer
        PROVE  RemovedKnown /\ \E i \in DOMAIN notes' : Removes(i, cmd.uid)'
    <3>1. RemovedKnown /\ \E i \in DOMAIN notes : Removes(i, cmd.uid)
      BY <1>2, <2>0 DEF ListOK, BeingInserted
    <3> QED BY <2>0, <3>1 DEF Longer, Removes
  <2>1. CASE UNCHANGED <<cmd, global, notes>> /\ unnoticed = {}
    BY <1>0, <2>0, <2>1, NoMore
  <2>2. CASE CommandThread
    <3>1. PICK w \in Uids : ChooseUniqueId(w)
      <4>1. Start \/ ConnectTell \/ ConnectClear \/ ConnectHandler \/ ConnectAttach
            \/ ConnectInsert \/ Unhandle => cmd'.at # "forget"
        BY <1>0 DEF Start, ConnectTell, ConnectClear, ConnectHandler, ConnectAttach,
           ConnectInsert, Unhandle, Idle, CmdAt, CmdTs
      <4>2. ForgetAssigned \/ TellForgotten \/ VirtualAdd \/ VirtualTell \/ Stop =>
              cmd'.at # "forget"
        BY <1>0 DEF ForgetAssigned, TellForgotten, VirtualAdd, VirtualTell, Stop, Idle, CmdAt,
           CmdTs
      <4>3. \A u \in Uids : ConnectLookup(u) \/ Disconnect(u) \/ CreateVirtual(u)
                            \/ DestroyVirtual(u) => cmd'.at # "forget"
        BY DEF ConnectLookup, Disconnect, CreateVirtual, DestroyVirtual, CmdAt, Working
      <4> QED BY <1>2, <2>2, <4>1, <4>2, <4>3 DEF CommandThread
    <3>2. obj[w] = None
      BY <1>2, <3>1 DEF ChooseUniqueId, Idle, CmdAt
    <3>3. cmd'.uid = cmd.uid /\ {cmd.uid} \cap BeingInserted = {}
      BY <1>0, <1>2, <3>1, <3>2 DEF ChooseUniqueId, CmdTs
    <3>4. BeingInserted' = BeingInserted
      BY <2>2, Frames DEF BeingInserted
    <3> QED BY <1>2, <3>3, <3>4
  <2>3. CASE GlobalThread
    <3>1. cmd' = cmd
      BY <2>3, Frames
    <3>2. unnoticed = {}
      <4>1. unnoticed \subseteq unnoticed'
        BY <2>3 DEF GlobalThread, InitSourceCache, InitDestCache, Scan, Register, AddedRead,
           AddedInsert, AddedTell, RemovedRead, RemovedTake, RemovedRun, RemovedTell, Going,
           history
      <4> QED BY <1>2, <4>1
    <3>3. obj[cmd.uid] = None
      BY <1>2, <3>1 DEF ThreadsOK, VirtualOK
    <3>4. CASE AddedRead
      <4>1. notes # <<>> /\ notes' = Tail(notes) /\ Head(notes).event = "added"
            /\ global.at = "idle"
        BY <3>4 DEF AddedRead, Take
      <4>2. RemovedKnown /\ \E i \in DOMAIN notes : Removes(i, cmd.uid)
        <5>1. cmd.uid = global'.uid /\ global'.at = "insert" /\ global' # global
          BY <1>2, <3>1, <4>1 DEF BeingInserted
        <5> QED BY <1>0, <3>3, <3>4, <5>1, AddedReadIs DEF GlobalAt
      <4>3. PICK k \in DOMAIN notes : Removes(k, cmd.uid)
        BY <4>2
      <4>4. notes[1] = Head(notes)
        BY <1>0, <4>1, MoveUp
      <4>5. k # 1
        BY <4>1, <4>3, <4>4 DEF Removes
      <4>6. PICK i \in DOMAIN notes' : notes'[i] = notes[k]
        BY <1>0, <4>1, <4>5, MoveUp
      <4> QED BY <3>1, <4>2, <4>3, <4>6 DEF Removes
    <3>5. CASE ~AddedRead
      <4>1. global'.at # "insert"
        BY <1>0, <2>3, <3>5 DEF GlobalThread, InitSourceCache, InitDestCache, Scan, Register,
           AddedInsert, AddedTell, RemovedRead, RemovedTake, RemovedRun, RemovedTell, Take, At,
           GlobalAt, GlobalTs
      <4> QED BY <1>2, <4>1 DEF BeingInserted
    <3> QED BY <3>4, <3>5
  <2>4. ASSUME NEW u \in Uids, Appears(u) \/ Vanishes(u)
        PROVE  RemovedKnown /\ \E i \in DOMAIN notes' : Removes(i, cmd.uid)'
    <3>1. unnoticed = {} /\ UNCHANGED <<cmd, global>>
      BY <1>2, <2>4, Frames DEF Appears, Vanishes, Changes
    <3>2. made < MaxGens => made + 1 \in Gens
      BY TypesAre, Zeros, SMTT(30)
    <3>3. PICK event \in {"added", "removed"}, g \in Gens : Queue(<<Note(event, u, g)>>)
      BY <1>0, <2>4, <3>2 DEF Appears, Vanishes
    <3>4. Longer
      BY <1>0, <3>3, OneMore, NoMore DEF Queue
    <3> QED BY <2>0, <3>1, <3>4
  <2> QED BY <1>2, <2>1, <2>2, <2>3, <2>4, Frames DEF Next, CoreMidi
<1> QED BY <1>1, <1>2, NextExist, NextLeaving DEF ListOK

-----------------------------------------------------------------------------
(* The removals of connected endpoints.                                    *)

\* The application was told, or is about to be.
ToldOf(u, no)  == IF u \in Sources THEN no \in told ELSE u \in disconnected
WillHear(u, no) == ToldOf(u, no) \/ Removal(u, no)

\* The removal that the global thread is at reaches every handler that is kept.
LEMMA RemovalGoesOn ==
  ASSUME TypeOK, ThreadsOK, GlobalThread, NEW u \in Uids, NEW no \in Nos,
         KeptOrTold(u, no), WillHear(u, no)
  PROVE  WillHear(u, no)'
<1> USE DEF KeptOrTold, HandlerKept, WillHear, ToldOf, Removal
<1>0. /\ handlers \in [Uids -> SUBSET (Nos \ {None})] /\ Sources \cap Destinations = {}
      /\ Uids = Sources \cup Destinations
  BY TypesAre, CoreMidiAssumption DEF Uids
<1>1. CASE RemovedTake
  <2>1. /\ global.at = "take" /\ global'.at = "run" /\ global'.uid = global.uid
        /\ global'.fns = handlers[global.uid]
        /\ UNCHANGED <<told, disconnected>>
    BY <1>1 DEF RemovedTake, Going, GlobalAt
  <2> QED BY <1>0, <2>1
<1>2. CASE RemovedRun
  <2>1. /\ global.at = "run"
        /\ told' = IF global.uid \in Sources THEN told \cup global.fns ELSE told
        /\ disconnected' = IF global.uid \in Destinations /\ global.fns # {}
                           THEN disconnected \cup {global.uid} ELSE disconnected
    BY <1>2 DEF RemovedRun, Going
  <2> QED BY <1>0, <2>1
<1>3. CASE AddedRead \/ RemovedRead \/ AddedInsert \/ AddedTell \/ RemovedTell \/ Register
           \/ InitSourceCache \/ InitDestCache
  <2>1. global.at \notin {"take", "run"} /\ UNCHANGED <<told, disconnected>>
    BY <1>3 DEF AddedRead, RemovedRead, Take, AddedInsert, AddedTell, RemovedTell, Register,
       InitSourceCache, InitDestCache, Scan, Going, clientv
  <2> QED BY <2>1
<1> QED BY <1>1, <1>2, <1>3 DEF GlobalThread

\* An id comes off the list with its removal in the thread's hands.
LEMMA RemovalBegins ==
  ASSUME TypeOK, ThreadsOK, GlobalThread, Listening, NEW u \in Uids, cache[u] # None
  PROVE  cache'[u] # None \/ (global'.at = "take" /\ global'.uid = u)
<1>0. cache \in [Uids -> Gens]
  BY TypesAre
<1>1. CASE RemovedRead
  <2>1. \/ cache' = cache
        \/ \E v \in Uids : /\ cache' = [cache EXCEPT ![v] = None]
                           /\ global' = GlobalAt("take", v, None, {})
    BY <1>1 DEF RemovedRead, StaleUids
  <2> QED BY <1>0, <2>1 DEF GlobalAt
<1>2. CASE AddedInsert
  <2>1. cache' = cache \/ (global.gen # None /\ cache' = [cache EXCEPT ![global.uid] = global.gen])
    BY <1>2 DEF AddedInsert, Going, ThreadsOK, GlobalOK
  <2> QED BY <1>0, <2>1
<1>3. AddedRead \/ AddedTell \/ RemovedTake \/ RemovedRun \/ RemovedTell \/ Register =>
        cache' = cache
  BY DEF AddedRead, AddedTell, RemovedTake, RemovedRun, RemovedTell, Register, maps
<1>4. ~InitSourceCache /\ ~InitDestCache
  BY DEF InitSourceCache, InitDestCache, Scan, Listening
<1> QED BY <1>1, <1>2, <1>3, <1>4 DEF GlobalThread

\* What RemovalOK says of the connections, of the connect under way before its handler
\* is in the map and of it afterwards.
LEMMA RemovalOKIs ==
  ASSUME ConnectOK
  PROVE  RemovalOK <=>
           (drop.at = "open" =>
              /\ \A u \in Uids : conn[u] # NoConn /\ conn[u].no \notin missed =>
                   /\ WillHear(u, conn[u].no) \/ cache[u] # None
                   /\ cmd.at \in {"choose", "forget"} /\ cmd.uid = u =>
                        WillHear(u, conn[u].no)
              /\ cmd.at \in {"attach", "insert"} /\ cmd.no \notin missed =>
                   WillHear(cmd.uid, cmd.no) \/ cache[cmd.uid] # None
              /\ cmd.at \in {"connect_tell", "clear", "handler"} /\ cmd.no \notin missed =>
                   (global.at = "take" /\ global.uid = cmd.uid) \/ cache[cmd.uid] # None
              /\ cmd.at = "start" => \A u \in Uids : conn[u] = NoConn)
BY DEF RemovalOK, WillHear, ToldOf, Told, ConnectOK

LEMMA RemovalOKIsNext ==
  ASSUME ConnectOK'
  PROVE  RemovalOK' <=>
           (drop'.at = "open" =>
              /\ \A u \in Uids : conn'[u] # NoConn /\ conn'[u].no \notin missed' =>
                   /\ WillHear(u, conn[u].no)' \/ cache'[u] # None
                   /\ cmd'.at \in {"choose", "forget"} /\ cmd'.uid = u =>
                        WillHear(u, conn[u].no)'
              /\ cmd'.at \in {"attach", "insert"} /\ cmd'.no \notin missed' =>
                   WillHear(cmd.uid, cmd.no)' \/ cache'[cmd'.uid] # None
              /\ cmd'.at \in {"connect_tell", "clear", "handler"} /\ cmd'.no \notin missed' =>
                   (global'.at = "take" /\ global'.uid = cmd'.uid) \/ cache'[cmd'.uid] # None
              /\ cmd'.at = "start" => \A u \in Uids : conn'[u] = NoConn)
BY DEF RemovalOK, WillHear, ToldOf, Removal, Told, ConnectOK

LEMMA RemovalGlobal ==
  ASSUME TypeOK, ThreadsOK, HandlerOK, RemovalOK, GlobalThread
  PROVE  RemovalOK'
<1>0. /\ conn \in [Uids -> [no : Nos, gen : Gens]] /\ \A u \in Uids : conn[u].no \in Nos
      /\ cmd.no \in Nos
  BY TypesAre DEF CmdTs
<1>1. conn' = conn /\ cmd' = cmd /\ drop' = drop
  BY Frames
<1>2. ConnectOK /\ ConnectOK'
  BY <1>1 DEF ThreadsOK, ConnectOK
<1>3. CASE ~Listening
  <2>1. cmd.at = "start"
    BY <1>3 DEF ThreadsOK, GlobalOK
  <2> QED BY <1>1, <1>2, <2>1, RemovalOKIs, RemovalOKIsNext
<1>4. CASE Listening
  <2>1. missed \subseteq missed' /\ (RemovedTake \/ missed' = missed)
    BY DEF GlobalThread, InitSourceCache, InitDestCache, Scan, Register, AddedRead, AddedInsert,
       AddedTell, RemovedRead, RemovedTake, RemovedRun, RemovedTell, Take, Going, history
  <2>2. \A u \in Uids, no \in Nos : KeptOrTold(u, no) /\ WillHear(u, no) => WillHear(u, no)'
    BY RemovalGoesOn
  <2>3. \A u \in Uids : cache[u] # None =>
          cache'[u] # None \/ (global'.at = "take" /\ global'.uid = u)
    BY <1>4, RemovalBegins
  <2>4. \A u \in Uids, no \in Nos : KeptOrTold(u, no) /\ (WillHear(u, no) \/ cache[u] # None) =>
          WillHear(u, no)' \/ cache'[u] # None
    BY <2>2, <2>3 DEF WillHear, Removal
  <2>5. drop.at = "open" =>
          /\ \A u \in Uids : conn[u] # NoConn => KeptOrTold(u, conn[u].no)
          /\ cmd.at \in {"attach", "insert"} => KeptOrTold(cmd.uid, cmd.no)
    BY <1>2, HandlerOKIs
  <2>6. ASSUME drop.at = "open", NEW u \in Uids, conn[u] # NoConn, conn[u].no \notin missed'
        PROVE  /\ WillHear(u, conn[u].no)' \/ cache'[u] # None
               /\ cmd.at \in {"choose", "forget"} /\ cmd.uid = u => WillHear(u, conn[u].no)'
    <3>0. PICK no \in Nos : no = conn[u].no
      BY <1>0
    <3>1. no \notin missed /\ KeptOrTold(u, no)
      BY <2>1, <2>5, <2>6, <3>0
    <3>2. /\ WillHear(u, no) \/ cache[u] # None
          /\ cmd.at \in {"choose", "forget"} /\ cmd.uid = u => WillHear(u, no)
      BY <1>2, <2>6, <3>0, <3>1, RemovalOKIs
    <3>3. WillHear(u, conn[u].no)' <=> WillHear(u, no)'
      BY <1>1, <3>0
    <3> QED BY <2>2, <2>4, <3>1, <3>2, <3>3
  <2>7. ASSUME drop.at = "open", cmd.at \in {"attach", "insert"}, cmd.no \notin missed'
        PROVE  WillHear(cmd.uid, cmd.no)' \/ cache'[cmd.uid] # None
    <3>0. PICK u \in Uids, no \in Nos : u = cmd.uid /\ no = cmd.no
      BY <1>0, <1>2, <2>7 DEF ConnectOK, Uids
    <3>1. no \notin missed /\ KeptOrTold(u, no)
      BY <2>1, <2>5, <2>7, <3>0
    <3>2. WillHear(u, no) \/ cache[u] # None
      BY <1>2, <2>7, <3>0, <3>1, RemovalOKIs
    <3>3. WillHear(cmd.uid, cmd.no)' <=> WillHear(u, no)'
      BY <1>1, <3>0
    <3> QED BY <2>4, <3>0, <3>1, <3>2, <3>3
  <2>8. ASSUME drop.at = "open", cmd.at \in {"connect_tell", "clear", "handler"},
               cmd.no \notin missed'
        PROVE  (global'.at = "take" /\ global'.uid = cmd.uid) \/ cache'[cmd.uid] # None
    <3>1. cmd.uid \in Uids /\ cmd.no \notin missed
      BY <1>2, <2>1, <2>8 DEF ConnectOK, Connecting
    <3>2. (global.at = "take" /\ global.uid = cmd.uid) \/ cache[cmd.uid] # None
      BY <1>2, <2>8, <3>1, RemovalOKIs
    <3>3. global.at = "take" => RemovedTake
      BY DEF GlobalThread, InitSourceCache, InitDestCache, Scan, Register, AddedRead, AddedInsert,
         AddedTell, RemovedRead, RemovedTake, RemovedRun, RemovedTell, Take, Going
    <3>4. ~(global.at = "take" /\ global.uid = cmd.uid)
      BY <2>8, <3>3 DEF RemovedTake, ToPush
    <3> QED BY <2>3, <3>1, <3>2, <3>4
  <2>9. drop.at = "open" /\ cmd.at = "start" => \A u \in Uids : conn[u] = NoConn
    BY <1>2, RemovalOKIs
  <2> QED BY <1>1, <1>2, <2>6, <2>7, <2>8, <2>9, RemovalOKIsNext
<1> QED BY <1>3, <1>4

LEMMA RemovalCommand ==
  ASSUME TypeOK, ThreadsOK, ConnectOK', RemovalOK, CommandThread, drop.at = "open"
  PROVE  RemovalOK'
<1>0. /\ conn \in [Uids -> [no : Nos, gen : Gens]] /\ cmd \in CmdTs /\ cache \in [Uids -> Gens]
      /\ cmd.uid \in Uids \cup {NoUid}
  BY TypesAre DEF CmdTs
<1>a. ConnectOK
  BY DEF ThreadsOK
<1>1. global' = global /\ missed' = missed
  BY Frames
<1>2. told' = told
  BY DEF CommandThread, Start, ConnectLookup, ConnectTell, ConnectClear, ConnectHandler,
     ConnectAttach, ConnectInsert, Disconnect, Unhandle, CreateVirtual, ChooseUniqueId,
     ForgetAssigned, TellForgotten, VirtualAdd, VirtualTell, DestroyVirtual, Stop, clientv
<1>3. disconnected' = disconnected \/ ConnectClear \/ \E u \in Uids : Disconnect(u)
  BY DEF CommandThread, Start, ConnectLookup, ConnectTell, ConnectHandler,
     ConnectAttach, ConnectInsert, Unhandle, CreateVirtual, ChooseUniqueId,
     ForgetAssigned, TellForgotten, VirtualAdd, VirtualTell, DestroyVirtual, Stop, clientv
<1>4. disconnected' = disconnected => \A u, no : WillHear(u, no)' <=> WillHear(u, no)
  BY <1>1, <1>2 DEF WillHear, ToldOf, Removal
<1>5. /\ \A u \in Uids : conn[u] # NoConn /\ conn[u].no \notin missed =>
           /\ WillHear(u, conn[u].no) \/ cache[u] # None
           /\ cmd.at \in {"choose", "forget"} /\ cmd.uid = u => WillHear(u, conn[u].no)
      /\ cmd.at \in {"attach", "insert"} /\ cmd.no \notin missed =>
           WillHear(cmd.uid, cmd.no) \/ cache[cmd.uid] # None
      /\ cmd.at \in {"connect_tell", "clear", "handler"} /\ cmd.no \notin missed =>
           (global.at = "take" /\ global.uid = cmd.uid) \/ cache[cmd.uid] # None
  BY <1>a, RemovalOKIs
<1> USE DEF CmdStep, Working, Continuing, Carrying, coremidi, maps, clientv, dropv
<1>6. ASSUME UNCHANGED <<conn, disconnected>>,
             \A u \in Uids : cache[u] # None => cache'[u] # None,
             cmd'.at \in {"idle", "unhandle", "tell_forgotten", "add", "add_tell"}
      PROVE  RemovalOK'
  <2>1. \A u \in Uids : conn[u] # NoConn /\ conn[u].no \notin missed =>
          WillHear(u, conn[u].no)' \/ cache'[u] # None
    BY <1>4, <1>5, <1>6
  <2> QED BY <1>1, <1>6, <2>1, RemovalOKIsNext
<1>7. Start \/ Unhandle \/ TellForgotten \/ VirtualTell =>
        /\ UNCHANGED <<conn, disconnected, cache>>
        /\ cmd'.at \in {"idle", "unhandle", "tell_forgotten", "add", "add_tell"}
  BY <1>0 DEF Start, Unhandle, TellForgotten, VirtualTell, Idle, CmdAt, CmdTs
<1>8. CASE VirtualAdd
  <2>1. /\ UNCHANGED <<conn, disconnected>>
        /\ cmd'.at \in {"idle", "unhandle", "tell_forgotten", "add", "add_tell"}
    BY <1>0, <1>8 DEF VirtualAdd, Idle, CmdAt, CmdTs
  <2>2. cache' = cache \/ (cmd.gen # None /\ cache' = [cache EXCEPT ![cmd.uid] = cmd.gen])
    <3>1. cmd.gen \in 1..made /\ made \in Nat
      BY <1>8, TypesAre, Zeros DEF VirtualAdd, ThreadsOK, VirtualOK, Replacing
    <3> QED BY <1>8, <3>1, Zeros DEF VirtualAdd
  <2>3. \A u \in Uids : cache[u] # None => cache'[u] # None
    BY <1>0, <2>2
  <2> QED BY <1>6, <2>1, <2>3
<1>9. ASSUME NEW w \in Uids, DestroyVirtual(w) PROVE RemovalOK'
  <2>1. UNCHANGED <<conn, disconnected, cache>> /\ cmd'.at = "idle"
    BY <1>9 DEF DestroyVirtual
  <2> QED BY <1>6, <2>1
<1>10. ASSUME NEW w \in Uids, ConnectLookup(w) PROVE RemovalOK'
  <2>1. /\ UNCHANGED <<conn, disconnected>> /\ cmd'.uid = w
        /\ cmd'.at \in {"connect_tell", "handler", "clear"}
        /\ \E g : g # None /\ cache' = [cache EXCEPT ![w] = g]
    BY <1>10 DEF ConnectLookup, CmdAt
  <2>2. cache'[w] # None /\ \A u \in Uids : cache[u] # None => cache'[u] # None
    BY <1>0, <2>1
  <2>3. \A u \in Uids : conn[u] # NoConn /\ conn[u].no \notin missed =>
          WillHear(u, conn[u].no)' \/ cache'[u] # None
    BY <1>4, <1>5, <2>1, <2>2
  <2> QED BY <1>1, <2>1, <2>2, <2>3, RemovalOKIsNext
<1>11. CASE ConnectTell
  <2>1. /\ UNCHANGED <<conn, disconnected, cache>> /\ cmd'.uid = cmd.uid /\ cmd'.no = cmd.no
        /\ cmd.at = "connect_tell" /\ cmd'.at \in {"handler", "clear"}
    BY <1>0, <1>11 DEF ConnectTell, CmdTs
  <2> QED BY <1>1, <1>4, <1>5, <2>1, RemovalOKIsNext
<1>12. CASE ConnectClear
  <2>1. /\ UNCHANGED <<conn, cache>> /\ cmd'.uid = cmd.uid /\ cmd'.no = cmd.no
        /\ cmd.at = "clear" /\ cmd'.at = "handler" /\ conn[cmd.uid] = NoConn
        /\ disconnected' = disconnected \ {cmd.uid}
    BY <1>0, <1>12, <1>a DEF ConnectClear, CmdTs, ConnectOK, Connecting
  <2>2. \A u, no : u # cmd.uid => (WillHear(u, no)' <=> WillHear(u, no))
    BY <1>1, <1>2, <2>1 DEF WillHear, ToldOf, Removal
  <2>3. \A u \in Uids : conn[u] # NoConn /\ conn[u].no \notin missed =>
          WillHear(u, conn[u].no)' \/ cache'[u] # None
    BY <1>5, <2>1, <2>2
  <2> QED BY <1>1, <1>5, <2>1, <2>3, RemovalOKIsNext
<1>13. CASE ConnectHandler
  <2>1. /\ cmd.at = "handler" /\ cmd.uid \in Uids /\ conn[cmd.uid] = NoConn
        /\ UNCHANGED <<cache, disconnected>>
    BY <1>13, <1>a DEF ConnectHandler, ConnectOK, Connecting
  <2>3. CASE cmd.uid \in Sources
    <3>1. cmd'.uid = cmd.uid /\ cmd'.no = cmd.no /\ conn' = conn /\ cmd'.at = "attach"
      BY <1>0, <1>13, <2>3 DEF ConnectHandler, CmdTs
    <3>2. WillHear(cmd.uid, cmd.no)' <=> WillHear(cmd.uid, cmd.no)
      BY <1>4, <2>1, <3>1
    <3>3. cmd.no \notin missed => WillHear(cmd.uid, cmd.no) \/ cache[cmd.uid] # None
      BY <1>5, <2>1 DEF WillHear, Removal
    <3> QED BY <1>1, <1>4, <1>5, <2>1, <3>1, <3>2, <3>3, RemovalOKIsNext
  <2>4. CASE cmd.uid \notin Sources
    <3>1. cmd'.at = "idle" /\ conn' = Made
      BY <1>13, <2>4 DEF ConnectHandler, Idle, CmdAt
    <3>2. /\ conn'[cmd.uid].no = cmd.no
          /\ \A u \in Uids : u # cmd.uid => conn'[u] = conn[u]
      BY <1>0, <2>1, <3>1 DEF Made
    <3>3. cmd.no \notin missed => WillHear(cmd.uid, cmd.no) \/ cache[cmd.uid] # None
      BY <1>5, <2>1 DEF WillHear, Removal
    <3>4. \A u \in Uids : WillHear(u, conn[u].no)' <=> WillHear(u, conn'[u].no)
      BY <1>4, <2>1
    <3>5. \A u \in Uids : conn'[u] # NoConn /\ conn'[u].no \notin missed =>
            WillHear(u, conn[u].no)' \/ cache'[u] # None
      BY <1>5, <2>1, <3>2, <3>3, <3>4
    <3> QED BY <1>1, <3>1, <3>5, RemovalOKIsNext
  <2> QED BY <2>3, <2>4
<1>14. CASE ConnectAttach
  <2>1. /\ UNCHANGED <<conn, disconnected, cache>> /\ cmd'.uid = cmd.uid /\ cmd'.no = cmd.no
        /\ cmd.at = "attach" /\ cmd'.at \in {"insert", "unhandle"}
    BY <1>0, <1>14 DEF ConnectAttach, CmdTs
  <2>2. WillHear(cmd.uid, cmd.no)' <=> WillHear(cmd.uid, cmd.no)
    BY <1>4, <2>1
  <2> QED BY <1>1, <1>4, <1>5, <2>1, <2>2, RemovalOKIsNext
<1>15. CASE ConnectInsert
  <2>1. /\ cmd.at = "insert" /\ cmd.uid \in Uids /\ cmd'.at = "idle" /\ conn' = Made
        /\ UNCHANGED <<cache, disconnected>>
    BY <1>15, <1>a DEF ConnectInsert, Idle, CmdAt, ConnectOK, Connecting
  <2>2. /\ conn'[cmd.uid].no = cmd.no
        /\ \A u \in Uids : u # cmd.uid => conn'[u] = conn[u]
    BY <1>0, <2>1 DEF Made
  <2>3. \A u \in Uids : WillHear(u, conn[u].no)' <=> WillHear(u, conn'[u].no)
    BY <1>4, <2>1
  <2>4. \A u \in Uids : conn'[u] # NoConn /\ conn'[u].no \notin missed =>
          WillHear(u, conn[u].no)' \/ cache'[u] # None
    BY <1>5, <2>1, <2>2, <2>3
  <2> QED BY <1>1, <2>1, <2>4, RemovalOKIsNext
<1>16. ASSUME NEW w \in Uids, Disconnect(w) PROVE RemovalOK'
  <2>1. /\ cmd'.at = "unhandle" /\ cache' = cache
        /\ disconnected' = disconnected \ {w} /\ conn' = [conn EXCEPT ![w] = NoConn]
    BY <1>16 DEF Disconnect, CmdAt
  <2>2. conn'[w] = NoConn /\ \A u \in Uids : u # w => conn'[u] = conn[u]
    BY <1>0, <2>1
  <2>3. \A u, no : u # w => (WillHear(u, no)' <=> WillHear(u, no))
    BY <1>1, <1>2, <2>1 DEF WillHear, ToldOf, Removal
  <2>4. \A u \in Uids : u # w => (WillHear(u, conn[u].no)' <=> WillHear(u, conn[u].no))
    BY <2>2, <2>3
  <2>5. \A u \in Uids : conn'[u] # NoConn /\ conn'[u].no \notin missed =>
          WillHear(u, conn[u].no)' \/ cache'[u] # None
    BY <1>5, <2>1, <2>2, <2>4
  <2> QED BY <1>1, <2>1, <2>5, RemovalOKIsNext
<1>17. ASSUME NEW w \in Uids, CreateVirtual(w) PROVE RemovalOK'
  <2>1. /\ UNCHANGED <<conn, disconnected, cache>> /\ cmd'.uid = w /\ cache[w] = None
        /\ cmd'.at \in {"add", "choose"}
    BY <1>17 DEF CreateVirtual, CmdAt
  <2>2. \A u \in Uids : WillHear(u, conn[u].no)' <=> WillHear(u, conn[u].no)
    BY <1>4, <2>1
  <2> QED BY <1>1, <1>5, <2>1, <2>2, RemovalOKIsNext
<1>18. ASSUME NEW w \in Uids, ChooseUniqueId(w) PROVE RemovalOK'
  <2>1. /\ UNCHANGED <<conn, disconnected, cache>> /\ cmd.at = "choose"
        /\ cmd'.at = "idle" \/ (cmd'.at = "forget" /\ cmd'.uid = cmd.uid)
    BY <1>0, <1>18 DEF ChooseUniqueId, Idle, CmdAt, CmdTs
  <2>2. \A u \in Uids : WillHear(u, conn[u].no)' <=> WillHear(u, conn[u].no)
    BY <1>4, <2>1
  <2> QED BY <1>1, <1>5, <2>1, <2>2, RemovalOKIsNext
<1>19. CASE ForgetAssigned
  <2>1. /\ UNCHANGED <<conn, disconnected>> /\ cmd.at = "forget"
        /\ cache' = [cache EXCEPT ![cmd.uid] = None] /\ cmd'.at \in {"add", "tell_forgotten"}
    BY <1>0, <1>19 DEF ForgetAssigned, CmdAt, CmdTs
  <2>2. \A u \in Uids : WillHear(u, conn[u].no)' <=> WillHear(u, conn[u].no)
    BY <1>4, <2>1
  <2>3. \A u \in Uids : u # cmd.uid => cache'[u] = cache[u]
    BY <1>0, <2>1
  <2> QED BY <1>1, <1>5, <2>1, <2>2, <2>3, RemovalOKIsNext
<1>20. CASE Stop
  <2>1. cmd'.at = "gone" /\ \A u \in Uids : conn'[u] = NoConn
    BY <1>20 DEF Stop, CmdAt
  <2> QED BY <2>1, RemovalOKIsNext
<1> QED BY <1>6, <1>7, <1>8, <1>9, <1>10, <1>11, <1>12, <1>13, <1>14, <1>15, <1>16, <1>17,
           <1>18, <1>19, <1>20 DEF CommandThread

LEMMA NextRemoval ==
  ASSUME TypeOK, ThreadsOK, HandlerOK, RemovalOK, Next
  PROVE  RemovalOK'
<1>1. ConnectOK'
  BY NextConnect
<1>2. CASE UNCHANGED <<cache, conn, told, disconnected, global, cmd, drop, missed>>
  BY <1>2 DEF RemovalOK, Told, Removal
<1>3. CASE DropThread
  <2>1. UNCHANGED <<cache, conn, told, disconnected, global, cmd, missed>>
    BY <1>3, Frames
  <2>2. drop'.at # "open"
    <3>1. drop \in [at : {"open", "read", "unhandle", "shutdown", "closed"},
                     conns : SUBSET Sources]
      BY TypesAre
    <3> QED BY <1>3, <3>1
            DEF DropThread, OnDrop, OnDropRead, OnDropUnhandle, OnDropShutdown, DropStep
  <2> QED BY <2>2 DEF RemovalOK
<1>4. CASE CommandThread
  <2>1. drop' = drop
    BY <1>4, Frames
  <2>2. CASE drop.at = "open"
    BY <1>1, <1>4, <2>2, RemovalCommand
  <2> QED BY <2>1, <2>2 DEF RemovalOK
<1> QED BY <1>2, <1>3, <1>4, RemovalGlobal, Frames DEF Next, CoreMidi

-----------------------------------------------------------------------------
(* The theorems.                                                           *)

LEMMA InitConsistent == Init => Consistent
<1> SUFFICES ASSUME Init PROVE Consistent
  OBVIOUS
<1>1. /\ \A u \in Uids : obj[u] = None /\ handlers[u] = {} /\ conn[u] = NoConn
                         /\ known[u] = "unheard"
      /\ cmd.at = "start" /\ global.at = "scan_sources" /\ global.fns = {}
      /\ drop.at = "open" /\ shutdown = FALSE /\ notes = <<>> /\ made = 0 /\ vports = {}
  BY DEF Init, CmdAt, At, GlobalAt
<1>2. ThreadsOK
  BY <1>1, Zeros DEF ThreadsOK, ConnectOK, VirtualOK, GlobalOK, Connecting, Replacing, Listening
<1>3. HandlerOK /\ ReleaseOK /\ TellOK
  BY <1>1, CoreMidiAssumption DEF HandlerOK, ReleaseOK, TellOK, GlobalWillTell, CommandWillTell,
     Uids
<1>4. ListOK
  <2>1. \A u \in Uids : cache[u] = None
    BY DEF Init
  <2>2. Leaving = {}
    BY <1>1, <2>1 DEF Leaving, BeingInserted
  <2>3. Owed
    <3>1. RemovedKnown => Owed
      BY <2>2 DEF Owed
    <3>2. [u \in {} |-> 1] \in [Leaving -> DOMAIN notes] /\ Matched([u \in {} |-> 1])
      BY <2>2 DEF Matched
    <3> QED BY <3>1, <3>2 DEF Owed
  <2> QED BY <1>1, <2>1, <2>3 DEF ListOK, LeavingOK, ExistOK, ExistAt
<1>5. RemovalOK
  BY <1>1 DEF RemovalOK
<1> QED BY <1>2, <1>3, <1>4, <1>5, InitTyped DEF Consistent

\* Every step keeps the inductive invariant.
LEMMA NextConsistent == Consistent /\ [Next]_vars => Consistent'
<1> SUFFICES ASSUME Consistent, [Next]_vars PROVE Consistent'
  OBVIOUS
<1>1. CASE Next
  <2>1. TypeOK'
    <3>1. \A u \in Uids : Appears(u) \/ Vanishes(u) => TypeOK'
      BY EndpointsTyped DEF Consistent
    <3> QED BY <1>1, <3>1, GlobalTyped, CommandTyped, DropTyped DEF Consistent, Next, CoreMidi
  <2> QED BY <1>1, <2>1, NextThreads, NextHandler, NextRelease, NextTell, NextList, NextRemoval
          DEF Consistent
<1>2. CASE UNCHANGED vars
  <2> USE <1>2 DEF vars, coremidi, maps, clientv, cmdv, dropv, tellv, history, Consistent
  <2>1. TypeOK' /\ ThreadsOK' /\ HandlerOK' /\ ReleaseOK' /\ TellOK' /\ RemovalOK'
    BY DEF TypeOK, ThreadsOK, ConnectOK, VirtualOK, GlobalOK, Listening, HandlerOK, HandlerKept,
       Told, ReleaseOK, UnderWay, TellOK, GlobalWillTell, CommandWillTell, RemovalOK, Removal
  <2>2. ListOK'
    <3>1. ExistOK'
      BY DEF ListOK, ExistOK, ExistAt, Coming, Adds, Removes, Listening, Scanned
    <3>2. Leaving' = Leaving
      BY DEF Leaving, BeingInserted
    <3>3. Owed' = Owed
      BY <3>2 DEF Owed, Matched, Removes
    <3>4. LeavingOK'
      BY <3>3 DEF LeavingOK, ListOK
    <3>5. unnoticed' = {} /\ cmd'.at = "forget" /\ cmd'.uid \in BeingInserted' =>
            RemovedKnown /\ \E i \in DOMAIN notes' : Removes(i, cmd.uid)'
      BY DEF ListOK, BeingInserted, Removes
    <3> QED BY <3>1, <3>4, <3>5 DEF ListOK, Listening, Scanned
  <2> QED BY <2>1, <2>2
<1> QED BY <1>1, <1>2

\* The inductive invariant of the CoreMIDI backend holds in every state.
THEOREM ConsistentAlways == Spec => []Consistent
BY InitConsistent, NextConsistent, PTL DEF Spec

\* Types: a mark of disconnection is on destinations only.
THEOREM TypeCorrect == Spec => []TypeOK
<1>1. Consistent => TypeOK
  BY DEF Consistent
<1> QED BY <1>1, ConsistentAlways, PTL

\* No order of connects, disconnects, failures to attach, removals and virtual ports
\* loses the handler by which the application is to learn that an endpoint went
\* (connect_source, connect_destination, on_source_removed, remove_client_handlers).
THEOREM HandlerOrToldAlways == Spec => []HandlerOrTold
<1>1. Consistent => HandlerOrTold
  BY DEF Consistent, ThreadsOK, GlobalOK, HandlerOK, HandlerKept, HandlerOrTold
<1> QED BY <1>1, ConsistentAlways, PTL

\* A client that is gone leaves no handler in the global maps but those of source
\* connections finished after on_drop began (PlatformClient::drop, on_drop).
THEOREM HandlersReleasedAlways == Spec => []HandlersReleased
<1>1. Consistent => HandlersReleased
  <2> SUFFICES ASSUME Consistent, cmd.at = "gone", drop.at = "closed", NEW u \in Uids
               PROVE  handlers[u] \subseteq late
    BY DEF HandlersReleased
  <2>1. UnderWay(u) = {}
    BY DEF UnderWay
  <2> QED BY <2>1 DEF Consistent, ReleaseOK, Uids
<1> QED BY <1>1, ConsistentAlways, PTL

\* Once no thread has anything left to do, every endpoint is on the list and nothing else
\* is, but for what changed without a notice: for any number of endpoints and any order
\* of notifications, guesses of find_stale_uid and changes of choose_unique_id.
THEOREM ListExactAlways == Spec => []ListExact
<1>1. Consistent => ListExact
  <2> SUFFICES ASSUME Consistent, Quiet PROVE ListExact
    BY DEF ListExact, ExistsListed, ListedExists
  <2>1. notes = <<>> /\ DOMAIN notes = {} /\ Listening /\ BeingInserted = {}
    BY DEF Quiet, Listening, BeingInserted
  <2>2. ExistsListed
    <3> SUFFICES ASSUME NEW u \in Uids \ unnoticed, obj[u] # None PROVE cache[u] # None
      BY DEF ExistsListed
    <3>1. ~Coming(u)
      BY <2>1 DEF Coming, Quiet
    <3> QED BY <2>1, <3>1 DEF Consistent, ListOK, ExistOK, ExistAt
  <2>3. ListedExists
    <3> SUFFICES ASSUME unnoticed = {}, NEW u \in Uids, cache[u] # None, obj[u] = None
                 PROVE  FALSE
      BY DEF ListedExists, Listed
    <3>1. u \in Leaving
      BY DEF Leaving, Quiet
    <3>2. Owed
      BY DEF Consistent, ListOK, LeavingOK
    <3> QED BY <2>1, <3>1, <3>2 DEF Owed
  <2> QED BY <2>2, <2>3 DEF ListExact
<1> QED BY <1>1, ConsistentAlways, PTL

\* Once no thread has anything left to do, a connection whose endpoint is gone was told so,
\* whichever id find_stale_uid guessed for which removal, unless the removal was handled
\* between the connect's lookup and its push (connect_source, handle_connect_destination).
THEOREM EveryToldAlways == Spec => []EveryTold
<1>1. Consistent => EveryTold
  <2>1. ASSUME Consistent, Quiet, unnoticed = {}, drop.at = "open", NEW u \in Uids,
               conn[u] # NoConn, obj[u] = None, conn[u].no \notin missed
        PROVE  Told(u)
    <3>1. ~Removal(u, conn[u].no)
      BY <2>1 DEF Removal, Quiet
    <3>2. cache[u] = None
      <4> SUFFICES ASSUME cache[u] # None PROVE FALSE
        OBVIOUS
      <4>1. u \in Leaving /\ Owed /\ DOMAIN notes = {}
        BY <2>1 DEF Leaving, Quiet, Consistent, ListOK, LeavingOK
      <4> QED BY <4>1 DEF Owed
    <3> QED BY <2>1, <3>1, <3>2 DEF Consistent, RemovalOK
  <2> QED BY <2>1 DEF EveryTold
<1> QED BY <1>1, ConsistentAlways, PTL

\* What the subscriber was last told of an endpoint is what the cache says, unless both
\* threads were about to tell it of that endpoint at once (on_source_added,
\* on_source_removed, choose_unique_id, connect_source).
THEOREM SubscriberAgreesAlways == Spec => []SubscriberAgrees
<1>1. Consistent => SubscriberAgrees
  BY DEF Consistent, TellOK, SubscriberAgrees, Quiet, GlobalWillTell, CommandWillTell
<1> QED BY <1>1, ConsistentAlways, PTL

=============================================================================
