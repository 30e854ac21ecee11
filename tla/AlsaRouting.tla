----------------------------- MODULE AlsaRouting -----------------------------
(***************************************************************************)
(* platform/alsa.rs, drain_seq_events: which streams an event of the       *)
(* sequencer reaches.  Other clients write typed events and pieces of      *)
(* SysEx; the sequencer puts a copy into the client's queue for its input  *)
(* port, to which a connection subscribes, and for each of its virtual     *)
(* destinations the writer is subscribed to.  A connection is looked up by *)
(* where an event is from, a virtual destination by where it is to, and    *)
(* each has a parser of its own for the pieces, here as much of it as      *)
(* tells whole SysEx from others (StreamParser has it all).                *)
(*                                                                         *)
(* What is written is known by its writer and a number.  The streams are   *)
(* as long as they need to be: InboundStreams has their limits.            *)
(***************************************************************************)
EXTENDS Integers, Sequences, FiniteSets, SequencesExt

CONSTANTS Writers,      \* ports of other clients
          Virtuals,     \* virtual destinations
          MaxWrites,    \* bound: writes
          MaxConnects   \* bound: connections made

In == "in"                                    \* midi-io-input

ASSUME RoutingAssumption == /\ Writers \cap Virtuals = {}
                            /\ IsFiniteSet(Virtuals)
                            /\ In \notin Virtuals
                            /\ MaxWrites \in Nat
                            /\ MaxConnects \in Nat

Streams == Writers \cup Virtuals

VARIABLES
  \* the sequencer and its other clients
  routes,     \* who is subscribed to which virtual destination
  writing,    \* the pieces of the SysEx a writer is amid
  queue,      \* the client's queue: from whom, to which port, what
  writes,     \* writes so far
  \* PortRegistry
  conn,       \* connections, by source
  parser,     \* the parser of a connection or a virtual destination
  stream,     \* what its streams were given
  connects,   \* connections made so far
  \* history
  written,    \* what a writer wrote, a SysEx once it was whole
  since,      \* how much of it was written before its connection was made
  fresh,      \* connections made with nothing of the source queued
  clean,      \* those of them made between two SysEx
  mixed       \* virtual destinations two writers wrote SysEx to at once

outside  == <<routes, writing, writes>>
registry == <<conn, parser, stream, connects>>
history  == <<written, since, fresh, clean, mixed>>
vars     == <<outside, queue, registry, history>>

\* An event is a message or the refusal of one; "broken" is an error of the parser.
Event(n)              == [type |-> "event", pieces |-> <<n>>]
Sysex(pieces)         == [type |-> "sysex", pieces |-> pieces]
Broken                == [type |-> "broken", pieces |-> <<>>]
Piece(n, first, last) == [type |-> "piece", pieces |-> <<n>>, first |-> first, last |-> last]

Closed  == [at |-> "closed", pieces |-> <<>>]
Orphans == [at |-> "orphans", pieces |-> <<>>]
Open(pieces) == [at |-> "sysex", pieces |-> pieces]

Init == /\ routes \in SUBSET (Writers \X Virtuals)
        /\ writing = [w \in Writers |-> <<>>]
        /\ queue = <<>>
        /\ writes = 0
        /\ conn = {}
        /\ parser = [s \in Streams |-> Closed]
        /\ stream = [s \in Streams |-> <<>>]
        /\ connects = 0
        /\ written = [w \in Writers |-> <<>>]
        /\ since = [w \in Writers |-> 0]
        /\ fresh = {} /\ clean = {} /\ mixed = {}

-----------------------------------------------------------------------------
(* Another client writes.                                                  *)

\* The ports of ours that get a copy, in the order of the subscriptions.
Copies(w) == (IF w \in conn THEN {In} ELSE {})
             \cup {v \in Virtuals : <<w, v>> \in routes}

Deliver(w, item) ==
  \E order \in SetToSeqs(Copies(w)) :
    queue' = queue \o [i \in DOMAIN order |->
                         [src |-> w, dest |-> order[i], item |-> item]]

Write == /\ writes < MaxWrites
         /\ writes' = writes + 1
         /\ UNCHANGED <<routes, registry, since, fresh, clean>>

Wrote(w, item) == written' = [written EXCEPT ![w] = Append(@, item)]

WriteEvent(w) == LET event == Event(<<w, writes + 1>>)
                 IN /\ Write
                    /\ Deliver(w, event)
                    /\ Wrote(w, event)
                    /\ UNCHANGED <<writing, mixed>>

\* A piece begins a SysEx or goes on with it, and may end it.
WritePiece(w, last) ==
  LET first  == writing[w] = <<>>
      piece  == Piece(<<w, writes + 1>>, first, last)
      pieces == writing[w] \o piece.pieces
  IN /\ Write
     /\ Deliver(w, piece)
     /\ writing' = [writing EXCEPT ![w] = IF last THEN <<>> ELSE pieces]
     /\ IF last THEN Wrote(w, Sysex(pieces)) ELSE UNCHANGED written
     /\ mixed' = mixed \cup {v \in Virtuals : <<w, v>> \in routes
                       /\ \E u \in Writers \ {w} : <<u, v>> \in routes /\ writing[u] # <<>>}

-----------------------------------------------------------------------------
(* drain_seq_events takes one event of the queue.                          *)

\* StreamParser::push, of one piece: what it is afterwards and what it emits.
Pushed(p, item) ==
  LET pieces == IF item.first THEN item.pieces ELSE p.pieces \o item.pieces
      before == IF item.first /\ p.at # "closed" THEN <<Broken>> ELSE <<>>
  IN IF ~item.first /\ p.at # "sysex"
     THEN IF item.last THEN [next |-> Closed, out |-> <<Broken>>]
                       ELSE [next |-> Orphans, out |-> <<>>]
     ELSE IF item.last THEN [next |-> Closed, out |-> before \o <<Sysex(pieces)>>]
     ELSE [next |-> Open(pieces), out |-> before]

\* Slip: every connection is given what comes in at the input port.
TargetsByPort(ev) == ({ev.dest} \cap Virtuals) \cup (IF ev.dest = In THEN conn ELSE {})

\* Slip: a virtual destination, or else a connection.
TargetsEither(ev) == IF ev.dest \in Virtuals /\ ev.src \in conn THEN {ev.src}
                     ELSE ({ev.dest} \cap Virtuals) \cup ({ev.src} \cap conn)

\* The two tests are independent of each other.
Targets(ev) == ({ev.dest} \cap Virtuals) \cup ({ev.src} \cap conn)

Take == queue # <<>> /\ queue' = Tail(queue) /\ UNCHANGED <<outside, conn, connects, history>>

\* route_message, route_error: past the parser.
RouteEvent ==
  LET ev == Head(queue)
  IN /\ Take
     /\ ev.item.type = "event"
     /\ stream' = [s \in Streams |-> IF s \in Targets(ev) THEN Append(stream[s], ev.item)
                                     ELSE stream[s]]
     /\ UNCHANGED parser

RoutePiece ==
  LET ev     == Head(queue)
      after  == [s \in Targets(ev) |-> Pushed(parser[s], ev.item)]
  IN /\ Take
     /\ ev.item.type = "piece"
     /\ parser' = [s \in Streams |-> IF s \in Targets(ev) THEN after[s].next ELSE parser[s]]
     /\ stream' = [s \in Streams |-> IF s \in Targets(ev) THEN stream[s] \o after[s].out
                                     ELSE stream[s]]

-----------------------------------------------------------------------------
(* handle_connect and Disconnect, between two events.                      *)

Fresh(w) == IF \E i \in DOMAIN queue : queue[i].src = w THEN {} ELSE {w}

\* Slip: the parser of an earlier connection of the source goes on.
ConnectKeepsParser(w) ==
  /\ w \notin conn
  /\ connects < MaxConnects
  /\ connects' = connects + 1
  /\ conn' = conn \cup {w}
  /\ stream' = [stream EXCEPT ![w] = <<>>]
  /\ since' = [since EXCEPT ![w] = Len(written[w])]
  /\ fresh' = fresh \cup Fresh(w)
  /\ clean' = clean \cup {u \in Fresh(w) : writing[u] = <<>>}
  /\ UNCHANGED <<outside, queue, parser, written, mixed>>

Connect(w) ==
  /\ w \notin conn
  /\ connects < MaxConnects
  /\ connects' = connects + 1
  /\ conn' = conn \cup {w}
  /\ parser' = [parser EXCEPT ![w] = Closed]
  /\ stream' = [stream EXCEPT ![w] = <<>>]
  /\ since' = [since EXCEPT ![w] = Len(written[w])]
  /\ fresh' = fresh \cup Fresh(w)
  /\ clean' = clean \cup {u \in Fresh(w) : writing[u] = <<>>}
  /\ UNCHANGED <<outside, queue, written, mixed>>

Disconnect(w) ==
  /\ w \in conn
  /\ conn' = conn \ {w}
  /\ fresh' = fresh \ {w}
  /\ clean' = clean \ {w}
  /\ UNCHANGED <<outside, queue, parser, stream, connects, written, since, mixed>>

-----------------------------------------------------------------------------
Next == \/ \E w \in Writers : \/ WriteEvent(w) \/ Connect(w) \/ Disconnect(w)
                              \/ \E last \in BOOLEAN : WritePiece(w, last)
        \/ RouteEvent \/ RoutePiece

Spec == Init /\ [][Next]_vars

-----------------------------------------------------------------------------
OnRoute(w) == \E v \in Virtuals : <<w, v>> \in routes

\* What the source wrote since its connection was made.
Promised(w) == SubSeq(written[w], since[w] + 1, Len(written[w]))

By(item, w) == \A i \in DOMAIN item.pieces : item.pieces[i][1] = w

\* The items of w in a stream, in their order.
ItemsOf(s, w) ==
  LET of[i \in 0..Len(s)] == IF i = 0 THEN <<>>
                             ELSE IF By(s[i], w) THEN Append(of[i - 1], s[i])
                             ELSE of[i - 1]
  IN of[Len(s)]

\* A connection made between two SysEx, to a source that is not subscribed to a
\* virtual destination too, is given what the source writes, once, in order and
\* nothing else, however events of other writers and the pieces of their SysEx
\* fall in between, up to what is still queued.
ConnectionExact ==
  \A w \in clean : ~OnRoute(w) =>
    /\ IsPrefix(stream[w], Promised(w))
    /\ queue = <<>> => stream[w] = Promised(w)

\* A virtual destination that no two writers wrote SysEx to at the same time is
\* given what each of them wrote, once and in order, and nothing else, whether
\* there is a connection to a writer or not.
VirtualExact ==
  \A v \in Virtuals \ mixed :
    /\ \A i \in DOMAIN stream[v] : \E w \in Writers :
          <<w, v>> \in routes /\ By(stream[v][i], w)
    /\ \A w \in Writers : <<w, v>> \in routes =>
          LET given == ItemsOf(stream[v], w)
          IN IsPrefix(given, written[w]) /\ (queue = <<>> => given = written[w])

\* Even of a connection made in the middle of a SysEx, or after an earlier one of
\* its source, a SysEx is one that the source wrote whole, unless pieces for the
\* earlier one were still queued.
SysexWhole ==
  \A w \in fresh : ~OnRoute(w) => \A i \in DOMAIN stream[w] :
    stream[w][i].type = "sysex" => \E j \in DOMAIN written[w] : written[w][j] = stream[w][i]
=============================================================================
