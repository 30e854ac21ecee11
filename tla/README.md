# midi-io in TLA+

`midi-io` is a Rust library: MIDI input and output for applications on ALSA,
CoreMIDI and the Web MIDI API, with a codec and an incremental parser of the MIDI
byte stream. This directory models it in TLA+, checks the models with TLC and
proves the safety of its stateful components with TLAPS. Source paths below are relative to
the crate's `src/`.

## 1. The system

| Component | State it keeps | Operations |
| --- | --- | --- |
| Codec (`midi/*.rs`) | none | `RawMidiMessage::from`, `decode`, `SysEx::try_from`, `to_wire_bytes` |
| Stream parser (`midi/stream_parser.rs`) | running status, system common status, sysex buffer and flags, pending data, orphaned data | `push`, byte by byte |
| Inbound streams (`StreamSenders` in `platform/common.rs`, receivers in `connection.rs`) | three bounded queues, the error sender's mutex, the counter of refused events | `emit`, `send_message`, `send_error`, `report_overflow`, `lifecycle_error`; receiving and dropping a stream |
| Command channel (`platform/common.rs`, `connection.rs`, `client.rs`) | a bounded channel of commands, one-shot replies, the guards the application holds | `request`, `notify`, `ConnectionGuard::drop`, `PlatformClient::drop` |
| ALSA backend thread (`platform/alsa.rs`) | the eventfd and stop flag, the connections, the caches of ports, the virtual ports | `run_thread`: poll, `dispatch_commands`, `drain_seq_events` |
| ALSA port registry and routing (`PortRegistry` in `platform/alsa.rs`) | sources, destinations, connections, virtual ports, subscribers | hot-plug announcements, virtual port commands, routing of events |
| ALSA event conversion (`platform/alsa.rs`) | none | `message_from_event`, `control14_to_cc_pair`, `param_cc_messages` |
| CoreMIDI backend (`platform/coremidi.rs`) | caches and disconnect handlers of the whole process, connections and marks of a client, each under a lock of its own | commands on a thread of the client, notifications on a global one, `on_drop` on any |
| Web MIDI backend (`platform/web.rs`) | `WebState`: the access, connections, destinations | the drain of commands, futures that await `open()`, the `statechange` callback, `on_drop` |
| Names, errors, time, ids (`name.rs`, `error.rs`, `time.rs`, `port.rs`) | none | validation, formatting |

How they interact. The application's tasks call `Client`, which sends a `Command`
on the command channel and wakes the backend thread through an eventfd; the thread
answers on a one-shot channel that the task awaits. A successful connect gives the
task a connection, which shares one guard; dropping the last part of it sends a
disconnect that nobody awaits. Inbound data goes the other way: the backend (on
macOS several threads of it) decodes an event or pushes its bytes into the
connection's stream parser, and hands what comes out to the application through
three bounded queues, for messages, sysex and errors.

What is hard about it:

- the parser accepts any bytes in any order, keeps five pieces of state that must
  not survive the message they belong to, and has limits with boundary cases;
- the inbound queues drop what does not fit and must account for it, while other
  threads use the same error queue and the MIDI thread must never wait long;
- sending a command and waking a thread are two steps, as are polling, clearing
  the eventfd, testing the stop flag and dispatching;
- futures may be dropped while they wait, the channel may be full when a guard is
  dropped, the sequencer may fail, and the client may go away at any time;
- ports come and go by themselves, the backend reads of it later, looks up what the
  announcement does not say, and their numbers are used again at once;
- an event of the sequencer is routed by where it is from and by where it is to, and
  SysEx comes in pieces to parsers that belong to the receiver, not the writer;
- CoreMIDI's notifications run on a thread that shares five maps with the others,
  under five locks;
- in the browser nothing runs in parallel, but state tested before an `await` may
  have changed after it.

`PROJECT.json` lists these hazards one by one, each at its line.

## 2. What each component must satisfy

- Codec: encoding followed by decoding is the identity (up to the note-on of
  velocity 0); what is accepted re-encodes to the same bytes; a message is
  recognised without looking ahead.
- Parser: what it emits is a function of the bytes received, the one that
  `MidiStream` defines; it is in one mode at a time, never waits for data that can
  never complete a message, and one message leaves nothing to the next.
- Inbound streams: an open stream carries exactly the events that were not
  refused, in order; each refused event is reported exactly once or still counted;
  the backend thread always gets back to its work.
- Command channel and thread: a guard means a connection, one owner for each
  connection; no request waits for ever; dropping the client ends the thread.
  Seen from the application, a request takes effect at one moment, whatever the
  channel and the thread do (`ConnectionService`).
- Event conversion and routing: an event becomes the message it holds or an error;
  a stream carries what its source wrote, once, in order and nothing else.
- Port registry: what is listed is what exists, as soon as the announcements are
  read; whoever is connected to a port that goes is told; one who subscribes and
  lists knows what the backend knows; no subscription outlives its connection.
- CoreMIDI: no connection loses its handler untold, no handler outlives its client,
  the cache shows what there is, whatever the order of locks.
- Web: one owner for each connection, no listener or open port left after a drop,
  a removal that is always noticed, every request answered.

## 3. The modules

### Codec (checked by MCCodec)

The message type, `Encode`, `EncodeSysex`, `ExpectedLen`, `Decode`,
`DecodeSysex` as operators. Bytes are numbers, bit operations are written with
`\div` and `%`, the Rust enums are sets of records. `MaxSysexBytes` is
`MAX_SYSEX_BYTES`. An error carries its reason and the bytes it quotes, except the
error of an oversized sysex, which carries only lengths.

### StreamParser (checked by MCParserHistory)

The parser's eight fields and `events`, what the last byte emitted. `push` takes a
slice, but nothing can observe the parser between two bytes of a slice, so one
step is one byte; there is one action per way through the loop's body, named after
it (`SysexStart`, `SysexAbortedByChannel`, `SystemCommonData`, ...), and one
operator per private method (`FlushOrphans`, `AbortSysex`, `StartStatus`,
`HandleSystemCommon`).

### MidiStream and ParserHistory

`MidiStream` is the specification of the parser: it knows only the bytes received
(realtime bytes left out, since they may fall anywhere) and defines the events
of the next byte from them: the governing status, the data since then, counting
modulo the message's length for running status. It has no flags, buffers or
modes. `ParserHistory` adds the history of bytes to `StreamParser`, and
`Promise == INSTANCE MidiStream WITH ...` makes "the parser implements it" one
property, `ImplementsMidiStream`. `OrphanPrefixExact` is stated there too, since the
content of `orphan_buf` can only be compared with the bytes that arrived.

### InboundStreams

One connection: its three queues, the mutex around the error sender, the `dropped`
counter; one emitting thread and `Reporters`, the threads that call
`lifecycle_error`. `report_overflow` is split at each access to shared state
(load, try_lock, try_send, fetch_sub). The message and sysex senders have one user
and their mutexes are left out. A queue's capacity includes the extra slot
`futures_channel::mpsc` gives its sender.

History variables number the events offered, refused and received, so that the
properties can say what an open stream must have carried and what the overflow
reports must add up to.

### CommandChannel

`Tasks` of the application with their requests, replies and guards; the channel,
the eventfd, the stop flag; the backend thread's phases as in `run_thread`:

    poll -> clear_efd -> check_stop -> dispatch -> check_hup -> drain -> poll
                             \-> exit <------------/
                                  exit -> return -> gone

A command is handled in one step, since the thread alone owns the connections.
`Return` is the end of `run_thread`: dropping the channel's receiver drops the
queued commands and with them their reply senders, which wakes the tasks with
`BackendThreadDied`. `Cancel` drops a request's future at its only await. The
connections are those to destinations; connections to sources and virtual ports
use the same channel in the same way.

`orphaned` (connections whose guard is gone for good: the disconnect found the
channel full, or the connect was cancelled) and `contested` (tasks whose connect
was sent while the port had an owner) are history variables.

### ConnectionService

What an application may rely on, without channel, eventfd, poll loop or thread:
tasks ask, are served at one moment, and take the answer; a request may be given up
and still take effect; a guard's drop is heard of, or lost; the end of the backend
ends all connections and answers what is left. `CommandChannel` is shown to
implement it through `Service == INSTANCE ConnectionService WITH ...`:

| Abstract | In `CommandChannel` |
| --- | --- |
| `up` | the registry still exists: `phase` is not `return` or `gone` |
| `connections`, `request`, `reply`, `holds` | themselves |
| `releasing` | ports with a disconnect in the channel |
| `abandoned` | connects in the channel whose task gave them up, counted by port |

The service adds to the invariants that a guard's send always finds its connection,
that a task is answered once for each request, and that an answer belongs to a
state of the backend after the request and before the answer. Its fairness (every
request is answered, every answer taken, every drop that was heard of takes effect)
is implied by that of `CommandChannel`.

### AlsaPorts

`PortRegistry` and the sequencer it follows. The sequencer has a port (or none) at
each address and announces every start and exit on a queue; the backend scans the
ports once (`BuildCache`, a port a step, after the announcements are subscribed
to), then alternates between `dispatch` and `drain`:

    subscribe -> build -> dispatch <-> drain

Sequencer actions happen in every phase, so that anything may have changed when an
announcement is read. `gen` numbers the ports in the order they started and stands
for what the code keeps of a port besides its address, the name. The code does not
compare it; the properties do, to tell a port from the next one with its address.

State and code: `cache` is `source_cache` and `destination_cache` (one table per
kind, as all tables here), `conn` is `connections` and `destination_connections`
(`told` is the `PortDisconnected` error on a source's stream and the
`disconnected` flag of a destination), `vports` is `vsrc_send` and `vdest_ports`,
`vdest_recv` is itself. `known` is what one application knows that subscribes to the
changes, then lists the ports, and applies the changes; a change reaches it when it
is sent (the channel is unbounded and in order).

`unlisted` of a connection is a history variable: it was made to a port that was not
listed. A command that fails changes nothing and is left out; so are the sequencer's
own failures. One subscriber follows one kind of port, since nothing relates the two.

It takes the command channel for granted: one step is a command from call to
effect. `CommandChannel` has what can happen in between.

### AlsaEvents (checked by MCCodec)

The conversion of sequencer events to messages as operators: `MessageFromEvent` for
the events of one message, `Control14ToCcPair` and `ParamCcMessages` for those of
several, with every range check and its error. An event's fields are integers as wide
as ALSA's; errors keep them clamped to a byte, as the code does. `Coded` is what the
sequencer library makes of the bytes `send_encoded` gives it, and closes the circle:
what one client sends, another reads.

### AlsaRouting

`drain_seq_events` past the conversion: which of the client's streams an event
reaches. Two writers write messages and SysEx in pieces; the sequencer puts a copy
into the queue for the input port, if there is a connection to the writer, and for
each virtual destination the writer is subscribed to. `Targets` has the code's two
independent tests. A stream's parser is kept as far as it tells whole SysEx from
others; `StreamParser` has the rest.

`routes` is chosen at the start. `written` and `since` are history variables: what a
connection must be given is what its source wrote since it was made. `fresh`,
`clean` and `mixed` name the histories in which the code promises less (section 5).

### WebPorts

The backend in a browser: `Process` handles one command of a drain that nothing
interrupts (`draining`); a future of `connect_destination` is a record in `opening`
that goes through `spawned`, `awaiting` and its end; `statechange` events are due
for the ports in `changed` and read the port's state when they run, as the code does.
`handler` is an input's `onmidimessage`, `opened` the outputs that are open, both
held by the browser and not by `WebState`.

Connections have a number the code does not keep, so that the properties can tell
one connection of a port from the next. `lost` says how a connection ended other than
by its own guard, `late` what a promise brought after `on_drop`; both are history.

### CoreMidiPorts

Three threads that share maps under locks: the global one with the notifications,
the command thread of a client, and the thread on which the last handle is dropped.
A step is what a thread does under one lock (`global.at`, `cmd.at`, `drop.at`), so
that the others may run between any two. `RemovedKnown` says whether CoreMIDI still
knows the unique id of a removed object, in its removal's notification and in one
of its appearance that is handled late (`IdTold`); when not, the latter is ignored,
and for the former `find_stale_uid` takes any listed id that is not there, which
`RemovedRead` leaves open. A port may fail to attach while the endpoint is there
(`ConnectAttach`).

`gen` tells an endpoint from the next one with its id and `no` a connection from the
next one to its endpoint; the code has neither. History: `unnoticed` (ids whose
change no notification can tell of, or whose notification tells of another: the new
id of a virtual port while a removal of that id is queued, `BeingRemoved`, and its old
id while `find_stale_uid` may take it for another's, `BeingForgotten`), `missed` (a handler pushed after the
removal it is for was handled), `late` (a source connected while `on_drop` ran),
`crossed` (ids both threads were about to announce). Each stands for a case in which
the code promises less; the properties show that there is no other.

### The proofs

| Module | About |
| --- | --- |
| `CodecProofs` | encoding, decoding and the conversion of events |
| `StreamParserProofs` | the parser's invariants, and that it implements `MidiStream` |
| `InboundStreamsProofs` | the accounting and order of the three queues |
| `CommandChannelProofs` | ownership of connections, and the steps of `ConnectionService` |
| `AlsaPortsProofs` | the registry's lists, connections, virtual ports and subscriber |
| `AlsaRoutingProofs` | what a connection and a virtual destination are given |
| `WebPortsProofs` | the browser backend |
| `CoreMidiPortsProofs` | the CoreMIDI backend |

Each extends the module it is about; section 6 has their arguments.

### Wrong variants

A definition under a comment that begins with `Slip:` is a plausible mistake in
the definition that follows it: a dropped guard, an off-by-one, a missing reset.
Nothing uses it. Putting it in the right one's place must break the property
named in `PROJECT.json` under `mutants`, which shows that the property depends on
the code being as it is.

## 4. The runs

| Run | Bounds | States | What it shows |
| --- | --- | --- | --- |
| `codec` | slices of up to 4 bytes over 21 bytes; every message kind on 3 channels with boundary data; every kind of event on channels and with fields in and out of range | 209 000 | decoding undoes encoding and encoding undoes decoding (`RoundTrips`), no slice reads two ways (`Unambiguous`), and three properties of the conversion of events. The alphabet has a byte of every status range, undefined ones included, and data bytes at both ends |
| `parser` | every stream of up to 6 bytes over 10, sysex limit 1, prefix 2 | 1 196 000 | the refinement of `MidiStream` and the parser's invariants. Six bytes are enough for an overflowing sysex, two running-status messages, and an orphan prefix that overflows after a system common message |
| `inbound_streams` | queues of 1, 5 events, 1 other thread with 1 report | 1 160 000 | the accounting and order. With 5 events a queue can overflow, report, overflow again |
| `command_channel` | 2 tasks, 1 port, channel of 2, 4 requests, 1 sequencer event, cancellation | 232 000 | the ownership invariants, liveness, and the refinement of `ConnectionService` with its fairness |
| `command_cancel` | 1 task, 1 port, cancellation | - | finding 1 |
| `alsa_ports` | 1 port of another client, 2 starts, 2 virtual ports, 3 of both | 2 670 000 | the registry's invariants. Two starts let a port come back under its address with the first one's exit pending; two virtual ports share a number one after the other |
| `alsa_virtual_stale` | 2 virtual ports | - | finding 2 |
| `alsa_routing` | 2 writers, 1 virtual destination, 4 writes, 2 connections | 4 750 000 | what a stream carries. Four writes are two SysEx of two pieces, or one around an event; two connections let one of a source follow another |
| `web_ports` | 2 tasks, 1 input, 1 output, 2 connects, 2 plugs | 169 000 | ownership, release and liveness. Two plugs take a port away and bring it back while a connect awaits its promise |
| `web_race` | 2 tasks, 1 output, 2 connects | - | finding 3 |
| `coremidi_ports` | 1 source, 3 destinations, 2 endpoints made, 2 connections, removed objects unknown | 4 820 000 | the handlers, the cache and the subscriber. The third destination is what `find_stale_uid` needs to take the id that `choose_unique_id` replaced for the removal of another |
| `coremidi_marked` | 1 destination, 2 endpoints made, 2 connections | - | finding 4 |

Each module of a component states a `TypeOK`, and the theorem `TypeCorrect` of its
proofs says that it holds (`AlsaRoutingProofs` has its types as `Typed`). The runs
list only what can go wrong in the code, and of the `TypeOK`s that of
`InboundStreams`, whose bounds on the queues say something.

Why small bounds are enough: the parser compares lengths only with its limits and
with 1 and 2; the queues and the channel matter as empty, neither, or full; a
third task or port adds no way of interacting that two do not have. In `AlsaPorts`
an address matters only through its current port, the one before it and the
announcements of both; addresses meet only in a client's exit, which removes each
port of the client as the port's own exit would. In `AlsaRouting` the writers are
interchangeable (`SYMMETRY`; its properties are invariants), and so are the two destinations of
`CoreMidiPorts` that are neither connected nor virtual at first. There, ids of one
kind meet in `find_stale_uid` and `choose_unique_id` only: the replaced id, the
removed one, and the one wanted or guessed. For the safety properties the theorems
say that no larger instance differs.

Deadlock is not checked where the bounds end a run (no more events or requests)
and where the system really stops (the thread is gone).

### Fairness

- `InboundStreams`: a thread that has begun to emit or report goes on (weak
  fairness of each thread's next step). Nothing is assumed of the application: it
  may never receive.
- `AlsaPorts`, `AlsaRouting`, `CoreMidiPorts`: none, they state safety only.
- `WebPorts`: the event loop runs what is due, in the order it became due. Weak
  fairness of the drain says the first; that a future or a task which becomes due
  again and again is not overtaken for ever needs strong fairness (a running drain
  disables the others in between). That `open()` settles is the Web MIDI API's
  promise. Nothing is assumed of the permission prompt's answer, the ports or the
  application, but that it polls what it awaits.
- `CommandChannel`: the backend thread runs, a task that has been woken or is
  between sending and waking goes on, a client drop that began ends. These are the
  operating system's and the executor's scheduling. Nothing is assumed of when
  the application makes requests, drops guards or ends, or of the sequencer. The
  loops of `dispatch_commands` and `drain_seq_events` have no bound in the code;
  what ends them in the model is that requests and sequencer events are bounded.

## 5. Findings

1. `tests/connect_e2e.rs` (`second_destination_connect_rejected_until_drop`) has a
   port refused only until its connection is dropped. A connect whose future is
   dropped while it waits for its reply leaves a connection without a guard, because
   `dispatch_commands` ignores that nobody takes the reply (`alsa.rs:435`, and 416
   for sources). Run `command_cancel`.
2. A virtual port's number is given again as soon as it is free, but its exit is
   announced, and `handle_port_exit` (`alsa.rs:362`), unlike `handle_port_start`,
   does not leave out the client's own ports. Destroy one virtual port and create
   another before the thread drains: the new one is taken off the list and announced
   as removed while it exists (`client.rs:39`; `tests/hotplug_e2e.rs`,
   `virtual_ports_emit_added_and_removed`). Run `alsa_virtual_stale`.
3. In the browser, `connect_destination` tests for a connection before it awaits
   `open()` and inserts after it without testing again (`web.rs:277`, 294): two
   connects that overlap both succeed, against the test of finding 1, and the drop
   of one connection closes the port under the other. Run `web_race`.
4. `on_dest_removed` takes an endpoint's handlers and runs them after the lock
   (`coremidi.rs:346`). In between, the application may disconnect, the endpoint come
   back, and a new connect clear the mark that the old handler then sets: every send
   is refused, against `connect_destination_clears_stale_disconnected_flag`
   (`coremidi.rs:1228`). Run `coremidi_marked`.

What the modules show besides, each visible as an exception in a property:

- `common.rs:31` says of the inbound queues' capacity "Once the limit is reached, old
  messages drop to accomodate for new". The code (`common.rs:96`) refuses the new
  one; `StreamsExact` has it so.
- `common.rs:29` says the same of the command channel, and it is not so there either:
  a `sync_channel` that is full refuses the new command (`try_send`), which a request
  is told (`BackendCommandChannelFull`) and a guard that is dropped loses (the next point). The
  commands in it are kept in their order, as `OneOwner` and `ImplementsService` have
  it.
- A disconnect that finds the command channel full is logged and lost
  (`common.rs:218`), and the port stays refused until the client ends: with finding 1
  the only ways to get there, as `ConnectionOwned` shows.
- ALSA: a connect asks the sequencer, not the list (`alsa.rs:738`), but only the exit
  of a listed port is told to its connection (`alsa.rs:326`). Connect to a port that
  has just started; if it exits before its start is read, the connection is never
  told. `ToldWhenGone` shows that it is the only case (`unlisted`).
- ALSA: an exit announced before a connection was made to the next port with the
  same address marks that connection, although its port is there.
- ALSA: an event of a connected source to one of the client's own virtual
  destinations matches both tests (`alsa.rs:390`). The source is subscribed to the
  input port too, so the connection is given it twice, and the pieces of a SysEx
  twice each, which garbles it. `ConnectionExact` leaves such sources out (`OnRoute`).
- ALSA: a virtual destination has one parser (`alsa.rs:672`): pieces of SysEx that two
  writers write at the same time are put together (`mixed`).
- ALSA: pieces still queued for an earlier connection of a source go to the parser of
  the next, which may put a SysEx together from two halves (`fresh`).
- Web: a port that goes and comes back can be connected again while the first
  connection's guard still exists; the guard's disconnect names only the port and
  cuts the new connection (`lost = "cut"`). A source's stream then ends without
  `PortDisconnected`, which this backend never sends.
- Web: what the permission prompt or `open()` brings after the client was dropped is
  installed or stays open for good (`late`).
- CoreMIDI: what appears or vanishes between the filling of the caches
  (`coremidi.rs:206`) and the registration for notifications is not noticed
  (`unnoticed`); nor is the change of an id that the notification thread has read and
  not yet inserted.
- CoreMIDI, when a removed object no longer tells its id: `find_stale_uid`
  (`coremidi.rs:427`) takes any listed id that is gone. Between `choose_unique_id`
  and the removal of the replaced id from the cache, that id is one. If the removal of
  another endpoint is handled then, it takes this id, and the endpoint that went
  stays listed for ever (`BeingForgotten`).
- CoreMIDI, when it does: a virtual destination that is given the id of an endpoint
  whose removal is still queued is taken off the list by it while it exists
  (`BeingRemoved`). Both are in `unnoticed` too; they came out of the attempt to
  prove `ListExact` for any number of ids and both values of `RemovedKnown`.
- CoreMIDI: a removal handled between a connect's lookup and the push of its handler
  is never told to that connection (`missed`); a source connected while `on_drop`
  runs leaves its handler behind (`late`).
- CoreMIDI: two threads tell subscribers after giving up the cache's lock
  (`coremidi.rs:305`), and may do so in the wrong order (`crossed`).

## 6. Proofs

Every invariant that a run checks is a theorem: for any ports, tasks, bytes, queue
lengths and limits, without the bounds of section 4 (a bound like `MaxEvents` is any
number). So are the refinement of `MidiStream` and the
safety part of the refinement of `ConnectionService`. The theorems assume what the
`ASSUME`s of the modules say: that limits are natural numbers, capacities positive,
the bytes of an alphabet bytes and the fields of events integers, the kinds of ports disjoint, and the names that stand for no port, task or writer not
among them; TLC evaluates them in every run.

All have the same form: an inductive invariant, named `Consistent` (or `Exact`, where
a second one is built on it, and `Reached` for the codec); a lemma that `Init` implies it; one lemma for each action
and part of it that the action can disturb; `THEOREM ConsistentAlways`; and one theorem
per property.

**Codec, AlsaEvents.** The states of `MCCodec` are inputs, so its invariant `Reached`
only says what they are: bytes, a message with its encoding, an event in the widths of
ALSA's structs. The constants that bound them are arbitrary, and with all bytes, data,
channels and fields the theorems are about every slice, message and event. The work is
in the operators: the bytes of a message have one of four forms (`EncodeIs`), its
status byte gives back kind, channel and length (`ChannelStatusIs`, `SystemStatusIs`,
and `KindForIs` for the way back), the two halves of a 14-bit value are the value
(`Split14`, `Join14`), and a slice is accepted exactly if it is a `Packet` or a
`SysexPacket`. The `CHOOSE`s of `Coded` and `MessageOf` are determined, since no two
types and no two kinds have one status byte. `AcceptedIsMessage` is the centre of
`EventKeptOrRefused`: the fields are checked for exactly what a MIDI message can carry.

**StreamParser.** `Consistent` splits the parser's fields by what they say: flags,
statuses, the modes' exclusion, the lengths of the buffers. None of its properties
is inductive alone: `NeverWedged` of the running status needs `OneMode` (a status byte
inside a sysex sets the running status without clearing the system common one), which
needs `SysexContained`.

**ParserHistory.** `ImplementsMidiStreamAlways` is the whole refinement, since
`MidiStream` states no fairness. `Means` says what each field stands for in the bytes
received: the flags and statuses are the status byte that governs them, `pending` is
what its last whole message left over (`PendingMeans`, with the remainder of the
length of the data), the sysex buffer is all the data while it fits, the orphans are
counted all and kept up to the limit. `Means` and `Consistent` together are inductive,
and every action from a state with both is a step of `MidiStream`; its part on the
orphans is `OrphanPrefixExactAlways`. Beneath are lemmas
on how its operators (`Governing`, `DataAfter`, `Orphans`) change with one more byte,
each about a greatest position of a finite sequence.

**InboundStreams.** `NoUnderflow` speaks of the step before the subtraction, while the
count was read three steps earlier and other threads run in between: `Covered` says
that from its load to its `fetch_sub`, `report_overflow` works with a count between 1
and `dropped`. On top of it, `Exact` carries `LossAccounted` and `StreamsExact`, which
are kept by every step. They need that the fold which adds up reported losses grows by
the last item, which is shown without induction: running totals exist and are unique
because there is no least position at which they are missing or differ.

**CommandChannel.** What has to be known besides `OneOwner` and `GuardMeansConnected`:
where a task is says what it has asked for (`TaskOK`); a request is in the channel
exactly once until it is answered, and a queued command is a disconnect, or abandoned,
or the request of one waiting task (`QueueOK`); and at most one thing answers for a
port (`PortOK`): a guard, an unclaimed reply or a queued disconnect. `ServiceSafety`
then shows that each step of the channel is a step of `ConnectionService` or a stutter,
under the mapping of section 3. The delicate part is `abandoned`, a count over the
channel: a cancel adds one of its port, taking an abandoned connect removes one, and
everything else leaves the count alone.

**AlsaPorts.** `SubscriberAgrees` needs what one who has not listed yet knows
(`Follows`): of each port, nothing or what the list has. The others need where the list
is put right: the last announcement of a port says whether it is there (`LastSays`),
and a list that has a port wrong has an announcement to come for it, a start for what
the port can do, an exit for the rest (`ListedRight`). `ToldOK` does the same for
connections. `VirtualPortsExact` needs that there is always a free number: no more are
in use than virtual ports were created, and as many as may be created exist (a count
of finite sets).

**AlsaRouting.** What is still queued will be taken in its order, so what a stream is
to come to is settled. A *run* of a connection or virtual destination is a sequence of
its parser and stream, one before each entry of the queue and one after the last. The
invariant says that a run exists that ends in what was written and in the SysEx its
writer is amid, with everything before a prefix of it. A write lengthens the run by
one, taking an entry drops its first. The run is a witness of an existential and not a
recursive function of the queue, since no such function could be reasoned about by
induction here. The three theorems read off the run's first element.

**WebPorts.** `PortsOK` relates the browser's tables with the registry's, `Ledger` the
tasks with their requests: a task that waits has one command or one future under way
that says what it asked for (`TaskOK`); a connect is under way once (`PendingOK`); a
connection has one owner, which is a guard, an answer not yet taken, or a disconnect in
the queue (`OwnerOK`). Ids of connections are the key: two overlapping connects of
finding 3 have two, so `OwnsOrLost` can say of each what became of it.

**CoreMidiPorts.** `Consistent` has one part for what each thread has in hand at each of
its steps (`ThreadsOK`), one for handlers (`HandlerOK`, `ReleaseOK`), one for the
subscriber (`TellOK`), one for the list (`ListOK`) and one for removals of connected
endpoints (`RemovalOK`). An endpoint is listed or coming: announced, in the
notification thread's hand, or in the command thread's. An id on the list that is
nobody's has a removal on its way: its own, or, when removals do not tell their id, one
of its kind that no other such id needs, which is an injection of the ids into the
queued removals (`Matched`); whichever id `find_stale_uid` then takes, what is left of
the injection serves the others after one swap. The theorems hold for both values of
`RemovedKnown`, the run has `FALSE`.

### Only model-checked

- Liveness (`EmitterReturns`, both `RequestAnswered`, `DropStopsThread`) and with it
  the fairness of `ConnectionService` in `ImplementsService`: fairness speaks of
  `ENABLED`, which the provers do not handle.

## 7. Not modelled, and the plan

Not modelled at all: logging, formatting of errors and values, name validation,
timestamps, the examples, scripts and CI, the conformance vectors, and
`EventStream`, which merges the three receivers with a library combinator.

Of the modelled parts: calls of the ALSA sequencer or CoreMIDI that fail for reasons of
their own (other than looking up, subscribing, sending and attaching); a port renamed
in place; CoreMIDI's packets, which go to a parser and to `StreamSenders` as ALSA's
do, its sends, and its `BackendDied`, which puts an error into every stream. The
virtual ports of ALSA are made and destroyed through the command channel like
connections, so what a lost or abandoned command does to them is what
`CommandChannel` shows of connections.

Still to prove: nothing that a run checks as an invariant. What a further proof could
add is the converse of `ConnectionService`'s safety, that a refused request changes
nothing a caller can see, and that the parser and the codec agree across modules (that
the message the parser emits, encoded, is again what `Decode` accepts), which
`ImplementsMidiStreamAlways` and `RoundTripsAlways` together come close to.
