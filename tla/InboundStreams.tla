---------------------------- MODULE InboundStreams ----------------------------
(***************************************************************************)
(* StreamSenders of platform/common.rs: the three bounded queues through   *)
(* which a backend hands one connection's messages, sysex and errors to    *)
(* the application, with the counter of what a full queue refused.         *)
(*                                                                         *)
(* One thread of the backend emits the events of a connection; on macOS    *)
(* other threads report lifecycle errors (port gone, backend died) on the  *)
(* same error queue.  The error queue's sender is behind a mutex the       *)
(* emitter only tries on the data path.  The mutexes of the message and    *)
(* sysex senders are taken by the emitter alone, so trying them cannot     *)
(* fail and they are left out; without contention the emitter's send is    *)
(* one step.  The application receives, and may drop any of the receivers. *)
(***************************************************************************)
EXTENDS Integers, Sequences, FiniteSets

CONSTANTS QueueCapacity,  \* what one queue holds: mpsc::channel(n) holds n + 1
          Reporters,      \* threads that report lifecycle errors
          MaxEvents,      \* bound: events the emitter produces
          MaxReports      \* bound: lifecycle errors reported

ASSUME StreamsAssumption == /\ QueueCapacity \in Nat \ {0}
                            /\ MaxEvents \in Nat
                            /\ MaxReports \in Nat

DataChannels == {"message", "sysex"}
Channels     == DataChannels \cup {"error"}
Emitter      == "emitter"
Free         == "free"

ASSUME ReportersAssumption == {Emitter, Free} \cap Reporters = {}

VARIABLES queue,        \* what each queue holds
          open,         \* whether its receiver still exists
          error_lock,   \* holder of the mutex around the error sender
          dropped,      \* the counter of refused events
          pc,           \* where the emitter is
          n,            \* report_overflow's local: the count it loaded
          reporting,    \* reporters between lock and unlock
          reports,      \* lifecycle errors so far
          offered,      \* history: the channel of each event emitted
          refused,      \* history: numbers of the events a full queue refused
          received      \* history: what the application took from each queue

queues  == <<queue, open>>
thread  == <<error_lock, pc, n, reporting, reports>>
history == <<offered, refused, received>>
vars    == <<queues, dropped, thread, history>>

Item(kind, k) == [kind |-> kind, n |-> k]

Init == /\ queue = [c \in Channels |-> <<>>]
        /\ open = [c \in Channels |-> TRUE]
        /\ error_lock = Free
        /\ dropped = 0
        /\ pc = "idle"
        /\ n = 0
        /\ reporting = {}
        /\ reports = 0
        /\ offered = <<>>
        /\ refused = {}
        /\ received = [c \in Channels |-> <<>>]

-----------------------------------------------------------------------------
(* futures_channel::mpsc as the code uses it: a try_send fails when the    *)
(* queue is full or its receiver is gone.                                  *)

\* Slip: one too many.
FullOffByOne(c) == Len(queue[c]) > QueueCapacity

Full(c) == Len(queue[c]) >= QueueCapacity

Accepts(c) == open[c] /\ ~Full(c)

TrySend(c, item) == queue' = IF Accepts(c)
                             THEN [queue EXCEPT ![c] = Append(@, item)]
                             ELSE queue

-----------------------------------------------------------------------------
(* The emitter: emit and send_message with try_send_counted.               *)

Offer(c) == /\ pc = "idle"
            /\ Len(offered) < MaxEvents
            /\ offered' = Append(offered, c)

SendAccepted == \E c \in DataChannels :
  /\ Offer(c)
  /\ Accepts(c)
  /\ TrySend(c, Item("data", Len(offered) + 1))
  /\ pc' = "report"
  /\ UNCHANGED <<open, dropped, error_lock, n, reporting, reports, refused, received>>

\* Slip: the oldest event evicted for the new one.
SendRefusedEvicts == \E c \in DataChannels :
  /\ Offer(c)
  /\ open[c] /\ Full(c)
  /\ queue' = [queue EXCEPT ![c] = Append(Tail(@), Item("data", Len(offered) + 1))]
  /\ dropped' = dropped + 1
  /\ refused' = refused \cup {Len(offered) + 1}
  /\ UNCHANGED <<open, thread, received>>

SendRefused == \E c \in DataChannels :
  /\ Offer(c)
  /\ open[c] /\ Full(c)
  /\ dropped' = dropped + 1
  /\ refused' = refused \cup {Len(offered) + 1}
  /\ UNCHANGED <<queues, thread, received>>

\* Nobody is left to tell: not counted.
SendDisconnected == \E c \in DataChannels :
  /\ Offer(c)
  /\ ~open[c]
  /\ UNCHANGED <<queues, dropped, thread, refused, received>>

\* Slip: an empty counter reported too.
ReportLoadUnchecked ==
  /\ pc = "report"
  /\ n' = dropped
  /\ pc' = "try_lock"
  /\ UNCHANGED <<queues, dropped, error_lock, reporting, reports, history>>

\* report_overflow, step by step: load, try_lock, try_send, fetch_sub.
ReportLoad == /\ pc = "report"
              /\ n' = dropped
              /\ pc' = IF dropped > 0 THEN "try_lock" ELSE "idle"
              /\ UNCHANGED <<queues, dropped, error_lock, reporting, reports, history>>

ReportTryLock == /\ pc = "try_lock"
                 /\ IF error_lock = Free
                    THEN error_lock' = Emitter /\ pc' = "try_send"
                    ELSE pc' = "idle" /\ UNCHANGED error_lock
                 /\ UNCHANGED <<queues, dropped, n, reporting, reports, history>>

\* Slip: the count taken back whether or not it was reported.
ReportTrySendSubtractsAnyway ==
  /\ pc = "try_send"
  /\ TrySend("error", Item("overflow", n))
  /\ pc' = "fetch_sub"
  /\ UNCHANGED <<open, dropped, error_lock, n, reporting, reports, history>>

\* Slip: the mutex kept when the report fails.
ReportTrySendKeepsLock ==
  /\ pc = "try_send"
  /\ TrySend("error", Item("overflow", n))
  /\ pc' = IF Accepts("error") THEN "fetch_sub" ELSE "idle"
  /\ UNCHANGED <<open, dropped, error_lock, n, reporting, reports, history>>

ReportTrySend ==
  /\ pc = "try_send"
  /\ TrySend("error", Item("overflow", n))
  /\ IF Accepts("error") THEN pc' = "fetch_sub" /\ UNCHANGED error_lock
                         ELSE pc' = "idle" /\ error_lock' = Free
  /\ UNCHANGED <<open, dropped, n, reporting, reports, history>>

ReportFetchSub == /\ pc = "fetch_sub"
                  /\ dropped' = dropped - n
                  /\ error_lock' = Free
                  /\ pc' = "idle"
                  /\ UNCHANGED <<queues, n, reporting, reports, history>>

\* An error event (emit, send_error) waits for the mutex; the result of its
\* try_send is ignored.
EmitError == /\ Offer("error")
             /\ pc' = "lock"
             /\ UNCHANGED <<queues, dropped, error_lock, n, reporting, reports,
                            refused, received>>

EmitErrorLock == /\ pc = "lock"
                 /\ error_lock = Free
                 /\ error_lock' = Emitter
                 /\ pc' = "send"
                 /\ UNCHANGED <<queues, dropped, n, reporting, reports, history>>

EmitErrorSend == /\ pc = "send"
                 /\ TrySend("error", Item("error", Len(offered)))
                 /\ error_lock' = Free
                 /\ pc' = "idle"
                 /\ UNCHANGED <<open, dropped, n, reporting, reports, history>>

-----------------------------------------------------------------------------
(* lifecycle_error, from another thread.                                   *)

ReporterLock(t) == /\ error_lock = Free
                   /\ reports < MaxReports
                   /\ error_lock' = t
                   /\ reporting' = reporting \cup {t}
                   /\ reports' = reports + 1
                   /\ UNCHANGED <<queues, dropped, pc, n, history>>

ReporterSend(t) == /\ t \in reporting
                   /\ TrySend("error", Item("lifecycle", reports))
                   /\ error_lock' = Free
                   /\ reporting' = reporting \ {t}
                   /\ UNCHANGED <<open, dropped, pc, n, reports, history>>

-----------------------------------------------------------------------------
(* The application.                                                        *)

Receive(c) == /\ open[c]
              /\ queue[c] # <<>>
              /\ received' = [received EXCEPT ![c] = Append(@, Head(queue[c]))]
              /\ queue' = [queue EXCEPT ![c] = Tail(@)]
              /\ UNCHANGED <<open, dropped, thread, offered, refused>>

\* into_messages and its siblings, or the drop of a stream.
DropReceiver(c) == /\ open[c]
                   /\ open' = [open EXCEPT ![c] = FALSE]
                   /\ queue' = [queue EXCEPT ![c] = <<>>]
                   /\ UNCHANGED <<dropped, thread, history>>

Emit == \/ SendAccepted \/ SendRefused \/ SendDisconnected
        \/ EmitError

EmitterStep == \/ ReportLoad \/ ReportTryLock \/ ReportTrySend \/ ReportFetchSub
               \/ EmitErrorLock \/ EmitErrorSend

Application == \E c \in Channels : Receive(c) \/ DropReceiver(c)

Next == \/ Emit
        \/ EmitterStep
        \/ \E t \in Reporters : ReporterLock(t) \/ ReporterSend(t)
        \/ Application

\* A running thread goes on: nothing here waits for the application.
Fairness == /\ WF_vars(EmitterStep)
            /\ \A t \in Reporters : WF_vars(ReporterSend(t))

Spec == Init /\ [][Next]_vars /\ Fairness

-----------------------------------------------------------------------------
TypeOK ==
  /\ DOMAIN queue = Channels
  /\ \A c \in Channels : /\ Len(queue[c]) <= QueueCapacity
                         /\ ~open[c] => queue[c] = <<>>
  /\ open \in [Channels -> BOOLEAN]
  /\ error_lock \in {Free, Emitter} \cup Reporters
  /\ dropped \in Nat
  /\ pc \in {"idle", "report", "try_lock", "try_send", "fetch_sub", "lock", "send"}
  /\ n \in Nat
  /\ reporting \subseteq Reporters
  /\ reports \in 0..MaxReports
  /\ offered \in Seq(Channels)
  /\ refused \subseteq DOMAIN offered

-----------------------------------------------------------------------------
History(c) == received[c] \o queue[c]

OfferedTo(c) == {k \in DOMAIN offered : offered[k] = c}

Reports(item) == IF item.kind = "overflow" THEN item.n ELSE 0

ReportedIn(s) == LET sum[i \in 0..Len(s)] ==
                       IF i = 0 THEN 0 ELSE sum[i - 1] + Reports(s[i])
                 IN sum[Len(s)]

\* Every event a full queue refused is reported exactly once or still counted:
\* what the InboundOverflow errors add up to and the counter make up the number
\* of refused events, at every step of report_overflow (between its try_send
\* and its fetch_sub the n just reported is also still counted).
LossAccounted ==
  open["error"] =>
    ReportedIn(History("error")) + dropped
      = Cardinality(refused) + (IF pc = "fetch_sub" THEN n ELSE 0)

\* The counter is unsigned: fetch_sub never takes it below zero.
NoUnderflow == pc \in {"try_send", "fetch_sub"} => n \in 1..dropped

\* An open stream carries exactly the events that were offered to it and not
\* refused, in order: no duplicate, no overtaking, no loss the counter missed.
StreamsExact ==
  \A c \in DataChannels : open[c] =>
    LET h == History(c)
    IN /\ {h[i] : i \in DOMAIN h} =
            {Item("data", k) : k \in OfferedTo(c) \ refused}
       /\ \A i, j \in DOMAIN h : i < j => h[i].n < h[j].n

\* The backend's MIDI thread always gets back to its own work, whatever the
\* application does with its streams: it waits for no receiver, and whoever
\* holds the error mutex releases it.
EmitterReturns == (pc # "idle") ~> (pc = "idle")
=============================================================================
