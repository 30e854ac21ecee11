------------------------- MODULE InboundStreamsProofs -------------------------
(***************************************************************************)
(* Safety of the inbound streams for every queue capacity, every set of    *)
(* reporting threads and every number of events.                           *)
(***************************************************************************)
EXTENDS InboundStreams, FiniteSetTheorems, SequenceTheorems, WellFoundedInduction, TLAPS

Items == [kind : {"data", "overflow", "error", "lifecycle"}, n : Nat]

\* What TypeOK says of the queues, with what they hold.
QueuesOK == /\ queue \in [Channels -> Seq(Items)]
            /\ open \in [Channels -> BOOLEAN]
            /\ \A c \in Channels : /\ Len(queue[c]) <= QueueCapacity
                                   /\ ~open[c] => queue[c] = <<>>

ThreadsOK ==
  /\ error_lock \in {Free, Emitter} \cup Reporters
  /\ pc \in {"idle", "report", "try_lock", "try_send", "fetch_sub", "lock", "send"}
  /\ reporting \subseteq Reporters
  /\ reports \in 0..MaxReports

CountersOK == /\ dropped \in Nat
              /\ n \in Nat
              /\ offered \in Seq(Channels)
              /\ refused \subseteq DOMAIN offered

\* From its load to its fetch_sub report_overflow works with a count that is
\* not zero and that the counter still covers: other steps only raise it.
Covered == pc \in {"try_lock", "try_send", "fetch_sub"} => n \in 1..dropped

Consistent == QueuesOK /\ ThreadsOK /\ CountersOK /\ Covered

-----------------------------------------------------------------------------
(* What ReportedIn computes.                                               *)

LEMMA Least ==
  ASSUME NEW S, S \subseteq Nat, S # {}
  PROVE  \E k \in S : \A i \in S : k <= i
<1>1. PICK k \in S : \A i \in S : ~ (<<i, k>> \in OpToRel(<, Nat))
  BY NatLessThanWellFounded, WFMin
<1>2. ASSUME NEW i \in S, i < k PROVE FALSE
  BY <1>1, <1>2 DEF OpToRel
<1>3. \A i \in S : k <= i
  BY <1>2
<1> QED BY <1>3

\* The running totals of the first m items of s.
Totals(g, s, m) == /\ g[0] = 0
                   /\ \A i \in 1..m : g[i] = g[i - 1] + Reports(s[i])

LEMMA ReportsNat == \A item \in Items : Reports(item) \in Nat
BY DEF Reports, Items

\* Running totals exist, they are numbers, and they are unique.
LEMMA TotalsExist ==
  ASSUME NEW s \in Seq(Items)
  PROVE  \E g \in [0..Len(s) -> Nat] : Totals(g, s, Len(s))
<1> DEFINE Has(m) == \E g \in [0..m -> Nat] : Totals(g, s, m)
           Lacks  == {m \in 0..Len(s) : ~Has(m)}
<1>1. Has(0)
  <2>1. /\ [i \in 0..0 |-> 0] \in [0..0 -> Nat]
        /\ Totals([i \in 0..0 |-> 0], s, 0)
    BY DEF Totals
  <2> QED BY <2>1
<1>2. ASSUME NEW m \in 1..Len(s), Has(m - 1) PROVE Has(m)
  <2>1. PICK g \in [0..m - 1 -> Nat] : Totals(g, s, m - 1)
    BY <1>2
  <2>2. s[m] \in Items /\ Reports(s[m]) \in Nat
    BY ReportsNat
  <2> DEFINE h == [i \in 0..m |-> IF i = m THEN g[m - 1] + Reports(s[m]) ELSE g[i]]
  <2>3. h \in [0..m -> Nat]
    BY <2>2
  <2>4. Totals(h, s, m)
    BY <2>1 DEF Totals
  <2> QED BY <2>3, <2>4
<1>3. CASE Lacks # {}
  <2>1. Lacks \subseteq Nat
    OBVIOUS
  <2> HIDE DEF Has
  <2>2. PICK m \in Lacks : \A i \in Lacks : m <= i
    BY <1>3, <2>1, Least
  <2>3. m \in 1..Len(s)
    BY <1>1, <2>2
  <2>4. Has(m - 1)
    BY <2>2, <2>3
  <2> QED BY <1>2, <2>2, <2>3, <2>4
<1>4. CASE Lacks = {}
  <2>1. Len(s) \in 0..Len(s)
    OBVIOUS
  <2>2. Has(Len(s))
    BY <1>4, <2>1
  <2> QED BY <2>2
<1> QED BY <1>3, <1>4

LEMMA TotalsUnique ==
  ASSUME NEW s \in Seq(Items), NEW m \in 0..Len(s), NEW g \in [0..m -> Nat],
         Totals(g, s, m), NEW h, Totals(h, s, m)
  PROVE  \A i \in 0..m : h[i] = g[i]
<1> DEFINE Differ == {i \in 0..m : h[i] # g[i]}
<1> SUFFICES ASSUME Differ # {} PROVE FALSE
  OBVIOUS
<1>1. PICK i \in Differ : \A j \in Differ : i <= j
  <2>1. Differ \subseteq Nat
    OBVIOUS
  <2> HIDE DEF Differ
  <2> QED BY <2>1, Least
<1>2. i # 0
  BY DEF Totals
<1>3. i \in 1..m /\ i - 1 \in 0..m /\ i - 1 \notin Differ
  BY <1>1, <1>2
<1> QED BY <1>3 DEF Totals

LEMMA ReportedInIs ==
  ASSUME NEW s \in Seq(Items), NEW g \in [0..Len(s) -> Nat], Totals(g, s, Len(s))
  PROVE  ReportedIn(s) = g[Len(s)]
<1> DEFINE Sums(f) == f = [i \in 0..Len(s) |->
                            IF i = 0 THEN 0 ELSE f[i - 1] + Reports(s[i])]
<1>1. Sums(g)
  <2>1. \A i \in 0..Len(s) : g[i] = IF i = 0 THEN 0 ELSE g[i - 1] + Reports(s[i])
    BY DEF Totals
  <2> QED BY <2>1
<1>2. ASSUME NEW f, Sums(f) PROVE f[Len(s)] = g[Len(s)]
  <2>1. Totals(f, s, Len(s))
    BY <1>2 DEF Totals
  <2> QED BY <2>1, TotalsUnique
<1>3. Sums(CHOOSE f : Sums(f))
  BY <1>1
<1> HIDE DEF Sums
<1>4. ReportedIn(s) = (CHOOSE f : Sums(f))[Len(s)]
  BY DEF ReportedIn, Sums
<1> QED BY <1>2, <1>3, <1>4

\* One more item on a queue adds what it reports.
LEMMA ReportedAppends ==
  ASSUME NEW s \in Seq(Items), NEW item \in Items
  PROVE  /\ ReportedIn(s) \in Nat
         /\ ReportedIn(Append(s, item)) = ReportedIn(s) + Reports(item)
<1> DEFINE t == Append(s, item)
<1>1. /\ t \in Seq(Items) /\ Len(t) = Len(s) + 1 /\ t[Len(s) + 1] = item
      /\ \A i \in 1..Len(s) : t[i] = s[i]
  OBVIOUS
<1>2. PICK g \in [0..Len(s) -> Nat] : Totals(g, s, Len(s))
  BY TotalsExist
<1>3. PICK h \in [0..Len(t) -> Nat] : Totals(h, t, Len(t))
  BY <1>1, TotalsExist
<1> HIDE DEF t
<1>4. Totals(h, s, Len(s))
  BY <1>1, <1>3 DEF Totals
<1>5. h[Len(s)] = g[Len(s)]
  BY <1>2, <1>4, TotalsUnique, SMTT(30)
<1>6. h[Len(t)] = h[Len(s)] + Reports(item)
  BY <1>1, <1>3 DEF Totals
<1>7. ReportedIn(s) = g[Len(s)] /\ ReportedIn(t) = h[Len(t)]
  BY <1>1, <1>2, <1>3, ReportedInIs
<1> QED BY <1>2, <1>5, <1>6, <1>7 DEF t

LEMMA NothingReported == ReportedIn(<<>>) = 0
<1>1. <<>> \in Seq(Items) /\ Len(<<>>) = 0
  OBVIOUS
<1>2. PICK g \in [0..0 -> Nat] : Totals(g, <<>>, 0)
  BY <1>1, TotalsExist
<1> QED BY <1>1, <1>2, ReportedInIs DEF Totals

-----------------------------------------------------------------------------
\* mpsc's try_send keeps the queues within their capacity.
LEMMA TrySendKeepsQueues ==
  ASSUME QueuesOK, NEW c \in Channels, NEW item \in Items,
         TrySend(c, item), UNCHANGED open
  PROVE  QueuesOK'
<1>1. CASE Accepts(c)
  <2>1. queue' = [queue EXCEPT ![c] = Append(queue[c], item)]
    BY <1>1 DEF TrySend
  <2>2. queue[c] \in Seq(Items)
    BY DEF QueuesOK
  <2>3. /\ Append(queue[c], item) \in Seq(Items)
        /\ Len(Append(queue[c], item)) = Len(queue[c]) + 1
    BY <2>2
  <2>4. Len(queue[c]) + 1 <= QueueCapacity
    BY <1>1, <2>2, StreamsAssumption DEF Accepts, Full
  <2>5. queue' \in [Channels -> Seq(Items)]
    BY <2>1, <2>3 DEF QueuesOK
  <2>6. ASSUME NEW d \in Channels
        PROVE  Len(queue'[d]) <= QueueCapacity /\ (~open'[d] => queue'[d] = <<>>)
    <3>1. CASE d = c
      BY <1>1, <2>1, <2>3, <2>4, <3>1 DEF QueuesOK, Accepts
    <3>2. CASE d # c
      BY <2>1, <3>2 DEF QueuesOK
    <3> QED BY <3>1, <3>2
  <2> QED BY <2>5, <2>6 DEF QueuesOK
<1>2. CASE ~Accepts(c)
  BY <1>2 DEF TrySend, QueuesOK
<1> QED BY <1>1, <1>2

LEMMA ItemsOK ==
  ASSUME NEW kind \in {"data", "overflow", "error", "lifecycle"}, NEW k \in Nat
  PROVE  Item(kind, k) \in Items
BY DEF Item, Items

\* A channel offered keeps the history of numbers well-typed.
LEMMA OfferCounts ==
  ASSUME CountersOK, NEW c \in Channels, Offer(c), UNCHANGED <<n, dropped>>,
         refused' = refused \/ refused' = refused \cup {Len(offered) + 1}
  PROVE  CountersOK'
<1>1. /\ offered' = Append(offered, c)
      /\ offered' \in Seq(Channels)
      /\ Len(offered') = Len(offered) + 1
      /\ Len(offered) \in Nat
  BY DEF Offer, CountersOK
<1>2. /\ DOMAIN offered = 1..Len(offered)
      /\ DOMAIN offered' = 1..Len(offered) + 1
  BY <1>1 DEF CountersOK
<1> QED BY <1>1, <1>2 DEF CountersOK

-----------------------------------------------------------------------------
LEMMA InitConsistent == Init => Consistent
<1> SUFFICES ASSUME Init PROVE Consistent
  OBVIOUS
<1>1. QueuesOK
  BY StreamsAssumption DEF Init, QueuesOK
<1>2. ThreadsOK /\ Covered
  BY StreamsAssumption DEF Init, ThreadsOK, Covered
<1>3. CountersOK
  BY DEF Init, CountersOK
<1> QED BY <1>1, <1>2, <1>3 DEF Consistent

-----------------------------------------------------------------------------
(* One lemma per kind of step.                                             *)

LEMMA EmitConsistent == Consistent /\ Emit => Consistent'
<1> SUFFICES ASSUME Consistent, Emit PROVE Consistent'
  OBVIOUS
<1> USE DEF Consistent
<1>1. CASE SendAccepted
  <2> PICK c \in DataChannels :
        /\ Offer(c)
        /\ TrySend(c, Item("data", Len(offered) + 1))
        /\ pc' = "report"
        /\ UNCHANGED <<open, dropped, error_lock, n, reporting, reports, refused>>
    BY <1>1 DEF SendAccepted
  <2> c \in Channels
    BY DEF Channels
  <2> Len(offered) + 1 \in Nat
    BY DEF CountersOK
  <2>1. QueuesOK'
    BY TrySendKeepsQueues, ItemsOK
  <2>2. CountersOK'
    BY OfferCounts
  <2>3. ThreadsOK' /\ Covered'
    BY DEF ThreadsOK, Covered
  <2> QED BY <2>1, <2>2, <2>3
<1>2. CASE SendRefused
  <2> PICK c \in DataChannels :
        /\ Offer(c)
        /\ dropped' = dropped + 1
        /\ refused' = refused \cup {Len(offered) + 1}
        /\ UNCHANGED <<queues, thread>>
    BY <1>2 DEF SendRefused
  <2> c \in Channels
    BY DEF Channels
  <2>1. QueuesOK'
    BY DEF QueuesOK, queues
  <2>2. /\ offered' = Append(offered, c)
        /\ offered' \in Seq(Channels)
        /\ Len(offered') = Len(offered) + 1
        /\ Len(offered) \in Nat
    BY DEF Offer, CountersOK
  <2>3. /\ DOMAIN offered = 1..Len(offered)
        /\ DOMAIN offered' = 1..Len(offered) + 1
    BY <2>2 DEF CountersOK
  <2>4. CountersOK'
    BY <2>2, <2>3 DEF CountersOK, thread
  <2>5. ThreadsOK'
    BY DEF ThreadsOK, thread
  <2>6. pc' \notin {"try_lock", "try_send", "fetch_sub"}
    BY DEF Offer, thread
  <2> QED BY <2>1, <2>4, <2>5, <2>6 DEF Covered
<1>3. CASE SendDisconnected
  <2> PICK c \in DataChannels :
        Offer(c) /\ UNCHANGED <<queues, dropped, thread, refused>>
    BY <1>3 DEF SendDisconnected
  <2> c \in Channels
    BY DEF Channels
  <2>1. QueuesOK'
    BY DEF QueuesOK, queues
  <2>2. CountersOK'
    BY OfferCounts DEF thread
  <2>3. ThreadsOK' /\ Covered'
    BY DEF ThreadsOK, Covered, thread
  <2> QED BY <2>1, <2>2, <2>3
<1>4. CASE EmitError
  <2>1. QueuesOK'
    BY <1>4 DEF EmitError, QueuesOK, queues
  <2>2. CountersOK'
    BY <1>4, OfferCounts DEF EmitError, Channels
  <2>3. ThreadsOK' /\ Covered'
    BY <1>4 DEF EmitError, ThreadsOK, Covered
  <2> QED BY <2>1, <2>2, <2>3
<1> QED BY <1>1, <1>2, <1>3, <1>4 DEF Emit

\* The heart of it: the load that starts a report finds a count above zero, and
\* the fetch_sub that ends it subtracts what is still there.
LEMMA EmitterConsistent == Consistent /\ EmitterStep => Consistent'
<1> SUFFICES ASSUME Consistent, EmitterStep PROVE Consistent'
  OBVIOUS
<1> USE DEF Consistent
<1>1. CASE ReportLoad
  <2>1. QueuesOK' /\ CountersOK'
    BY <1>1 DEF ReportLoad, QueuesOK, CountersOK, queues, history
  <2>2. ThreadsOK'
    BY <1>1 DEF ReportLoad, ThreadsOK
  <2>3. Covered'
    BY <1>1 DEF ReportLoad, Covered, CountersOK
  <2> QED BY <2>1, <2>2, <2>3
<1>2. CASE ReportTryLock
  <2>1. QueuesOK' /\ CountersOK'
    BY <1>2 DEF ReportTryLock, QueuesOK, CountersOK, queues, history
  <2>2. ThreadsOK' /\ Covered'
    BY <1>2 DEF ReportTryLock, ThreadsOK, Covered
  <2> QED BY <2>1, <2>2
<1>3. CASE ReportTrySend
  <2>1. QueuesOK'
    BY <1>3, TrySendKeepsQueues, ItemsOK DEF ReportTrySend, CountersOK, Channels
  <2>2. CountersOK'
    BY <1>3 DEF ReportTrySend, CountersOK, history
  <2>3. ThreadsOK' /\ Covered'
    BY <1>3 DEF ReportTrySend, ThreadsOK, Covered
  <2> QED BY <2>1, <2>2, <2>3
<1>4. CASE ReportFetchSub
  <2>1. QueuesOK'
    BY <1>4 DEF ReportFetchSub, QueuesOK, queues
  <2>2. n \in 1..dropped
    BY <1>4 DEF ReportFetchSub, Covered
  <2>3. CountersOK'
    BY <1>4, <2>2 DEF ReportFetchSub, CountersOK, history
  <2>4. ThreadsOK' /\ Covered'
    BY <1>4 DEF ReportFetchSub, ThreadsOK, Covered
  <2> QED BY <2>1, <2>3, <2>4
<1>5. CASE EmitErrorLock
  <2>1. QueuesOK' /\ CountersOK'
    BY <1>5 DEF EmitErrorLock, QueuesOK, CountersOK, queues, history
  <2>2. ThreadsOK' /\ Covered'
    BY <1>5 DEF EmitErrorLock, ThreadsOK, Covered
  <2> QED BY <2>1, <2>2
<1>6. CASE EmitErrorSend
  <2>1. Len(offered) \in Nat
    BY DEF CountersOK
  <2>2. QueuesOK'
    BY <1>6, <2>1, TrySendKeepsQueues, ItemsOK DEF EmitErrorSend, Channels
  <2>3. CountersOK'
    BY <1>6 DEF EmitErrorSend, CountersOK, history
  <2>4. ThreadsOK' /\ Covered'
    BY <1>6 DEF EmitErrorSend, ThreadsOK, Covered
  <2> QED BY <2>2, <2>3, <2>4
<1> QED BY <1>1, <1>2, <1>3, <1>4, <1>5, <1>6 DEF EmitterStep

LEMMA ReporterConsistent ==
  ASSUME Consistent, NEW t \in Reporters, ReporterLock(t) \/ ReporterSend(t)
  PROVE  Consistent'
<1> USE DEF Consistent
<1>1. CASE ReporterLock(t)
  <2>1. QueuesOK' /\ CountersOK'
    BY <1>1 DEF ReporterLock, QueuesOK, CountersOK, queues, history
  <2>2. ThreadsOK' /\ Covered'
    BY <1>1, StreamsAssumption DEF ReporterLock, ThreadsOK, Covered
  <2> QED BY <2>1, <2>2
<1>2. CASE ReporterSend(t)
  <2>1. reports \in Nat
    BY StreamsAssumption DEF ThreadsOK
  <2>2. QueuesOK'
    BY <1>2, <2>1, TrySendKeepsQueues, ItemsOK DEF ReporterSend, Channels
  <2>3. CountersOK'
    BY <1>2 DEF ReporterSend, CountersOK, history
  <2>4. ThreadsOK' /\ Covered'
    BY <1>2 DEF ReporterSend, ThreadsOK, Covered
  <2> QED BY <2>2, <2>3, <2>4
<1> QED BY <1>1, <1>2

LEMMA ApplicationConsistent == Consistent /\ Application => Consistent'
<1> SUFFICES ASSUME Consistent, NEW c \in Channels,
                    Receive(c) \/ DropReceiver(c)
             PROVE  Consistent'
  BY DEF Application
<1> USE DEF Consistent
<1>1. queue[c] \in Seq(Items)
  BY DEF QueuesOK
<1>2. CASE Receive(c)
  <2>1. /\ queue' = [queue EXCEPT ![c] = Tail(queue[c])]
        /\ queue[c] # <<>> /\ open[c] /\ open' = open
    BY <1>2 DEF Receive
  <2>2. /\ Tail(queue[c]) \in Seq(Items)
        /\ Len(Tail(queue[c])) = Len(queue[c]) - 1
    BY <1>1, <2>1
  <2>3. QueuesOK'
    BY <1>1, <2>1, <2>2, StreamsAssumption DEF QueuesOK
  <2>4. CountersOK'
    BY <1>2 DEF Receive, CountersOK, thread
  <2>5. ThreadsOK' /\ Covered'
    BY <1>2 DEF Receive, ThreadsOK, Covered, thread
  <2> QED BY <2>3, <2>4, <2>5
<1>3. CASE DropReceiver(c)
  <2>1. QueuesOK'
    BY <1>3, StreamsAssumption DEF DropReceiver, QueuesOK
  <2>2. CountersOK'
    BY <1>3 DEF DropReceiver, CountersOK, thread, history
  <2>3. ThreadsOK' /\ Covered'
    BY <1>3 DEF DropReceiver, ThreadsOK, Covered, thread
  <2> QED BY <2>1, <2>2, <2>3
<1> QED BY <1>2, <1>3

LEMMA StutterConsistent == Consistent /\ UNCHANGED vars => Consistent'
<1> SUFFICES ASSUME Consistent, UNCHANGED vars PROVE Consistent'
  OBVIOUS
<1> USE DEF vars, queues, thread, history
<1>1. QueuesOK' /\ CountersOK'
  BY DEF Consistent, QueuesOK, CountersOK
<1>2. ThreadsOK' /\ Covered'
  BY DEF Consistent, ThreadsOK, Covered
<1> QED BY <1>1, <1>2 DEF Consistent

-----------------------------------------------------------------------------
\* Consistent holds in every reachable state, for every capacity of the queues
\* and every number of threads.
THEOREM ConsistentAlways == Spec => []Consistent
<1>1. Consistent /\ [Next]_vars => Consistent'
  BY EmitConsistent, EmitterConsistent, ReporterConsistent,
     ApplicationConsistent, StutterConsistent DEF Next
<1> QED BY InitConsistent, <1>1, PTL DEF Spec

\* The queues stay within their capacity, a dropped stream's queue stays empty,
\* and every counter has its type (StreamSenders, common.rs).
THEOREM TypeCorrect == Spec => []TypeOK
<1>1. Consistent => TypeOK
  BY DEF Consistent, QueuesOK, ThreadsOK, CountersOK, TypeOK
<1> QED BY ConsistentAlways, <1>1, PTL

\* fetch_sub in report_overflow never takes the unsigned counter below zero,
\* however many threads report and whatever the application drops.
THEOREM NoUnderflowAlways == Spec => []NoUnderflow
<1>1. Consistent => NoUnderflow
  BY DEF Consistent, Covered, NoUnderflow
<1> QED BY ConsistentAlways, <1>1, PTL

-----------------------------------------------------------------------------
(* What the application is told: the losses and the streams, exactly.      *)

HistoryOK == received \in [Channels -> Seq(Items)]

\* The reports and the counter miss no refused event and no event overtakes
\* another: LossAccounted and StreamsExact are kept by every step once the
\* types hold, with no other strengthening.
Exact == Consistent /\ HistoryOK /\ LossAccounted /\ StreamsExact

LEMMA HistoryIs ==
  ASSUME Consistent, HistoryOK, NEW c \in Channels
  PROVE  /\ received[c] \in Seq(Items) /\ queue[c] \in Seq(Items)
         /\ History(c) \in Seq(Items)
BY DEF Consistent, QueuesOK, HistoryOK, History

\* What a queue takes or gives up leaves the order as it was.
LEMMA MovesAlong ==
  ASSUME NEW r \in Seq(Items), NEW q \in Seq(Items)
  PROVE  /\ \A x \in Items : r \o Append(q, x) = Append(r \o q, x)
         /\ q # <<>> => /\ Append(r, Head(q)) \in Seq(Items)
                        /\ Append(r, Head(q)) \o Tail(q) = r \o q
<1>1. ASSUME NEW x \in Items PROVE r \o Append(q, x) = Append(r \o q, x)
  <2> DEFINE s == r \o Append(q, x)
             t == Append(r \o q, x)
  <2>1. s \in Seq(Items) /\ t \in Seq(Items) /\ Len(s) = Len(t)
    OBVIOUS
  <2>2. \A i \in 1..Len(s) : s[i] = t[i]
    OBVIOUS
  <2> HIDE DEF s, t
  <2>3. s = t
    BY <2>1, <2>2, SeqEqual
  <2> QED BY <2>3 DEF s, t
<1>2. ASSUME q # <<>> PROVE /\ Append(r, Head(q)) \in Seq(Items)
                           /\ Append(r, Head(q)) \o Tail(q) = r \o q
  <2>1. /\ Head(q) \in Items /\ Head(q) = q[1] /\ Tail(q) \in Seq(Items) /\ Len(q) >= 1
        /\ Len(Tail(q)) = Len(q) - 1 /\ \A i \in 1..Len(Tail(q)) : Tail(q)[i] = q[i + 1]
    BY <1>2, HeadTailProperties
  <2> DEFINE a == Append(r, Head(q))
             s == a \o Tail(q)
             t == r \o q
  <2>2. a \in Seq(Items) /\ Len(a) = Len(r) + 1 /\ a[Len(r) + 1] = q[1]
        /\ \A i \in 1..Len(r) : a[i] = r[i]
    BY <2>1
  <2> HIDE DEF a
  <2>3. s \in Seq(Items) /\ t \in Seq(Items) /\ Len(s) = Len(t)
    BY <2>1, <2>2
  <2>4. ASSUME NEW i \in 1..Len(s) PROVE s[i] = t[i]
    <3>1. s[i] = IF i <= Len(a) THEN a[i] ELSE Tail(q)[i - Len(a)]
      <4>1. Len(s) = Len(a) + Len(Tail(q))
        BY <2>1, <2>2, ConcatProperties
      <4> QED BY <2>1, <2>2, <2>4, <4>1, ConcatProperties
    <3>2. t[i] = IF i <= Len(r) THEN r[i] ELSE q[i - Len(r)]
      BY <2>3, <2>4, ConcatProperties
    <3> QED BY <2>1, <2>2, <2>3, <2>4, <3>1, <3>2
  <2> HIDE DEF s, t
  <2>5. s = t
    BY <2>3, <2>4, SeqEqual
  <2> QED BY <2>2, <2>5 DEF a, s, t
<1> QED BY <1>1, <1>2

LEMMA TrySendHistory ==
  ASSUME Consistent, HistoryOK, NEW c \in Channels, NEW item \in Items,
         TrySend(c, item), UNCHANGED received, NEW d \in Channels
  PROVE  History(d)' = IF d = c /\ Accepts(c) THEN Append(History(d), item) ELSE History(d)
<1>1. received[d] \in Seq(Items) /\ queue[d] \in Seq(Items)
  BY HistoryIs
<1>2. CASE d = c /\ Accepts(c)
  <2>1. queue'[d] = Append(queue[d], item)
    BY <1>2 DEF TrySend, Consistent, QueuesOK
  <2>2. received[d] \o Append(queue[d], item) = Append(received[d] \o queue[d], item)
    BY <1>1, MovesAlong
  <2> QED BY <1>2, <2>1, <2>2 DEF History
<1>3. CASE ~(d = c /\ Accepts(c))
  <2>1. queue'[d] = queue[d]
    BY <1>3 DEF TrySend, Consistent, QueuesOK
  <2> QED BY <1>3, <2>1 DEF History
<1> QED BY <1>2, <1>3

LEMMA ReceiveHistory ==
  ASSUME Consistent, HistoryOK, NEW c \in Channels, Receive(c)
  PROVE  HistoryOK' /\ \A d \in Channels : History(d)' = History(d)
<1>1. /\ \A d \in Channels : received[d] \in Seq(Items) /\ queue[d] \in Seq(Items)
      /\ queue[c] # <<>>
      /\ received' = [received EXCEPT ![c] = Append(received[c], Head(queue[c]))]
      /\ queue' = [queue EXCEPT ![c] = Tail(queue[c])]
  BY HistoryIs DEF Receive
<1>2. /\ Append(received[c], Head(queue[c])) \in Seq(Items)
      /\ Append(received[c], Head(queue[c])) \o Tail(queue[c]) = received[c] \o queue[c]
  BY <1>1, MovesAlong
<1>3. HistoryOK'
  BY <1>1, <1>2 DEF HistoryOK
<1>4. ASSUME NEW d \in Channels PROVE History(d)' = History(d)
  <2>1. CASE d = c
    BY <1>1, <1>2, <2>1 DEF History, HistoryOK, Consistent, QueuesOK
  <2>2. CASE d # c
    BY <1>1, <2>2 DEF History, HistoryOK, Consistent, QueuesOK
  <2> QED BY <2>1, <2>2
<1> QED BY <1>3, <1>4

\* What is left of the open streams is what was there.
LEMMA StreamsFollow ==
  ASSUME StreamsExact, UNCHANGED <<offered, refused>>,
         \A c \in DataChannels : open'[c] => open[c] /\ History(c)' = History(c)
  PROVE  StreamsExact'
<1> SUFFICES ASSUME NEW c \in DataChannels, open'[c]
             PROVE  LET h == History(c)'
                    IN /\ {h[i] : i \in DOMAIN h} =
                            {Item("data", k) : k \in OfferedTo(c) \ refused}
                       /\ \A i, j \in DOMAIN h : i < j => h[i].n < h[j].n
  BY DEF StreamsExact, OfferedTo
<1>1. open[c] /\ History(c)' = History(c)
  OBVIOUS
<1> QED BY <1>1 DEF StreamsExact, OfferedTo

LEMMA LossFollows ==
  ASSUME LossAccounted, UNCHANGED <<dropped, refused>>,
         pc # "fetch_sub", pc' # "fetch_sub",
         open'["error"] => /\ open["error"]
                           /\ ReportedIn(History("error")') = ReportedIn(History("error"))
  PROVE  LossAccounted'
BY DEF LossAccounted

LEMMA OfferNumbers ==
  ASSUME Consistent, NEW c \in Channels, Offer(c)
  PROVE  /\ Len(offered) \in Nat /\ DOMAIN offered = 1..Len(offered)
         /\ \A d \in Channels :
              OfferedTo(d)' = OfferedTo(d) \cup (IF d = c THEN {Len(offered) + 1} ELSE {})
<1>1. /\ Len(offered) \in Nat /\ DOMAIN offered = 1..Len(offered)
      /\ offered' = Append(offered, c) /\ DOMAIN offered' = 1..Len(offered) + 1
      /\ offered'[Len(offered) + 1] = c
      /\ \A i \in 1..Len(offered) : offered'[i] = offered[i]
  BY DEF Consistent, CountersOK, Offer
<1>2. \A d \in Channels :
        OfferedTo(d)' = OfferedTo(d) \cup (IF d = c THEN {Len(offered) + 1} ELSE {})
  BY <1>1 DEF OfferedTo
<1> QED BY <1>1, <1>2

\* An event on its way: the stream it is offered to has it, the others do not change.
LEMMA AcceptedExact ==
  ASSUME Exact, NEW c \in DataChannels, Offer(c), UNCHANGED <<open, refused>>,
         History(c)' = Append(History(c), Item("data", Len(offered) + 1)),
         \A d \in DataChannels : d # c => History(d)' = History(d)
  PROVE  StreamsExact'
<1> DEFINE l    == Len(offered)
           item == Item("data", l + 1)
<1>1. /\ l \in Nat /\ DOMAIN offered = 1..l /\ refused \subseteq DOMAIN offered
      /\ \A d \in DataChannels :
           OfferedTo(d)' = OfferedTo(d) \cup (IF d = c THEN {l + 1} ELSE {})
  BY OfferNumbers DEF Exact, Channels, Consistent, CountersOK
<1>2. item \in Items /\ item.n = l + 1
  BY <1>1, ItemsOK DEF Item
<1>3. \A d \in DataChannels : History(d) \in Seq(Items)
  BY HistoryIs DEF Exact, Channels
<1> SUFFICES ASSUME NEW d \in DataChannels, open[d]
             PROVE  LET h == History(d)'
                    IN /\ {h[i] : i \in DOMAIN h} =
                            {Item("data", k) : k \in OfferedTo(d)' \ refused}
                       /\ \A i, j \in DOMAIN h : i < j => h[i].n < h[j].n
  BY DEF StreamsExact
<1>4. PICK h \in Seq(Items) :
        /\ h = History(d)
        /\ {h[i] : i \in DOMAIN h} = {Item("data", k) : k \in OfferedTo(d) \ refused}
        /\ \A i, j \in DOMAIN h : i < j => h[i].n < h[j].n
  BY <1>3 DEF Exact, StreamsExact
<1>5. CASE d # c
  BY <1>1, <1>4, <1>5
<1>6. CASE d = c
  <2>1. OfferedTo(d)' \ refused = (OfferedTo(d) \ refused) \cup {l + 1}
    BY <1>1, <1>6
  <2>2. PICK g \in Seq(Items) : /\ g = History(d)' /\ g = Append(h, item)
    BY <1>2, <1>3, <1>4, <1>6
  <2> HIDE DEF item
  <2>3. /\ DOMAIN h = 1..Len(h) /\ Len(h) \in Nat /\ DOMAIN g = 1..Len(h) + 1
        /\ g[Len(h) + 1] = item /\ \A i \in 1..Len(h) : g[i] = h[i]
    BY <1>2, <2>2
  <2>4. \A i \in DOMAIN h : h[i].n < item.n
    <3>1. ASSUME NEW i \in DOMAIN h PROVE h[i].n < item.n
      <4>1. PICK k \in OfferedTo(d) : h[i] = Item("data", k)
        BY <1>4
      <4>2. h[i].n = k /\ k \in 1..l
        BY <1>1, <4>1 DEF Item, OfferedTo
      <4> QED BY <1>1, <1>2, <4>2
    <3> QED BY <3>1
  <2>5. \A i, j \in DOMAIN g : i < j => g[i].n < g[j].n
    BY <1>4, <2>3, <2>4
  <2>6. {g[i] : i \in DOMAIN g} = {h[i] : i \in DOMAIN h} \cup {item}
    BY <2>3
  <2>7. {g[i] : i \in DOMAIN g} = {Item("data", k) : k \in OfferedTo(d)' \ refused}
    BY <1>4, <2>1, <2>6 DEF item
  <2> QED BY <2>2, <2>5, <2>7
<1> QED BY <1>5, <1>6

\* An event that no open stream gets changes none of them.
LEMMA PassedOverExact ==
  ASSUME Exact, NEW c \in Channels, Offer(c), UNCHANGED <<queue, received, open>>,
         \/ refused' = refused /\ (c \in DataChannels => ~open[c])
         \/ refused' = refused \cup {Len(offered) + 1}
  PROVE  StreamsExact'
<1> SUFFICES ASSUME NEW d \in DataChannels, open[d]
             PROVE  LET h == History(d)'
                    IN /\ {h[i] : i \in DOMAIN h} =
                            {Item("data", k) : k \in OfferedTo(d)' \ refused'}
                       /\ \A i, j \in DOMAIN h : i < j => h[i].n < h[j].n
  BY DEF StreamsExact
<1>1. /\ OfferedTo(d)' = OfferedTo(d) \cup (IF d = c THEN {Len(offered) + 1} ELSE {})
      /\ Len(offered) \in Nat /\ DOMAIN offered = 1..Len(offered)
      /\ refused \subseteq DOMAIN offered
  BY OfferNumbers DEF Exact, Channels, Consistent, CountersOK
<1>2. OfferedTo(d)' \ refused' = OfferedTo(d) \ refused
  <2>1. CASE refused' = refused
    BY <1>1, <2>1
  <2>2. CASE refused' = refused \cup {Len(offered) + 1}
    <3>1. Len(offered) + 1 \notin OfferedTo(d)
      BY <1>1 DEF OfferedTo
    <3> QED BY <1>1, <2>2, <3>1
  <2> QED BY <2>1, <2>2
<1>3. History(d)' = History(d)
  BY DEF History
<1> QED BY <1>2, <1>3 DEF Exact, StreamsExact

LEMMA RefusedCounts ==
  ASSUME Consistent
  PROVE  /\ Cardinality(refused) \in Nat
         /\ Cardinality(refused \cup {Len(offered) + 1}) = Cardinality(refused) + 1
<1>1. /\ Len(offered) \in Nat /\ refused \subseteq 1..Len(offered)
  BY DEF Consistent, CountersOK
<1>2. IsFiniteSet(1..Len(offered))
  BY <1>1, FS_Interval
<1>3. IsFiniteSet(refused)
  BY <1>1, <1>2, FS_Subset
<1>4. Len(offered) + 1 \notin refused
  BY <1>1
<1> QED BY <1>3, <1>4, FS_AddElement, FS_CardinalityType

LEMMA EmitExact == Exact /\ Emit => HistoryOK' /\ LossAccounted' /\ StreamsExact'
<1> SUFFICES ASSUME Exact, Emit PROVE HistoryOK' /\ LossAccounted' /\ StreamsExact'
  OBVIOUS
<1>0. /\ Consistent /\ HistoryOK /\ Len(offered) + 1 \in Nat /\ pc = "idle"
      /\ DataChannels \subseteq Channels /\ "error" \in Channels \ DataChannels
  BY DEF Exact, Consistent, CountersOK, Emit, SendAccepted, SendRefused, SendDisconnected,
         EmitError, Offer, Channels, DataChannels
<1>1. UNCHANGED <<open, received>>
  BY DEF Emit, SendAccepted, SendRefused, SendDisconnected, EmitError, queues
<1>2. HistoryOK'
  BY <1>0, <1>1 DEF HistoryOK
<1>3. CASE SendAccepted
  <2>1. PICK c \in DataChannels :
          /\ Offer(c) /\ Accepts(c) /\ TrySend(c, Item("data", Len(offered) + 1))
          /\ pc' = "report" /\ UNCHANGED <<dropped, refused>>
    BY <1>3 DEF SendAccepted
  <2>2. Item("data", Len(offered) + 1) \in Items
    BY <1>0, ItemsOK
  <2>3. \A d \in Channels :
          History(d)' = IF d = c /\ Accepts(c)
                        THEN Append(History(d), Item("data", Len(offered) + 1))
                        ELSE History(d)
    BY <1>0, <1>1, <2>1, <2>2, TrySendHistory
  <2>4. StreamsExact'
    BY <1>0, <1>1, <2>1, <2>3, AcceptedExact
  <2>5. History("error")' = History("error")
    BY <1>0, <2>1, <2>3
  <2>6. LossAccounted'
    BY <1>0, <1>1, <2>1, <2>5 DEF LossAccounted, Exact
  <2> QED BY <1>2, <2>4, <2>6
<1>4. CASE SendRefused
  <2>1. PICK c \in DataChannels :
          /\ Offer(c) /\ open[c] /\ dropped' = dropped + 1
          /\ refused' = refused \cup {Len(offered) + 1} /\ UNCHANGED <<queue, pc>>
    BY <1>4 DEF SendRefused, queues, thread
  <2>2. StreamsExact'
    BY <1>0, <1>1, <2>1, PassedOverExact
  <2>3. History("error")' = History("error")
    BY <1>1, <2>1 DEF History
  <2>4. LossAccounted'
    <3>0. /\ Cardinality(refused) \in Nat /\ Cardinality(refused') = Cardinality(refused) + 1
          /\ pc' = "idle"
      BY <1>0, <2>1, RefusedCounts
    <3>1. SUFFICES ASSUME open["error"]
                   PROVE  ReportedIn(History("error")) + dropped' = Cardinality(refused')
      BY <1>0, <1>1, <2>1, <2>3, <3>0 DEF LossAccounted
    <3>2. ReportedIn(History("error")) + dropped = Cardinality(refused)
      BY <1>0, <3>1, RefusedCounts DEF LossAccounted, Exact
    <3>3. ReportedIn(History("error")) \in Nat
      BY <1>0, HistoryIs, ReportedAppends, ItemsOK
    <3> QED BY <1>0, <2>1, <3>0, <3>2, <3>3 DEF Consistent, CountersOK
  <2> QED BY <1>2, <2>2, <2>4
<1>5. CASE SendDisconnected \/ EmitError
  <2>1. PICK c \in Channels :
          /\ Offer(c) /\ (c \in DataChannels => ~open[c])
          /\ UNCHANGED <<queue, dropped, refused>> /\ pc' # "fetch_sub"
    BY <1>0, <1>5 DEF SendDisconnected, EmitError, queues, thread
  <2>2. StreamsExact'
    BY <1>0, <1>1, <2>1, PassedOverExact
  <2>3. History("error")' = History("error")
    BY <1>1, <2>1 DEF History
  <2>4. LossAccounted'
    BY <1>0, <1>1, <2>1, <2>3 DEF LossAccounted, Exact
  <2> QED BY <1>2, <2>2, <2>4
<1> QED BY <1>3, <1>4, <1>5 DEF Emit

\* A step on the error queue, or on none: the data streams are as they were.
LEMMA ErrorSendExact ==
  ASSUME Exact, NEW item \in Items, TrySend("error", item), UNCHANGED <<open, history>>
  PROVE  /\ HistoryOK' /\ StreamsExact'
         /\ open["error"] =>
              /\ Accepts("error") =>
                   ReportedIn(History("error")') = ReportedIn(History("error")) + Reports(item)
              /\ ~Accepts("error") => History("error")' = History("error")
              /\ ReportedIn(History("error")) \in Nat
<1>0. /\ Consistent /\ HistoryOK /\ DataChannels \subseteq Channels
      /\ "error" \in Channels \ DataChannels
  BY DEF Exact, Channels, DataChannels
<1>1. UNCHANGED <<offered, refused, received>>
  BY DEF history
<1>2. \A d \in Channels :
        History(d)' = IF d = "error" /\ Accepts("error")
                      THEN Append(History(d), item) ELSE History(d)
  BY <1>0, <1>1, TrySendHistory
<1>3. HistoryOK'
  BY <1>0, <1>1 DEF HistoryOK
<1>4. StreamsExact'
  BY <1>0, <1>1, <1>2, StreamsFollow DEF Exact
<1>5. History("error") \in Seq(Items)
  BY <1>0, HistoryIs
<1>6. History("error")' = IF Accepts("error") THEN Append(History("error"), item)
                                              ELSE History("error")
  BY <1>0, <1>2
<1> QED BY <1>3, <1>4, <1>5, <1>6, ReportedAppends

LEMMA QuietExact ==
  ASSUME Exact, UNCHANGED <<queues, dropped, history>>,
         (pc' = pc /\ n' = n) \/ (pc # "fetch_sub" /\ pc' # "fetch_sub")
  PROVE  HistoryOK' /\ LossAccounted' /\ StreamsExact'
<1>1. UNCHANGED <<queue, open, offered, refused, received>>
  BY DEF queues, history
<1>2. \A c \in Channels : History(c)' = History(c)
  BY <1>1 DEF History
<1>3. DataChannels \subseteq Channels /\ "error" \in Channels
  BY DEF Channels
<1>4. HistoryOK'
  BY <1>1 DEF Exact, HistoryOK
<1>5. StreamsExact'
  BY <1>1, <1>2, <1>3, StreamsFollow DEF Exact
<1>6. LossAccounted'
  BY <1>1, <1>2, <1>3 DEF Exact, LossAccounted
<1> QED BY <1>4, <1>5, <1>6

\* What report_overflow reports it takes back, and nothing else.
LEMMA EmitterExact == Exact /\ EmitterStep => HistoryOK' /\ LossAccounted' /\ StreamsExact'
<1> SUFFICES ASSUME Exact, EmitterStep PROVE HistoryOK' /\ LossAccounted' /\ StreamsExact'
  OBVIOUS
<1>0. /\ Consistent /\ n \in Nat /\ dropped \in Nat /\ Cardinality(refused) \in Nat
      /\ Len(offered) \in Nat
  BY RefusedCounts DEF Exact, Consistent, CountersOK
<1>1. CASE ReportLoad \/ ReportTryLock \/ EmitErrorLock
  BY <1>1, QuietExact DEF ReportLoad, ReportTryLock, EmitErrorLock
<1>2. CASE ReportTrySend
  <2>1. /\ TrySend("error", Item("overflow", n)) /\ UNCHANGED <<open, history, dropped, n>>
        /\ pc = "try_send" /\ pc' = IF Accepts("error") THEN "fetch_sub" ELSE "idle"
    BY <1>2 DEF ReportTrySend
  <2>2. Item("overflow", n) \in Items /\ Reports(Item("overflow", n)) = n
    BY <1>0, ItemsOK DEF Item, Reports
  <2>3. /\ HistoryOK' /\ StreamsExact'
        /\ open["error"] =>
             /\ Accepts("error") =>
                  ReportedIn(History("error")') = ReportedIn(History("error")) + n
             /\ ~Accepts("error") => History("error")' = History("error")
             /\ ReportedIn(History("error")) \in Nat
    BY <2>1, <2>2, ErrorSendExact
  <2>4. LossAccounted'
    <3>1. SUFFICES ASSUME open["error"]
                   PROVE  ReportedIn(History("error")') + dropped
                            = Cardinality(refused) + (IF pc' = "fetch_sub" THEN n ELSE 0)
      BY <2>1 DEF LossAccounted, history
    <3>2. ReportedIn(History("error")) + dropped = Cardinality(refused)
      BY <1>0, <2>1, <3>1 DEF Exact, LossAccounted
    <3> QED BY <1>0, <2>1, <2>3, <3>1, <3>2
  <2> QED BY <2>3, <2>4
<1>3. CASE ReportFetchSub
  <2>1. /\ pc = "fetch_sub" /\ pc' = "idle" /\ dropped' = dropped - n
        /\ UNCHANGED <<queue, open, offered, refused, received>>
    BY <1>3 DEF ReportFetchSub, queues, history
  <2>2. \A c \in Channels : History(c)' = History(c)
    BY <2>1 DEF History
  <2>3. DataChannels \subseteq Channels /\ "error" \in Channels
    BY DEF Channels
  <2>4. HistoryOK' /\ StreamsExact'
    BY <2>1, <2>2, <2>3, StreamsFollow DEF Exact, HistoryOK
  <2>5. LossAccounted'
    <3>1. SUFFICES ASSUME open["error"]
                   PROVE  ReportedIn(History("error")) + (dropped - n) = Cardinality(refused)
      BY <1>0, <2>1, <2>2, <2>3 DEF LossAccounted
    <3>2. ReportedIn(History("error")) + dropped = Cardinality(refused) + n
      BY <2>1, <3>1 DEF Exact, LossAccounted
    <3>3. ReportedIn(History("error")) \in Nat
      BY <2>3, HistoryIs, ReportedAppends, ItemsOK DEF Exact
    <3> QED BY <1>0, <3>2, <3>3
  <2> QED BY <2>4, <2>5
<1>4. CASE EmitErrorSend
  <2>1. /\ TrySend("error", Item("error", Len(offered))) /\ UNCHANGED <<open, history, dropped>>
        /\ pc = "send" /\ pc' = "idle"
    BY <1>4 DEF EmitErrorSend
  <2>2. Item("error", Len(offered)) \in Items /\ Reports(Item("error", Len(offered))) = 0
    BY <1>0, ItemsOK DEF Item, Reports
  <2>3. /\ HistoryOK' /\ StreamsExact'
        /\ open["error"] => ReportedIn(History("error")') = ReportedIn(History("error"))
    BY <2>1, <2>2, ErrorSendExact
  <2> QED BY <2>1, <2>3, LossFollows DEF Exact, history
<1> QED BY <1>1, <1>2, <1>3, <1>4 DEF EmitterStep

LEMMA ReporterExact ==
  ASSUME Exact, NEW t \in Reporters, ReporterLock(t) \/ ReporterSend(t)
  PROVE  HistoryOK' /\ LossAccounted' /\ StreamsExact'
<1>1. CASE ReporterLock(t)
  <2>1. UNCHANGED <<queues, dropped, history>> /\ pc' = pc /\ n' = n
    BY <1>1 DEF ReporterLock
  <2> QED BY <2>1, QuietExact
<1>2. CASE ReporterSend(t)
  <2>1. /\ TrySend("error", Item("lifecycle", reports)) /\ UNCHANGED <<open, history, dropped, pc, n>>
    BY <1>2 DEF ReporterSend
  <2>2. Item("lifecycle", reports) \in Items /\ Reports(Item("lifecycle", reports)) = 0
    BY StreamsAssumption, ItemsOK DEF Item, Reports, Exact, Consistent, ThreadsOK
  <2>3. /\ HistoryOK' /\ StreamsExact'
        /\ open["error"] => ReportedIn(History("error")') = ReportedIn(History("error"))
    BY <2>1, <2>2, ErrorSendExact
  <2>4. LossAccounted'
    BY <2>1, <2>3 DEF Exact, LossAccounted, history
  <2> QED BY <2>3, <2>4
<1> QED BY <1>1, <1>2

LEMMA ApplicationExact == Exact /\ Application => HistoryOK' /\ LossAccounted' /\ StreamsExact'
<1> SUFFICES ASSUME Exact, NEW c \in Channels, Receive(c) \/ DropReceiver(c)
             PROVE  HistoryOK' /\ LossAccounted' /\ StreamsExact'
  BY DEF Application
<1>0. /\ Consistent /\ HistoryOK /\ DataChannels \subseteq Channels /\ "error" \in Channels
      /\ UNCHANGED <<offered, refused, dropped, pc, n>>
  BY DEF Exact, Channels, Receive, DropReceiver, history, thread
<1>1. CASE Receive(c)
  <2>1. HistoryOK' /\ open' = open /\ \A d \in Channels : History(d)' = History(d)
    BY <1>0, <1>1, ReceiveHistory DEF Receive
  <2>2. StreamsExact'
    BY <1>0, <2>1, StreamsFollow DEF Exact
  <2>3. LossAccounted'
    BY <1>0, <2>1 DEF Exact, LossAccounted
  <2> QED BY <2>1, <2>2, <2>3
<1>2. CASE DropReceiver(c)
  <2>1. /\ received' = received /\ ~open'[c]
        /\ \A d \in Channels : d # c => open'[d] = open[d] /\ queue'[d] = queue[d]
    BY <1>0, <1>2 DEF DropReceiver, history, Consistent, QueuesOK
  <2>2. \A d \in Channels : open'[d] => open[d] /\ History(d)' = History(d)
    BY <2>1 DEF History
  <2>3. HistoryOK'
    BY <1>0, <2>1 DEF HistoryOK
  <2>4. StreamsExact'
    BY <1>0, <2>2, StreamsFollow DEF Exact
  <2>5. LossAccounted'
    BY <1>0, <2>2 DEF Exact, LossAccounted
  <2> QED BY <2>3, <2>4, <2>5
<1> QED BY <1>1, <1>2

LEMMA InitExact == Init => Exact
<1> SUFFICES ASSUME Init PROVE Exact
  OBVIOUS
<1>1. Consistent
  BY InitConsistent
<1>2. HistoryOK
  BY DEF Init, HistoryOK
<1>3. \A c \in Channels : History(c) = <<>>
  BY DEF Init, History
<1>4. LossAccounted
  <2>1. Cardinality(refused) = 0 /\ dropped = 0 /\ pc = "idle" /\ "error" \in Channels
    BY FS_EmptySet DEF Init, Channels
  <2> QED BY <1>3, <2>1, NothingReported DEF LossAccounted
<1>5. StreamsExact
  <2>1. \A c \in DataChannels : OfferedTo(c) \ refused = {} /\ History(c) = <<>>
    BY <1>3 DEF Init, OfferedTo, Channels
  <2> QED BY <2>1 DEF StreamsExact
<1> QED BY <1>1, <1>2, <1>4, <1>5 DEF Exact

\* Exact holds in every reachable state.
THEOREM ExactAlways == Spec => []Exact
<1>1. Exact /\ [Next]_vars => Exact'
  <2> SUFFICES ASSUME Exact, [Next]_vars PROVE Exact'
    OBVIOUS
  <2>1. Consistent'
    BY EmitConsistent, EmitterConsistent, ReporterConsistent,
       ApplicationConsistent, StutterConsistent DEF Next, Exact
  <2>2. CASE UNCHANGED vars
    <3>1. UNCHANGED <<queues, dropped, history>> /\ pc' = pc /\ n' = n
      BY <2>2 DEF vars, thread
    <3> QED BY <2>1, <3>1, QuietExact DEF Exact
  <2>3. CASE Next
    BY <2>1, <2>3, EmitExact, EmitterExact, ReporterExact, ApplicationExact DEF Next, Exact
  <2> QED BY <2>2, <2>3
<1> QED BY InitExact, <1>1, PTL DEF Spec

\* As long as the application keeps the error stream, what it was told of losses and what
\* is still counted add up to the refused events, at every step of report_overflow.
THEOREM LossAccountedAlways == Spec => []LossAccounted
<1>1. Exact => LossAccounted
  BY DEF Exact
<1> QED BY <1>1, ExactAlways, PTL

\* An open stream is, in order, the events offered to it and not refused
\* (emit, send_message and try_send_counted).
THEOREM StreamsExactAlways == Spec => []StreamsExact
<1>1. Exact => StreamsExact
  BY DEF Exact
<1> QED BY <1>1, ExactAlways, PTL

=============================================================================
