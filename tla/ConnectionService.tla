-------------------------- MODULE ConnectionService --------------------------
(***************************************************************************)
(* What the application may rely on, whatever the channel, the eventfd and *)
(* the backend thread's loop do in between: a request takes effect at one  *)
(* moment between being made and being answered; a connection belongs to   *)
(* one guard; dropping the guard ends it, or fails to and leaves it        *)
(* behind; the end of the backend ends every connection and answers every  *)
(* request that is left.  A request its task gave up may still take        *)
(* effect.                                                                 *)
(***************************************************************************)
EXTENDS Naturals

CONSTANTS Tasks, Ports, NoPort

VARIABLES up,           \* whether the backend serves
          connections,  \* ports connected
          request,      \* what each task asks for
          reply,        \* and its answer
          holds,        \* the port whose guard a task has
          releasing,    \* ports whose guard was dropped, still connected
          abandoned     \* of each port, connects nobody waits for any more

sVars == <<up, connections, request, reply, holds, releasing, abandoned>>

Asked(op, p) == [op |-> op, port |-> p]
Unasked == Asked("none", NoPort)
Pending == {t \in Tasks : request[t] # Unasked /\ reply[t] = "none"}

SInit == /\ up = TRUE
         /\ connections = {}
         /\ request = [t \in Tasks |-> Unasked]
         /\ reply = [t \in Tasks |-> "none"]
         /\ holds = [t \in Tasks |-> NoPort]
         /\ releasing = {}
         /\ abandoned = [p \in Ports |-> 0]

\* A task without a guard connects, one with a guard sends through it.
Ask(t, op, p) == /\ request[t] = Unasked
                 /\ holds[t] = IF op = "connect" THEN NoPort ELSE p
                 /\ request' = [request EXCEPT ![t] = Asked(op, p)]
                 /\ UNCHANGED <<up, connections, reply, holds, releasing, abandoned>>

\* The port is connected for one only; a connect may fail for its own reasons.
ServeConnect(t) ==
  \E p \in Ports :
    /\ request[t] = Asked("connect", p)
    /\ \/ /\ p \in connections
          /\ reply' = [reply EXCEPT ![t] = "already_connected"]
          /\ UNCHANGED connections
       \/ /\ p \notin connections
          /\ reply' = [reply EXCEPT ![t] = "port_not_found"]
          /\ UNCHANGED connections
       \/ /\ p \notin connections
          /\ reply' = [reply EXCEPT ![t] = "ok"]
          /\ connections' = connections \cup {p}

\* A guard's send always finds its connection.
ServeSend(t) == /\ request[t].op = "send"
                /\ request[t].port \in connections
                /\ \E result \in {"ok", "send_failed"} :
                     reply' = [reply EXCEPT ![t] = result]
                /\ UNCHANGED connections

Serve(t) == /\ up
            /\ t \in Pending
            /\ ServeConnect(t) \/ ServeSend(t)
            /\ UNCHANGED <<up, request, holds, releasing, abandoned>>

\* The answer is taken; a connect that succeeded gives the guard.
Done(t) == /\ reply[t] # "none"
           /\ holds' = IF request[t].op = "connect" /\ reply[t] = "ok"
                       THEN [holds EXCEPT ![t] = request[t].port] ELSE holds
           /\ request' = [request EXCEPT ![t] = Unasked]
           /\ reply' = [reply EXCEPT ![t] = "none"]
           /\ UNCHANGED <<up, connections, releasing, abandoned>>

\* The request is given up, before or after it was served.
Abandon(t) ==
  /\ request[t] # Unasked
  /\ request' = [request EXCEPT ![t] = Unasked]
  /\ reply' = [reply EXCEPT ![t] = "none"]
  /\ abandoned' = IF up /\ t \in Pending /\ request[t].op = "connect"
                  THEN [abandoned EXCEPT ![request[t].port] = @ + 1]
                  ELSE abandoned
  /\ UNCHANGED <<up, connections, holds, releasing>>

ServeAbandoned(p) == /\ abandoned[p] > 0
                     /\ abandoned' = [abandoned EXCEPT ![p] = @ - 1]
                     /\ connections' \in {connections, connections \cup {p}}
                     /\ UNCHANGED <<up, request, reply, holds, releasing>>

\* The guard is dropped, with or without the backend hearing of it.
Release(t) == /\ request[t] = Unasked
              /\ holds[t] # NoPort
              /\ holds' = [holds EXCEPT ![t] = NoPort]
              /\ releasing' \in {releasing} \cup
                   (IF up THEN {releasing \cup {holds[t]}} ELSE {})
              /\ UNCHANGED <<up, connections, request, reply, abandoned>>

ServeRelease(p) == /\ p \in releasing
                   /\ releasing' = releasing \ {p}
                   /\ connections' = connections \ {p}
                   /\ UNCHANGED <<up, request, reply, holds, abandoned>>

\* The backend ends, then whoever still waits is told.
Die == /\ up
       /\ up' = FALSE
       /\ connections' = {}
       /\ releasing' = {}
       /\ abandoned' = [p \in Ports |-> 0]
       /\ UNCHANGED <<request, reply, holds>>

Fail == /\ ~up
        /\ Pending # {}
        /\ reply' = [t \in Tasks |-> IF t \in Pending THEN "backend_died"
                                                      ELSE reply[t]]
        /\ UNCHANGED <<up, connections, request, holds, releasing, abandoned>>

SNext == \/ \E t \in Tasks :
              \/ \E p \in Ports, op \in {"connect", "send"} : Ask(t, op, p)
              \/ Serve(t) \/ Done(t) \/ Abandon(t) \/ Release(t)
         \/ \E p \in Ports : ServeAbandoned(p) \/ ServeRelease(p)
         \/ Die \/ Fail

\* Every request is answered in the end, and every answer taken; a guard's drop
\* that was heard of takes effect.
Answer(t) == Serve(t) \/ (t \in Pending /\ Fail)

SFairness == /\ \A t \in Tasks : WF_sVars(Answer(t)) /\ WF_sVars(Done(t))
             /\ \A p \in Ports : WF_sVars(ServeRelease(p))

SSpec == SInit /\ [][SNext]_sVars /\ SFairness
=============================================================================
