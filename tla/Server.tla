------------------------------- MODULE Server -------------------------------
(***************************************************************************)
(* Connections of the TCP server (apps/server.cpp): the main thread        *)
(* accepts into a bounded queue, workers take connections from it and      *)
(* serve requests until the peer, an error or the end of the server stops  *)
(* them.  At the end stopping is set without the mutex, the queue is       *)
(* emptied with it, and the workers are woken and joined.                  *)
(*                                                                         *)
(* What is inside a request is left to the engine's models.  A transfer    *)
(* ends by its deadline.                                                   *)
(***************************************************************************)
EXTENDS Naturals, Sequences, FiniteSets

CONSTANTS Connections, Workers, Limit, MaxRequests, None

VARIABLES
  mutex,     \* the worker or "main" that holds it, or None
  queue,
  stopping,
  main,      \* "accepting", "stopping", "notifying", "joining" or "over"
  worker,    \* worker -> where it is; it holds the mutex while testing and dozing
  serves,    \* worker -> its connection, or None
  closed,    \* connection -> times it was closed
  arrived,   \* connections accepted so far
  counters   \* [rejected, queued, active, requests, answered]

vars == <<mutex, queue, stopping, main, worker, serves, closed, arrived, counters>>

TypeOK ==
  /\ mutex \in Workers \cup {"main", None} /\ stopping \in BOOLEAN
  /\ queue \in Seq(Connections) /\ Len(queue) <= Limit
  /\ main \in {"accepting", "stopping", "notifying", "joining", "over"}
  /\ worker \in [Workers -> {"waking", "testing", "dozing", "asleep",
                              "counting", "serving", "leaving", "exited"}]
  /\ serves \in [Workers -> Connections \cup {None}]
  /\ closed \in [Connections -> 0 .. 2] /\ arrived \subseteq Connections
  /\ counters \in [rejected : Nat, queued : Nat, active : Nat, requests : Nat, answered : Nat]

Init ==
  /\ mutex = None /\ queue = <<>> /\ stopping = FALSE /\ main = "accepting"
  /\ worker = [w \in Workers |-> "waking"] /\ serves = [w \in Workers |-> None]
  /\ closed = [c \in Connections |-> 0] /\ arrived = {}
  /\ counters = [rejected |-> 0, queued |-> 0, active |-> 0, requests |-> 0, answered |-> 0]

Close(c) == closed' = [closed EXCEPT ![c] = @ + 1]

-----------------------------------------------------------------------------
(* The main thread.  What it does under the mutex is one step.             *)

Accept(c) ==
  /\ main = "accepting" /\ c \notin arrived /\ mutex = None
  /\ arrived' = arrived \cup {c}
  /\ Len(queue) < Limit
  /\ queue' = Append(queue, c)
  /\ counters' = [counters EXCEPT !.queued = @ + 1]
  /\ \/ \E w \in Workers : worker[w] = "asleep" /\ worker' = [worker EXCEPT ![w] = "waking"]
     \/ (\A w \in Workers : worker[w] # "asleep") /\ UNCHANGED worker
  /\ UNCHANGED <<mutex, stopping, main, serves, closed>>

\* The queue is full, or the socket cannot be made non-blocking.
Reject(c) ==
  /\ main = "accepting" /\ c \notin arrived /\ mutex = None
  /\ arrived' = arrived \cup {c}
  /\ Close(c)
  /\ counters' = [counters EXCEPT !.rejected = @ + 1]
  /\ UNCHANGED <<mutex, queue, stopping, main, worker, serves>>

\* An interrupt, or the end of the running time.
Interrupt ==
  /\ main = "accepting" /\ main' = "stopping" /\ stopping' = TRUE
  /\ UNCHANGED <<mutex, queue, worker, serves, closed, arrived, counters>>

Drain_NoLock ==
  /\ main = "stopping" /\ main' = "notifying"
  /\ closed' = [c \in Connections |->
                  closed[c] + Cardinality({i \in DOMAIN queue : queue[i] = c})]
  /\ counters' = [counters EXCEPT !.rejected = @ + Len(queue), !.queued = 0]
  /\ queue' = <<>>
  /\ UNCHANGED <<mutex, stopping, worker, serves, arrived>>

\* The connections that still wait are closed.
Drain ==
  /\ main = "stopping" /\ mutex = None /\ main' = "notifying"
  /\ closed' = [c \in Connections |->
                  closed[c] + Cardinality({i \in DOMAIN queue : queue[i] = c})]
  /\ counters' = [counters EXCEPT !.rejected = @ + Len(queue), !.queued = 0]
  /\ queue' = <<>>
  /\ UNCHANGED <<mutex, stopping, worker, serves, arrived>>

NotifyAll ==
  /\ main = "notifying" /\ main' = "joining"
  /\ worker' = [w \in Workers |-> IF worker[w] = "asleep" THEN "waking" ELSE worker[w]]
  /\ UNCHANGED <<mutex, queue, stopping, serves, closed, arrived, counters>>

Join ==
  /\ main = "joining" /\ \A w \in Workers : worker[w] = "exited"
  /\ main' = "over"
  /\ UNCHANGED <<mutex, queue, stopping, worker, serves, closed, arrived, counters>>

-----------------------------------------------------------------------------
(* A worker.                                                               *)

Lock(w) ==
  /\ worker[w] = "waking" /\ mutex = None
  /\ mutex' = w /\ worker' = [worker EXCEPT ![w] = "testing"]
  /\ UNCHANGED <<queue, stopping, main, serves, closed, arrived, counters>>

\* The predicate of the wait holds, or the worker sleeps and lets the mutex go.
\* stopping may be set between the test and the sleep.
Exit(w) ==
  /\ worker[w] = "testing" /\ stopping
  /\ mutex' = None /\ worker' = [worker EXCEPT ![w] = "exited"]
  /\ UNCHANGED <<queue, stopping, main, serves, closed, arrived, counters>>

Take(w) ==
  /\ worker[w] = "testing" /\ ~stopping /\ queue # <<>>
  /\ mutex' = None /\ worker' = [worker EXCEPT ![w] = "counting"]
  /\ serves' = [serves EXCEPT ![w] = Head(queue)] /\ queue' = Tail(queue)
  /\ counters' = [counters EXCEPT !.queued = @ - 1]
  /\ UNCHANGED <<stopping, main, closed, arrived>>

\* The mutex is free again before the connection is counted as active.
Count(w) ==
  /\ worker[w] = "counting" /\ worker' = [worker EXCEPT ![w] = "serving"]
  /\ counters' = [counters EXCEPT !.active = @ + 1]
  /\ UNCHANGED <<mutex, queue, stopping, main, serves, closed, arrived>>

Doze(w) ==
  /\ worker[w] = "testing" /\ ~stopping /\ queue = <<>>
  /\ worker' = [worker EXCEPT ![w] = "dozing"]
  /\ UNCHANGED <<mutex, queue, stopping, main, serves, closed, arrived, counters>>

Sleep(w) ==
  /\ worker[w] = "dozing"
  /\ mutex' = None /\ worker' = [worker EXCEPT ![w] = "asleep"]
  /\ UNCHANGED <<queue, stopping, main, serves, closed, arrived, counters>>

\* A request of the connection is answered ...
Answer(w) ==
  /\ worker[w] = "serving" /\ ~stopping /\ counters.requests < MaxRequests
  /\ counters' = [counters EXCEPT !.requests = @ + 1, !.answered = @ + 1]
  /\ UNCHANGED <<mutex, queue, stopping, main, worker, serves, closed, arrived>>

\* ... or it ends: the peer leaves, a frame is bad, a deadline passes, in the
\* middle of a request too, or the server stops.
Hangup_OnStop(w) ==
  /\ worker[w] = "serving"
  /\ IF stopping THEN UNCHANGED closed ELSE Close(serves[w])
  /\ serves' = [serves EXCEPT ![w] = None]
  /\ worker' = [worker EXCEPT ![w] = "leaving"]
  /\ UNCHANGED <<mutex, queue, stopping, main, arrived, counters>>

Hangup(w) ==
  /\ worker[w] = "serving"
  /\ Close(serves[w])
  /\ serves' = [serves EXCEPT ![w] = None]
  /\ worker' = [worker EXCEPT ![w] = "leaving"]
  /\ \E n \in {0, IF counters.requests < MaxRequests /\ ~stopping THEN 1 ELSE 0} :
       counters' = [counters EXCEPT !.requests = @ + n]
  /\ UNCHANGED <<mutex, queue, stopping, main, arrived>>

\* The socket is closed by then.
Uncount(w) ==
  /\ worker[w] = "leaving" /\ worker' = [worker EXCEPT ![w] = "waking"]
  /\ counters' = [counters EXCEPT !.active = @ - 1]
  /\ UNCHANGED <<mutex, queue, stopping, main, serves, closed, arrived>>

\* What a thread does when nobody stops it.
MainStep == Drain \/ NotifyAll \/ Join
Step(w) == Exit(w) \/ Take(w) \/ Count(w) \/ Uncount(w) \/ Doze(w) \/ Sleep(w)

Next ==
  \/ \E c \in Connections : Accept(c) \/ Reject(c)
  \/ Interrupt \/ MainStep
  \/ \E w \in Workers : Lock(w) \/ Step(w) \/ Answer(w) \/ Hangup(w)

\* Threads run, and a worker looks at stopping after each transfer, which has a
\* deadline.  A peer that goes on sending keeps its worker, so nothing is
\* assumed about the end of a connection before.
Leaves(w) == Step(w) \/ (stopping /\ Hangup(w))
Fairness ==
  /\ WF_vars(MainStep)
  /\ \A w \in Workers : SF_vars(Lock(w)) /\ WF_vars(Leaves(w))

Spec == Init /\ [][Next]_vars /\ Fairness

-----------------------------------------------------------------------------
\* An accepted connection is in one place, and closed once when it has left the
\* queue and the workers; the counters say where the connections are.  A worker
\* is active from a moment after it took its connection until a moment after it
\* closed it: active may be behind for a moment, and no connection is lost in it.
ConnectionsExact ==
  /\ \A c \in arrived :
       closed[c] + Cardinality({i \in DOMAIN queue : queue[i] = c})
                 + Cardinality({w \in Workers : serves[w] = c}) = 1
  /\ counters.queued = Len(queue)
  /\ counters.active = Cardinality({w \in Workers : worker[w] \in {"serving", "leaving"}})

\* A server told to stop does: every worker is woken and joined, although
\* stopping is set while a worker may be about to sleep.
ServerStops == stopping ~> main = "over"
=============================================================================
