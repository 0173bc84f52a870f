------------------------------ MODULE ThreadPool ------------------------------
(***************************************************************************)
(* ThreadPool (include/recserve/thread_pool.hpp) under                     *)
(* Engine::recommend_async, start_pool and stop_pool                       *)
(* (include/recserve/engine.hpp): one queue, mutex and condition variable  *)
(* per worker, a shared stop_ flag.                                        *)
(*                                                                         *)
(* A worker's cv wait is split where another thread can get in between:    *)
(* taking the mutex, testing the predicate under it, and the atomic        *)
(* release-and-sleep.  submit() holds the mutex throughout and is one      *)
(* action.  stop() stores stop_ and notifies without any mutex.            *)
(***************************************************************************)
EXTENDS Naturals, Sequences

CONSTANTS Workers, Requests,
          Target,    \* request -> worker, req.id % pool.size()
          First,     \* worker 0
          MaxQueue,  \* Engine::max_queue
          None

ASSUME TargetAssumption == Target \in [Requests -> Workers] /\ First \in Workers
ASSUME MaxQueueAssumption == MaxQueue \in Nat

Statuses == {"Ok", "Timeout", "Unavailable", "LoadShed"}

ASSUME NoneAssumption == None \notin Requests /\ None \notin Statuses

VARIABLES
  stop,      \* stop_
  queue,     \* queues_: worker -> sequence of requests
  mutex,     \* mutexes_: worker -> held by the worker itself?
  wpc, job,  \* per worker: program counter and the job it runs
  spc,       \* the thread in stop_pool(): before, storing, notifying, joining, after
  notified,  \* condition variables stop() has notified
  reply      \* value of each request's promise, None before set_value

vars == <<stop, queue, mutex, wpc, job, spc, notified, reply>>

Init ==
  /\ stop = FALSE
  /\ queue = [w \in Workers |-> <<>>]
  /\ mutex = [w \in Workers |-> FALSE]
  /\ wpc = [w \in Workers |-> "lock"]
  /\ job = [w \in Workers |-> None]
  /\ spc = "before"
  /\ notified = {}
  /\ reply = [q \in Requests |-> None]

Places(q) == {p \in Workers \X (1..(MaxQueue + 1)) :
                p[2] \in DOMAIN queue[p[1]] /\ queue[p[1]][p[2]] = q}
Queued(q) == Places(q) # {}
Running(q) == \E w \in Workers : job[w] = q
Fresh(q) == reply[q] = None /\ ~Queued(q) /\ ~Running(q)

\* The worker recommend_async picks: once stop() has cleared workers_, size() is 0
\* and every request goes to worker 0, which is no more.
Picked(q) == IF spc = "after" THEN First ELSE Target[q]

\* Wake the worker if it sleeps on its condition variable.
Woken(w) == IF wpc[w] = "waiting" THEN [wpc EXCEPT ![w] = "lock"] ELSE wpc

-----------------------------------------------------------------------------
(* recommend_async *)

\* Mutant: the queue takes one request more than max_queue.
Submit_OffByOne(q) ==
  LET w == Picked(q)
  IN  /\ Fresh(q)
      /\ ~mutex[w]
      /\ Len(queue[w]) <= MaxQueue
      /\ queue' = [queue EXCEPT ![w] = Append(@, q)]
      /\ wpc' = Woken(w)
      /\ UNCHANGED <<stop, mutex, job, spc, notified, reply>>

\* Mutant: the worker's mutex is not taken.
Submit_NoLock(q) ==
  LET w == Picked(q)
  IN  /\ Fresh(q)
      /\ Len(queue[w]) < MaxQueue
      /\ queue' = [queue EXCEPT ![w] = Append(@, q)]
      /\ wpc' = Woken(w)
      /\ UNCHANGED <<stop, mutex, job, spc, notified, reply>>

Submit(q) ==
  LET w == Picked(q)
  IN  /\ Fresh(q)
      /\ ~mutex[w]
      /\ Len(queue[w]) < MaxQueue
      /\ queue' = [queue EXCEPT ![w] = Append(@, q)]
      /\ wpc' = Woken(w)
      /\ UNCHANGED <<stop, mutex, job, spc, notified, reply>>

\* submit() returns false: the caller sets the promise itself.
Shed(q) ==
  LET w == Picked(q)
  IN  /\ Fresh(q)
      /\ ~mutex[w]
      /\ Len(queue[w]) >= MaxQueue
      /\ reply' = [reply EXCEPT ![q] = "LoadShed"]
      /\ UNCHANGED <<stop, queue, mutex, wpc, job, spc, notified>>

-----------------------------------------------------------------------------
(* worker_loop *)

Lock(w) ==
  /\ wpc[w] = "lock"
  /\ ~mutex[w]
  /\ mutex' = [mutex EXCEPT ![w] = TRUE]
  /\ wpc' = [wpc EXCEPT ![w] = "test"]
  /\ UNCHANGED <<stop, queue, job, spc, notified, reply>>

\* The predicate is false: the worker will release the mutex and sleep.
TestIdle(w) ==
  /\ wpc[w] = "test"
  /\ ~stop /\ queue[w] = <<>>
  /\ wpc' = [wpc EXCEPT ![w] = "block"]
  /\ UNCHANGED <<stop, queue, mutex, job, spc, notified, reply>>

Block(w) ==
  /\ wpc[w] = "block"
  /\ mutex' = [mutex EXCEPT ![w] = FALSE]
  /\ wpc' = [wpc EXCEPT ![w] = "waiting"]
  /\ UNCHANGED <<stop, queue, job, spc, notified, reply>>

SpuriousWakeup(w) ==
  /\ wpc[w] = "waiting"
  /\ wpc' = [wpc EXCEPT ![w] = "lock"]
  /\ UNCHANGED <<stop, queue, mutex, job, spc, notified, reply>>

\* Mutant: the front of the queue is copied and not popped.
TestJob_NoPop(w) ==
  /\ wpc[w] = "test"
  /\ queue[w] # <<>>
  /\ job' = [job EXCEPT ![w] = Head(queue[w])]
  /\ mutex' = [mutex EXCEPT ![w] = FALSE]
  /\ wpc' = [wpc EXCEPT ![w] = "run"]
  /\ UNCHANGED <<stop, queue, spc, notified, reply>>

TestJob(w) ==
  /\ wpc[w] = "test"
  /\ queue[w] # <<>>
  /\ job' = [job EXCEPT ![w] = Head(queue[w])]
  /\ queue' = [queue EXCEPT ![w] = Tail(@)]
  /\ mutex' = [mutex EXCEPT ![w] = FALSE]
  /\ wpc' = [wpc EXCEPT ![w] = "run"]
  /\ UNCHANGED <<stop, spc, notified, reply>>

\* Mutant: a stopped worker leaves its queue behind.
TestExit_NoDrain(w) ==
  /\ wpc[w] = "test"
  /\ stop
  /\ mutex' = [mutex EXCEPT ![w] = FALSE]
  /\ wpc' = [wpc EXCEPT ![w] = "exited"]
  /\ UNCHANGED <<stop, queue, job, spc, notified, reply>>

TestExit(w) ==
  /\ wpc[w] = "test"
  /\ stop /\ queue[w] = <<>>
  /\ mutex' = [mutex EXCEPT ![w] = FALSE]
  /\ wpc' = [wpc EXCEPT ![w] = "exited"]
  /\ UNCHANGED <<stop, queue, job, spc, notified, reply>>

\* The job: expired in the queue, answered in time, answered too late, or an
\* exception; each path sets the promise once.
Run(w) ==
  /\ wpc[w] = "run"
  /\ \E s \in Statuses \ {"LoadShed"} : reply' = [reply EXCEPT ![job[w]] = s]
  /\ job' = [job EXCEPT ![w] = None]
  /\ wpc' = [wpc EXCEPT ![w] = "lock"]
  /\ UNCHANGED <<stop, queue, mutex, spc, notified>>

-----------------------------------------------------------------------------
(* stop() *)

StopStore ==
  /\ spc = "before"
  /\ stop' = TRUE
  /\ spc' = "notifying"
  /\ UNCHANGED <<queue, mutex, wpc, job, notified, reply>>

StopNotify(w) ==
  /\ spc = "notifying"
  /\ w \notin notified
  /\ notified' = notified \cup {w}
  /\ wpc' = Woken(w)
  /\ spc' = IF notified' = Workers THEN "joining" ELSE spc
  /\ UNCHANGED <<stop, queue, mutex, job, reply>>

StopJoin ==
  /\ spc = "joining"
  /\ \A w \in Workers : wpc[w] = "exited"
  /\ spc' = "after"
  /\ UNCHANGED <<stop, queue, mutex, wpc, job, notified, reply>>

Worker(w) ==
  Lock(w) \/ TestIdle(w) \/ Block(w) \/ TestJob(w) \/ TestExit(w) \/ Run(w)

Next ==
  \/ \E q \in Requests : Submit(q) \/ Shed(q)
  \/ \E w \in Workers : Worker(w) \/ SpuriousWakeup(w) \/ StopNotify(w)
  \/ StopStore \/ StopJoin

\* Threads keep being scheduled.  Nobody has to submit or to stop the pool, and
\* the standard promises no spurious wakeup.
Fairness ==
  /\ \A w \in Workers : WF_vars(Worker(w)) /\ WF_vars(StopNotify(w))
  /\ WF_vars(StopJoin)

Spec == Init /\ [][Next]_vars /\ Fairness

-----------------------------------------------------------------------------
(* Properties *)

\* Shapes of the variables; a worker holds its mutex exactly around the test.
TypeOK ==
  /\ stop \in BOOLEAN
  /\ \A w \in Workers :
       /\ queue[w] \in Seq(Requests)
       /\ Len(queue[w]) <= MaxQueue
       /\ wpc[w] \in {"lock", "test", "block", "waiting", "run", "exited"}
       /\ mutex[w] <=> wpc[w] \in {"test", "block"}
       /\ job[w] \in Requests \cup {None}
       /\ job[w] # None <=> wpc[w] = "run"
  /\ spc \in {"before", "notifying", "joining", "after"}
  /\ notified \subseteq Workers
  /\ reply \in [Requests -> Statuses \cup {None}]

\* No worker sleeps while its queue holds a job: a submit cannot slip between
\* the predicate and the sleep.
NoSleepOnWork ==
  \A w \in Workers : wpc[w] \in {"block", "waiting"} => queue[w] = <<>>

\* A promise is set at most once: a request that has its reply is in no queue
\* and on no worker, and no queue holds a request twice.
SetOnce ==
  \A q \in Requests :
    /\ reply[q] # None => ~Queued(q) /\ ~Running(q)
    /\ ~(Queued(q) /\ Running(q))
    /\ \A p, r \in Places(q) : p = r

\* The pool's bookkeeping at every moment: queues within their bound, no worker
\* asleep on work, no promise that could be set twice.
JobsExact == TypeOK /\ NoSleepOnWork /\ SetOnce

\* A job accepted before stop() begins is answered, stop or no stop: workers
\* drain their queues before they leave.
AcceptedIsAnswered ==
  \A q \in Requests : (Queued(q) /\ ~stop) ~> reply[q] # None

\* stop_pool() returns.
StopReturns == spc = "notifying" ~> spc = "after"
=============================================================================
