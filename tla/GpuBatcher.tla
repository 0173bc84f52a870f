------------------------------ MODULE GpuBatcher ------------------------------
(***************************************************************************)
(* GpuBatcher (include/recserve/gpu_batcher.hpp): connection threads       *)
(* submit requests to a bounded queue; one scheduler thread forms batches, *)
(* scores them on the GPU, falls back to the exact CPU path once the GPU   *)
(* has failed, and sets every promise; stop() drains and joins.            *)
(*                                                                         *)
(* All of submit() and the predicate of the first wait run under mutex_,   *)
(* so each is one action.  Forming a batch holds the mutex over several    *)
(* steps (pc "form") and gives it up in the timed wait (pc "formwait").    *)
(* Time is a discrete clock; every now_us() of the code reads it.          *)
(***************************************************************************)
EXTENDS Naturals, Sequences, FiniteSets

CONSTANTS Requests,
          Invalid,   \* requests submit() answers with BadRequest
          Timeout,   \* request -> timeout_us
          MaxBatch, WaitUs, Capacity,
          MaxTime,   \* bound of the clock
          None

ASSUME TimeoutAssumption == Timeout \in [Requests -> Nat \ {0}]
ASSUME BatchAssumption == MaxBatch \in Nat \ {0} /\ Capacity \in Nat \ {0}
ASSUME TimeAssumption == WaitUs \in Nat /\ MaxTime \in Nat

Statuses == {"Ok", "Timeout", "Unavailable", "LoadShed", "BadRequest"}

ASSUME NoneAssumption == None \notin 0..MaxTime /\ None \notin Statuses

VARIABLES
  now,
  jobs,        \* jobs_
  stopping,    \* stopping_
  submitted,   \* request -> time of its submit, None before
  reply,       \* request -> status its promise was set to, None before
  pc,          \* the scheduler thread
  batch,       \* local batch of loop()
  until,       \* local until of loop()
  next,        \* index of the batch entry being answered
  result,      \* status recommend_sync returned for it
  healthy,     \* gpu_healthy
  usedGpu,     \* local used_gpu
  gpuQueries, fallback, expired, shed,
  spc          \* the thread in stop()

queueVars == <<jobs, stopping, submitted>>
loopVars == <<batch, until, next, result, usedGpu>>
counters == <<gpuQueries, fallback, expired, shed>>
vars == <<now, queueVars, reply, pc, loopVars, healthy, counters, spc>>

Init ==
  /\ now = 0
  /\ jobs = <<>> /\ stopping = FALSE
  /\ submitted = [q \in Requests |-> None]
  /\ reply = [q \in Requests |-> None]
  /\ pc = "warmup"
  /\ batch = <<>> /\ until = 0 /\ next = 1 /\ result = None /\ usedGpu = FALSE
  /\ healthy = TRUE
  /\ gpuQueries = 0 /\ fallback = 0 /\ expired = 0 /\ shed = 0
  /\ spc = "before"

Expired(q) == now - submitted[q] >= Timeout[q]
Minimum(a, b) == IF a <= b THEN a ELSE b
Answer(q, status) == reply' = [reply EXCEPT ![q] = status]

\* The timed wait returns: its predicate holds or its time is up.
FormWakes == stopping \/ jobs # <<>> \/ now >= until

Tick ==
  /\ now < MaxTime
  /\ now' = now + 1
  /\ UNCHANGED <<queueVars, reply, pc, loopVars, healthy, counters, spc>>

\* The constructor waits for the warmup of the scheduler thread; if the scorer
\* fails it throws and there is no batcher.
WarmedUp ==
  /\ pc = "warmup"
  /\ pc' \in {"test", "failed"}
  /\ UNCHANGED <<now, queueVars, reply, loopVars, healthy, counters, spc>>

Constructed == pc \notin {"warmup", "failed"}

-----------------------------------------------------------------------------
(* submit *)

\* Mutant: the capacity check lets one request too many through.
Submit_OffByOne(q) ==
  /\ Constructed /\ pc # "form"
  /\ submitted[q] = None
  /\ now + WaitUs <= MaxTime
  /\ submitted' = [submitted EXCEPT ![q] = now]
  /\ \/ /\ q \in Invalid
        /\ Answer(q, "BadRequest")
        /\ UNCHANGED <<jobs, shed, pc>>
     \/ /\ q \notin Invalid
        /\ stopping \/ Len(jobs) > Capacity
        /\ Answer(q, "LoadShed")
        /\ shed' = shed + 1
        /\ UNCHANGED <<jobs, pc>>
     \/ /\ q \notin Invalid
        /\ ~stopping /\ Len(jobs) <= Capacity
        /\ jobs' = Append(jobs, q)
        /\ pc' = IF pc = "waiting" THEN "test" ELSE pc
        /\ UNCHANGED <<reply, shed>>
  /\ UNCHANGED <<now, stopping, loopVars, healthy, gpuQueries, fallback, expired, spc>>

\* MaxTime bounds when a request may still arrive, so that its wait can end.
Submit(q) ==
  /\ Constructed /\ pc # "form"
  /\ submitted[q] = None
  /\ now + WaitUs <= MaxTime
  /\ submitted' = [submitted EXCEPT ![q] = now]
  /\ \/ /\ q \in Invalid
        /\ Answer(q, "BadRequest")
        /\ UNCHANGED <<jobs, shed, pc>>
     \/ /\ q \notin Invalid
        /\ stopping \/ Len(jobs) >= Capacity
        /\ Answer(q, "LoadShed")
        /\ shed' = shed + 1
        /\ UNCHANGED <<jobs, pc>>
     \/ /\ q \notin Invalid
        /\ ~stopping /\ Len(jobs) < Capacity
        /\ jobs' = Append(jobs, q)
        /\ pc' = IF pc = "waiting" THEN "test" ELSE pc
        /\ UNCHANGED <<reply, shed>>
  /\ UNCHANGED <<now, stopping, loopVars, healthy, gpuQueries, fallback, expired, spc>>

-----------------------------------------------------------------------------
(* loop: wait for work *)

Sleep ==
  /\ pc = "test"
  /\ ~stopping /\ jobs = <<>>
  /\ pc' = "waiting"
  /\ UNCHANGED <<now, queueVars, reply, loopVars, healthy, counters, spc>>

\* Mutant: queued requests are forgotten on the way out.
Exit_Forget ==
  /\ pc = "test"
  /\ stopping
  /\ jobs' = <<>>
  /\ pc' = "exited"
  /\ UNCHANGED <<now, stopping, submitted, reply, loopVars, healthy, counters, spc>>

Exit ==
  /\ pc = "test"
  /\ stopping
  /\ reply' = [q \in Requests |->
                 IF \E i \in DOMAIN jobs : jobs[i] = q THEN "Unavailable" ELSE reply[q]]
  /\ jobs' = <<>>
  /\ pc' = "exited"
  /\ UNCHANGED <<now, stopping, submitted, loopVars, healthy, counters, spc>>

FormBegin ==
  /\ pc = "test"
  /\ ~stopping /\ jobs # <<>>
  /\ until' = submitted[Head(jobs)] + WaitUs
  /\ pc' = "form"
  /\ UNCHANGED <<now, queueVars, reply, batch, next, result, usedGpu, healthy,
                 counters, spc>>

-----------------------------------------------------------------------------
(* loop: form a batch, under the mutex *)

\* Mutant: an expired job is answered and batched as well.
FormPop_Keep ==
  /\ pc = "form"
  /\ jobs # <<>> /\ Len(batch) < MaxBatch
  /\ jobs' = Tail(jobs)
  /\ batch' = Append(batch, Head(jobs))
  /\ IF Expired(Head(jobs))
     THEN /\ expired' = expired + 1
          /\ Answer(Head(jobs), "Timeout")
          /\ UNCHANGED until
     ELSE /\ until' = Minimum(until, submitted[Head(jobs)] + Timeout[Head(jobs)])
          /\ UNCHANGED <<expired, reply>>
  /\ UNCHANGED <<now, stopping, submitted, pc, next, result, usedGpu, healthy,
                 gpuQueries, fallback, shed, spc>>

FormPop ==
  LET q == Head(jobs)
  IN  /\ pc = "form"
      /\ jobs # <<>> /\ Len(batch) < MaxBatch
      /\ jobs' = Tail(jobs)
      /\ IF Expired(q)
         THEN /\ expired' = expired + 1
              /\ Answer(q, "Timeout")
              /\ UNCHANGED <<batch, until>>
         ELSE /\ batch' = Append(batch, q)
              /\ until' = Minimum(until, submitted[q] + Timeout[q])
              /\ UNCHANGED <<expired, reply>>
      /\ UNCHANGED <<now, stopping, submitted, pc, next, result, usedGpu, healthy,
                     gpuQueries, fallback, shed, spc>>

\* The batch is full, the wait is over or the batcher stops.
FormEnd ==
  /\ pc = "form"
  /\ jobs = <<>> \/ Len(batch) = MaxBatch
  /\ stopping \/ now >= until \/ Len(batch) = MaxBatch
  /\ pc' = IF batch = <<>> THEN "test" ELSE "gpu"
  /\ UNCHANGED <<now, queueVars, reply, loopVars, healthy, counters, spc>>

\* wait_for: the mutex is free until FormWakes.
FormWait ==
  /\ pc = "form"
  /\ jobs = <<>> /\ Len(batch) < MaxBatch
  /\ ~stopping /\ now < until
  /\ pc' = "formwait"
  /\ UNCHANGED <<now, queueVars, reply, loopVars, healthy, counters, spc>>

FormResume ==
  /\ pc = "formwait"
  /\ FormWakes
  /\ pc' = "form"
  /\ UNCHANGED <<now, queueVars, reply, loopVars, healthy, counters, spc>>

-----------------------------------------------------------------------------
(* loop: score and answer *)

\* Mutant: every batch tries the GPU, tripped or not.
Score_Retry ==
  /\ pc = "gpu"
  /\ \E ok \in BOOLEAN :
       /\ usedGpu' = ok
       /\ healthy' = ok
       /\ gpuQueries' = IF ok THEN gpuQueries + Len(batch) ELSE gpuQueries
  /\ next' = 1
  /\ pc' = "answer"
  /\ UNCHANGED <<now, queueVars, reply, batch, until, result, fallback, expired,
                 shed, spc>>

\* topk on the GPU while it is healthy; an exception trips the circuit for good.
Score ==
  /\ pc = "gpu"
  /\ \E ok \in BOOLEAN :
       /\ usedGpu' = (healthy /\ ok)
       /\ healthy' = (healthy /\ ok)
       /\ gpuQueries' = IF healthy /\ ok THEN gpuQueries + Len(batch) ELSE gpuQueries
  /\ next' = 1
  /\ pc' = "answer"
  /\ UNCHANGED <<now, queueVars, reply, batch, until, result, fallback, expired,
                 shed, spc>>

AnswerExpired ==
  /\ pc = "answer"
  /\ next <= Len(batch)
  /\ Expired(batch[next])
  /\ expired' = expired + 1
  /\ Answer(batch[next], "Timeout")
  /\ next' = next + 1
  /\ UNCHANGED <<now, queueVars, pc, batch, until, result, usedGpu, healthy,
                 gpuQueries, fallback, shed, spc>>

\* recommend_sync, from the GPU's candidates or all on the CPU.
AnswerRank ==
  /\ pc = "answer"
  /\ next <= Len(batch)
  /\ ~Expired(batch[next])
  /\ fallback' = IF usedGpu THEN fallback ELSE fallback + 1
  /\ \/ /\ result' \in {"Ok", "Timeout", "Unavailable"}
        /\ pc' = "reply"
        /\ UNCHANGED <<reply, next>>
     \/ /\ Answer(batch[next], "Unavailable")    \* an exception
        /\ next' = next + 1
        /\ UNCHANGED <<result, pc>>
  /\ UNCHANGED <<now, queueVars, batch, until, usedGpu, healthy, gpuQueries,
                 expired, shed, spc>>

AnswerReply ==
  /\ pc = "reply"
  /\ expired' = IF Expired(batch[next]) THEN expired + 1 ELSE expired
  /\ Answer(batch[next], IF Expired(batch[next]) THEN "Timeout" ELSE result)
  /\ result' = None
  /\ next' = next + 1
  /\ pc' = "answer"
  /\ UNCHANGED <<now, queueVars, batch, until, usedGpu, healthy, gpuQueries,
                 fallback, shed, spc>>

BatchDone ==
  /\ pc = "answer"
  /\ next > Len(batch)
  /\ batch' = <<>>
  /\ pc' = "test"
  /\ UNCHANGED <<now, queueVars, reply, until, next, result, usedGpu, healthy,
                 counters, spc>>

Scheduler ==
  \/ WarmedUp \/ Sleep \/ Exit \/ FormBegin \/ FormPop \/ FormEnd \/ FormWait
  \/ FormResume \/ Score \/ AnswerExpired \/ AnswerRank \/ AnswerReply \/ BatchDone

-----------------------------------------------------------------------------
(* stop *)

StopStore ==
  /\ Constructed /\ pc # "form"
  /\ spc = "before"
  /\ stopping' = TRUE
  /\ spc' = "notify"
  /\ UNCHANGED <<now, jobs, submitted, reply, pc, loopVars, healthy, counters>>

\* Mutant: the sleeping scheduler is not woken.
StopNotify_Lost ==
  /\ spc = "notify"
  /\ spc' = "join"
  /\ UNCHANGED <<now, queueVars, reply, pc, loopVars, healthy, counters>>

StopNotify ==
  /\ spc = "notify"
  /\ spc' = "join"
  /\ pc' = IF pc = "waiting" THEN "test" ELSE pc
  /\ UNCHANGED <<now, queueVars, reply, loopVars, healthy, counters>>

StopJoin ==
  /\ spc = "join"
  /\ pc = "exited"
  /\ spc' = "after"
  /\ UNCHANGED <<now, queueVars, reply, pc, loopVars, healthy, counters>>

Next ==
  \/ Tick \/ Scheduler
  \/ \E q \in Requests : Submit(q)
  \/ StopStore \/ StopNotify \/ StopJoin

\* The scheduler thread and a thread inside stop() run, and time passes.
Fairness == WF_vars(Scheduler) /\ WF_vars(Tick) /\ WF_vars(StopNotify) /\ WF_vars(StopJoin)

Spec == Init /\ [][Next]_vars /\ Fairness

-----------------------------------------------------------------------------
(* Properties *)

\* Types, the bound of the queue and the bound of a batch.
TypeOK ==
  /\ now \in 0..MaxTime
  /\ jobs \in Seq(Requests) /\ Len(jobs) <= Capacity
  /\ batch \in Seq(Requests) /\ Len(batch) <= MaxBatch
  /\ stopping \in BOOLEAN /\ healthy \in BOOLEAN /\ usedGpu \in BOOLEAN
  /\ submitted \in [Requests -> 0..MaxTime \cup {None}]
  /\ reply \in [Requests -> Statuses \cup {None}]
  /\ pc \in {"warmup", "failed", "test", "waiting", "form", "formwait", "gpu",
             "answer", "reply", "exited"}
  /\ spc \in {"before", "notify", "join", "after"}
  /\ until \in Nat /\ next \in 1..(MaxBatch + 1)
  /\ result \in Statuses \cup {None}

\* The entries of the batch that still have to be answered.
Unanswered == IF pc \in {"form", "formwait", "gpu"} THEN DOMAIN batch
              ELSE {i \in DOMAIN batch : i >= next}

\* Every submitted request is in exactly one place: queued, in the batch, or
\* answered.  So no promise is set twice and none is dropped.
InOnePlace ==
  \A q \in Requests :
    submitted[q] # None =>
      Cardinality({<<"jobs", i>> : i \in {j \in DOMAIN jobs : jobs[j] = q}}
                  \cup {<<"batch", i>> : i \in {j \in Unanswered : batch[j] = q}}
                  \cup (IF reply[q] # None THEN {<<"reply", 0>>} ELSE {})) = 1

\* The scheduler sleeps without a time limit only when there is nothing to do,
\* or while the wakeup of stop() is on its way.
NoSleepOnWork ==
  pc = "waiting" => jobs = <<>> /\ (stopping => spc = "notify")

\* When stop() has returned, every request ever submitted has its answer: late
\* ones were shed, queued ones told Unavailable, batched ones served.
NoneStranded ==
  spc = "after" => \A q \in Requests : submitted[q] # None => reply[q] # None

\* The batcher's bookkeeping at every moment: bounds of queue and batch, every
\* request in one place, no sleep on work, nothing stranded by stop().
RequestsExact == TypeOK /\ InOnePlace /\ NoSleepOnWork /\ NoneStranded

\* Once the GPU has failed it is never used again by this process.
CircuitStaysOpen ==
  [][~healthy => ~healthy' /\ gpuQueries' = gpuQueries]_vars

\* Every submitted request is answered, whatever the GPU does.
EveryoneAnswered ==
  \A q \in Requests : submitted[q] # None ~> reply[q] # None

\* stop() returns.
StopReturns == spc = "notify" ~> spc = "after"

\* Everyone who waits on the batcher, a client or the thread in stop(), gets on.
Completes == EveryoneAnswered /\ StopReturns
=============================================================================
