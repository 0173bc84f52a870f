------------------------------ MODULE ShardPool ------------------------------
(***************************************************************************)
(* The fan-out of the sharded benchmark (apps/shard.cpp): run() gives the  *)
(* same job to a persistent thread of every shard and returns when all     *)
(* have finished.  The job is a reference to the caller's closure, which   *)
(* is gone after run(); stop() is called after the last run().             *)
(***************************************************************************)
EXTENDS Naturals, FiniteSets

CONSTANTS Shards, MaxRuns, None

VARIABLES
  mu,          \* a shard's thread or "caller" that holds mu_, or None
  generation,  \* generation_; run number g has generation g
  pending,
  job,         \* the generation job_ points to, or None
  halt,        \* stop_
  caller,      \* "idle", "notify", "lock", "test", "asleep", "stopping" or "joining"
  thread,      \* shard -> "lock", "test", "asleep", "run", "finish" or "exited"
  seen,        \* shard -> last generation it took
  doing,       \* shard -> the job it has taken
  ran          \* shard -> run number -> times it ran that job

vars == <<mu, generation, pending, job, halt, caller, thread, seen, doing, ran>>

Gens == 1 .. MaxRuns

TypeOK ==
  /\ mu \in Shards \cup {"caller", None}
  /\ generation \in 0 .. MaxRuns /\ pending \in 0 .. Cardinality(Shards)
  /\ job \in Gens \cup {None} /\ halt \in BOOLEAN
  /\ caller \in {"idle", "notify", "lock", "test", "asleep", "stopping", "joining", "over"}
  /\ thread \in [Shards -> {"lock", "test", "asleep", "run", "finish", "exited"}]
  /\ seen \in [Shards -> 0 .. MaxRuns] /\ doing \in [Shards -> Gens \cup {None}]
  /\ ran \in [Shards -> [Gens -> 0 .. 2]]

Init ==
  /\ mu = None /\ generation = 0 /\ pending = 0 /\ job = None /\ halt = FALSE
  /\ caller = "idle" /\ thread = [s \in Shards |-> "lock"]
  /\ seen = [s \in Shards |-> 0] /\ doing = [s \in Shards |-> None]
  /\ ran = [s \in Shards |-> [g \in Gens |-> 0]]

-----------------------------------------------------------------------------
(* The caller.                                                             *)
Publish ==
  /\ caller = "idle" /\ generation < MaxRuns /\ mu = None
  /\ generation' = generation + 1 /\ job' = generation + 1 /\ pending' = Cardinality(Shards)
  /\ caller' = "notify"
  /\ UNCHANGED <<mu, halt, thread, seen, doing, ran>>

\* notify_all, after a publication or after the stop.
Notify ==
  /\ caller \in {"notify", "stopping"}
  /\ thread' = [s \in Shards |-> IF thread[s] = "asleep" THEN "lock" ELSE thread[s]]
  /\ caller' = IF caller = "notify" THEN "lock" ELSE "joining"
  /\ UNCHANGED <<mu, generation, pending, job, halt, seen, doing, ran>>

CallerLock ==
  /\ caller = "lock" /\ mu = None /\ mu' = "caller" /\ caller' = "test"
  /\ UNCHANGED <<generation, pending, job, halt, thread, seen, doing, ran>>

Return_Early ==
  /\ caller = "test" /\ pending <= 1
  /\ job' = None /\ mu' = None /\ caller' = "idle"
  /\ UNCHANGED <<generation, pending, halt, thread, seen, doing, ran>>

Return ==
  /\ caller = "test" /\ pending = 0
  /\ job' = None /\ mu' = None /\ caller' = "idle"
  /\ UNCHANGED <<generation, pending, halt, thread, seen, doing, ran>>

CallerSleep ==
  /\ caller = "test" /\ pending # 0
  /\ mu' = None /\ caller' = "asleep"
  /\ UNCHANGED <<generation, pending, job, halt, thread, seen, doing, ran>>

Stop ==
  /\ caller = "idle" /\ mu = None /\ ~halt
  /\ halt' = TRUE /\ caller' = "stopping"
  /\ UNCHANGED <<mu, generation, pending, job, thread, seen, doing, ran>>

JoinAll ==
  /\ caller = "joining" /\ \A s \in Shards : thread[s] = "exited"
  /\ caller' = "over"
  /\ UNCHANGED <<mu, generation, pending, job, halt, thread, seen, doing, ran>>

-----------------------------------------------------------------------------
(* The thread of a shard.                                                  *)
Lock(s) ==
  /\ thread[s] = "lock" /\ mu = None
  /\ mu' = s /\ thread' = [thread EXCEPT ![s] = "test"]
  /\ UNCHANGED <<generation, pending, job, halt, caller, seen, doing, ran>>

Sleep(s) ==
  /\ thread[s] = "test" /\ ~halt /\ generation = seen[s]
  /\ mu' = None /\ thread' = [thread EXCEPT ![s] = "asleep"]
  /\ UNCHANGED <<generation, pending, job, halt, caller, seen, doing, ran>>

Exit(s) ==
  /\ thread[s] = "test" /\ halt
  /\ mu' = None /\ thread' = [thread EXCEPT ![s] = "exited"]
  /\ UNCHANGED <<generation, pending, job, halt, caller, seen, doing, ran>>

Take(s) ==
  /\ thread[s] = "test" /\ ~halt /\ generation # seen[s]
  /\ seen' = [seen EXCEPT ![s] = generation] /\ doing' = [doing EXCEPT ![s] = job]
  /\ mu' = None /\ thread' = [thread EXCEPT ![s] = "run"]
  /\ UNCHANGED <<generation, pending, job, halt, caller, ran>>

Run(s) ==
  /\ thread[s] = "run" /\ thread' = [thread EXCEPT ![s] = "finish"]
  /\ ran' = IF doing[s] = None THEN ran ELSE [ran EXCEPT ![s][doing[s]] = @ + 1]
  /\ UNCHANGED <<mu, generation, pending, job, halt, caller, seen, doing>>

Finish_NoNotify(s) ==
  /\ thread[s] = "finish" /\ mu = None
  /\ pending' = pending - 1 /\ UNCHANGED caller
  /\ doing' = [doing EXCEPT ![s] = None] /\ thread' = [thread EXCEPT ![s] = "lock"]
  /\ UNCHANGED <<mu, generation, job, halt, seen, ran>>

\* pending_ is lowered under the mutex, and the last one wakes the caller.
Finish(s) ==
  /\ thread[s] = "finish" /\ mu = None
  /\ pending' = pending - 1
  /\ caller' = IF pending' = 0 /\ caller = "asleep" THEN "lock" ELSE caller
  /\ doing' = [doing EXCEPT ![s] = None] /\ thread' = [thread EXCEPT ![s] = "lock"]
  /\ UNCHANGED <<mu, generation, job, halt, seen, ran>>

CallerSteps == Notify \/ CallerLock \/ Return \/ CallerSleep \/ JoinAll
ThreadSteps(s) == Lock(s) \/ Sleep(s) \/ Exit(s) \/ Take(s) \/ Run(s) \/ Finish(s)

Next == Publish \/ Stop \/ CallerSteps \/ \E s \in Shards : ThreadSteps(s)

\* Threads run, and who waits for the mutex gets it.
Fairness == /\ SF_vars(CallerSteps)
            /\ \A s \in Shards : SF_vars(ThreadSteps(s))

Spec == Init /\ [][Next]_vars /\ Fairness

-----------------------------------------------------------------------------
\* When run() returns, every shard has run its job once, and none runs it
\* later: the caller's closure is not used after its end.
EachShardOnce ==
  /\ \A s \in Shards : thread[s] = "run" => doing[s] # None /\ doing[s] = job
  /\ \A s \in Shards, g \in Gens :
       /\ ran[s][g] <= 1
       /\ g < generation \/ (g = generation /\ job = None) => ran[s][g] = 1

\* run() returns and, once called, stop() ends: no wakeup is lost.
PoolProgresses == (caller \notin {"idle", "over"}) ~> (caller \in {"idle", "over"})
=============================================================================
