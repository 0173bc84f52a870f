# RecServe in TLA+

TLA+ models of RecServe, the TLC runs that check them on small instances and the
TLAPS proofs of the results that hold for every instance. `PROJECT.json` lists the
runs, the definition-to-source map, the hazards, the findings and the theorems.

    tlc -workers 2 -config Pilot.cfg MCPilot     # a run
    tlapm PilotProofs.tla                        # the proofs of one component

## 1. The system

RecServe is a recommendation server: a C++20 retrieval engine (`include/recserve`,
`src`, `apps`), a single-host pilot policy layer in Python over SQLite
(`recserve_pilot`), a multi-user application in FastAPI over PostgreSQL
(`recserve_app`), a browser client (`web`) and offline tooling (`scripts`, `flink`).

    browser --HTTP--> recserve_app --TCP v2--> server --> Engine --> ThreadPool / GpuBatcher
                        |  |                                |
                        |  +--S3 ledger                     +--> FeatureSnapshotStore <-- nearline ingest
                        +--PostgreSQL
    pilot client --HTTP--> recserve_pilot (SQLite) --TCP--> server

### Inventory

| Component | State | Operations | What is hard | What makes it correct |
|---|---|---|---|---|
| Feature snapshot store (`feature_snapshot.hpp`) | two tables, live pointer, hazard slots, staged deltas, generation | `read`/`~Guard`, `stage`, `publish` | lock-free readers against one writer, ABA of two tables, slot exhaustion | a guard sees one immutable generation; publishes complete; an atomic register of snapshots |
| Thread pool (`thread_pool.hpp`, `engine.hpp` async path) | a queue, mutex, cv per worker, `stop_` | `start`, `submit`, worker loop, `stop` | lost wakeups, drain on stop | an accepted job is answered once; `stop` returns |
| GPU batcher (`gpu_batcher.hpp`) | bounded queue, batch, circuit breaker, counters | `submit`, scheduler loop, `stop` | timed wait against arrivals and stop, GPU failure, deadlines | every request answered once; a tripped GPU stays off; `stop` returns |
| Engine request path (`engine.hpp`, `scorer.hpp`, `simd.hpp`, `quality.hpp`) | model arrays | `recommend_sync` | floating-point scores | ordering and filtering of results |
| HNSW index (`index.hpp`) | graph, visited marks | parallel build, search, save, load | insertion of items beyond the linked prefix | every node reachable; the file round-trips |
| Nearline features (`nearline.hpp`, `event_source.hpp`, `apps/nearline.cpp`, `kafka_source.cpp`) | staged events, last publish, visible table; ring of buckets | stage, `publish_if_due`, `flush`, replay and live loops, window counter | clocks that go back, late events, a replay that wraps the file, items beyond `--items` | queries see a prefix of the consumed events, cut to the catalogue; a window counts each event once |
| Mutex feature store (`features.hpp`) | open-addressing map | `put`, `get`, growth | reserved key, growth during a probe | a map |
| TCP server (`apps/server.cpp`, `net.cpp`) | connection queue, workers, counters | accept, serve a connection, monitor, shutdown | admission bound, frame deadlines, shutdown order | no connection lost or leaked; shutdown ends |
| Wire protocols (`protocol.hpp`, `protocol_v2.hpp`) | none | encode, decode | length and range checks | decoding inverts encoding, rejects the rest |
| Shard fan-out (`apps/shard.cpp`, `apps/rankd.cpp`) | generation, pending count, pointer to the caller's job | `run`, worker loop, `stop` | lost wakeups, a shard still using the job when `run` returns | each shard runs each job once, before `run` returns |
| Pilot policy service (`recserve_pilot`) | SQLite: impressions, journal, projection, fingerprint, generation | recommend, events, withdraw an item, start | retries, feedback during retrieval, crashes, another bundle | idempotent answers; issued responses respect feedback; projection = replay of the journal |
| Application policy (`recserve_app/policy.py`, `model.py`, `selection.py`) | preferences, revision, recommendations, events, mutation keys, vector cache | preferences, recommend, feedback, retention | two transactions with retrieval between, cache filled outside the lock | fence on the revision; cache coherent; replay for 24 h |
| Accounts (`recserve_app/db.py`, `privacy.py`, `api.py`) | users, identities, invitations, sessions, deletion ledger, readiness; OAuth flows, rate windows | sign-in, logout, delete, reconcile, start, retention sweep | opposite lock orders, failures between ledger and commit, restores; a sweep against live rows | an acknowledged deletion is final; one session per account; a flow is used once; limits hold |
| HTTP admission and telemetry (`api.py`, `telemetry.py`) | active requests, gauges, counters; thread and connection pools | middlewares around a request | disconnect, timeout, cancellation, error on every level | counters are exact on every path; every request leaves |
| OIDC client (`oidc.py`) | key cache and its age | exchange | cache shared by concurrent callbacks, key rotation | no token is accepted under keys older than an hour |
| Retrieval clients (`retrieval.py`, `recserve_pilot/transport.py`) | socket, deadline | query | stalls, partial and flawed frames, several addresses and queries | the deadline holds; a failure is named; a selection is whole |
| Start-up (`entrypoint.py`, `model_v2.py`, `lifespan`) | bundle directory, role, schema, grants, processes | write a bundle, migrate, start, stop, ready | interrupted migration, early start, stale addresses | what serves has its database and bundle behind it |
| Pilot HTTP server (`recserve_pilot/service.py`) | connection slots, expiry timers | accept, handle, expire, close | slow clients, threads that cannot start, timer against handler | slots are exact; connections end |
| Web client (`web/src`) | idempotency keys, local state | calls with retry | lost answers | a retry reuses its key |
| Tuning agent (`scripts/agent.py`) | incumbent, history, result files | plan, measure, gate, roll back, confirm | moving incumbent, model answers outside the space, failing benchmarks | the incumbent is the start moved along accepted proposals |
| Release and operations scripts (`production_runner.py`, `measure.py`, `check_*.py`, `monitoring.py`) | receipts, result and board files, containers, volumes, secrets, probe samples | stages, resume, campaign, drills, restart under probes | edits under a run, crashes in a save, failures half-way, late probes | evidence is of the current source; results are kept; nothing is left behind |
| Streaming aggregation (`flink`, `kafka_produce.py`, `offline_ctr.py`, `compare_flink.py`, `skew.py`) | topic, dump, output files | produce, aggregate, compare | lost and repeated records, old records in the topic | the comparison passes exactly when the counts agree |

## 2. Modules

| Module | Models | Size of the atomic step |
|---|---|---|
| `SnapshotRegister` | what the feature store promises (abstract) | take, drop, stage, publish |
| `FeatureSnapshot` | `FeatureSnapshotStore`, `ReaderRegistry`, `Guard` | one atomic operation, or one `apply` of a delta |
| `ThreadPool` | `ThreadPool`, `Engine::recommend_async`, `stop_pool` | the cv wait is split into lock, predicate, release-and-sleep |
| `GpuBatcher` | `GpuBatcher` | one critical section, one pass of a loop |
| `Pilot` | `Store`, `recommend()`, the HTTP handler's outcome | one SQLite transaction |
| `Policy` | `policy.py` for one account, `Model.vector`, retention | one PostgreSQL transaction (all lock the account's row first) |
| `Accounts` | `login`, `delete_account`, `replay_deletions`, `reconcile`, `lifespan` | one SQL statement that can wait for a row lock; commits |
| `Admission` | `Bounds`, `Telemetry`, the pools behind the API's handlers | one await, or one wait for a thread or a connection |
| `Access` | `login`/`callback`/`principal` with `rate`, `start_flow`, `consume_flow`, `authenticate`, `GoogleOIDC.exchange`, the sweep | one transaction or one await |
| `Retrieval` | `Retrieval.query`, `select_items`, `Upstream.retrieve` | one socket call |
| `PilotServer` | `Server`, `Handler` of the pilot | one call that takes or gives back a slot, timer or socket |
| `Deploy` | `write_bundle`, `migrate`, `lifespan`, `ready`, the pairing of API and retrieval | one statement or file that survives a crash |
| `Server` | accept loop, workers and shutdown of `server.cpp` | the cv wait is split as in `ThreadPool` |
| `ShardPool` | `ShardPool` of `shard.cpp` | likewise |
| `FlatMap` | `FlatUserMap`, `FeatureStore` | one locked call |
| `Counts` | the aggregate of events by item, by definition (`Counts`) and event by event (`Tallied`), and sums (`Total`); shared by the two below | |
| `Streaming` | producer, Flink job, offline aggregate, comparison | one record, one program step |
| `Nearline` | `NearlinePipeline`, replay and live loops, `SlidingWindowCounter`, `skew.py` | one event of a replay, one poll of a live run |
| `Agent` | `run_loop` and its planners, `verify`, the files of `main` | one proposal, one paired measurement |
| `Runner` | `production_runner.main`, `execute`, `reusable` | one command of a stage |
| `Campaign` | `measure.main` and its result and board files | one stage; truncation and filling of a file apart |
| `Drill` | `check_operations`, `check_recovery`, `check_production`, `verify_monitoring` as plans of steps | one command |
| `Probes` | `restart_during_probes` | one statement of either thread that the other can see |
| `Serving` | `Admission`, `Retrieval`, `PilotServer`, `Deploy`, `Server`, `ShardPool` and `FlatMap` side by side | a step of one of them |
| `Operations` | `Access`, `Agent`, `Runner`, `Campaign`, `Drill`, `Probes`, `Streaming` and `Nearline` side by side | a step of one of them |
| `MC...` | values for TLC, symmetry sets and, for `Serving`, the fairness actor by actor | |
| `FeatureSnapshotProofs`, `PilotProofs`, `PolicyProofs`, `AccountsProofs`, `ThreadPoolProofs`, `GpuBatcherProofs`, `ServingProofs`, `OperationsProofs` | theorems about the module of that name | |

`Serving` and `Operations` put the components that share no state beside each other:
a behaviour is one of the component `mode` names, the others stay in an initial state,
and each of their properties is a conjunction of named parts of one or two components.
What they ask of the constants is stated there, component by component. Where
components do meet, they meet inside a module: the two clients of the retrieval
service in `Retrieval`, application, retrieval server and migration in `Deploy`,
producer, job and reference in `Streaming`, replay and offline aggregate in
`Nearline`.

Definitions carry the names of the functions they model; the comment above an
action says what the code does there and `PROJECT.json` gives the lines. Operators
named `X_Suffix` directly above `X` are mutated forms of `X` that no specification
uses: they show that the property they are paired with can fail.

How data is abstracted:

* `FeatureSnapshot`: a table's content is the sequence of deltas applied to it.
  `apply` is a function of table and delta, so equal logs are equal tables, and a
  half-applied batch is a different log. The operations of the argument are
  sequentially consistent in the source, so interleaving is the memory model.
* `ThreadPool`, `GpuBatcher`: a request is an identity; how a request ends (Ok,
  Timeout, Unavailable) is a free choice where the numeric path decides it. The
  batcher reads a discrete clock wherever the code calls `now_us()`.
* `Pilot`, `Policy`: scores are arbitrary, so ranking is any choice of k eligible
  items that contains what the code must contain; retrieval returns any set, or
  fails. A preference vector is a function of the preferences and stands for them.
  Event times never decide what the pilot's projection becomes, because for
  every event that is acceptable otherwise some time is acceptable too.
* `Accounts`: only rows that matter to identity and deletion; a transaction's writes
  appear at its commit and its row locks last until then (READ COMMITTED). A
  waiting transaction may be ended by `lock_timeout` or the deadlock detector.
  `reconcile`'s loop over undelivered outbox rows is left out: `delete_account`
  only ever inserts rows that are already delivered, so the loop body never runs.

* `Admission`: a request is a size and a route; the handler behind the middlewares
  takes a thread, then a connection, and ends in any way the code can end.
* `Counts`: a table is built event by event, as the programs do; loops over events are
  recursive functions on prefixes, which the provers can reason about. The sum of a
  column is the size of a set of pairs (`Total`).
* `Access`: times are ticks; the lives of flows, sessions, keys and rate windows keep
  their order, not their ratio. Hashes and signatures are identities.
* `Retrieval`: a frame has at most one flaw out of those the code tests for; time
  passes only inside socket calls.
* `Deploy`: a bundle is absent, half written, whole or damaged after it was loaded.
* `FlatMap`: a hash function with collisions and wrap-around over six users, one of
  which is the empty marker.
* `Nearline`: the visible table has a row for an item of `Catalogue` (the items below
  `--items`) once an event of it was applied; a row the code keeps at zero is one that is not
  there yet. `Apply` drops an event of any other item, as the bounds check of
  `FeatureTable::apply` does, and the event is counted as published all the same. The rows of
  users and the watermark of a table are left out; the two tables behind the visible one are
  `FeatureSnapshot`'s.
* `Server`: a worker takes a connection under the mutex and counts it as active after
  (`Take`, `Count`), and counts it out after the socket is closed (`Hangup`, `Uncount`); what
  the main thread does under the mutex is one step.
* `Agent`: configurations are positions in `ACTION_SPACE`; the diagnosis may put any
  applicable rule first; the gate's verdict on a measurement is free.
* `Runner`: the fingerprint of the work tree is its state; inputs are fingerprinted
  once, at the start, as in the code.
* `Drill`: a plan lists what a drill creates and where it can fail; assertions that
  nothing comes between are one step. `CleanRaises` is an exception in the clean-up loop of
  the operations and recovery drills: the labels of somebody else's volume are null, or a
  container's log cannot be opened; what the loop had not come to stays. The blue and green containers of a role and
  the two volumes of the proxy are treated alike by the code, and one stands for both.

## 3. Runs

| Run | Instance | What it shows |
|---|---|---|
| `feature_snapshot` | 2 readers, 2 slots, 2 deltas staged twice | types; no write to a table under a validated guard (`NoRace`); one immutable generation (`NoTornRead`); `PublicationExact`: both tables get the same history (`TablesAgree`), `generation()` is never behind a reader (`GenerationBound`), no spurious "too many readers" (`NoSpuriousLimit`); a thread never reads backwards (`MonotoneReads`); `publish` ends (`PublishCompletes`); refinement of `SnapshotRegister` |
| `feature_limit` | 3 readers, 2 slots | at the limit slots are neither shared nor leaked (`SlotsExact`) |
| `thread_pool` | 2 workers, 4 requests, queues of 2 | `JobsExact`: no worker sleeps on work (`NoSleepOnWork`), promises are set once (`SetOnce`); every accepted job is answered, also across `stop` (`AcceptedIsAnswered`) |
| `thread_pool_stop` | 1 worker, 2 requests | **violation**: `stop()` need not return, see findings |
| `gpu_batcher` | 3 valid and 1 invalid request, batches of 2, queue of 2, clock 0..2 | `RequestsExact`: a request is in one place at a time (`InOnePlace`), the scheduler does not sleep on work, none is stranded by `stop` (`NoneStranded`); `CircuitStaysOpen`; `Completes`: everyone is answered, `stop` returns |
| `pilot` | 2 threads, 2 users (one guest), 2 items, 2 requests, 2 events, 2 bundles, 2 generations, 2 attempts | one answer per request ID (`OneAnswerPerRequest`); `JournalExact`: `ProjectionIsReplay`, `SaveRateBounded`, `OutcomesGrounded`, `OneModelPerDatabase`; a response is issued only if it is current (`IssueIsAtomic`) |
| `policy` | 2 threads, 3 items (2 available), 1 request ID, 2 mutation keys, 2 events, cache of 1, revisions to 2, clock to 3 | `StateIsReplay`: vector cache coherent (`CacheCoherent`), preferences = replay of the mutations (`PreferencesAreReplay`); answers stable for 24 h (`ReplayStable`); a response is issued only if it is current (`IssueIsCurrent`) |
| `policy_repurpose` | 2 threads, 1 request ID, replay for 1 tick, retention 2, clock to 3 | **violation**: an old request ID is issued afresh, see findings |
| `accounts` | 2 threads, 1 Google account under 2 addresses, 4 requests, 2 faults, ledger bound 1 | acknowledged deletions stay final (`DeletedNotServed`), an account leaves only with its tombstone (`RemovedWithTombstone`), one user and one session per Google account (`OneSession`) |
| `accounts_live` | 2 threads, 1 address, 3 requests, 1 fault | tombstones are enforced eventually (`TombstoneEnforced`), every request ends though sign-in and deletion lock in opposite orders (`RequestsEnd`) |
| `serving` | 3 requests over 2 places, 1 thread, 1 connection; 2 addresses, 3 queries, frames in 2 parts; 3 clients over 2 slots; 2 colours, 2 bundles, 1 fault; 3 connections, 2 workers, queue of 1; 3 shards, 3 queries; 6 users, 5 calls | `RequestsAccounted`: admission counters exact on every path; `RetrievalHonest`: the deadline, the labels, whole selections; `ConnectionsExact`: slots of the pilot server, connections of the TCP server closed once; `DeploymentGrounded`: what serves is grounded, bundles do not mix; `EachShardOnce`; `MapFaithful`; `EverythingEnds`: requests leave, connections end, migration completes, the TCP server stops, the shard pool progresses |
| `operations` | 2 browsers, 4 requests of which 2 are over at the start, 3 ticks; spaces of 2 values, 3 iterations of the rules, 9 of the grid, 2 of the free planners; 2 sources, 3 runs, 2 edits; 2 stages, 2 hosts, 3 campaigns; 2 faults in a drill; 5 probes; 2 records with 1 lost or repeated; files of 3 out of 4 events, one of them of an item beyond the catalogue of 2 | `AccessControlled`: flows used once, limits and key age hold; `AgentHonest`: the agent's incumbent, proposals and result; `EvidenceIsCurrent`, and no process left behind; `ResultsKept`: results of one host, honest, kept, only those on the board; `DrillsHonest`: drills leave nothing and report only success, recovery is the restarted component's, samples final; `AggregatesAgree`: the comparison, the visible prefix, the skew and the window counter are exact; `OthersSpared`: the sweep spares live sessions, a drill what is not its own |

A property of a run that says several things is a conjunction of the component's
named parts, its type invariant among them; the parts are defined and commented
one by one in the component's module, and `PROJECT.json` has mutants for the parts that
say more than types.

Bounds. Each is a named constant. Two readers and two publishes are what an ABA of
two tables needs: a reader that loaded the live pointer, a swap away and a swap
back. Two slots with three readers reach exhaustion. Two threads on one request ID
are a concurrent retry; `MaxAttempts` is 2 instead of the code's 3 because the last
attempt differs from the others only in giving up. `MaxGeneration` and `MaxRevision`
of 2 allow the fenced state to change under a request, and again under its retry.
Two faults are a failed deletion followed by a crash, or a crash followed by a
restore. In `Policy` a tick stands for hours or days, and a request, which times out
after seconds, lives through one at most. In `GpuBatcher` `MaxTime` leaves room for
every wait to end.

Two faults in a drill are a failed step and a failed removal. One lost or repeated
record is enough to separate the two aggregates. Three connections over two workers
and a queue of one reach refusal; three shards let one be early, one late and one
asleep. The spaces of the agent are cut to two values a knob, which still clamps
`_neighbour` at both ends and exhausts sweep and grid. Two of the four requests of
`Access` are over at the start, so that flows, sessions and counters exist when two
calls overlap with a tick and the sweep; initial states that differ only in the names
of browsers and of finished requests are there once, which loses nothing.

Deadlock is checked except in the two thread-pool runs, `gpu_batcher`, `serving` and
`operations`, where a stopped pool, a server that has closed or a program that has
ended has no step left; what must not hang there is a liveness property.

### Fairness

* `FeatureSnapshot`: the ingest thread in `publish` and a request thread in a request
  keep running (weak fairness). Nothing obliges another delta or request to come.
* `ThreadPool`, `GpuBatcher`: worker, scheduler and the thread in `stop` run, time
  passes. No fairness on arrivals, on the call of `stop` or on spurious wakeups.
* `Accounts`: threads and the maintenance task run, PostgreSQL ends a wait that
  lasts, the container is restarted. Strong fairness on a thread's step only because
  a released row lock goes to the transaction queued for it. No fairness on
  requests, faults, backups or restores.

* `Admission`: the event loop runs a request's next step and its timers; a thread or
  a connection that is given back reaches a waiting request (strong fairness on taking
  a thread, because the limiter queues). None on clients.
* `PilotServer`: handler threads run and timers fire; none on clients, which may
  send a byte at a time without end. `Deploy`: a migration that failed is run again;
  faults are bounded.
* `Server`, `ShardPool`: threads run, and a thread waiting for a mutex that is released
  again and again gets it. None on arrivals, on the signal or on calls of `run`.

`MCServing` states the same conditions actor by actor, and lets requests, connections
and bundles, whose names nothing depends on, begin in one order of the names only. That
restricts arrivals, on which there is no fairness, and loses no behaviour but for names.

### Findings

* `thread_pool_stop` (code bug). `ThreadPool::stop` stores `stop_` and notifies
  without the worker's mutex. A worker between a false predicate and its sleep
  misses both, and `join` waits for ever. `GpuBatcher::stop` and the shutdown of
  `server.cpp` take the mutex and do not have the problem.
* `policy_repurpose` (document). `docs/PRODUCTION.md` says that expired IDs are not
  "silently repurposed"; after the 90-day retention sweep they are.

Two further behaviours the models contain and no run asks about, since no document
promises otherwise: a job submitted to a stopped pool is accepted and its future is
never ready; the batcher's formation wait is cut to a request's deadline itself,
so a lone request with a timeout not above the formation wait times out on an idle
machine.

Properties are stated up to these limits of the code, which no document of the
repository denies but for the one quoted:

* `PilotServer`: `timer.start()` is outside the `try` that releases the slot. If the
  timer's thread cannot start, the slot is lost (`leaked` in `SlotsExact`).
* `Runner`: an edit that is undone before the stage ends is not seen, inputs are
  fingerprinted only at the start, and a glob may match an artifact of an earlier run.
* `Campaign`: a torn results file stops every later campaign until the operator removes
  it; two campaigns at once would lose results (the model runs one at a time).
* `Nearline`: a replay of more events than the file holds begins it again and counts
  twice, so `SkewIsInvisible` is for files that are long enough. Nothing compares `--items`
  with the file: an event of an item beyond it counts as published and is never visible, while
  `offline_ctr.py` counts it. `VisibleIsPrefix` and `SkewIsInvisible` say exactly that, and
  the header of `skew.py` ("Everything after the last publish boundary is the skew", line 14)
  holds for files whose items are all in the catalogue. A live poll
  without an event does not publish what is staged. An event that arrives a ring's
  length late evicts a newer bucket (`WindowExact` says when).
* `Drill`: a volume of the operations drill is noted after its creation, the restore
  container of the recovery drill has no name, removals are not checked: `LeavesNothing`
  excepts what a failed command made or could not remove, and what a clean-up that raised
  had not come to.
* `Probes`: the event `failed` may be set by a probe that failed before the kill.
* `FlatMap`: the user 0xFFFFFFFF is stored and never found.
* Deletion ledger: beyond 10000 tombstones `read_all` raises, so reconciliation, and
  with it start-up, fails from then on (the ledger bound of `accounts`).
* `Retrieval`: a row beyond the catalogue makes the application fall back to
  popularity after the query was counted as a success.

## 4. Proofs

Everything below holds for every value of the constants that satisfies the named
assumptions: any number of threads, users, requests, slots, deltas, faults and
restarts, any finite catalogue, files, streams, frames and histories of any length. The
assumptions stand in the modules that declare the constants (`Pilot`, `Policy`,
`Accounts`, `FeatureSnapshot`, `ThreadPool`, `GpuBatcher`, `Serving`, `Operations`), and
TLC evaluates them on every run. They ask that bounds are naturals, that `None`
is not one of the values it stands beside and that sets that are counted are finite. Beyond
that, each for the reason given:

* `Policy`: a request has at least one attempt; retention is at least twice the replay
  window (90 days against 24 hours).
* `Serving`: the map starts with at least four slots (the code: 16), and the reserved key
  is one of the ids; there is an address, a query and a part of a frame.
* `Operations`: the sweep keeps the window before the current one and a login may pass (in
  the code both are literals that say so); the agent's `ACTION_SPACE` has its four knobs
  and the second value of `pin`, and a start is inside it or outside of it at 0; event
  times are positive, those of `Nearline` no later than the wall clock can go; windows
  and rings are not empty.

| Module | Theorems | What they state |
|---|---|---|
| `FeatureSnapshotProofs` | `TypeCorrect`, `NoRaceTheorem`, `NoTornReadTheorem` | the hazard-slot protocol is safe for any number of readers and slots |
| | `SlotsExactTheorem`, `PublicationTheorem` | no slot is shared or lost; both tables get one history, no reader is ahead of `generation()`, and with enough slots (`Enough`) `acquire_slot` never throws |
| | `MonotoneReadsTheorem` | a thread never reads backwards |
| | `RegisterTheorem` | the store implements `SnapshotRegister` |
| `PilotProofs` | `TypeCorrect`, `OneAnswerTheorem`, `IssueIsAtomicTheorem` | idempotency and the generation fence |
| | `JournalTheorem` | the projection is the replay of the journal; saves never exceed showings; one model per database |
| `PolicyProofs` | `IssueIsCurrentTheorem` | the revision fence: what is stored was computed for the account as it then is |
| | `StateIsReplayTheorem` | preferences are the replay of the mutations, the vector cache is coherent |
| | `ReplayStableTheorem` | one request ID, one answer for 24 hours |
| `AccountsProofs` | `TypeCorrect`, `DeletedNotServedTheorem`, `RemovedWithTombstoneTheorem` | acknowledged deletions are final |
| | `OneSessionTheorem` | one user and one session per Google account |
| `ThreadPoolProofs` | `JobsExactTheorem` | promises are set once, no worker sleeps on work |
| `GpuBatcherProofs` | `RequestsExactTheorem`, `CircuitTheorem` | a request is in one place and none is stranded by `stop`; a tripped GPU stays off |
| `ServingProofs` | `AdmissionTheorem` | the HTTP layer's counters are exact on every path |
| | `ConnectionsTheorem` | the pilot server's slots are exact; a TCP connection is in one place and closed once |
| | `EachShardOnceTheorem` | each shard runs each job once, before `run` returns |
| | `DeploymentTheorem` | an API that serves has its schema, grants and bundle; bundles do not mix |
| | `RetrievalTheorem` | the deadline holds, labels are true, a selection is whole |
| | `MapTheorem` | through every growth the table is the map of what was applied |
| `OperationsProofs` | `EvidenceTheorem` | receipts stand for whole runs on the present tree |
| | `AccessTheorem` | flows are used once; rate limits and the age of keys hold |
| | `CampaignTheorem` | results are honest and kept, and only those are on the board |
| | `AgentTheorem` | the incumbent is the start moved along accepted proposals; nothing is measured twice |
| | `DrillsTheorem` | drills clean up and report only what passed; recoveries are real |
| | `AggregatesTheorem` | the comparison, the visible prefix, the skew and the window counter are exact, whatever the catalogue |
| | `SparedTheorem` | sweep and drills spare what is alive or another's |

Every safety property of a passing run is a theorem.

Most of the invariants are not inductive. What each proof adds, and why:

* `HazardInv` (feature store). From an arbitrary state the writer may be about to
  write the table a guard holds. `Roles` says which table is live, back and front at
  each point of `publish`; `Hazards` that a thread past `acquire_slot` owns its slot
  alone and that, from `enter` on, the slot announces its table; `Protected` is the
  heart: a validated table is the live one, or it is the old one, the writer is still
  scanning, and the scan index has not passed the thread's slot. Hence the scan
  cannot end while such a guard exists.
* `HistoryInv`. `History` says at each point of `publish` by how much of the batch the
  two logs differ; with `LastSeen` it gives monotone reads, and with `HazardInv` the
  refinement: a guard's table is its snapshot, `StoreLive` is the publication, and
  every other step of the writer stutters.
* `CrowdInv`. That the scan of `acquire_slot` cannot fail is a counting argument. Slots
  are released and taken behind a scan, so "every slot before me is taken" is not
  invariant. `Crowd` is: the threads at slot i or beyond it, scanning or owning, leave
  at least i - 1 others, so nobody can stand beyond the last slot.
* `FenceInv` (pilot). `Fence`: a snapshot whose generation is still current is still
  the current projection, because every transaction that changes the projection
  moves the generation. `Answer`: a response waiting for `publish` is a correct
  answer for its snapshot. Together with the comparison in `publish` they give
  `IssueIsAtomic`; with "a stored row is never overwritten" they give
  `OneAnswerPerRequest`. `AnswersSize` is the cardinality lemma of the fill.
* `JournalInv` (pilot). The rate of saves is bounded because an event is recorded once
  for a request and an item (`Once`) and a save needs its showing
  (`OutcomesGrounded`), which makes saves inject into showings; `Pinned` carries the
  fingerprint through retrieval to the stored row.
* `FenceInv` (policy). `states` records the preferences of every revision. A thread
  between its transactions holds the preferences of the revision it read (`Fenced`),
  and so does a cache entry, even one written by a thread that was overtaken; the
  comparison of revisions does the rest.
* `ReplayInv` (policy). A mutation has a revision of its own, and the last one that
  touches an item left the item as it is.
* `AnswersInv` (policy). The second transaction returns a stored row without looking at
  its age. `Recent` bounds that age by the length of a request, and `Remembered` says
  that the retention sweep has not removed the row an answer came from while the answer
  can still be repeated: an answer may come from a row that is nearly `Expire` old
  and be repeated for as long again, so the argument needs `2 * Expire <= Retain`.
* `DeletionInv` (accounts). `Tombstones`: the ledger entry precedes everything a
  deletion or a replay does; `Exclusive`: the row lock keeps a sign-in and a deletion
  of one account apart; `Fresh`: so that no sign-in in progress writes back the row of a
  deleted account; `Covered`: at start-up, what a restore brought back is still on the
  replay's list or among the rows it deletes; `Quiet`: nobody runs outside serving.
* `SessionInv` (accounts). A new account is created under the key of its subject
  (`Claim`), a sign-in that is about to commit has seen every session it must delete
  (`Rotated`), because it holds the row lock; the same holds of the backup a restore
  brings back.
* `PoolInv`, `BatcherInv`, `PoolInv` of the shard pool. Index by index, nobody is in two
  places (`Apart`) and everybody is in one (`Held`), and what a program counter says of
  mutex, queue and batch. For shards, `pending` is the number of shards that have
  not finished the generation, and a shard is at most one generation behind.
* `HttpInv`, `PilotInv`, `TcpInv`. Each counter is the cardinality of a set of
  requests, connections or workers given by where they are; a step moves one element.
* `DeployInv`. What an interrupted `migrate()` has done is never undone, so a process that
  has passed its checks stays grounded (`Grounded`).
* `RetrievalInv`. `Clocks` bounds the deadline by the clock and, for the pilot's
  sequence of queries, by the time of the queries before; `Labels` says what each
  outcome excludes.
* `MapInv`. A growth reinserts slot by slot. `Refilled` says what the new table holds after
  j slots; it needs that the old one has a free slot (`Free`), that no user is in it twice,
  and that probing for a user that is there ends at its slot (`Reachable`), which an
  insertion keeps because it fills the first free slot of its own probe. `LeastNatural`
  (from the library's well-foundedness of the naturals) replaces induction: the least j
  at which it fails does not exist.
* `RunnerInv`. While a stage runs, a version of the tree other than the receipt's that a
  command saw is still not the receipt's version at the end (`Sound`), because no edit
  is undone, so the comparison at the end finds it.
* `AccessInv`. `Counted`: what passed in a window is at most what was counted, as long as the
  window can be asked about; a sweep takes it only later, because a call in flight
  read the clock at most one window ago (`Timely`). That no count overflows is the
  number of calls still to come (`Uncounted`). `Spent`: a flow's row is gone once
  it was handed out and its identifier is not used again.
* `CampaignInv`. `Going`: a run holds everything of the file it began with, and
  `todo` is what separates the results it has from those it promises.
* `AgentInv`. The sweeping planners never repeat a proposal because what they
  skip is what `history` holds; `Inside` (a start within the space) is what their
  counting needs, and outside it the property says less.
* `DrillInv`. `Accounted`: what a drill has made is on its lists, then on what is left to
  remove, or is still in use; `Ordered`: containers are removed before the networks and
  volumes they hold on to. The plans themselves are finite sequences checked step by step
  (`Fitting`).
* `ProbesInv`. `Worth`: a good answer to a probe sent after the restart was noted was given
  by the revived component.
* `StreamInv`, `NearInv`. `AggregateCounts`: a table built event by event holds the
  counts by definition. `TotalIsUnion`: sums of the sizes of disjoint sets are the
  size of their union, by a bijection, which takes the windows of the job apart and puts
  the rows of the skew report together, those of the catalogue's items on one side
  (`ViewsAreEvents`, `ApplyWithin`). `Shown`: what was consumed is what was
  shown, then what is staged. For the window counter, `RingTells` says which events a
  bucket counts (`Kept`: those after which none of another interval came to it); that two
  times of one bucket differ by the length of the ring (`OneRoundApart`) makes the counter
  exact when no event is that late.

Loops are recursive functions, and what such a function computes for every input is
proved by the argument of the least counterexample (`LeastNatural`, `UpTo`), since the
library's induction theorems, which take an operator, are out of the provers' reach.

Only model-checked, and why:

* Everything under fairness (`PublishCompletes`, `AcceptedIsAnswered`, `Completes`,
  `TombstoneEnforced`, `RequestsEnd`, `EverythingEnds`): the prover has no fairness and no
  `ENABLED`.
* `StopReturns` and `NoRepurpose` are the two properties the code violates.

## 5. Not modelled, and why

* Floating-point scoring, SIMD and CUDA code, the engine's numeric request path:
  their results are free choices in the models.
* The HNSW index: which nodes an insertion or a search meets is decided by distances,
  and without them nothing of what makes the parallel build correct can be stated.
* Frame layouts of the wire protocols: no state; `Retrieval` has the effect of every
  flaw the clients test for.
* The monitoring thread of `server.cpp`, the merge of shard answers and `rankd.cpp`;
  `validate_pr` of the agent, `regression_gate.py`, `check_container.py`: straight
  comparisons of figures, or a sequence of assertions without clean-up.
* Data preparation, quality, cost, GPU and report scripts, benchmark and load
  programs: numeric or textual. Web client: its retries are inputs of `Policy`.
* Parsing of settings, telemetry text, build and deployment files.

Isolation of PostgreSQL and SQLite, condition variables, sockets, Docker, Kafka, the
object store and the wall clock are taken as documented and are marked external
where a definition stands for them.

## 6. Plan

Every component whose control carries state is modelled, and every safety property of
a passing run is proved. What is left for the project, should the code move there:

1. The monitoring thread of `server.cpp`, the merge of shard answers and `rankd.cpp`, once
   they keep state of their own; `validate_pr` of the agent.
2. `ThreadPool::stop`: when it takes the worker's mutex, `thread_pool_stop` becomes a
   passing run of `StopReturns`, as `Completes` is for the batcher.
3. A live poll that looks at the publish interval without an event, and a replay that
   stops at the end of its file: each removes a reservation listed under the findings.
