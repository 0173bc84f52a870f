------------------------------- MODULE Serving -------------------------------
(***************************************************************************)
(* The components around a served request, side by side: the admission of  *)
(* HTTP requests, the retrieval client, the pilot's server, the deployment *)
(* of the colours, the TCP server, the shard fan-out and the mutex feature *)
(* store's map.  They share no state, so a behaviour is one of one         *)
(* component, the one `mode' names.                                        *)
(***************************************************************************)
EXTENDS Naturals, FiniteSets

CONSTANTS
  Requests, Limit, BodyLimit, Threads, Pool,                  \* Admission
  Resolved, QueryTimeout, MaxQueries, Parts,                       \* Retrieval
  Clients, ServerSlots, Backlog, MaxFailures,                       \* PilotServer
  Colours, ServingColours, Bundles, Addresses, MaxFaults,     \* Deploy
  Connections, Workers, QueueLimit, MaxRequests,              \* Server
  Shards, MaxRuns,                                            \* ShardPool
  Users, Empty, Hash, MinCapacity, MaxCalls,                  \* FlatMap
  None

VARIABLES mode,
          at, status, size, hop, active, gauge, counted, failures,
          client, now, deadline, until, phase, address, error, got, flaw, query,
          outcome, kept, degraded,
          conn, timer, free, server, failed, leaked,
          bundle, role, revision, grants, job, retrieval, api, faults, answers,
          mutex, queue, stopping, main, worker, serves, closed, arrived, counters,
          mu, generation, pending, task, halt, caller, thread, seen, doing, ran,
          keys, vals, held, applied, calls

Admission == INSTANCE Admission
Retrieval == INSTANCE Retrieval WITH Addresses <- Resolved, Timeout <- QueryTimeout
PilotServer == INSTANCE PilotServer WITH Slots <- ServerSlots
Deploy == INSTANCE Deploy WITH Serving <- ServingColours
Server == INSTANCE Server WITH Limit <- QueueLimit
ShardPool == INSTANCE ShardPool WITH job <- task
FlatMap == INSTANCE FlatMap WITH size <- held

-----------------------------------------------------------------------------
(* What is asked of the constants: finitely many actors, bounds that are numbers, *)
(* and None none of the values it stands beside.                           *)

HttpInstances ==
  IsFiniteSet(Requests) /\ Limit \in Nat /\ BodyLimit \in Nat /\ Threads \in Nat /\ Pool \in Nat

PilotInstances ==
  IsFiniteSet(Clients) /\ ServerSlots \in Nat /\ Backlog \in Nat /\ MaxFailures \in Nat

TcpInstances == IsFiniteSet(Workers) /\ QueueLimit \in Nat /\ None \notin Connections

ShardInstances ==
  /\ IsFiniteSet(Shards) /\ MaxRuns \in Nat
  /\ None \notin Shards /\ None \notin ShardPool!Gens /\ None # "caller"

DeployInstances == MaxFaults \in Nat /\ None \notin Deploy!Servers /\ None \notin Deploy!Apis

RetrievalInstances ==
  /\ Resolved \in Nat \ {0} /\ QueryTimeout \in Nat
  /\ MaxQueries \in Nat \ {0} /\ Parts \in Nat \ {0}

\* A table starts with room for an insertion, and Empty is one of the ids, the one
\* no user may have.
MapInstances ==
  /\ Empty \in Users /\ Hash \in [Users -> Nat]
  /\ MinCapacity \in Nat /\ MinCapacity >= 4 /\ MaxCalls \in Nat

ASSUME ServingAssumption ==
  /\ HttpInstances /\ PilotInstances /\ TcpInstances
  /\ ShardInstances /\ DeployInstances /\ RetrievalInstances /\ MapInstances

-----------------------------------------------------------------------------
admissionVars == <<at, status, size, hop, active, gauge, counted, failures>>
retrievalVars == <<client, now, deadline, until, phase, address, error, got, flaw, query,
                 outcome, kept, degraded>>
pilotServerVars == <<conn, timer, free, server, failed, leaked>>
deployVars == <<bundle, role, revision, grants, job, retrieval, api, faults, answers>>
serverVars == <<mutex, queue, stopping, main, worker, serves, closed, arrived, counters>>
shardPoolVars == <<mu, generation, pending, task, halt, caller, thread, seen, doing, ran>>
flatMapVars == <<keys, vals, held, applied, calls>>

vars == <<mode, admissionVars, retrievalVars, pilotServerVars, deployVars,
          serverVars, shardPoolVars, flatMapVars>>

Init ==
  /\ mode \in {"admission", "retrieval", "pilot", "deploy", "server", "shards", "map"}
  /\ Admission!Init /\ Retrieval!Init /\ PilotServer!Init /\ Deploy!Init
  /\ Server!Init /\ ShardPool!Init /\ FlatMap!Init

-----------------------------------------------------------------------------
(* What a component leaves alone.                                          *)

AdmissionOnly ==
  /\ mode = "admission"
  /\ UNCHANGED <<mode, retrievalVars, pilotServerVars, deployVars, serverVars,
                 shardPoolVars, flatMapVars>>
RetrievalOnly ==
  /\ mode = "retrieval"
  /\ UNCHANGED <<mode, admissionVars, pilotServerVars, deployVars, serverVars,
                 shardPoolVars, flatMapVars>>
PilotOnly ==
  /\ mode = "pilot"
  /\ UNCHANGED <<mode, admissionVars, retrievalVars, deployVars, serverVars,
                 shardPoolVars, flatMapVars>>
DeployOnly ==
  /\ mode = "deploy"
  /\ UNCHANGED <<mode, admissionVars, retrievalVars, pilotServerVars, serverVars,
                 shardPoolVars, flatMapVars>>
ServerOnly ==
  /\ mode = "server"
  /\ UNCHANGED <<mode, admissionVars, retrievalVars, pilotServerVars, deployVars,
                 shardPoolVars, flatMapVars>>
ShardsOnly ==
  /\ mode = "shards"
  /\ UNCHANGED <<mode, admissionVars, retrievalVars, pilotServerVars, deployVars,
                 serverVars, flatMapVars>>
MapOnly ==
  /\ mode = "map"
  /\ UNCHANGED <<mode, admissionVars, retrievalVars, pilotServerVars, deployVars,
                 serverVars, shardPoolVars>>

Next ==
  \/ AdmissionOnly /\ Admission!Next
  \/ RetrievalOnly /\ Retrieval!Next
  \/ PilotOnly /\ PilotServer!Next
  \/ DeployOnly /\ Deploy!Next
  \/ ServerOnly /\ Server!Next
  \/ ShardsOnly /\ ShardPool!Next
  \/ MapOnly /\ FlatMap!Next

\* The components' fairness is stated where they are checked.
Spec == Init /\ [][Next]_vars

-----------------------------------------------------------------------------
(* One property for each component, of its named parts, types included.    *)

\* A request is inside the middlewares, and in their counters, exactly from its
\* arrival to its exit, whichever way it leaves; every response and every
\* database failure is counted once (api.py, telemetry.py).
RequestsAccounted ==
  Admission!TypeOK /\ Admission!AdmissionExact /\ Admission!Accounted

\* A retrieval ends by its deadline, its label says what happened, and a failed
\* query leaves no candidates of an earlier one (retrieval.py, transport.py,
\* selection.py).
RetrievalHonest ==
  /\ Retrieval!TypeOK /\ Retrieval!DeadlineKept
  /\ Retrieval!OutcomeHonest /\ Retrieval!SelectionWhole

\* A connection of either server is in one place and closed once; slots and
\* counters say where the connections are (service.py, server.cpp).
ConnectionsExact ==
  /\ PilotServer!TypeOK /\ PilotServer!SlotsExact
  /\ Server!TypeOK /\ Server!ConnectionsExact

\* What serves has its database and its bundle behind it, and candidates of
\* another bundle are never used (api.py, entrypoint.py, retrieval.py).
DeploymentGrounded ==
  Deploy!TypeOK /\ Deploy!ServingIsGrounded /\ Deploy!NoMixing

\* Each shard runs each job once, before run() returns (shard.cpp).
EachShardOnce == ShardPool!TypeOK /\ ShardPool!EachShardOnce

\* A probe of the open-addressing map finds what was put there (features.hpp).
MapFaithful == FlatMap!TypeOK /\ FlatMap!MapFaithful
=============================================================================
