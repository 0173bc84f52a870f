------------------------------ MODULE MCServing ------------------------------
(***************************************************************************)
(* Serving on small instances, with the fairness of its components.        *)
(***************************************************************************)
EXTENDS Serving

MCHash == [u \in 0 .. 5 |-> (u * 5) % 16]

\* A component that does not run is in one of its initial states.
MCInit == Init /\ (mode # "retrieval" => client = "app")

\* The members of the sets of actors in some order.
Request == <<"r1", "r2", "r3">>
Client == <<"c1", "c2", "c3">>
Worker == <<"w1", "w2">>
Shard == <<"s1", "s2", "s3">>
Connection == <<"c1", "c2", "c3">>
Bundle == <<"b1", "b2">>

\* Requests are alike, and so are connections and bundles: what is begun first
\* is the first in the order.
InOrder(order, begun) == \A i \in DOMAIN order \ {1} : order[i] \in begun => order[i - 1] \in begun

MCNext ==
  /\ Next
  /\ InOrder(Request, {r \in Requests : at'[r] # "client"})
  /\ InOrder(Connection, arrived')
  /\ InOrder(Bundle, {b \in Bundles : bundle'[b] # "absent"})

\* The components' own fairness, actor by actor.  A behaviour is one of one
\* component, so fairness to a disjunction over components is fairness to the
\* disjunct of that component.
Strong(i) ==
  \/ i <= 3 /\ AdmissionOnly /\ Admission!TakeThread(Request[i])
  \/ i <= 2 /\ ServerOnly /\ Server!Lock(Worker[i])
  \/ i <= 3 /\ ShardsOnly /\ ShardPool!ThreadSteps(Shard[i])
  \/ i = 4 /\ ShardsOnly /\ ShardPool!CallerSteps

Weak(i) ==
  \/ i <= 3 /\ AdmissionOnly /\ Admission!Work(Request[i])
  \/ i <= 3 /\ PilotOnly /\ PilotServer!Fire(Client[i])
  \/ i \in 4 .. 6 /\ PilotOnly /\ PilotServer!Progress(Client[i - 3])
  \/ i = 7 /\ PilotOnly /\ PilotServer!ServerClose
  \/ i <= 2 /\ ServerOnly /\ Server!Leaves(Worker[i])
  \/ i = 3 /\ ServerOnly /\ Server!MainStep
  \/ i = 1 /\ DeployOnly /\ Deploy!Migrate

Fairness == (\A i \in 1 .. 4 : SF_vars(Strong(i))) /\ (\A i \in 1 .. 7 : WF_vars(Weak(i)))

MCSpec == MCInit /\ [][MCNext]_vars /\ Fairness

-----------------------------------------------------------------------------
\* Nobody waits for ever: every request leaves the middlewares, every connection
\* of the pilot ends, migrate() completes wherever it was interrupted, the TCP
\* server stops, run() and stop() of the shard pool return.
EverythingEnds ==
  /\ Admission!EveryRequestLeaves
  /\ PilotServer!ConnectionsEnd
  /\ mode = "deploy" => Deploy!MigrationCompletes
  /\ Server!ServerStops
  /\ ShardPool!PoolProgresses
=============================================================================
