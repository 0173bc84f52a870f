----------------------------- MODULE Operations -----------------------------
(***************************************************************************)
(* Getting in, and the programs around the servers, side by side: the      *)
(* tuning agent, the gate runner, the measurement campaign, the drills,    *)
(* the event pipelines.  They share no state, so a behaviour is one of one *)
(* component, the one `mode' names.                                        *)
(***************************************************************************)
EXTENDS Naturals, FiniteSets, Sequences

CONSTANTS
  Browsers, MaxRequests, MaxTime, Opened, LoginLimit, MutationLimit,
  FlowLife, KeyLife, IdleLife, SessionLife, KeptWindows,            \* Access
  Space, Starts, Budgets, Repeats,                                  \* Agent
  Sources, MaxRuns, MaxStarts, Commands, MaxEdits,                  \* Runner
  StageOrder, Scripted, Hosts, MaxCampaigns, MaxMoves,                   \* Campaign
  MaxBroken,                                                        \* Drill
  MaxProbes, MaxNoise,                                              \* Probes
  StreamEvents, MaxEvents, MaxFaults, Width,                        \* Streaming
  LogEvents, Catalogue, MaxLog, Wanted, Interval, MaxClock, Buckets, \* Nearline
  None

VARIABLES mode,
          clock, flows, sessions, rates, keys, flowCookie, sessionCookie, started,
          call, sweep, passed, spent, oldest,
          planner, start, bestCfg, history, act, wins, turn, agent, result, written,
          source, edits, runner, child, receipt, logs, artifacts, saw, reused,
          here, moves, campaign, file, board, own, kept, saved,
          drill, step, phase, docker, tracked, todo, secrets, report, broken,
          lost, faulty,
          component, noise, main, restarting, probe, sent, status, samples, events,
          stop, revived, observed,
          dump, flight, topic, faults, job, rows, read, reference, verdict,
          log, pipeline, from, wall, consumed, staged, online, last, published

Access == INSTANCE Access
Agent == INSTANCE Agent
Runner == INSTANCE Runner
Campaign == INSTANCE Campaign WITH Order <- StageOrder, MaxRuns <- MaxCampaigns
Drill == INSTANCE Drill WITH MaxFaults <- MaxBroken
Probes == INSTANCE Probes WITH result <- observed
Streaming == INSTANCE Streaming WITH Events <- StreamEvents
Nearline == INSTANCE Nearline WITH Events <- LogEvents, clock <- wall

-----------------------------------------------------------------------------
(* What is asked of the constants.                                         *)

RunnerInstances ==
  /\ Sources # {} /\ MaxRuns \in Nat /\ MaxStarts \in Nat /\ Commands \in Nat /\ MaxEdits \in Nat

\* The sweep keeps the window before the current one, and a login may pass.
AccessInstances ==
  /\ Browsers # {} /\ "account" \notin Browsers
  /\ MaxRequests \in Nat /\ MaxTime \in Nat /\ Opened \in 0 .. MaxRequests
  /\ LoginLimit \in Nat \ {0} /\ MutationLimit \in Nat
  /\ FlowLife \in Nat /\ KeyLife \in Nat /\ IdleLife \in Nat /\ SessionLife \in Nat
  /\ KeptWindows \in Nat \ {0}

DrillInstances == MaxBroken \in Nat

ProbesInstances == MaxProbes \in Nat /\ MaxNoise \in Nat

\* ACTION_SPACE has four knobs, the second value of pin is the pinned one, and a
\* start is inside the space or, at 0, outside of it.
AgentInstances ==
  /\ Agent!Knobs = {"ef", "retrieve_k", "kernel", "pin"}
  /\ Space \in [Agent!Knobs -> Nat \ {0}] /\ Space["pin"] >= 2
  /\ \A c \in Starts : c \in [Agent!Knobs -> Nat] /\ \A k \in Agent!Knobs : c[k] <= Space[k]
  /\ Budgets \in [DOMAIN Budgets -> Nat]
  /\ DOMAIN Budgets \subseteq {"heuristic", "random", "grid", "llm"}
  /\ Repeats \in Nat

CampaignInstances ==
  /\ StageOrder \in Seq(Campaign!Stages)
  /\ MaxCampaigns \in Nat /\ MaxMoves \in Nat
  /\ None \notin [run : Campaign!Runs, host : Hosts]

StreamingInstances ==
  /\ StreamEvents \subseteq [time : Nat \ {0}, item : Streaming!Items, like : BOOLEAN]
  /\ MaxFaults \in Nat /\ Width \in Nat \ {0}

\* The wall clock has room for the times of the events.
NearlineInstances ==
  /\ LogEvents \subseteq [time : 1 .. MaxClock, item : {e.item : e \in LogEvents}, like : BOOLEAN]
  /\ MaxClock \in Nat \ {0} /\ MaxLog \in Nat /\ Wanted \in Nat /\ Buckets \in Nat \ {0}

ASSUME OperationsAssumption ==
  /\ AccessInstances /\ AgentInstances /\ RunnerInstances /\ CampaignInstances
  /\ DrillInstances /\ ProbesInstances /\ StreamingInstances /\ NearlineInstances

-----------------------------------------------------------------------------
accessVars == <<clock, flows, sessions, rates, keys, flowCookie, sessionCookie, started,
                call, sweep, passed, spent, oldest>>
agentVars == <<planner, start, bestCfg, history, act, wins, turn, agent, result, written>>
runnerVars == <<source, edits, runner, child, receipt, logs, artifacts, saw, reused>>
campaignVars == <<here, moves, campaign, file, board, own, kept, saved>>
drillVars == <<drill, step, phase, docker, tracked, todo, secrets, report, broken,
               lost, faulty>>
probesVars == <<component, noise, main, restarting, probe, sent, status, samples, events,
                stop, revived, observed>>
streamingVars == <<dump, flight, topic, faults, job, rows, read, reference, verdict>>
nearlineVars == <<log, pipeline, from, wall, consumed, staged, online, last, published>>

vars == <<mode, accessVars, agentVars, runnerVars, campaignVars, drillVars,
          probesVars, streamingVars, nearlineVars>>

Init ==
  /\ mode \in {"access", "agent", "runner", "campaign", "drill", "probes", "streaming",
              "nearline"}
  /\ Access!Init /\ Agent!Init /\ Runner!Init /\ Campaign!Init
  /\ Drill!Init /\ Probes!Init /\ Streaming!Init /\ Nearline!Init

-----------------------------------------------------------------------------
(* What a component leaves alone.                                          *)

AccessOnly ==
  /\ mode = "access"
  /\ UNCHANGED <<mode, agentVars, runnerVars, campaignVars, drillVars,
                 probesVars, streamingVars, nearlineVars>>
AgentOnly ==
  /\ mode = "agent"
  /\ UNCHANGED <<mode, accessVars, runnerVars, campaignVars, drillVars,
                 probesVars, streamingVars, nearlineVars>>
RunnerOnly ==
  /\ mode = "runner"
  /\ UNCHANGED <<mode, accessVars, agentVars, campaignVars, drillVars,
                 probesVars, streamingVars, nearlineVars>>
CampaignOnly ==
  /\ mode = "campaign"
  /\ UNCHANGED <<mode, accessVars, agentVars, runnerVars, drillVars,
                 probesVars, streamingVars, nearlineVars>>
DrillOnly ==
  /\ mode = "drill"
  /\ UNCHANGED <<mode, accessVars, agentVars, runnerVars, campaignVars,
                 probesVars, streamingVars, nearlineVars>>
ProbesOnly ==
  /\ mode = "probes"
  /\ UNCHANGED <<mode, accessVars, agentVars, runnerVars, campaignVars,
                 drillVars, streamingVars, nearlineVars>>
StreamingOnly ==
  /\ mode = "streaming"
  /\ UNCHANGED <<mode, accessVars, agentVars, runnerVars, campaignVars,
                 drillVars, probesVars, nearlineVars>>
NearlineOnly ==
  /\ mode = "nearline"
  /\ UNCHANGED <<mode, accessVars, agentVars, runnerVars, campaignVars,
                 drillVars, probesVars, streamingVars>>

Next ==
  \/ AccessOnly /\ Access!Next
  \/ AgentOnly /\ Agent!Next
  \/ RunnerOnly /\ Runner!Next
  \/ CampaignOnly /\ Campaign!Next
  \/ DrillOnly /\ Drill!Next
  \/ ProbesOnly /\ Probes!Next
  \/ StreamingOnly /\ Streaming!Next
  \/ NearlineOnly /\ Nearline!Next

Spec == Init /\ [][Next]_vars

-----------------------------------------------------------------------------
(* One property for each component, of its named parts, types included.    *)

\* A login flow is used once, by the browser that began it, no key passes its
\* rate limit in a window, and no token is decoded with keys past their life
\* (db.py, oidc.py).
AccessControlled ==
  Access!TypeOK /\ Access!FlowsSpentOnce /\ Access!RatesHold /\ Access!KeysFresh

\* The agent's incumbent is what the accepted actions make of the start, a
\* planner that must not measures no proposal twice, and the result says what
\* was measured (agent.py).
AgentHonest ==
  /\ Agent!TypeOK /\ Agent!IncumbentIsAccepted
  /\ Agent!NothingRemeasured /\ Agent!ResultHonest

\* A receipt that passes or is reused stands for the present tree, and a runner
\* that has ended leaves no child behind (production_runner.py).
EvidenceIsCurrent ==
  Runner!TypeOK /\ Runner!EvidenceIsCurrent /\ Runner!NothingLeftBehind

\* The results file holds results of one host, those of the last run among
\* them, loses none that was saved, and the board shows no others (measure.py).
ResultsKept ==
  /\ Campaign!TypeOK /\ Campaign!OneHost /\ Campaign!StagesHonest
  /\ Campaign!NothingDropped /\ Campaign!BoardGrounded

\* A drill that ends leaves none of its resources and reports only what passed;
\* a recovery is one of the restarted component, judged on final samples
\* (check_operations.py, check_recovery.py, check_production.py).
DrillsHonest ==
  /\ Drill!TypeOK /\ Drill!LeavesNothing /\ Drill!ReportMeansPassed
  /\ Probes!TypeOK /\ Probes!RecoveryIsReal /\ Probes!SamplesFinal

\* The aggregates of one stream of events agree: the comparison with the job
\* passes exactly when the counts are equal, readers see a prefix of what was
\* consumed, the skew is what they do not see of it, a window counts its events
\* (compare_flink.py, nearline.hpp, skew.py).
AggregatesAgree ==
  /\ Streaming!TypeOK /\ Streaming!ComparisonSound
  /\ Nearline!TypeOK /\ Nearline!VisibleIsPrefix
  /\ Nearline!SkewIsInvisible /\ Nearline!WindowExact

\* Nothing that is still good or somebody else's is ever removed, by the
\* retention sweep or by a drill (db.py, check_operations.py).
OthersSpared == Access!SweepSparesTheLiving /\ Drill!SparesForeign
=============================================================================
