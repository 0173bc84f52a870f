-------------------------------- MODULE Agent --------------------------------
(***************************************************************************)
(* The tuning loop of scripts/agent.py: a planner proposes one knob and    *)
(* one value, the candidate is measured against the incumbent, and only a  *)
(* win that replicates replaces it.                                        *)
(*                                                                         *)
(* A configuration maps knobs to positions in ACTION_SPACE, 0 for a value  *)
(* outside it, which --start-config may give.  A measurement is what       *)
(* verify() makes of it, and may come out either way each time.            *)
(* Hypotheses are ranked by measured confidence, so any rule of the        *)
(* heuristic planner that applies may be the one that fires.               *)
(***************************************************************************)
EXTENDS Naturals, Sequences, Functions, FiniteSets

CONSTANTS Space,        \* knob -> number of its values
          Starts,       \* starting configurations
          Budgets,      \* planner -> its --iterations
          Repeats       \* --confirm-repeats

VARIABLES
  planner, start,
  bestCfg,    \* the incumbent, best_cfg
  history,    \* one entry per proposal that reached the loop
  act,        \* the proposal being measured
  wins,       \* measurements of it that passed the gate
  turn,       \* iterations begun
  agent,      \* "plan", "measure", "final", "write", "done", "aborted"
  result,     \* what run_loop() returns, as a sequence of at most one
  written     \* files main() has written

vars == <<planner, start, bestCfg, history, act, wins, turn, agent, result, written>>

Knobs == DOMAIN Space
Iterations == Budgets[planner]
Actions == UNION {{k} \X (1 .. Space[k]) : k \in Knobs}

\* What a language model may answer: any knob and value, in the space or not.
Answers == UNION {{k} \X (0 .. Space[k]) : k \in Knobs}

TypeOK ==
  /\ planner \in DOMAIN Budgets
  /\ start \in Starts
  /\ \A k \in Knobs : bestCfg[k] \in 1 .. Space[k] \cup {start[k]}
  /\ Len(history) <= turn /\ turn <= Iterations
  /\ \A i \in DOMAIN history : history[i].action \in Actions
  /\ act \in Actions \cup {<<>>}
  /\ wins \in 0 .. Repeats + 1
  /\ agent \in {"plan", "measure", "final", "write", "done", "aborted"}
  /\ Len(result) <= 1
  /\ written \subseteq {"runs", "summary"}

Init ==
  /\ planner \in DOMAIN Budgets
  /\ start \in Starts
  /\ bestCfg = start
  /\ history = <<>> /\ act = <<>> /\ wins = 0 /\ turn = 0
  /\ agent = "plan" /\ result = <<>> /\ written = {}

-----------------------------------------------------------------------------
Valid_AnyValue(a) == a[1] \in Knobs

\* Action.valid()
Valid(a) == a[1] \in Knobs /\ a[2] \in 1 .. Space[a[1]]

Tried_Accepted == {history[i].action : i \in {j \in DOMAIN history : history[j].accepted}}

\* Everything in the history has been tried, skipped no-ops included.
Tried == {history[i].action : i \in DOMAIN history}

\* _neighbour(): one position up or down, clamped; from the first position
\* when the value is not in the space.
Neighbour(k, d) ==
  LET v == IF bestCfg[k] = 0 THEN 1 ELSE bestCfg[k] IN
  IF d = "up" THEN (IF v < Space[k] THEN v + 1 ELSE v) ELSE (IF v > 1 THEN v - 1 ELSE v)

\* The rules of plan_heuristic(): a wider beam, a narrower one, fewer
\* candidates, pinned threads.
Rules ==
  {a \in {<<"ef", Neighbour("ef", "up")>>, <<"ef", Neighbour("ef", "down")>>,
          <<"retrieve_k", Neighbour("retrieve_k", "down")>>, <<"pin", 2>>} :
     a \notin Tried /\ a[2] # bestCfg[a[1]]}

\* Without a rule the first untried kernel, then the first untried ef; with
\* nothing left a proposal that changes nothing.
Sweep ==
  LET left(k) == {v \in 1 .. Space[k] : v # bestCfg[k] /\ <<k, v>> \notin Tried}
      first(S) == CHOOSE v \in S : \A w \in S : v <= w
  IN  IF left("kernel") # {} THEN <<"kernel", first(left("kernel"))>>
      ELSE IF left("ef") # {} THEN <<"ef", first(left("ef"))>>
      ELSE <<"ef", bestCfg["ef"]>>

Heuristic == Rules \cup {Sweep}

\* plan_grid(): the space in a fixed order of its knobs.
KnobOrder == <<"ef", "retrieve_k", "kernel", "pin">>
Before(a, b) ==
  \E i, j \in DOMAIN KnobOrder :
    /\ KnobOrder[i] = a[1] /\ KnobOrder[j] = b[1]
    /\ i < j \/ (i = j /\ a[2] <= b[2])
Grid ==
  LET left == Actions \ Tried IN
  IF left = {} THEN {<<"ef", bestCfg["ef"]>>}
  ELSE {a \in left : \A b \in left : Before(a, b)}

\* plan_llm(): an answer outside the space is dropped for the heuristic, as is
\* a missing key and any failure of the provider.
LLM == Heuristic \cup {a \in Answers : Valid(a)}

Plans == CASE planner = "heuristic" -> Heuristic
           [] planner = "random" -> Actions
           [] planner = "grid" -> Grid
           [] planner = "llm" -> LLM

\* An entry of the history; `from' is the incumbent it was compared with.
Entry(a, cfg, accepted, measured) ==
  [action |-> a, from |-> bestCfg, config |-> cfg, accepted |-> accepted,
   measured |-> measured]

\* An iteration proposes.  An invalid proposal is skipped, one that changes
\* nothing is recorded only.
Plan ==
  /\ agent = "plan" /\ turn < Iterations
  /\ turn' = turn + 1
  /\ \E a \in Plans :
       IF ~Valid(a) THEN UNCHANGED <<history, act, agent>>
       ELSE IF bestCfg[a[1]] = a[2]
       THEN /\ history' = Append(history, Entry(a, bestCfg, FALSE, 0))
            /\ UNCHANGED <<act, agent>>
       ELSE /\ act' = a /\ agent' = "measure"
            /\ UNCHANGED history
  /\ UNCHANGED <<planner, start, bestCfg, wins, result, written>>

Candidate == [bestCfg EXCEPT ![act[1]] = act[2]]

Decide_NoRollback(ok, n) ==
  /\ history' = Append(history, Entry(act, Candidate, ok, n))
  /\ bestCfg' = Candidate
  /\ agent' = "plan" /\ act' = <<>> /\ wins' = 0

\* The entries of the history that were accepted.
Accepted == {i \in DOMAIN history : history[i].accepted}

\* The outcome is recorded; without acceptance the incumbent stays.
Decide(ok, n) ==
  /\ history' = Append(history, Entry(act, Candidate, ok, n))
  /\ bestCfg' = IF ok THEN Candidate ELSE bestCfg
  /\ agent' = "plan" /\ act' = <<>> /\ wins' = 0

\* Paired measurements a candidate must win: the first and its replications.
Required == 1 + Repeats

\* Incumbent and candidate are measured back to back and verify() compares:
\* recall floor, memory budget, noise band.
Measure ==
  /\ agent = "measure"
  /\ \/ Decide(FALSE, wins + 1)
     \/ wins + 1 >= Required /\ Decide(TRUE, wins + 1)
     \/ wins + 1 < Required /\ wins' = wins + 1 /\ UNCHANGED <<bestCfg, history, act, agent>>
  /\ UNCHANGED <<planner, start, turn, result, written>>

\* A benchmark that fails ends the program, and nothing has been written.
Abort ==
  /\ agent \in {"plan", "measure", "final"}
  /\ agent' = "aborted"
  /\ UNCHANGED <<planner, start, bestCfg, history, act, wins, turn, result, written>>

Finish ==
  /\ agent = "plan" /\ turn = Iterations
  /\ agent' = "final"
  /\ UNCHANGED <<planner, start, bestCfg, history, act, wins, turn, result, written>>

\* Improvement of the result: measured once more against the start, except
\* that no change is no improvement.
Improvement_Measured(best) == {"gain", "none", "loss"}
Improvement(best) == IF best = start THEN {"none"} ELSE {"gain", "none", "loss"}

Confirm ==
  /\ agent = "final"
  /\ \E improvement \in Improvement(bestCfg), confirmed \in BOOLEAN :
       /\ confirmed => bestCfg = start \/ improvement = "gain"
       /\ bestCfg = start => confirmed
       /\ result' = <<[best |-> bestCfg, improvement |-> improvement, confirmed |-> confirmed,
                      accepted |-> Cardinality(Accepted),
                      rejected |-> Cardinality(DOMAIN history \ Accepted)]>>
  /\ agent' = "write"
  /\ UNCHANGED <<planner, start, bestCfg, history, act, wins, turn, written>>

\* main(): the line of agent_runs.jsonl, then the summary.
Write ==
  /\ agent = "write"
  /\ written' = IF "runs" \in written THEN written \cup {"summary"} ELSE {"runs"}
  /\ agent' = IF "runs" \in written THEN "done" ELSE "write"
  /\ UNCHANGED <<planner, start, bestCfg, history, act, wins, turn, result>>

Next == Plan \/ Measure \/ Abort \/ Finish \/ Confirm \/ Write

Spec == Init /\ [][Next]_vars

-----------------------------------------------------------------------------
\* A configuration is what the accepted entries before the n-th make of the start.
MadeOf(cfg, n) ==
  \/ cfg = start /\ \A j \in Accepted : j >= n
  \/ \E i \in Accepted : /\ i < n /\ cfg = history[i].config
                       /\ \A j \in Accepted : j < n => j <= i

\* The incumbent is the start moved along the accepted entries of the history,
\* in order, one knob at a time; every other proposal was rolled back.
IncumbentIsAccepted ==
  /\ \A i \in Accepted :
       /\ MadeOf(history[i].from, i)
       /\ Cardinality({k \in Knobs : history[i].from[k] # history[i].config[k]}) = 1
       /\ history[i].measured = 1 + Repeats
  /\ MadeOf(bestCfg, Len(history) + 1)

\* The rule and grid planners never measure a proposal twice, although what
\* was tried may have become a different change since ("disproved actions are
\* not re-proposed").
NothingRemeasured ==
  planner \in {"heuristic", "grid"} =>
    \A i, j \in DOMAIN history :
      history[i].measured > 0 /\ history[j].measured > 0
        /\ history[i].action = history[j].action => i = j

\* A result that names the starting configuration claims no improvement, its
\* counts add up to the proposals made (from a start inside the space every
\* iteration makes one), and no file is written without one.
ResultHonest ==
  /\ \A r \in Range(result) :
       /\ r.best = start => r.improvement = "none"
       /\ r.accepted + r.rejected <= Iterations
       /\ start \in [Knobs -> Nat \ {0}] => r.accepted + r.rejected = Iterations
       /\ r.accepted = 0 => r.best = start
  /\ written # {} => result # <<>> /\ agent # "aborted"
=============================================================================
