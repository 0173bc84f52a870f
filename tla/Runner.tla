------------------------------- MODULE Runner -------------------------------
(***************************************************************************)
(* Source-bound, resumable checks (scripts/production_runner.py): a run    *)
(* executes the commands of a stage as child processes and keeps a         *)
(* receipt; --resume takes an old receipt in place of a new run.           *)
(*                                                                         *)
(* The work tree has a version, a member of Sources, and is edited at any  *)
(* time, back to an old version too.  The runner compares the tree at its  *)
(* start and at its end, so an edit that is undone while a run is going on *)
(* is outside the model.  So is an edit between that last look and the     *)
(* digests of the artifacts, which follow at once.                         *)
(***************************************************************************)
EXTENDS Naturals, FiniteSets

CONSTANTS Sources,
          MaxRuns,     \* times the runner is called ...
          MaxStarts,   \* ... and does not find a receipt to use
          Commands,    \* commands of the stage
          MaxEdits     \* edits of the tree or of a file of evidence

VARIABLES
  source,     \* version of the work tree
  edits,
  runner,     \* run -> where its process is
  child,      \* run -> its child process runs
  receipt,    \* run -> receipt.json
  logs,       \* runs whose logs are as they were written
  artifacts,  \* runs whose artifact is on disk, unchanged
  saw,        \* run -> versions its commands found
  reused      \* [source, saw, steps, own] of every reuse

vars == <<source, edits, runner, child, receipt, logs, artifacts, saw, reused>>

Runs == 1 .. MaxRuns     \* in the order in which they begin
Status == {"none", "running", "passed", "failed", "interrupted"}
NoReceipt == [status |-> "none", source |-> CHOOSE s \in Sources : TRUE, steps |-> 0,
              artifacts |-> {}]

TypeOK ==
  /\ source \in Sources /\ edits \in 0 .. MaxEdits
  /\ runner \in [Runs -> {"new", "next", "waiting", "ending", "exited", "killed"}]
  /\ child \in [Runs -> BOOLEAN]
  /\ receipt \in [Runs -> [status : Status, source : Sources, steps : 0 .. Commands,
                           artifacts : SUBSET Runs]]
  /\ logs \subseteq Runs /\ artifacts \subseteq Runs
  /\ saw \in [Runs -> SUBSET Sources]
  /\ reused \subseteq [source : Sources, saw : SUBSET Sources, steps : 0 .. Commands,
                       own : BOOLEAN]

Init ==
  /\ source = NoReceipt.source /\ edits = 0
  /\ runner = [r \in Runs |-> "new"]
  /\ child = [r \in Runs |-> FALSE]
  /\ receipt = [r \in Runs |-> NoReceipt]
  /\ logs = {} /\ artifacts = {} /\ reused = {}
  /\ saw = [r \in Runs |-> {}]

Begins(r) == runner[r] = "new" /\ \A q \in 1 .. r - 1 : runner[q] # "new"
Live(r) == runner[r] \in {"next", "waiting", "ending"}

-----------------------------------------------------------------------------
Edit(s) ==
  /\ edits < MaxEdits /\ edits' = edits + 1
  /\ s # source
  /\ \A r \in Runs : Live(r) => receipt[r].source # s
  /\ source' = s
  /\ UNCHANGED <<runner, child, receipt, logs, artifacts, saw, reused>>

\* A log or an artifact of an earlier run is changed or deleted.
Tamper(r) ==
  /\ ~Live(r)
  /\ edits < MaxEdits /\ edits' = edits + 1
  /\ \/ r \in logs /\ logs' = logs \ {r} /\ UNCHANGED artifacts
     \/ r \in artifacts /\ artifacts' = artifacts \ {r} /\ UNCHANGED logs
  /\ UNCHANGED <<source, runner, child, receipt, saw, reused>>

\* The receipt is saved, status running, under the identity of the tree.
Start(r) ==
  /\ Begins(r) /\ Cardinality({q \in Runs : receipt[q] # NoReceipt}) < MaxStarts
  /\ runner' = [runner EXCEPT ![r] = "next"]
  /\ receipt' = [receipt EXCEPT ![r] = [NoReceipt EXCEPT !.status = "running",
                                                         !.source = source]]
  /\ logs' = logs \cup {r}
  /\ UNCHANGED <<source, edits, child, artifacts, saw, reused>>

\* reusable(): same identity, passed, logs and artifacts as recorded.
Reusable(q) ==
  /\ receipt[q].source = source /\ receipt[q].status = "passed" /\ receipt[q].steps > 0
  /\ q \in logs
  /\ receipt[q].artifacts \subseteq artifacts

\* --resume finds a receipt to use.
Resume(r, q) ==
  /\ Begins(r)
  /\ Reusable(q)
  /\ runner' = [runner EXCEPT ![r] = "exited"]
  /\ reused' = reused \cup {[source |-> source, saw |-> saw[q], steps |-> receipt[q].steps,
                             own |-> q \in artifacts]}
  /\ UNCHANGED <<source, edits, child, receipt, logs, artifacts, saw>>

\* execute(): the next command, in a session of its own.
Launch(r) ==
  /\ runner[r] = "next" /\ receipt[r].steps < Commands
  /\ runner' = [runner EXCEPT ![r] = "waiting"]
  /\ child' = [child EXCEPT ![r] = TRUE]
  /\ saw' = [saw EXCEPT ![r] = @ \cup {source}]
  /\ UNCHANGED <<source, edits, receipt, logs, artifacts, reused>>

\* The command exits with 0 and its step is saved; the last one leaves an
\* artifact of its own.
CommandPasses(r) ==
  /\ runner[r] = "waiting" /\ child[r]
  /\ child' = [child EXCEPT ![r] = FALSE]
  /\ receipt' = [receipt EXCEPT ![r].steps = @ + 1]
  /\ saw' = [saw EXCEPT ![r] = @ \cup {source}]
  /\ artifacts' = IF receipt'[r].steps = Commands THEN artifacts \cup {r} ELSE artifacts
  /\ runner' = [runner EXCEPT ![r] = IF receipt'[r].steps = Commands THEN "ending" ELSE "next"]
  /\ UNCHANGED <<source, edits, logs, reused>>

\* Another exit code, a command that does not start, or the timeout, upon
\* which the tree of processes is stopped: the stage is over.
CommandFails(r) ==
  /\ runner[r] = "waiting"
  /\ child' = [child EXCEPT ![r] = FALSE]
  /\ runner' = [runner EXCEPT ![r] = "exited"]
  /\ receipt' = [receipt EXCEPT ![r].status = "failed"]
  /\ UNCHANGED <<source, edits, logs, artifacts, saw, reused>>

Verdict_NoRecheck(r) == IF artifacts # {} THEN "passed" ELSE "failed"

\* All commands passed: the tree must be the one of the start, and there must
\* be artifacts.
Verdict(r) == IF source = receipt[r].source /\ artifacts # {} THEN "passed" ELSE "failed"

Conclude(r) ==
  /\ runner[r] = "ending"
  /\ runner' = [runner EXCEPT ![r] = "exited"]
  /\ receipt' = [receipt EXCEPT ![r].status = Verdict(r), ![r].artifacts = artifacts]
  /\ UNCHANGED <<source, edits, child, logs, artifacts, saw, reused>>

Interrupt_LeavesChild(r) ==
  /\ Live(r)
  /\ runner' = [runner EXCEPT ![r] = "exited"]
  /\ receipt' = [receipt EXCEPT ![r].status = "interrupted"]
  /\ UNCHANGED <<source, edits, child, logs, artifacts, saw, reused>>

\* An exception of any kind stops the children, and the receipt says so.
Interrupt(r) ==
  /\ Live(r)
  /\ runner' = [runner EXCEPT ![r] = "exited"]
  /\ child' = [child EXCEPT ![r] = FALSE]
  /\ receipt' = [receipt EXCEPT ![r].status = "interrupted"]
  /\ UNCHANGED <<source, edits, logs, artifacts, saw, reused>>

\* The runner is killed: the receipt stays as last saved, a child goes on.
Kill(r) ==
  /\ Live(r)
  /\ runner' = [runner EXCEPT ![r] = "killed"]
  /\ UNCHANGED <<source, edits, child, receipt, logs, artifacts, saw, reused>>

\* A child without its runner may still finish, and leave an artifact.
OrphanEnds(r) ==
  /\ runner[r] = "killed" /\ child[r]
  /\ child' = [child EXCEPT ![r] = FALSE]
  /\ artifacts' = artifacts \cup (IF receipt[r].steps + 1 = Commands THEN {r} ELSE {})
  /\ UNCHANGED <<source, edits, runner, receipt, logs, saw, reused>>

Next ==
  \/ \E s \in Sources : Edit(s)
  \/ \E r \in Runs :
       \/ Tamper(r) \/ Start(r) \/ (\E q \in Runs : Resume(r, q)) \/ Launch(r)
       \/ CommandPasses(r) \/ CommandFails(r) \/ Conclude(r)
       \/ Interrupt(r) \/ Kill(r) \/ OrphanEnds(r)

Spec == Init /\ [][Next]_vars

-----------------------------------------------------------------------------
\* A receipt that is taken in place of a run stands for a whole run of the
\* stage on the present tree: every command passed, none found another
\* version, and the artifact it left is still there.
EvidenceIsCurrent ==
  \A u \in reused : u.saw = {u.source} /\ u.steps = Commands /\ u.own

\* A runner that ends by itself leaves no command running, and a receipt says
\* running only of a runner that runs or was killed.
NothingLeftBehind ==
  \A r \in Runs :
    /\ runner[r] = "exited" => ~child[r]
    /\ receipt[r].status = "running" => Live(r) \/ runner[r] = "killed"
=============================================================================
