-------------------------- MODULE OperationsProofs --------------------------
(***************************************************************************)
(* Proofs about the components of Operations, for constants of any size:   *)
(* what each promises holds in every behaviour.                            *)
(***************************************************************************)
EXTENDS Operations, Counts, Integers, Sequences, SequenceTheorems, FiniteSetTheorems,
        WellFoundedInduction, TLAPS

-----------------------------------------------------------------------------
(* The runner *)

Receipts == [status : Runner!Status, source : Sources, steps : 0 .. Commands,
             artifacts : SUBSET Runner!Runs]

\* While a run is live the tree is never brought back to the version it began
\* with, so a command that found another version is found out in the end.
Sound(r) ==
  /\ runner[r] = "new" => receipt[r] = Runner!NoReceipt /\ saw[r] = {}
  /\ receipt[r].status = "running" <=> runner[r] \in {"next", "waiting", "ending", "killed"}
  /\ child[r] => runner[r] \in {"waiting", "killed"}
  /\ runner[r] \in {"next", "waiting", "ending"} =>
       saw[r] \subseteq {receipt[r].source} \/ source # receipt[r].source
  /\ runner[r] = "waiting" => receipt[r].steps < Commands
  /\ runner[r] = "ending" => receipt[r].steps = Commands /\ r \in artifacts /\ saw[r] # {}
  /\ receipt[r].status = "passed" =>
       /\ runner[r] = "exited" /\ receipt[r].steps = Commands
       /\ saw[r] = {receipt[r].source} /\ r \in receipt[r].artifacts

RunnerInv == Runner!TypeOK /\ (\A r \in Runner!Runs : Sound(r)) /\ Runner!EvidenceIsCurrent

LEMMA NoReceiptType ==
  ASSUME RunnerInstances
  PROVE  /\ Runner!NoReceipt \in Receipts /\ Runner!NoReceipt.source \in Sources
         /\ Runner!NoReceipt.status = "none" /\ Runner!NoReceipt.steps = 0
         /\ Runner!NoReceipt.artifacts = {}
  BY DEF RunnerInstances, Runner!NoReceipt, Receipts, Runner!Status

LEMMA InitRunner == RunnerInstances /\ Runner!Init => RunnerInv
<1> SUFFICES ASSUME RunnerInstances, Runner!Init PROVE RunnerInv
  OBVIOUS
<1>1. Runner!TypeOK
  <2>1. /\ receipt \in [Runner!Runs -> Receipts] /\ saw \in [Runner!Runs -> SUBSET Sources]
        /\ runner \in [Runner!Runs -> {"new", "next", "waiting", "ending", "exited", "killed"}]
    BY NoReceiptType DEF Runner!Init
  <2>2. child \in [Runner!Runs -> BOOLEAN]
    BY Zenon DEF Runner!Init
  <2>3. source \in Sources /\ edits \in 0 .. MaxEdits
    BY NoReceiptType DEF Runner!Init, RunnerInstances
  <2> QED BY <2>1, <2>2, <2>3 DEF Runner!Init, Runner!TypeOK, Receipts
<1>2. ASSUME NEW r \in Runner!Runs PROVE Sound(r)
  <2>1. runner[r] = "new" /\ receipt[r] = Runner!NoReceipt /\ saw[r] = {} /\ child[r] = FALSE
    BY DEF Runner!Init
  <2> QED BY <2>1, NoReceiptType DEF Sound
<1>3. Runner!EvidenceIsCurrent
  BY DEF Runner!Init, Runner!EvidenceIsCurrent
<1> QED BY <1>1, <1>2, <1>3 DEF RunnerInv

\* A step of run r, which takes no artifact away and no evidence.
LEMMA RunSteps ==
  ASSUME RunnerInv, NEW r \in Runner!Runs, Runner!TypeOK', Sound(r)',
         \A q \in Runner!Runs \ {r} : /\ runner'[q] = runner[q] /\ child'[q] = child[q]
                                      /\ receipt'[q] = receipt[q] /\ saw'[q] = saw[q],
         source' = source, artifacts \subseteq artifacts', Runner!EvidenceIsCurrent'
  PROVE  RunnerInv'
<1>1. ASSUME NEW q \in Runner!Runs \ {r} PROVE Sound(q)'
  <2>1. Sound(q)
    BY DEF RunnerInv
  <2> QED BY <2>1 DEF Sound
<1>2. \A q \in Runner!Runs : Sound(q)'
  BY <1>1
<1> QED BY <1>2 DEF RunnerInv, Runner!Runs

LEMMA NextRunner == RunnerInstances /\ RunnerInv /\ [Runner!Next]_Runner!vars => RunnerInv'
<1> SUFFICES ASSUME RunnerInstances, RunnerInv, [Runner!Next]_Runner!vars PROVE RunnerInv'
  OBVIOUS
<1>t. Runner!TypeOK
  BY DEF RunnerInv
<1>s. \A r \in Runner!Runs : Sound(r)
  BY DEF RunnerInv
<1>e. Runner!EvidenceIsCurrent
  BY DEF RunnerInv
<1>n. MaxEdits \in Nat /\ Commands \in Nat /\ MaxRuns \in Nat
  BY DEF RunnerInstances
<1>r. receipt \in [Runner!Runs -> Receipts]
  BY <1>t DEF Runner!TypeOK, Receipts
<1>quiet. reused' = reused => Runner!EvidenceIsCurrent'
  BY <1>e DEF Runner!EvidenceIsCurrent
<1>1. ASSUME NEW s \in Sources, Runner!Edit(s) PROVE RunnerInv'
  <2>1. /\ edits < MaxEdits /\ edits' = edits + 1 /\ source' = s
        /\ \A r \in Runner!Runs : Runner!Live(r) => receipt[r].source # s
        /\ UNCHANGED <<runner, child, receipt, logs, artifacts, saw, reused>>
    BY <1>1 DEF Runner!Edit
  <2>2. Runner!TypeOK'
    BY <1>t, <1>n, <2>1 DEF Runner!TypeOK
  <2>3. ASSUME NEW r \in Runner!Runs PROVE Sound(r)'
    BY <1>s, <2>1 DEF Sound, Runner!Live
  <2> QED BY <1>quiet, <2>1, <2>2, <2>3 DEF RunnerInv, Runner!Runs
<1>2. ASSUME NEW r \in Runner!Runs, Runner!Tamper(r) PROVE RunnerInv'
  <2>1. /\ ~Runner!Live(r) /\ edits < MaxEdits /\ edits' = edits + 1
        /\ logs' \subseteq logs /\ artifacts \ {r} \subseteq artifacts'
        /\ artifacts' \subseteq artifacts
        /\ UNCHANGED <<source, runner, child, receipt, saw, reused>>
    BY <1>2 DEF Runner!Tamper
  <2>2. Runner!TypeOK'
    BY <1>t, <1>n, <2>1 DEF Runner!TypeOK
  <2>3. ASSUME NEW q \in Runner!Runs PROVE Sound(q)'
    BY <1>s, <2>1 DEF Sound, Runner!Live
  <2> QED BY <1>quiet, <2>1, <2>2, <2>3 DEF RunnerInv, Runner!Runs
<1>3. ASSUME NEW r \in Runner!Runs, Runner!Start(r) PROVE RunnerInv'
  <2> DEFINE v == [Runner!NoReceipt EXCEPT !.status = "running", !.source = source]
  <2>1. /\ runner[r] = "new" /\ runner' = [runner EXCEPT ![r] = "next"]
        /\ receipt' = [receipt EXCEPT ![r] = v] /\ logs' = logs \cup {r}
        /\ UNCHANGED <<source, edits, child, artifacts, saw, reused>>
    BY <1>3 DEF Runner!Start, Runner!Begins
  <2>2. /\ v \in Receipts /\ v.status = "running" /\ v.source = source
    BY <1>t, NoReceiptType DEF Receipts, Runner!Status, Runner!TypeOK
  <2> HIDE DEF v
  <2>3. receipt' \in [Runner!Runs -> Receipts]
    BY <1>r, <2>1, <2>2
  <2>4. Runner!TypeOK'
    BY <1>t, <2>1, <2>3 DEF Runner!TypeOK, Receipts
  <2>5. /\ runner'[r] = "next" /\ receipt'[r] = v
        /\ \A q \in Runner!Runs \ {r} : runner'[q] = runner[q] /\ receipt'[q] = receipt[q]
    BY <1>t, <2>1 DEF Runner!TypeOK
  <2>6. Sound(r)'
    BY <1>s, <2>1, <2>2, <2>5 DEF Sound
  <2> QED BY <1>quiet, <2>1, <2>4, <2>5, <2>6, RunSteps
<1>4. ASSUME NEW r \in Runner!Runs, NEW q \in Runner!Runs, Runner!Resume(r, q) PROVE RunnerInv'
  <2> DEFINE u == [source |-> source, saw |-> saw[q], steps |-> receipt[q].steps,
                   own |-> q \in artifacts]
  <2>1. /\ runner[r] = "new" /\ Runner!Reusable(q)
        /\ runner' = [runner EXCEPT ![r] = "exited"] /\ reused' = reused \cup {u}
        /\ UNCHANGED <<source, edits, child, receipt, logs, artifacts, saw>>
    BY <1>4 DEF Runner!Resume, Runner!Begins
  <2>2. /\ receipt[q].source = source /\ receipt[q].status = "passed"
        /\ receipt[q].artifacts \subseteq artifacts
    BY <2>1 DEF Runner!Reusable
  <2>3. /\ saw[q] = {source} /\ receipt[q].steps = Commands /\ q \in artifacts
    BY <1>s, <2>2 DEF Sound
  <2>4. u.source = source /\ u.saw = {source} /\ u.steps = Commands /\ u.own = TRUE
    BY <2>3
  <2>5. u \in [source : Sources, saw : SUBSET Sources, steps : 0 .. Commands, own : BOOLEAN]
    BY <1>t, <1>n, <2>3 DEF Runner!TypeOK
  <2> HIDE DEF u
  <2>6. Runner!EvidenceIsCurrent'
    BY <1>e, <2>1, <2>4 DEF Runner!EvidenceIsCurrent
  <2>7. Runner!TypeOK'
    BY <1>t, <2>1, <2>5 DEF Runner!TypeOK
  <2>8. runner'[r] = "exited" /\ \A p \in Runner!Runs \ {r} : runner'[p] = runner[p]
    BY <1>t, <2>1 DEF Runner!TypeOK
  <2>9. Sound(r)'
    BY <1>s, <2>1, <2>8, NoReceiptType DEF Sound
  <2> QED BY <2>1, <2>6, <2>7, <2>8, <2>9, RunSteps
<1>5. ASSUME NEW r \in Runner!Runs, Runner!Launch(r) PROVE RunnerInv'
  <2>1. /\ runner[r] = "next" /\ receipt[r].steps < Commands
        /\ runner' = [runner EXCEPT ![r] = "waiting"] /\ child' = [child EXCEPT ![r] = TRUE]
        /\ saw' = [saw EXCEPT ![r] = saw[r] \cup {source}]
        /\ UNCHANGED <<source, edits, receipt, logs, artifacts, reused>>
    BY <1>5 DEF Runner!Launch
  <2>2. Runner!TypeOK'
    BY <1>t, <2>1 DEF Runner!TypeOK
  <2>3. /\ runner'[r] = "waiting" /\ saw'[r] = saw[r] \cup {source}
        /\ \A q \in Runner!Runs \ {r} :
             runner'[q] = runner[q] /\ child'[q] = child[q] /\ saw'[q] = saw[q]
    BY <1>t, <2>1 DEF Runner!TypeOK
  <2>4. Sound(r)'
    BY <1>s, <2>1, <2>3 DEF Sound
  <2> QED BY <1>quiet, <2>1, <2>2, <2>3, <2>4, RunSteps
<1>6. ASSUME NEW r \in Runner!Runs, Runner!CommandPasses(r) PROVE RunnerInv'
  <2> DEFINE v == [receipt[r] EXCEPT !.steps = receipt[r].steps + 1]
             whole == receipt[r].steps + 1 = Commands
  <2>1. /\ runner[r] = "waiting" /\ child' = [child EXCEPT ![r] = FALSE]
        /\ receipt' = [receipt EXCEPT ![r] = v]
        /\ saw' = [saw EXCEPT ![r] = saw[r] \cup {source}]
        /\ UNCHANGED <<source, edits, logs, reused>>
    BY <1>6 DEF Runner!CommandPasses
  <2>2. receipt[r] \in Receipts /\ receipt[r].steps < Commands /\ receipt[r].steps \in Nat
    BY <1>r, <1>s, <1>n, <2>1 DEF Sound, Receipts
  <2>3. /\ v \in Receipts /\ v.status = receipt[r].status /\ v.source = receipt[r].source
        /\ v.steps = receipt[r].steps + 1
    BY <1>n, <2>2 DEF Receipts
  <2>4. receipt'[r] = v /\ \A q \in Runner!Runs \ {r} : receipt'[q] = receipt[q]
    BY <1>r, <2>1
  <2>5. /\ artifacts' = IF whole THEN artifacts \cup {r} ELSE artifacts
        /\ runner' = [runner EXCEPT ![r] = IF whole THEN "ending" ELSE "next"]
    BY <1>6, <2>3, <2>4 DEF Runner!CommandPasses
  <2> HIDE DEF v
  <2>6. receipt' \in [Runner!Runs -> Receipts]
    BY <1>r, <2>1, <2>3
  <2>7. Runner!TypeOK'
    BY <1>t, <2>1, <2>5, <2>6 DEF Runner!TypeOK, Receipts
  <2>8. /\ runner'[r] = (IF whole THEN "ending" ELSE "next") /\ child'[r] = FALSE
        /\ saw'[r] = saw[r] \cup {source}
        /\ \A q \in Runner!Runs \ {r} :
             runner'[q] = runner[q] /\ child'[q] = child[q] /\ saw'[q] = saw[q]
    BY <1>t, <2>1, <2>5 DEF Runner!TypeOK
  <2>9. Sound(r)'
    BY <1>s, <2>1, <2>3, <2>4, <2>5, <2>8, SMTT(30) DEF Sound
  <2> QED BY <1>quiet, <2>1, <2>4, <2>5, <2>7, <2>8, <2>9, RunSteps
\* The ways in which a run ends, but for a verdict.
<1>7. ASSUME NEW r \in Runner!Runs,
             Runner!CommandFails(r) \/ Runner!Interrupt(r)
      PROVE  RunnerInv'
  <2>1. PICK s \in {"failed", "interrupted"} :
          receipt' = [receipt EXCEPT ![r] = [receipt[r] EXCEPT !.status = s]]
    BY <1>7 DEF Runner!CommandFails, Runner!Interrupt
  <2>2. /\ runner[r] \in {"next", "waiting", "ending"}
        /\ runner' = [runner EXCEPT ![r] = "exited"] /\ child' = [child EXCEPT ![r] = FALSE]
        /\ UNCHANGED <<source, edits, logs, artifacts, saw, reused>>
    BY <1>7 DEF Runner!CommandFails, Runner!Interrupt, Runner!Live
  <2> DEFINE v == [receipt[r] EXCEPT !.status = s]
  <2>3. v \in Receipts /\ v.status = s
    BY <1>r DEF Receipts, Runner!Status
  <2>4. receipt' = [receipt EXCEPT ![r] = v]
    BY <2>1
  <2> HIDE DEF v
  <2>5. receipt' \in [Runner!Runs -> Receipts]
    BY <1>r, <2>3, <2>4
  <2>6. Runner!TypeOK'
    BY <1>t, <2>2, <2>5 DEF Runner!TypeOK, Receipts
  <2>7. /\ runner'[r] = "exited" /\ child'[r] = FALSE /\ receipt'[r] = v
        /\ \A q \in Runner!Runs \ {r} :
             runner'[q] = runner[q] /\ child'[q] = child[q] /\ receipt'[q] = receipt[q]
    BY <1>t, <1>r, <2>2, <2>4 DEF Runner!TypeOK
  <2>8. Sound(r)'
    BY <2>3, <2>7 DEF Sound
  <2> QED BY <1>quiet, <2>2, <2>6, <2>7, <2>8, RunSteps
<1>8. ASSUME NEW r \in Runner!Runs, Runner!Conclude(r) PROVE RunnerInv'
  <2> DEFINE v == [receipt[r] EXCEPT !.status = Runner!Verdict(r), !.artifacts = artifacts]
  <2>1. /\ runner[r] = "ending" /\ runner' = [runner EXCEPT ![r] = "exited"]
        /\ receipt' = [receipt EXCEPT ![r] = v]
        /\ UNCHANGED <<source, edits, child, logs, artifacts, saw, reused>>
    BY <1>8 DEF Runner!Conclude
  <2>2. /\ v \in Receipts /\ v.status = Runner!Verdict(r) /\ v.source = receipt[r].source
        /\ v.steps = receipt[r].steps /\ v.artifacts = artifacts
    <3>1. receipt[r] \in Receipts /\ artifacts \in SUBSET Runner!Runs
      BY <1>r, <1>t DEF Runner!TypeOK
    <3>2. Runner!Verdict(r) \in Runner!Status
      BY DEF Runner!Verdict, Runner!Status
    <3> QED BY <3>1, <3>2 DEF Receipts
  <2> HIDE DEF v
  <2>3. receipt' \in [Runner!Runs -> Receipts]
    BY <1>r, <2>1, <2>2
  <2>4. Runner!TypeOK'
    BY <1>t, <2>1, <2>3 DEF Runner!TypeOK, Receipts
  <2>5. /\ runner'[r] = "exited" /\ receipt'[r] = v
        /\ \A q \in Runner!Runs \ {r} : runner'[q] = runner[q] /\ receipt'[q] = receipt[q]
    BY <1>t, <1>r, <2>1 DEF Runner!TypeOK
  <2>6. Runner!Verdict(r) \in {"passed", "failed"}
        /\ (Runner!Verdict(r) = "passed" => source = receipt[r].source)
    BY DEF Runner!Verdict
  <2>7. /\ receipt[r].steps = Commands /\ r \in artifacts /\ saw[r] # {} /\ ~child[r]
        /\ saw[r] \subseteq {receipt[r].source} \/ source # receipt[r].source
    BY <1>s, <2>1 DEF Sound
  <2>8. Sound(r)'
    BY <2>1, <2>2, <2>5, <2>6, <2>7 DEF Sound
  <2> QED BY <1>quiet, <2>1, <2>4, <2>5, <2>8, RunSteps
<1>9. ASSUME NEW r \in Runner!Runs, Runner!Kill(r) PROVE RunnerInv'
  <2>1. /\ runner[r] \in {"next", "waiting", "ending"}
        /\ runner' = [runner EXCEPT ![r] = "killed"]
        /\ UNCHANGED <<source, edits, child, receipt, logs, artifacts, saw, reused>>
    BY <1>9 DEF Runner!Kill, Runner!Live
  <2>2. Runner!TypeOK'
    BY <1>t, <2>1 DEF Runner!TypeOK
  <2>3. runner'[r] = "killed" /\ \A q \in Runner!Runs \ {r} : runner'[q] = runner[q]
    BY <1>t, <2>1 DEF Runner!TypeOK
  <2>4. Sound(r)'
    BY <1>s, <2>1, <2>3 DEF Sound
  <2> QED BY <1>quiet, <2>1, <2>2, <2>3, <2>4, RunSteps
<1>10. ASSUME NEW r \in Runner!Runs, Runner!OrphanEnds(r) PROVE RunnerInv'
  <2>1. /\ runner[r] = "killed" /\ child' = [child EXCEPT ![r] = FALSE]
        /\ artifacts \subseteq artifacts' /\ artifacts' \subseteq artifacts \cup {r}
        /\ UNCHANGED <<source, edits, runner, receipt, logs, saw, reused>>
    BY <1>10 DEF Runner!OrphanEnds
  <2>2. Runner!TypeOK'
    BY <1>t, <2>1 DEF Runner!TypeOK
  <2>3. child'[r] = FALSE /\ \A q \in Runner!Runs \ {r} : child'[q] = child[q]
    BY <1>t, <2>1 DEF Runner!TypeOK
  <2>4. Sound(r)'
    BY <1>s, <2>1, <2>3 DEF Sound
  <2> QED BY <1>quiet, <2>1, <2>2, <2>3, <2>4, RunSteps
<1>11. CASE UNCHANGED Runner!vars
  <2>1. UNCHANGED <<source, edits, runner, child, receipt, logs, artifacts, saw, reused>>
    BY <1>11 DEF Runner!vars
  <2>2. Runner!TypeOK'
    BY <1>t, <2>1 DEF Runner!TypeOK
  <2>3. ASSUME NEW r \in Runner!Runs PROVE Sound(r)'
    BY <1>s, <2>1 DEF Sound
  <2> QED BY <1>quiet, <2>1, <2>2, <2>3 DEF RunnerInv, Runner!Runs
<1> QED BY <1>1, <1>2, <1>3, <1>4, <1>5, <1>6, <1>7, <1>8, <1>9, <1>10, <1>11 DEF Runner!Next

LEMMA RunnerIsSound ==
  RunnerInv => Runner!TypeOK /\ Runner!EvidenceIsCurrent /\ Runner!NothingLeftBehind
  BY DEF RunnerInv, Sound, Runner!NothingLeftBehind, Runner!Live

-----------------------------------------------------------------------------
(* Logins, sessions, limits and keys *)

\* Requests that may still be counted by rate().
Uncounted == {n \in Access!Ids : call[n].step \in {"new", "rate", "authenticate", "mutate"}}

Rows ==
  /\ clock \in Access!Times
  /\ sweep \in Access!Times \cup {Access!Never} /\ (sweep # Access!Never => sweep <= clock)
  /\ sessions \subseteq [id : Access!Ids, at : Access!Times, seen : Access!Times]
  /\ sessionCookie \in [Browsers -> 0 .. MaxRequests]

\* A call in flight read the clock at most one window ago.
Timely ==
  /\ call \in [Access!Ids -> Access!Calls] /\ started \in 0 .. MaxRequests
  /\ \A n \in Access!Ids :
       /\ call[n].step = "new" <=> n > started
       /\ Access!InFlight(n) => call[n].stamp <= clock /\ clock <= call[n].stamp + 1
       /\ call[n].step = "consume" => call[n].flow \in Access!Ids

\* The row of a flow is gone once it was handed out, and its request, which is
\* over, keeps the browser that started it.
Spent ==
  /\ flows \in [Access!Ids -> Access!Times \cup {Access!Never}]
  /\ flowCookie \in [Browsers -> 0 .. MaxRequests]
  /\ spent \subseteq [by : Access!Ids, flow : Access!Ids, browser : Browsers, age : Access!Times]
  /\ \A f \in Access!Ids : flows[f] # Access!Never => flows[f] <= clock
  /\ \A b \in Browsers : flowCookie[b] # 0 =>
       call[flowCookie[b]].step = "done" /\ call[flowCookie[b]].browser = b
  /\ \A x \in spent : /\ flows[x.flow] = Access!Never /\ x.age <= FlowLife
                      /\ call[x.flow].step = "done" /\ call[x.flow].browser = x.browser
  /\ \A x, y \in spent : x.flow = y.flow => x = y

\* The cached keys were published at most one exchange before they were stored.
Keyed ==
  /\ keys \in [published : Access!Times, at : Access!Times \cup {Access!Never}]
  /\ keys.published <= clock
  /\ keys.at # Access!Never => keys.at <= keys.published + 1
  /\ oldest \in Access!Times /\ oldest <= KeyLife + 1

\* A window is swept only when no call can count in it any more.
Counted ==
  /\ rates \in [Access!Keys \X Access!Times -> Nat]
  /\ passed \in [Access!Keys \X Access!Times -> Nat]
  /\ \A x \in Access!Keys \X Access!Times :
       /\ rates[x] + Cardinality(Uncounted) <= MaxRequests
       /\ passed[x] + Cardinality(Uncounted) <= MaxRequests
       /\ passed[x] <= Access!RateLimit(x[1])
       /\ clock <= x[2] + 1 => passed[x] <= rates[x]

AccessInv == Rows /\ Timely /\ Spent /\ Keyed /\ Counted

LEMMA UncountedFinite ==
  ASSUME AccessInstances
  PROVE  IsFiniteSet(Access!Ids) /\ IsFiniteSet(Uncounted) /\ Cardinality(Uncounted) \in Nat
<1>1. IsFiniteSet(Access!Ids)
  BY FS_Interval DEF Access!Ids, AccessInstances
<1>2. Uncounted \subseteq Access!Ids
  BY DEF Uncounted
<1> QED BY <1>1, <1>2, FS_Subset, FS_CardinalityType

LEMMA InitAccess == AccessInstances /\ Access!Init => AccessInv
<1> SUFFICES ASSUME AccessInstances, Access!Init PROVE AccessInv
  OBVIOUS
<1> DEFINE old == 1 .. Opened
           of(o, b, S) == IF \E f \in S : o[f] = b THEN CHOOSE f \in S : o[f] = b ELSE 0
<1>1. PICK owner \in Access!Injection(1 .. Opened, Browsers), in \in 0 .. Opened :
        /\ flows = [f \in Access!Ids |-> IF f \in (1 .. Opened) \ {in} THEN 0 ELSE Access!Never]
        /\ flowCookie = [b \in Browsers |-> of(owner, b, (1 .. Opened) \ {in})]
        /\ sessionCookie = [b \in Browsers |-> of(owner, b, (1 .. Opened) \cap {in})]
        /\ sessions = {[id |-> f, at |-> 0, seen |-> 0] : f \in (1 .. Opened) \cap {in}}
        /\ spent = {[by |-> f, flow |-> f, browser |-> owner[f], age |-> 0] :
                      f \in (1 .. Opened) \cap {in}}
        /\ rates = [x \in Access!Keys \X Access!Times |->
                      IF x[2] = 0 /\ x[1] \in Access!Range(owner) THEN 1 ELSE 0]
        /\ passed = rates
        /\ keys = [published |-> 0, at |-> IF in = 0 THEN Access!Never ELSE 0]
        /\ call = [n \in Access!Ids |->
             [step |-> IF n <= Opened THEN "done" ELSE "new", op |-> "login",
              browser |-> IF n <= Opened THEN owner[n] ELSE CHOOSE b \in Browsers : TRUE,
              flow |-> 0, token |-> 0, stamp |-> 0]]
  BY DEF Access!Init
<1>2. clock = 0 /\ started = Opened /\ sweep = Access!Never /\ oldest = 0
  BY DEF Access!Init
<1>3. /\ owner \in [old -> Browsers] /\ old \subseteq Access!Ids /\ Opened \in Nat
      /\ MaxRequests \in Nat /\ Opened <= MaxRequests
      /\ 0 \in Access!Times /\ Access!Never # 0 /\ Access!Never \notin Access!Times
  BY DEF Access!Injection, Access!IsInjective, AccessInstances, Access!Ids, Access!Times,
     Access!Never
<1>of. ASSUME NEW b \in Browsers, NEW S \in SUBSET old
       PROVE  of(owner, b, S) \in 0 .. MaxRequests
              /\ (of(owner, b, S) # 0 => of(owner, b, S) \in S /\ owner[of(owner, b, S)] = b)
  <2>1. CASE \E f \in S : owner[f] = b
    <3>1. (CHOOSE f \in S : owner[f] = b) \in S
          /\ owner[CHOOSE f \in S : owner[f] = b] = b
      BY <2>1, Zenon
    <3>2. of(owner, b, S) = CHOOSE f \in S : owner[f] = b
      BY <2>1
    <3>3. S \subseteq 0 .. MaxRequests
      BY <1>3
    <3> QED BY <3>1, <3>2, <3>3, Zenon
  <2>2. CASE ~ \E f \in S : owner[f] = b
    BY <1>3, <2>2
  <2> QED BY <2>1, <2>2
<1> HIDE DEF of
<1>4. Rows
  <2>1. sessionCookie \in [Browsers -> 0 .. MaxRequests]
    BY <1>1, <1>of
  <2>2. sessions \subseteq [id : Access!Ids, at : Access!Times, seen : Access!Times]
    BY <1>1, <1>3
  <2> QED BY <1>2, <1>3, <2>1, <2>2 DEF Rows
<1>5. /\ call \in [Access!Ids -> Access!Calls]
      /\ \A n \in Access!Ids : /\ call[n].step = IF n <= Opened THEN "done" ELSE "new"
                               /\ n <= Opened => call[n].browser = owner[n]
  <2>1. ASSUME NEW n \in Access!Ids
        PROVE  (IF n <= Opened THEN owner[n] ELSE CHOOSE b \in Browsers : TRUE) \in Browsers
    BY <1>3 DEF AccessInstances, Access!Ids
  <2> QED BY <1>1, <1>3, <2>1 DEF Access!Calls, Access!Steps
<1>6. Timely
  BY <1>2, <1>3, <1>5 DEF Timely, Access!InFlight, Access!Ids
<1>7. Spent
  <2>1. flows \in [Access!Ids -> Access!Times \cup {Access!Never}]
        /\ \A f \in Access!Ids : flows[f] # Access!Never => flows[f] <= clock
    BY <1>1, <1>2, <1>3
  <2>2. flowCookie \in [Browsers -> 0 .. MaxRequests]
    BY <1>1, <1>of
  <2>3. ASSUME NEW b \in Browsers, flowCookie[b] # 0
        PROVE  call[flowCookie[b]].step = "done" /\ call[flowCookie[b]].browser = b
    <3>1. flowCookie[b] \in old /\ owner[flowCookie[b]] = b
      BY <1>1, <1>of, <2>3
    <3> QED BY <1>3, <1>5, <3>1
  <2>4. ASSUME NEW x \in spent
        PROVE  /\ x \in [by : Access!Ids, flow : Access!Ids, browser : Browsers,
                         age : Access!Times]
               /\ x.flow = in /\ in \in old /\ x = [by |-> in, flow |-> in,
                                                   browser |-> owner[in], age |-> 0]
    BY <1>1, <1>3
  <2>5. ASSUME NEW x \in spent
        PROVE  /\ flows[x.flow] = Access!Never /\ x.age <= FlowLife
               /\ call[x.flow].step = "done" /\ call[x.flow].browser = x.browser
    <3>1. x.flow = in /\ in \in old /\ x.age = 0 /\ x.browser = owner[in]
      BY <2>4
    <3>2. flows[in] = Access!Never
      BY <1>1, <1>3, <3>1
    <3> QED BY <1>3, <1>5, <3>1, <3>2 DEF AccessInstances
  <2>6. \A x, y \in spent : x = y
    BY <2>4
  <2> QED BY <2>1, <2>2, <2>3, <2>4, <2>5, <2>6 DEF Spent
<1>8. Keyed
  <2>1. keys \in [published : Access!Times, at : Access!Times \cup {Access!Never}]
        /\ keys.published = 0 /\ (keys.at # Access!Never => keys.at = 0)
    BY <1>1, <1>3
  <2> QED BY <1>2, <1>3, <2>1 DEF Keyed, AccessInstances
<1>9. Counted
  <2>1. Uncounted = Opened + 1 .. MaxRequests
    BY <1>3, <1>5 DEF Uncounted, Access!Ids
  <2>2. Cardinality(Uncounted) = MaxRequests - Opened
    <3>1. CASE Opened = MaxRequests
      <4>1. Uncounted = {}
        BY <1>3, <2>1, <3>1
      <4> QED BY <1>3, <3>1, <4>1, FS_EmptySet
    <3>2. CASE Opened < MaxRequests
      <4>1. Opened + 1 \in Int /\ MaxRequests \in Int /\ ~ (Opened + 1 > MaxRequests)
        BY <1>3, <3>2
      <4>2. Cardinality(Opened + 1 .. MaxRequests) = MaxRequests - (Opened + 1) + 1
        BY <4>1, FS_Interval
      <4> QED BY <1>3, <2>1, <4>2
    <3> QED BY <1>3, <3>1, <3>2
  <2>3. /\ rates \in [Access!Keys \X Access!Times -> Nat]
        /\ \A x \in Access!Keys \X Access!Times :
             rates[x] \in {0, 1} /\ (rates[x] = 1 => x[1] \in Access!Range(owner))
    BY <1>1
  <2>4. Access!Range(owner) \subseteq Browsers
        /\ (Access!Range(owner) # {} => Opened >= 1)
    BY <1>3 DEF Access!Range
  <2>5. \A x \in Access!Keys \X Access!Times :
          x[1] \in Browsers => Access!RateLimit(x[1]) >= 1
    BY DEF Access!RateLimit, AccessInstances
  <2>6. \A x \in Access!Keys \X Access!Times : Access!RateLimit(x[1]) \in Nat
    BY DEF Access!RateLimit, AccessInstances
  <2>7. \A x \in Access!Keys \X Access!Times :
          rates[x] <= Opened /\ rates[x] <= Access!RateLimit(x[1])
    BY <1>3, <2>3, <2>4, <2>5, <2>6
  <2> QED BY <1>1, <1>3, <2>2, <2>3, <2>7 DEF Counted
<1> QED BY <1>4, <1>6, <1>7, <1>8, <1>9 DEF AccessInv

\* Request n, which is not over, takes a step of its own.
Moved(n) ==
  /\ call' \in [Access!Ids -> Access!Calls]
  /\ \A m \in Access!Ids \ {n} : call'[m] = call[m]
  /\ call[n].step # "done" /\ call'[n].step # "new"
  /\ call'[n].step # "done" => call'[n].stamp = clock
  /\ n \in Uncounted' => n \in Uncounted
  /\ call'[n].step = "consume" => call'[n].flow \in Access!Ids
  /\ clock' = clock

LEMMA GotoMoves ==
  ASSUME NEW n \in Access!Ids, NEW s \in {"flow", "token", "certs", "login", "mutate", "logout"},
         Timely, clock \in Access!Times, clock' = clock,
         Access!InFlight(n), Access!Goto(n, s), s = "mutate" => call[n].step = "authenticate"
  PROVE  Moved(n) /\ call'[n].step = s
<1> DEFINE c == call[n]
           d == [c EXCEPT !.step = s, !.stamp = clock]
<1>1. c \in Access!Calls /\ call \in [Access!Ids -> Access!Calls]
  BY DEF Timely
<1>2. call' = [call EXCEPT ![n] = d]
  BY <1>1 DEF Access!Goto, Access!Calls
<1>3. d \in Access!Calls /\ d.step = s /\ d.stamp = clock
  BY <1>1 DEF Access!Calls, Access!Steps
<1>4. c = call[n]
  OBVIOUS
<1> HIDE DEF d, c
<1>5. /\ call' \in [Access!Ids -> Access!Calls] /\ call'[n] = d
      /\ \A m \in Access!Ids \ {n} : call'[m] = call[m]
  BY <1>1, <1>2, <1>3
<1> QED BY <1>3, <1>5 DEF Moved, Uncounted, Access!InFlight

LEMMA DoneMoves ==
  ASSUME NEW n \in Access!Ids, Timely, clock' = clock, AccessInstances,
         Access!InFlight(n), Access!Done(n)
  PROVE  Moved(n) /\ call'[n].step = "done" /\ call'[n].browser = call[n].browser
<1> DEFINE d == [step |-> "done", op |-> "login", browser |-> call[n].browser, flow |-> 0,
                 token |-> 0, stamp |-> 0]
<1>1. call[n] \in Access!Calls /\ call \in [Access!Ids -> Access!Calls]
  BY DEF Timely
<1>2. call' = [call EXCEPT ![n] = d]
  BY DEF Access!Done
<1>3. d \in Access!Calls /\ d.step = "done" /\ d.browser = call[n].browser
  BY <1>1 DEF Access!Calls, Access!Steps, Access!Times, AccessInstances
<1> HIDE DEF d
<1>4. /\ call' \in [Access!Ids -> Access!Calls] /\ call'[n] = d
      /\ \A m \in Access!Ids \ {n} : call'[m] = call[m]
  BY <1>1, <1>2, <1>3
<1> QED BY <1>3, <1>4 DEF Moved, Uncounted, Access!InFlight

LEMMA TimelyKept ==
  ASSUME NEW n \in Access!Ids, Timely, Moved(n), clock \in Access!Times, AccessInstances,
         \/ started' = started /\ Access!InFlight(n)
         \/ started' = n /\ n = started + 1
  PROVE  Timely'
<1>1. started \in 0 .. MaxRequests /\ MaxRequests \in Nat /\ n \in Nat /\ n <= MaxRequests
  BY DEF Timely, AccessInstances, Access!Ids
<1>2. started' \in 0 .. MaxRequests /\ n <= started'
  BY <1>1 DEF Timely, Access!InFlight, Access!Ids
<1>3. ASSUME NEW m \in Access!Ids \ {n} PROVE m > started' <=> m > started
  BY <1>1 DEF Access!Ids
<1>4. clock \in Nat
  BY DEF Access!Times, AccessInstances
<1>5. call' \in [Access!Ids -> Access!Calls] /\ clock' = clock
  BY DEF Moved
<1>6. ASSUME NEW m \in Access!Ids
      PROVE  /\ call'[m].step = "new" <=> m > started'
             /\ call'[m].step \notin {"new", "done"} =>
                  call'[m].stamp <= clock /\ clock <= call'[m].stamp + 1
             /\ call'[m].step = "consume" => call'[m].flow \in Access!Ids
  <2>1. CASE m = n
    BY <1>1, <1>2, <1>4, <2>1 DEF Moved
  <2>2. CASE m # n
    <3>1. call'[m] = call[m]
      BY <2>2 DEF Moved
    <3> QED BY <1>3, <2>2, <3>1 DEF Timely, Access!InFlight
  <2> QED BY <2>1, <2>2
<1> QED BY <1>2, <1>5, <1>6 DEF Timely, Access!InFlight, Access!Ids, Access!Calls, Access!Steps, Access!Times

LEMMA SpentKept ==
  ASSUME NEW n \in Access!Ids, Spent, Moved(n), spent' = spent,
         flows' \in [Access!Ids -> Access!Times \cup {Access!Never}],
         flowCookie' \in [Browsers -> 0 .. MaxRequests],
         \A f \in Access!Ids : flows'[f] # flows[f] =>
           flows'[f] = Access!Never \/ (f = n /\ flows'[f] <= clock),
         \A b \in Browsers : flowCookie'[b] # 0 /\ flowCookie'[b] # flowCookie[b] =>
           flowCookie'[b] = n /\ call'[n].step = "done" /\ call'[n].browser = b
  PROVE  Spent'
<1>1. clock' = clock
  BY DEF Moved
<1>2. ASSUME NEW m \in Access!Ids, call[m].step = "done" PROVE call'[m] = call[m] /\ m # n
  BY <1>2 DEF Moved
<1>3. \A f \in Access!Ids : flows'[f] # Access!Never => flows'[f] <= clock
  BY DEF Spent
<1>4. ASSUME NEW b \in Browsers, flowCookie'[b] # 0
      PROVE  call'[flowCookie'[b]].step = "done" /\ call'[flowCookie'[b]].browser = b
  <2>1. CASE flowCookie'[b] = flowCookie[b]
    <3>1. flowCookie[b] \in Access!Ids
      BY <1>4, <2>1 DEF Spent, Access!Ids
    <3> QED BY <1>2, <1>4, <2>1, <3>1 DEF Spent
  <2>2. CASE flowCookie'[b] # flowCookie[b]
    BY <1>4, <2>2
  <2> QED BY <2>1, <2>2
<1>5. ASSUME NEW x \in spent
      PROVE  /\ flows'[x.flow] = Access!Never /\ x.age <= FlowLife
             /\ call'[x.flow].step = "done" /\ call'[x.flow].browser = x.browser
  <2>1. /\ x.flow \in Access!Ids /\ flows[x.flow] = Access!Never /\ x.age <= FlowLife
        /\ call[x.flow].step = "done" /\ call[x.flow].browser = x.browser
    BY DEF Spent
  <2> QED BY <1>2, <2>1
<1> QED BY <1>1, <1>3, <1>4, <1>5 DEF Spent, Access!Ids, Access!Times, Access!Never

LEMMA CountedKept ==
  ASSUME NEW n \in Access!Ids, Counted, Moved(n), AccessInstances,
         rates' = rates, passed' = passed
  PROVE  Counted'
<1>1. Uncounted' \subseteq Uncounted
  BY DEF Moved, Uncounted, Access!Ids
<1>2. Cardinality(Uncounted') <= Cardinality(Uncounted) /\ Cardinality(Uncounted) \in Nat
      /\ Cardinality(Uncounted') \in Nat
  BY <1>1, UncountedFinite, FS_Subset, FS_CardinalityType
<1>3. clock' = clock
  BY DEF Moved
<1> QED BY <1>2, <1>3 DEF Counted, AccessInstances, Access!Keys, Access!Times, Access!RateLimit

\* A step of n that touches no table but its own.
LEMMA CallKept ==
  ASSUME NEW n \in Access!Ids, AccessInv, AccessInstances, Moved(n), Access!InFlight(n),
         UNCHANGED <<started, sweep, rates, passed>>,
         Rows', Spent', Keyed'
  PROVE  AccessInv'
  BY TimelyKept, CountedKept DEF AccessInv, Rows

LEMMA RateKept ==
  ASSUME NEW n \in Access!Ids, NEW k \in Access!Keys, NEW s \in {"flow", "logout"},
         AccessInstances, AccessInv, n \in Uncounted, Access!InFlight(n), Access!Rate(n, k, s)
  PROVE  AccessInv'
<1> DEFINE x == <<k, call[n].stamp>>
<1>1. /\ rates' = [rates EXCEPT ![x] = rates[x] + 1] /\ clock' = clock
      /\ IF rates'[x] > Access!RateLimit(k)
         THEN Access!Done(n) /\ UNCHANGED passed
         ELSE Access!Goto(n, s) /\ passed' = [passed EXCEPT ![x] = passed[x] + 1]
      /\ UNCHANGED <<flows, sessions, keys, flowCookie, sessionCookie, started,
                     sweep, spent, oldest>>
  BY DEF Access!Rate
<1>2. /\ clock \in Access!Times /\ x \in Access!Keys \X Access!Times /\ x[1] = k
      /\ clock <= x[2] + 1
  BY DEF AccessInv, Rows, Timely, Access!Calls
<1>3. Moved(n) /\ call'[n].step \in {"done", "flow", "logout"}
  BY <1>1, <1>2, GotoMoves, DoneMoves DEF AccessInv
<1> HIDE DEF x
<1>4. /\ Cardinality(Uncounted') + 1 <= Cardinality(Uncounted)
      /\ Cardinality(Uncounted) \in Nat /\ Cardinality(Uncounted') \in Nat
  <2>1. Uncounted' \subseteq Uncounted \ {n}
    BY <1>3 DEF Moved, Uncounted, Access!Ids
  <2>2. IsFiniteSet(Uncounted \ {n}) /\ Cardinality(Uncounted \ {n}) = Cardinality(Uncounted) - 1
    BY UncountedFinite, FS_RemoveElement
  <2>3. /\ IsFiniteSet(Uncounted') /\ Cardinality(Uncounted') <= Cardinality(Uncounted \ {n})
    BY <2>1, <2>2, FS_Subset
  <2> QED BY <2>2, <2>3, UncountedFinite, FS_CardinalityType
<1>5. Counted'
  <2>1. /\ rates' \in [Access!Keys \X Access!Times -> Nat] /\ rates'[x] = rates[x] + 1
        /\ \A y \in Access!Keys \X Access!Times : y # x => rates'[y] = rates[y]
    BY <1>1, <1>2 DEF AccessInv, Counted
  <2>2. /\ passed' \in [Access!Keys \X Access!Times -> Nat]
        /\ \/ passed'[x] = passed[x]
           \/ passed'[x] = passed[x] + 1 /\ rates'[x] <= Access!RateLimit(k)
        /\ \A y \in Access!Keys \X Access!Times : y # x => passed'[y] = passed[y]
    <3>1. CASE rates'[x] > Access!RateLimit(k)
      <4>1. passed' = passed
        BY <1>1, <3>1, Zenon
      <4> QED BY <1>2, <4>1 DEF AccessInv, Counted
    <3>2. CASE ~ (rates'[x] > Access!RateLimit(k))
      <4>1. passed' = [passed EXCEPT ![x] = passed[x] + 1]
        BY <1>1, <3>2
      <4>2. Access!RateLimit(k) \in Nat /\ rates'[x] \in Nat
        BY <1>2, <2>1 DEF Access!RateLimit, AccessInstances
      <4> QED BY <1>2, <3>2, <4>1, <4>2 DEF AccessInv, Counted
    <3> QED BY <3>1, <3>2
  <2>3. ASSUME NEW y \in Access!Keys \X Access!Times
        PROVE  /\ rates'[y] + Cardinality(Uncounted') <= MaxRequests
               /\ passed'[y] + Cardinality(Uncounted') <= MaxRequests
               /\ passed'[y] <= Access!RateLimit(y[1])
               /\ clock <= y[2] + 1 => passed'[y] <= rates'[y]
    <3>1. /\ rates[y] \in Nat /\ passed[y] \in Nat /\ Access!RateLimit(y[1]) \in Nat
          /\ rates[y] + Cardinality(Uncounted) <= MaxRequests
          /\ passed[y] + Cardinality(Uncounted) <= MaxRequests
          /\ passed[y] <= Access!RateLimit(y[1])
          /\ clock <= y[2] + 1 => passed[y] <= rates[y]
      BY DEF AccessInv, Counted, Access!RateLimit, AccessInstances
    <3>2. CASE y = x
      BY <1>2, <1>4, <2>1, <2>2, <3>1, <3>2 DEF AccessInstances
    <3>3. CASE y # x
      BY <1>4, <2>1, <2>2, <3>1, <3>3 DEF AccessInstances
    <3> QED BY <3>2, <3>3
  <2> QED BY <1>1, <2>1, <2>2, <2>3 DEF Counted, Access!Keys, Access!Times, Access!RateLimit
<1>6. Rows'
  BY <1>1 DEF AccessInv, Rows, Access!Ids, Access!Times, Access!Never
<1>7. Spent'
  BY <1>1, <1>3, SpentKept DEF AccessInv, Spent
<1>8. Keyed'
  BY <1>1 DEF AccessInv, Keyed, Access!Times, Access!Never
<1>9. Timely'
  BY <1>1, <1>2, <1>3, TimelyKept DEF AccessInv
<1> QED BY <1>5, <1>6, <1>7, <1>8, <1>9 DEF AccessInv

LEMMA NextAccess == AccessInstances /\ AccessInv /\ [Access!Next]_Access!vars => AccessInv'
<1> SUFFICES ASSUME AccessInstances, AccessInv, [Access!Next]_Access!vars PROVE AccessInv'
  OBVIOUS
<1> USE DEF AccessInv
<1>c. /\ clock \in Access!Times /\ clock \in Nat /\ MaxTime \in Nat /\ Access!Never \notin Access!Times
      /\ \A t \in Access!Times : t \in Nat
  BY DEF Rows, Access!Times, Access!Never, AccessInstances
\* The clock and the sweep.
<1>1. CASE Access!Tick
  <2>1. /\ clock' = clock + 1 /\ clock' \in Access!Times
        /\ \A n \in Access!Ids : Access!InFlight(n) => call[n].stamp = clock
        /\ UNCHANGED <<flows, sessions, rates, keys, flowCookie, sessionCookie, started,
                       call, sweep, passed, spent, oldest>>
    BY <1>1, <1>c DEF Access!Tick, Access!Times
  <2>2. Rows'
    BY <1>c, <2>1 DEF Rows
  <2>3. Timely'
    <3>1. \A n \in Access!Ids : Access!InFlight(n)' => call'[n].stamp <= clock' /\ clock' <= call'[n].stamp + 1
      BY <1>c, <2>1 DEF Access!InFlight
    <3> QED BY <2>1, <3>1 DEF Timely, Access!Ids, Access!Calls, Access!Times
  <2>4. Spent'
    <3>1. ASSUME NEW f \in Access!Ids, flows[f] # Access!Never PROVE flows[f] <= clock'
      <4>1. flows[f] \in Access!Times /\ flows[f] <= clock
        BY <3>1 DEF Spent
      <4>2. flows[f] \in Nat
        BY <1>c, <4>1
      <4> QED BY <1>c, <2>1, <4>1, <4>2
    <3> QED BY <2>1, <3>1 DEF Spent, Access!Ids, Access!Times, Access!Never
  <2>5. Keyed'
    BY <1>c, <2>1 DEF Keyed, Access!Times, Access!Never
  <2>6. Counted'
    <3>1. Uncounted' = Uncounted
      BY <2>1 DEF Uncounted, Access!Ids
    <3>2. ASSUME NEW x \in Access!Keys \X Access!Times, clock' <= x[2] + 1 PROVE clock <= x[2] + 1
      <4>1. x[2] \in Nat
        BY <1>c
      <4> QED BY <1>c, <2>1, <3>2, <4>1
    <3> QED BY <2>1, <3>1, <3>2 DEF Counted, Access!Keys, Access!Times, Access!RateLimit
  <2> QED BY <2>2, <2>3, <2>4, <2>5, <2>6
<1>2. CASE Access!SweepStart
  <2>1. /\ sweep' = clock
        /\ UNCHANGED <<clock, flows, sessions, rates, keys, flowCookie, sessionCookie, started,
                       call, passed, spent, oldest>>
    BY <1>2 DEF Access!SweepStart
  <2>2. Rows'
    <3>1. sweep' \in Access!Times /\ sweep' <= clock' /\ clock' = clock
      BY <1>c, <2>1
    <3> QED BY <2>1, <3>1 DEF Rows
  <2>3. Timely' /\ Spent' /\ Keyed' /\ Counted'
    <3>1. Timely'
      BY <2>1 DEF Timely, Access!InFlight
    <3>2. Spent' /\ Keyed'
      BY <2>1 DEF Spent, Keyed
    <3>3. Uncounted' = Uncounted
      BY <2>1 DEF Uncounted
    <3>4. Counted'
      BY <2>1, <3>3 DEF Counted
    <3> QED BY <3>1, <3>2, <3>4
  <2> QED BY <2>2, <2>3
<1>3. CASE Access!Sweep
  <2>1. /\ sweep # Access!Never /\ sweep' = Access!Never
        /\ flows' = [f \in Access!Ids |->
                       IF Access!FlowOver(flows[f], sweep) THEN Access!Never ELSE flows[f]]
        /\ sessions' \subseteq sessions
        /\ rates' = [x \in Access!Keys \X Access!Times |->
                       IF Access!WindowOver(x[2], sweep) THEN 0 ELSE rates[x]]
        /\ UNCHANGED <<clock, keys, flowCookie, sessionCookie, started, call, passed, spent,
                       oldest>>
    BY <1>3 DEF Access!Sweep
  <2>2. Rows' /\ Timely' /\ Keyed' /\ Uncounted' = Uncounted
    BY <2>1 DEF Rows, Timely, Keyed, Uncounted, Access!InFlight
  <2>3. Spent'
    BY <2>1 DEF Spent
  <2>4. Counted'
    <3>1. ASSUME NEW x \in Access!Keys \X Access!Times
          PROVE  /\ rates'[x] \in {0, rates[x]} /\ rates[x] \in Nat
                 /\ clock <= x[2] + 1 => rates'[x] = rates[x]
      <4>1. sweep \in Nat /\ sweep <= clock
        BY <1>c, <2>1 DEF Rows
      <4>2. KeptWindows \in Nat /\ KeptWindows >= 1
        BY DEF AccessInstances
      <4>3. x[2] \in Nat
        BY <1>c
      <4> QED BY <1>c, <2>1, <4>1, <4>2, <4>3 DEF Access!WindowOver, Counted
    <3>2. rates' \in [Access!Keys \X Access!Times -> Nat]
      BY <2>1, <3>1
    <3>3. Cardinality(Uncounted) \in Nat /\ MaxRequests \in Nat
      BY UncountedFinite DEF AccessInstances
    <3> QED BY <2>1, <2>2, <3>1, <3>2, <3>3 DEF Counted
  <2> QED BY <2>2, <2>3, <2>4
\* A request comes.
<1>4. ASSUME NEW n \in Access!Ids, Access!Begin(n) PROVE AccessInv'
  <2>1. /\ n = started + 1 /\ started' = n
        /\ UNCHANGED <<clock, flows, sessions, rates, keys, flowCookie, sessionCookie,
                       sweep, passed, spent, oldest>>
    BY <1>4 DEF Access!Begin
  <2>2. PICK b \in Browsers, op \in {"login", "callback", "read", "mutation", "logout"} :
          \E f \in (IF op = "callback" THEN 1 .. started ELSE {0}) :
            call' = [call EXCEPT ![n] =
              [step |-> CASE op = "login" -> "rate" [] op = "callback" -> "consume"
                          [] OTHER -> "authenticate",
               op |-> op, browser |-> b, flow |-> f,
               token |-> IF op \in {"login", "callback"} THEN 0 ELSE sessionCookie[b],
               stamp |-> clock]]
    BY <1>4, ZenonT(60) DEF Access!Begin
  <2>3. PICK f \in (IF op = "callback" THEN 1 .. started ELSE {0}) :
            call' = [call EXCEPT ![n] =
              [step |-> CASE op = "login" -> "rate" [] op = "callback" -> "consume"
                          [] OTHER -> "authenticate",
               op |-> op, browser |-> b, flow |-> f,
               token |-> IF op \in {"login", "callback"} THEN 0 ELSE sessionCookie[b],
               stamp |-> clock]]
    BY <2>2
  <2> DEFINE st == CASE op = "login" -> "rate" [] op = "callback" -> "consume"
                     [] OTHER -> "authenticate"
             d == [step |-> st, op |-> op, browser |-> b, flow |-> f,
                   token |-> IF op \in {"login", "callback"} THEN 0 ELSE sessionCookie[b],
                   stamp |-> clock]
  <2>4. /\ st \in {"rate", "consume", "authenticate"} /\ (st = "consume" => op = "callback")
        /\ f \in 0 .. MaxRequests /\ (op = "callback" => f \in Access!Ids)
        /\ (IF op \in {"login", "callback"} THEN 0 ELSE sessionCookie[b]) \in 0 .. MaxRequests
    BY SMTT(30) DEF Rows, Timely, Access!Ids, AccessInstances
  <2>5. /\ d \in Access!Calls /\ d.step = st /\ d.stamp = clock
        /\ (d.step = "consume" => d.flow \in Access!Ids)
    <3> HIDE DEF st
    <3> QED BY <1>c, <2>4 DEF Access!Calls, Access!Steps
  <2>6. call' = [call EXCEPT ![n] = d] /\ call[n].step = "new"
    BY <2>1, <2>3 DEF Timely, Access!Ids, AccessInstances
  <2> HIDE DEF d, st
  <2>7. call' \in [Access!Ids -> Access!Calls] /\ call'[n] = d
        /\ \A m \in Access!Ids \ {n} : call'[m] = call[m]
    BY <2>5, <2>6 DEF Timely
  <2>8. Moved(n)
    BY <2>1, <2>4, <2>5, <2>6, <2>7 DEF Moved, Uncounted
  <2>9. Rows' /\ Keyed'
    BY <2>1 DEF Rows, Keyed
  <2>10. Spent'
    BY <2>1, <2>8, SpentKept DEF Spent
  <2>11. Timely'
    BY <1>c, <2>1, <2>8, TimelyKept
  <2>12. Counted'
    BY <2>1, <2>8, CountedKept
  <2> QED BY <2>9, <2>10, <2>11, <2>12
\* The rate limits.
<1>5. ASSUME NEW n \in Access!Ids, Access!LoginRate(n) PROVE AccessInv'
  <2>1. call[n].step = "rate" /\ Access!Rate(n, call[n].browser, "flow")
    BY <1>5 DEF Access!LoginRate
  <2>2. call[n].browser \in Access!Keys
    BY DEF Timely, Access!Calls, Access!Keys
  <2>3. n \in Uncounted /\ Access!InFlight(n)
    BY <2>1 DEF Uncounted, Access!InFlight
  <2> QED BY <2>1, <2>2, <2>3, RateKept
<1>6. ASSUME NEW n \in Access!Ids, Access!MutationRate(n) PROVE AccessInv'
  <2>1. call[n].step = "mutate" /\ Access!Rate(n, "account", "logout")
    BY <1>6 DEF Access!MutationRate
  <2>2. "account" \in Access!Keys
    BY DEF Access!Keys
  <2>3. n \in Uncounted /\ Access!InFlight(n)
    BY <2>1 DEF Uncounted, Access!InFlight
  <2> QED BY <2>1, <2>2, <2>3, RateKept
\* The login flow.
<1>7. ASSUME NEW n \in Access!Ids, Access!StartFlow(n) PROVE AccessInv'
  <2>1. /\ call[n].step = "flow" /\ Access!Done(n)
        /\ flows' = [flows EXCEPT ![n] = call[n].stamp]
        /\ flowCookie' = [flowCookie EXCEPT ![call[n].browser] = n]
        /\ UNCHANGED <<clock, sessions, rates, keys, sessionCookie, started, sweep, passed,
                       spent, oldest>>
    BY <1>7 DEF Access!StartFlow
  <2>2. Access!InFlight(n)
    BY <2>1 DEF Access!InFlight
  <2>3. Moved(n) /\ call'[n].step = "done" /\ call'[n].browser = call[n].browser
    BY <2>1, <2>2, DoneMoves
  <2>4. /\ call[n].stamp \in Access!Times /\ call[n].stamp <= clock /\ call[n].browser \in Browsers
        /\ n \in 0 .. MaxRequests
    BY <2>2 DEF Timely, Access!Calls, Access!Ids
  <2>5. /\ flows' \in [Access!Ids -> Access!Times \cup {Access!Never}] /\ flows'[n] <= clock
        /\ \A f \in Access!Ids : f # n => flows'[f] = flows[f]
    BY <2>1, <2>4 DEF Spent
  <2>6. /\ flowCookie' \in [Browsers -> 0 .. MaxRequests] /\ flowCookie'[call[n].browser] = n
        /\ \A b \in Browsers : b # call[n].browser => flowCookie'[b] = flowCookie[b]
    BY <2>1, <2>4 DEF Spent
  <2>7. Spent'
    BY <2>1, <2>3, <2>5, <2>6, SpentKept
  <2>8. Rows' /\ Keyed'
    BY <2>1 DEF Rows, Keyed
  <2> QED BY <2>1, <2>2, <2>3, <2>7, <2>8, CallKept
<1>8. ASSUME NEW n \in Access!Ids, Access!ConsumeFlow(n) PROVE AccessInv'
  <2> DEFINE f == call[n].flow
             b == call[n].browser
             found == flows[f] # Access!Never /\ flowCookie[b] = f
             u == [by |-> n, flow |-> f, browser |-> b, age |-> clock - flows[f]]
  <2>1. /\ call[n].step = "consume"
        /\ flows' = IF found THEN [flows EXCEPT ![f] = Access!Never] ELSE flows
        /\ IF found /\ clock - flows[f] <= FlowLife
           THEN spent' = spent \cup {u} /\ Access!Goto(n, "token")
           ELSE Access!Done(n) /\ UNCHANGED spent
        /\ UNCHANGED <<clock, sessions, rates, keys, flowCookie, sessionCookie, started,
                       sweep, passed, oldest>>
    BY <1>8 DEF Access!ConsumeFlow
  <2>2. Access!InFlight(n) /\ f \in Access!Ids /\ b \in Browsers
    BY <2>1 DEF Access!InFlight, Timely, Access!Calls
  <2>3. Moved(n)
    BY <1>c, <2>1, <2>2, GotoMoves, DoneMoves
  <2>4. f # 0
    BY <2>2 DEF Access!Ids
  <2> HIDE DEF f, b
  <2>5. /\ flows' \in [Access!Ids -> Access!Times \cup {Access!Never}]
        /\ found => flows'[f] = Access!Never
        /\ \A g \in Access!Ids : flows'[g] = flows[g] \/ flows'[g] = Access!Never
    BY <2>1, <2>2 DEF Spent
  <2>6. CASE spent' = spent
    <3>1. Spent'
      BY <2>1, <2>3, <2>5, <2>6, SpentKept DEF Spent
    <3> QED BY <2>1, <2>2, <2>3, <3>1, CallKept DEF Rows, Keyed
  <2>7. CASE found /\ clock - flows[f] <= FlowLife /\ spent' = spent \cup {u}
    <3>1. call[f].step = "done" /\ call[f].browser = b /\ f # n
      BY <2>1, <2>2, <2>4, <2>7 DEF Spent
    <3>2. /\ flows[f] \in Access!Times /\ flows[f] <= clock
          /\ clock - flows[f] \in Access!Times
      BY <1>c, <2>2, <2>7 DEF Spent, Access!Times
    <3>3. /\ u \in [by : Access!Ids, flow : Access!Ids, browser : Browsers, age : Access!Times]
          /\ u.flow = f /\ u.browser = b /\ u.age <= FlowLife
      BY <2>2, <2>7, <3>2
    <3> HIDE DEF u
    <3>4. ASSUME NEW m \in Access!Ids, call[m].step = "done" PROVE call'[m] = call[m]
      BY <2>3, <3>4 DEF Moved
    <3>5. spent' \subseteq [by : Access!Ids, flow : Access!Ids, browser : Browsers, age : Access!Times]
      BY <2>7, <3>3 DEF Spent
    <3>6. ASSUME NEW g \in Access!Ids, flows'[g] # Access!Never PROVE flows'[g] <= clock
      BY <2>5, <3>6 DEF Spent
    <3>7. ASSUME NEW c \in Browsers, flowCookie[c] # 0
          PROVE  call'[flowCookie[c]].step = "done" /\ call'[flowCookie[c]].browser = c
      <4>1. flowCookie[c] \in Access!Ids
        BY <3>7 DEF Spent, Access!Ids
      <4> QED BY <3>4, <3>7, <4>1 DEF Spent
    <3>8. ASSUME NEW x \in spent'
          PROVE  /\ flows'[x.flow] = Access!Never /\ x.age <= FlowLife
                 /\ call'[x.flow].step = "done" /\ call'[x.flow].browser = x.browser
      <4>1. CASE x = u
        BY <2>2, <2>5, <2>7, <3>1, <3>3, <3>4, <4>1
      <4>2. CASE x \in spent
        <5>1. x.flow \in Access!Ids /\ flows[x.flow] = Access!Never /\ x.age <= FlowLife
              /\ call[x.flow].step = "done" /\ call[x.flow].browser = x.browser
          BY <4>2 DEF Spent
        <5> QED BY <2>5, <3>4, <5>1
      <4> QED BY <2>7, <4>1, <4>2
    <3>9. \A x, y \in spent' : x.flow = y.flow => x = y
      BY <2>7, <3>3 DEF Spent
    <3>10. Spent'
      BY <2>1, <2>5, <3>5, <3>6, <3>7, <3>8, <3>9 DEF Spent, Access!Ids, Access!Times, Access!Never
    <3> QED BY <2>1, <2>2, <2>3, <3>10, CallKept DEF Rows, Keyed
  <2> QED BY <2>1, <2>6, <2>7
<1>9. ASSUME NEW n \in Access!Ids, Access!FetchToken(n) PROVE AccessInv'
  <2>1. /\ call[n].step = "token"
        /\ IF Access!KeysUsable THEN Access!Decode(n, keys.published)
                                ELSE Access!Goto(n, "certs") /\ UNCHANGED oldest
        /\ UNCHANGED <<clock, flows, sessions, rates, keys, flowCookie, sessionCookie, started,
                       sweep, passed, spent>>
    BY <1>9 DEF Access!FetchToken
  <2>2. Access!InFlight(n)
    BY <2>1 DEF Access!InFlight
  <2>3. Moved(n)
    BY <1>c, <2>1, <2>2, GotoMoves, DoneMoves DEF Access!Decode
  <2>4. oldest' \in Access!Times /\ oldest' <= KeyLife + 1
    <3>1. CASE Access!KeysUsable
      <4>1. /\ keys.published \in Nat /\ keys.published <= clock
            /\ clock - keys.published <= KeyLife + 1
        <5>1. /\ keys.published \in Nat /\ keys.published <= clock /\ keys.at # Access!Never
              /\ keys.at \in Nat /\ keys.at <= keys.published + 1 /\ clock - keys.at <= KeyLife
          BY <1>c, <3>1 DEF Keyed, Access!KeysUsable
        <5> QED BY <1>c, <5>1 DEF AccessInstances
      <4>2. clock - keys.published \in Access!Times
        BY <1>c, <4>1 DEF Access!Times
      <4>3. oldest' = IF clock - keys.published > oldest THEN clock - keys.published ELSE oldest
        BY <2>1, <3>1 DEF Access!Decode
      <4> QED BY <4>1, <4>2, <4>3 DEF Keyed
    <3>2. CASE ~Access!KeysUsable
      BY <2>1, <3>2 DEF Keyed
    <3> QED BY <3>1, <3>2
  <2>5. Keyed'
    BY <2>1, <2>4 DEF Keyed
  <2>6. Rows'
    BY <2>1 DEF Rows
  <2>7. Spent'
    BY <2>1, <2>3, SpentKept DEF Spent
  <2> QED BY <2>1, <2>2, <2>3, <2>5, <2>6, <2>7, CallKept
<1>10. ASSUME NEW n \in Access!Ids, Access!FetchCerts(n) PROVE AccessInv'
  <2>1. PICK p \in call[n].stamp .. clock :
          keys' = [published |-> p, at |-> clock] /\ Access!Decode(n, p)
    BY <1>10 DEF Access!FetchCerts
  <2>2. /\ call[n].step = "certs"
        /\ UNCHANGED <<clock, flows, sessions, rates, flowCookie, sessionCookie, started,
                       sweep, passed, spent>>
    BY <1>10 DEF Access!FetchCerts
  <2>3. Access!InFlight(n)
    BY <2>2 DEF Access!InFlight
  <2>4. Moved(n)
    BY <1>c, <2>1, <2>2, <2>3, GotoMoves, DoneMoves DEF Access!Decode
  <2>5. /\ call[n].stamp \in Access!Times /\ p \in Access!Times /\ p <= clock /\ clock <= p + 1
        /\ clock - p \in Access!Times /\ clock - p <= 1
    BY <1>c, <2>3 DEF Timely, Access!Calls, Access!Times
  <2>6. oldest' \in Access!Times /\ oldest' <= KeyLife + 1
    <3>1. oldest' = IF clock - p > oldest THEN clock - p ELSE oldest
      BY <2>1 DEF Access!Decode
    <3> QED BY <1>c, <2>5, <3>1 DEF Keyed, AccessInstances
  <2>7. Keyed'
    BY <1>c, <2>1, <2>2, <2>5, <2>6 DEF Keyed
  <2>8. Rows'
    BY <2>2 DEF Rows
  <2>9. Spent'
    BY <2>2, <2>4, SpentKept DEF Spent
  <2> QED BY <2>2, <2>3, <2>4, <2>7, <2>8, <2>9, CallKept
<1>11. ASSUME NEW n \in Access!Ids, Access!Fail(n) PROVE AccessInv'
  <2>1. /\ Access!InFlight(n) /\ Access!Done(n)
        /\ UNCHANGED <<clock, flows, sessions, rates, keys, flowCookie, sessionCookie, started,
                       sweep, passed, spent, oldest>>
    BY <1>11 DEF Access!Fail
  <2>2. Moved(n)
    BY <2>1, DoneMoves
  <2>3. Rows' /\ Keyed'
    BY <2>1 DEF Rows, Keyed
  <2>4. Spent'
    BY <2>1, <2>2, SpentKept DEF Spent
  <2> QED BY <2>1, <2>2, <2>3, <2>4, CallKept
\* The session.
<1>12. ASSUME NEW n \in Access!Ids, Access!Login(n) PROVE AccessInv'
  <2>1. /\ call[n].step = "login" /\ Access!Done(n)
        /\ sessions' = {[id |-> n, at |-> call[n].stamp, seen |-> call[n].stamp]}
        /\ sessionCookie' = [sessionCookie EXCEPT ![call[n].browser] = n]
        /\ flowCookie' = [flowCookie EXCEPT ![call[n].browser] = 0]
        /\ UNCHANGED <<clock, flows, rates, keys, started, sweep, passed, spent, oldest>>
    BY <1>12 DEF Access!Login
  <2>2. Access!InFlight(n)
    BY <2>1 DEF Access!InFlight
  <2>3. Moved(n)
    BY <2>1, <2>2, DoneMoves
  <2>4. /\ call[n].stamp \in Access!Times /\ call[n].browser \in Browsers
        /\ n \in 0 .. MaxRequests /\ 0 \in 0 .. MaxRequests
    BY DEF Timely, Access!Calls, Access!Ids, AccessInstances
  <2>5. Rows'
    BY <2>1, <2>4 DEF Rows
  <2>6. /\ flowCookie' \in [Browsers -> 0 .. MaxRequests]
        /\ \A b \in Browsers : flowCookie'[b] \in {0, flowCookie[b]}
    BY <2>1, <2>4 DEF Spent
  <2>7. Spent'
    BY <2>1, <2>3, <2>6, SpentKept DEF Spent
  <2>8. Keyed'
    BY <2>1 DEF Keyed
  <2> QED BY <2>1, <2>2, <2>3, <2>5, <2>7, <2>8, CallKept
<1>13. ASSUME NEW n \in Access!Ids, Access!Authenticate(n) PROVE AccessInv'
  <2>1. /\ call[n].step = "authenticate" /\ (Access!Goto(n, "mutate") \/ Access!Done(n))
        /\ UNCHANGED <<clock, flows, rates, keys, flowCookie, sessionCookie, started, sweep,
                       passed, spent, oldest>>
    BY <1>13 DEF Access!Authenticate
  <2>2. PICK S \in SUBSET sessions :
          sessions' = (sessions \ S) \cup {[s EXCEPT !.seen = call[n].stamp] : s \in S}
    BY <1>13 DEF Access!Authenticate
  <2>3. Access!InFlight(n)
    BY <2>1 DEF Access!InFlight
  <2>4. Moved(n)
    BY <1>c, <2>1, <2>3, GotoMoves, DoneMoves
  <2>5. sessions' \subseteq [id : Access!Ids, at : Access!Times, seen : Access!Times]
    <3>1. call[n].stamp \in Access!Times
      BY DEF Timely, Access!Calls
    <3> QED BY <2>2, <3>1 DEF Rows
  <2>6. Rows' /\ Keyed'
    BY <2>1, <2>5 DEF Rows, Keyed
  <2>7. Spent'
    BY <2>1, <2>4, SpentKept DEF Spent
  <2> QED BY <2>1, <2>3, <2>4, <2>6, <2>7, CallKept
<1>14. ASSUME NEW n \in Access!Ids, Access!Route(n) PROVE AccessInv'
  <2>1. /\ call[n].step = "logout" /\ Access!Done(n) /\ sessions' \subseteq sessions
        /\ \/ sessionCookie' = [sessionCookie EXCEPT ![call[n].browser] = 0]
           \/ sessionCookie' = sessionCookie
        /\ UNCHANGED <<clock, flows, rates, keys, flowCookie, started, sweep, passed, spent,
                       oldest>>
    BY <1>14 DEF Access!Route
  <2>2. Access!InFlight(n)
    BY <2>1 DEF Access!InFlight
  <2>3. Moved(n)
    BY <2>1, <2>2, DoneMoves
  <2>4. Rows' /\ Keyed'
    BY <2>1 DEF Rows, Keyed, AccessInstances
  <2>5. Spent'
    BY <2>1, <2>3, SpentKept DEF Spent
  <2> QED BY <2>1, <2>2, <2>3, <2>4, <2>5, CallKept
<1>15. CASE UNCHANGED Access!vars
  <2>1. UNCHANGED <<clock, flows, sessions, rates, keys, flowCookie, sessionCookie, started,
                    call, sweep, passed, spent, oldest>>
    BY <1>15 DEF Access!vars
  <2>2. Rows' /\ Keyed'
    BY <2>1 DEF Rows, Keyed
  <2>3. Timely' /\ Spent'
    BY <2>1 DEF Timely, Spent, Access!InFlight
  <2>4. Counted'
    BY <2>1 DEF Counted, Uncounted
  <2> QED BY <2>2, <2>3, <2>4
<1> QED BY <1>1, <1>2, <1>3, <1>4, <1>5, <1>6, <1>7, <1>8, <1>9, <1>10, <1>11, <1>12, <1>13,
           <1>14, <1>15 DEF Access!Next, Access!Handle

LEMMA AccessIsControlled == AccessInstances /\ AccessInv => AccessControlled
<1> SUFFICES ASSUME AccessInstances, AccessInv PROVE AccessControlled
  OBVIOUS
<1> USE DEF AccessInv
<1>1. ASSUME NEW f \in [Access!Keys \X Access!Times -> Nat],
             \A x \in Access!Keys \X Access!Times : f[x] + Cardinality(Uncounted) <= MaxRequests
      PROVE  f \in [Access!Keys \X Access!Times -> 0 .. MaxRequests]
  <2>1. Cardinality(Uncounted) \in Nat /\ MaxRequests \in Nat
    BY UncountedFinite DEF AccessInstances
  <2> QED BY <1>1, <2>1
<1>2. Access!TypeOK
  BY <1>1 DEF Rows, Timely, Spent, Keyed, Counted, Access!TypeOK
<1>3. Access!FlowsSpentOnce
  BY DEF Spent, Access!FlowsSpentOnce
<1>4. Access!RatesHold
  BY DEF Counted, Access!RatesHold
<1>5. Access!KeysFresh
  BY DEF Keyed, Access!KeysFresh
<1> QED BY <1>2, <1>3, <1>4, <1>5 DEF AccessControlled

\* What a sweep takes was over, and no session it takes would be accepted.
LEMMA SweepSpares == AccessInstances /\ Rows /\ Spent /\ Access!Sweep =>
  /\ \A f \in Access!Ids : flows'[f] # flows[f] => clock - flows[f] > FlowLife
  /\ \A s \in sessions \ sessions' : ~Access!Usable(s, clock)
<1> SUFFICES ASSUME AccessInstances, Rows, Spent, Access!Sweep
             PROVE  /\ \A f \in Access!Ids : flows'[f] # flows[f] => clock - flows[f] > FlowLife
                    /\ \A s \in sessions \ sessions' : ~Access!Usable(s, clock)
  OBVIOUS
<1>1. /\ sweep \in Access!Times /\ sweep <= clock /\ clock \in Access!Times
      /\ \A t \in Access!Times : t \in Nat
      /\ FlowLife \in Nat /\ IdleLife \in Nat /\ SessionLife \in Nat
  BY DEF Rows, Access!Sweep, Access!Times, AccessInstances
<1>2. ASSUME NEW f \in Access!Ids, flows'[f] # flows[f] PROVE clock - flows[f] > FlowLife
  <2>1. flows[f] # Access!Never /\ flows[f] + FlowLife < sweep
    BY <1>2 DEF Access!Sweep, Access!FlowOver
  <2>2. flows[f] \in Access!Times
    BY <2>1 DEF Spent
  <2> QED BY <1>1, <2>1, <2>2
<1>3. ASSUME NEW s \in sessions \ sessions' PROVE ~Access!Usable(s, clock)
  <2>1. s.at + SessionLife < sweep \/ s.seen + IdleLife < sweep
    BY DEF Access!Sweep, Access!SessionOver
  <2>2. s.at \in Nat /\ s.seen \in Nat
    BY <1>1 DEF Rows
  <2> QED BY <1>1, <2>1, <2>2 DEF Access!Usable
<1> QED BY <1>2, <1>3

-----------------------------------------------------------------------------
(* The drills *)

\* What containers hold on to.
Stores == {"network", "data", "repository", "restored", "caddy"}
Boxed == {"container", "job", "anonymous"}
Kinds == Drill!Made \cup {"check", "secrets", "report"}
Ops == {"operations", "monitored"}

\* The containers of the drills.
Boxes == {"ledger", "postgres", "migration", "retrieval", "web", "api", "receiver", "alertmanager",
          "blackbox", "prometheus", "primary", "restore", "copy", "test"}

\* What a step of drill d may look like, its report apart.
Fits(s, d) ==
  /\ s.kind \in Boxed => s.name \in Boxes
  /\ s.kind = "volume" => s.name \in Stores
  /\ s.kind = "network" => s.name = "network" /\ d \in Ops
  /\ s.uses # {} => s.kind \in {"container", "anonymous"}

AnyStep == [kind : Kinds \ {"report"}, name : Stores \cup Boxes \cup {""}, uses : SUBSET Stores]
Fitting(d) == {s \in AnyStep : Fits(s, d)}

Report == Drill!S("report", "", {})

LEMMA OtherFits ==
  ASSUME NEW d, NEW k \in {"check", "secrets"} PROVE Drill!S(k, "", {}) \in Fitting(d)
<1>1. Drill!S(k, "", {}) \in AnyStep
  BY DEF AnyStep, Drill!S, Kinds
<1> QED BY <1>1 DEF Fitting, Fits, Drill!S, Boxed

LEMMA CheckFits == ASSUME NEW d PROVE Drill!Check \in Fitting(d)
  BY OtherFits DEF Drill!Check

LEMMA NetworkFits == ASSUME NEW d \in Ops PROVE Drill!S("network", "network", {}) \in Fitting(d)
<1>1. Drill!S("network", "network", {}) \in AnyStep
  BY DEF AnyStep, Drill!S, Kinds, Drill!Made, Stores
<1> QED BY <1>1 DEF Fitting, Fits, Drill!S, Boxed

LEMMA VolumeFits ==
  ASSUME NEW d, NEW n \in Stores PROVE Drill!S("volume", n, {}) \in Fitting(d)
<1>1. Drill!S("volume", n, {}) \in AnyStep
  BY DEF AnyStep, Drill!S, Kinds, Drill!Made
<1> QED BY <1>1 DEF Fitting, Fits, Drill!S, Boxed

LEMMA BoxFits ==
  ASSUME NEW d, NEW k \in Boxed, NEW n \in Boxes, NEW u \in SUBSET Stores, u # {} => k # "job"
  PROVE  Drill!S(k, n, u) \in Fitting(d)
<1>1. Drill!S(k, n, u) \in AnyStep
  BY DEF AnyStep, Drill!S, Kinds, Drill!Made, Boxed
<1> QED BY <1>1 DEF Fitting, Fits, Drill!S, Boxed

LEMMA ProductionFits == Drill!ProductionPlan \in Seq(Fitting("production"))
<1>1. Drill!S("container", "test", {}) \in Fitting("production")
  BY BoxFits DEF Boxed, Boxes, Stores
<1> QED BY <1>1, CheckFits DEF Drill!ProductionPlan

\* Long sequences of elements of F.
LEMMA Ten ==
  ASSUME NEW F, NEW s1 \in F, NEW s2 \in F, NEW s3 \in F, NEW s4 \in F, NEW s5 \in F,
         NEW s6 \in F, NEW s7 \in F, NEW s8 \in F, NEW s9 \in F, NEW s10 \in F
  PROVE  <<s1, s2, s3, s4, s5, s6, s7, s8, s9, s10>> \in Seq(F)
  OBVIOUS

LEMMA Twelve ==
  ASSUME NEW F, NEW s1 \in F, NEW s2 \in F, NEW s3 \in F, NEW s4 \in F, NEW s5 \in F,
         NEW s6 \in F, NEW s7 \in F, NEW s8 \in F, NEW s9 \in F, NEW s10 \in F,
         NEW s11 \in F, NEW s12 \in F
  PROVE  <<s1, s2, s3, s4, s5, s6, s7, s8, s9, s10, s11, s12>> \in Seq(F)
  OBVIOUS

LEMMA RecoveryFits == Drill!RecoveryPlan \in Seq(Fitting("recovery"))
<1>1. /\ Drill!S("volume", "data", {}) \in Fitting("recovery")
      /\ Drill!S("volume", "repository", {}) \in Fitting("recovery")
      /\ Drill!S("volume", "restored", {}) \in Fitting("recovery")
  BY VolumeFits DEF Stores
<1>2. Drill!S("container", "primary", {"data", "repository"}) \in Fitting("recovery")
  BY BoxFits DEF Boxed, Boxes, Stores
<1>3. Drill!S("anonymous", "restore", {"restored", "repository"}) \in Fitting("recovery")
  BY BoxFits DEF Boxed, Boxes, Stores
<1>4. Drill!S("container", "copy", {"restored", "repository"}) \in Fitting("recovery")
  BY BoxFits DEF Boxed, Boxes, Stores
<1>5. Drill!S("secrets", "", {}) \in Fitting("recovery") /\ Drill!Check \in Fitting("recovery")
  BY OtherFits, CheckFits
<1> QED BY <1>1, <1>2, <1>3, <1>4, <1>5, Ten, Zenon DEF Drill!RecoveryPlan

LEMMA MonitoringFits == \A d : Drill!Monitoring \in Seq(Fitting(d))
<1> TAKE d
<1>1. \A n \in {"receiver", "alertmanager", "blackbox", "prometheus"} :
        Drill!S("container", n, {}) \in Fitting(d)
  BY BoxFits DEF Boxed, Boxes, Stores
<1> QED BY <1>1, CheckFits DEF Drill!Monitoring

Opening ==
  <<Drill!S("network", "network", {}), Drill!S("secrets", "", {}),
    Drill!S("container", "ledger", {}), Drill!S("volume", "data", {}),
    Drill!S("container", "postgres", {"data"}), Drill!Check, Drill!Job("migration"),
    Drill!S("container", "retrieval", {}), Drill!S("volume", "caddy", {}),
    Drill!S("container", "web", {"caddy"}), Drill!S("container", "api", {}), Drill!Check>>

LEMMA OpeningFits == ASSUME NEW d \in Ops PROVE Opening \in Seq(Fitting(d))
<1>1. \A n \in {"ledger", "retrieval", "api"} : Drill!S("container", n, {}) \in Fitting(d)
  BY BoxFits DEF Boxed, Boxes, Stores
<1>2. /\ Drill!S("container", "ledger", {}) \in Fitting(d)
      /\ Drill!S("container", "retrieval", {}) \in Fitting(d)
      /\ Drill!S("container", "api", {}) \in Fitting(d)
  BY <1>1
<1>3. Drill!S("container", "postgres", {"data"}) \in Fitting(d)
  BY BoxFits DEF Boxed, Boxes, Stores
<1>4. Drill!S("container", "web", {"caddy"}) \in Fitting(d)
  BY BoxFits DEF Boxed, Boxes, Stores
<1>5. Drill!Job("migration") \in Fitting(d)
  BY BoxFits DEF Boxed, Boxes, Stores, Drill!Job
<1>6. Drill!S("volume", "data", {}) \in Fitting(d) /\ Drill!S("volume", "caddy", {}) \in Fitting(d)
  BY VolumeFits DEF Stores
<1>7. /\ Drill!S("secrets", "", {}) \in Fitting(d) /\ Drill!Check \in Fitting(d)
      /\ Drill!S("network", "network", {}) \in Fitting(d)
  BY OtherFits, CheckFits, NetworkFits
<1> QED BY <1>2, <1>3, <1>4, <1>5, <1>6, <1>7, Twelve, Zenon DEF Opening

LEMMA OperationsOpen ==
  /\ \A m : Drill!OperationsPlan(m) = Opening \o m \o <<Drill!Check, Drill!Check>>
  /\ Len(Opening) = 12 /\ Opening[1] = Drill!S("network", "network", {})
  BY DEF Drill!OperationsPlan, Opening

LEMMA OperationsFits ==
  ASSUME NEW d \in Ops, NEW m \in Seq(Fitting(d)) PROVE Drill!OperationsPlan(m) \in Seq(Fitting(d))
<1>1. \A F : \A c \in F : <<c, c>> \in Seq(F)
  OBVIOUS
<1>2. <<Drill!Check, Drill!Check>> \in Seq(Fitting(d))
  BY <1>1, CheckFits, Zenon
<1>3. \A F : \A s, t, u \in Seq(F) : s \o t \o u \in Seq(F)
  OBVIOUS
<1> QED BY <1>2, <1>3, OpeningFits, OperationsOpen, Zenon

\* What a drill does but for its report.
Work(d) == CASE d = "operations" -> Drill!OperationsPlan(<<>>)
             [] d = "monitored"  -> Drill!OperationsPlan(Drill!Monitoring)
             [] d = "recovery"   -> Drill!RecoveryPlan
             [] d = "production" -> Drill!ProductionPlan

LEMMA WorkFits == ASSUME NEW d \in Drill!Drills PROVE Work(d) \in Seq(Fitting(d))
<1>1. CASE d = "operations"
  <2>1. d \in Ops /\ <<>> \in Seq(Fitting(d))
    BY <1>1 DEF Ops
  <2>2. Drill!OperationsPlan(<<>>) \in Seq(Fitting(d))
    BY <2>1, OperationsFits
  <2> QED BY <1>1, <2>2 DEF Work
<1>2. CASE d = "monitored"
  <2>1. d \in Ops /\ Drill!Monitoring \in Seq(Fitting(d))
    BY <1>2, MonitoringFits DEF Ops
  <2>2. Drill!OperationsPlan(Drill!Monitoring) \in Seq(Fitting(d))
    BY <2>1, OperationsFits
  <2> QED BY <1>2, <2>2 DEF Work
<1>3. CASE d = "recovery"
  BY <1>3, RecoveryFits DEF Work
<1>4. CASE d = "production"
  BY <1>4, ProductionFits DEF Work
<1> QED BY <1>1, <1>2, <1>3, <1>4 DEF Drill!Drills

\* A drill's steps fit it, and its report is its last one.
LEMMA PlanFits ==
  ASSUME NEW d \in Drill!Drills
  PROVE  /\ Len(Drill!Plan(d)) \in Nat /\ DOMAIN Drill!Plan(d) = 1 .. Len(Drill!Plan(d))
         /\ \A i \in 1 .. Len(Drill!Plan(d)) :
              LET s == Drill!Plan(d)[i] IN
              /\ s.kind \in Kinds /\ s.uses \subseteq Stores /\ Fits(s, d)
              /\ s.kind = "report" => i = Len(Drill!Plan(d))
<1> DEFINE p == Work(d)
<1>1. p \in Seq(Fitting(d))
  BY WorkFits
<1>2. Drill!Plan(d) = p \o <<Report>>
  BY DEF Drill!Plan, Work, Report
<1>3. Report.kind = "report" /\ Report.uses = {} /\ Fits(Report, d) /\ Report.kind \in Kinds
  BY DEF Report, Drill!S, Fits, Kinds, Boxed
<1>4. \A s \in Fitting(d) : s.kind \in Kinds /\ s.kind # "report" /\ s.uses \subseteq Stores /\ Fits(s, d)
  BY DEF Fitting, AnyStep
<1> HIDE DEF p
<1>5. /\ Len(p \o <<Report>>) = Len(p) + 1 /\ DOMAIN (p \o <<Report>>) = 1 .. Len(p) + 1
      /\ \A i \in 1 .. Len(p) : (p \o <<Report>>)[i] = p[i] /\ p[i] \in Fitting(d)
      /\ (p \o <<Report>>)[Len(p) + 1] = Report /\ Len(p) \in Nat
  BY <1>1
<1> QED BY <1>2, <1>3, <1>4, <1>5

LEMMA ConcatFacts ==
  ASSUME NEW F, NEW s \in Seq(F), NEW u \in Seq(F)
  PROVE  (\A i \in 1 .. Len(s) : (s \o u)[i] = s[i]) /\ Len(s \o u) = Len(s) + Len(u)
  OBVIOUS

LEMMA OpeningHead ==
  ASSUME NEW F, NEW c \in F, NEW s \in Seq(F), Len(s) = 12
  PROVE  (s \o <<>> \o <<c, c>>)[1] = s[1] /\ Len(s \o <<>> \o <<c, c>>) = 14
<1> DEFINE u == <<c, c>>
<1>1. s \o <<>> = s /\ u \in Seq(F) /\ Len(u) = 2
  OBVIOUS
<1> HIDE DEF u
<1>2. (\A i \in 1 .. Len(s) : (s \o u)[i] = s[i]) /\ Len(s \o u) = Len(s) + Len(u)
  BY <1>1, ConcatFacts
<1>3. (s \o u)[1] = s[1] /\ Len(s \o u) = 14
  BY <1>1, <1>2
<1> QED BY <1>1, <1>3, Zenon DEF u

\* Every name that a step makes, and every name that is noted at the beginning.
LEMMA NamesMade ==
  ASSUME NEW d \in Drill!Drills, NEW i \in 1 .. Len(Drill!Plan(d)),
         Drill!Plan(d)[i].kind \in Drill!Made
  PROVE  Drill!Plan(d)[i].name \in Drill!Names
<1>1. Drill!Plan(d)[i] \in Drill!ToSet(Drill!Plan(d))
  BY PlanFits DEF Drill!ToSet
<1> QED BY <1>1 DEF Drill!Names, Drill!Steps

LEMMA WorkIsPlanned ==
  ASSUME NEW d \in Drill!Drills, NEW i \in 1 .. Len(Work(d)), Work(d)[i].kind \in Drill!Made
  PROVE  Work(d)[i].name \in Drill!Names
<1>1. Work(d) \in Seq(Fitting(d)) /\ Drill!Plan(d) = Work(d) \o <<Report>>
  BY WorkFits DEF Drill!Plan, Work, Report
<1>2. Drill!Plan(d)[i] = Work(d)[i] /\ i \in 1 .. Len(Drill!Plan(d))
  BY <1>1
<1> QED BY <1>2, NamesMade

LEMMA NotedNames ==
  ASSUME NEW d \in Drill!Drills
  PROVE  /\ Drill!Noted(d).containers \in Seq(Drill!Names \ Stores)
         /\ Drill!Noted(d).volumes \in Seq(Drill!Names \cap Stores)
         /\ Drill!Noted(d).networks \in Seq(Drill!Names \cap Stores)
         /\ d \in Ops => "network" \in Drill!ToSet(Drill!Noted(d).networks)
<1>1. "test" \in Drill!Names
  <2>1. /\ Work("production") = Drill!ProductionPlan /\ 1 \in 1 .. Len(Drill!ProductionPlan)
        /\ Drill!ProductionPlan[1] = Drill!S("container", "test", {})
    BY DEF Work, Drill!ProductionPlan
  <2>2. Drill!S("container", "test", {}).name = "test"
        /\ Drill!S("container", "test", {}).kind \in Drill!Made /\ "production" \in Drill!Drills
    BY DEF Drill!S, Drill!Made, Drill!Drills
  <2> QED BY <2>1, <2>2, WorkIsPlanned
<1>2. {"data", "repository", "restored"} \subseteq Drill!Names
  <2>1. /\ Work("recovery") = Drill!RecoveryPlan /\ Len(Drill!RecoveryPlan) = 10
        /\ Drill!RecoveryPlan[2] = Drill!S("volume", "data", {})
        /\ Drill!RecoveryPlan[3] = Drill!S("volume", "repository", {})
        /\ Drill!RecoveryPlan[4] = Drill!S("volume", "restored", {})
    BY DEF Work, Drill!RecoveryPlan
  <2>2. \A n : Drill!S("volume", n, {}).name = n /\ Drill!S("volume", n, {}).kind \in Drill!Made
    BY DEF Drill!S, Drill!Made
  <2>3. "recovery" \in Drill!Drills /\ 2 \in 1 .. 10 /\ 3 \in 1 .. 10 /\ 4 \in 1 .. 10
    BY DEF Drill!Drills
  <2> QED BY <2>1, <2>2, <2>3, WorkIsPlanned
<1>3. "network" \in Drill!Names
  <2> DEFINE p == Drill!OperationsPlan(<<>>)
  <2>1. Work("operations") = p /\ Len(p) >= 1 /\ p[1] = Drill!S("network", "network", {})
        /\ Len(p) \in Nat
    <3>1. Opening \in Seq(Fitting("operations"))
      BY OpeningFits DEF Ops
    <3>2. p = Opening \o <<>> \o <<Drill!Check, Drill!Check>>
      BY OperationsOpen
    <3>4. p[1] = Opening[1] /\ Len(p) = 14
      BY <3>1, <3>2, OpeningHead, OperationsOpen, CheckFits, Zenon
    <3>5. Work("operations") = p
      BY DEF Work
    <3> HIDE DEF p
    <3> QED BY <3>4, <3>5, OperationsOpen
  <2>2. Drill!S("network", "network", {}).name = "network"
        /\ Drill!S("network", "network", {}).kind \in Drill!Made /\ "operations" \in Drill!Drills
    BY DEF Drill!S, Drill!Made, Drill!Drills
  <2> HIDE DEF p
  <2>3. 1 \in 1 .. Len(Work("operations"))
    BY <2>1
  <2> QED BY <2>1, <2>2, <2>3, WorkIsPlanned
<1>4. Drill!Noted(d).containers \in Seq(Drill!Names \ Stores)
  <2>1. Drill!Noted(d).containers = IF d = "production" THEN <<"test">> ELSE <<>>
    BY DEF Drill!Noted
  <2>2. "test" \in Drill!Names \ Stores
    BY <1>1 DEF Stores
  <2>3. \A F : \A n \in F : <<n>> \in Seq(F)
    OBVIOUS
  <2>4. \A F : <<>> \in Seq(F)
    OBVIOUS
  <2> QED BY <2>1, <2>2, <2>3, <2>4, Zenon
<1>5. Drill!Noted(d).volumes \in Seq(Drill!Names \cap Stores)
  BY <1>2 DEF Drill!Noted, Stores
<1>6. Drill!Noted(d).networks \in Seq(Drill!Names \cap Stores)
  <2>1. Drill!Noted(d).networks = IF d \in Ops THEN <<"network">> ELSE <<>>
    BY DEF Drill!Noted, Ops
  <2>2. "network" \in Drill!Names \cap Stores
    BY <1>3 DEF Stores
  <2>3. \A F : \A n \in F : <<n>> \in Seq(F)
    OBVIOUS
  <2>4. \A F : <<>> \in Seq(F)
    OBVIOUS
  <2> QED BY <2>1, <2>2, <2>3, <2>4, Zenon
<1>7. d \in Ops => "network" \in Drill!ToSet(Drill!Noted(d).networks)
  BY DEF Drill!Noted, Drill!ToSet, Ops
<1> QED BY <1>4, <1>5, <1>6, <1>7

\* The lists of a drill, containers apart from what they hold on to.
Listing(lists) ==
  /\ lists.containers \in Seq(Drill!Names \ Stores)
  /\ lists.volumes \in Seq(Drill!Names \cap Stores)
  /\ lists.networks \in Seq(Drill!Names \cap Stores)
  /\ lists \in [containers : Seq(Drill!Names), volumes : Seq(Drill!Names),
                networks : Seq(Drill!Names)]
  /\ drill \in Ops => "network" \in Drill!ToSet(lists.networks)

\* Containers are removed before anything they may hold on to.
Ordered(names) ==
  /\ names \in Seq(Drill!Names)
  /\ \A i, j \in 1 .. Len(names) : i < j /\ names[i] \in Stores => names[j] \in Stores

\* A drill has noted all that it has made but what a failed command left; what
\* it will not remove any more was lost or is in use.
Accounted ==
  \A n \in Drill!Names : docker[n] = "mine" /\ n \notin lost =>
    /\ phase = "running" => n \in Drill!Known(tracked)
    /\ phase \in {"cleaning", "over"} =>
         n \in Drill!ToSet(todo) \/ (Drill!InUse(n) /\ Drill!ToSet(todo) \subseteq Stores)

DrillInv ==
  /\ step \in 1 .. Len(Drill!Plan(drill)) + 1
  /\ phase \in {"running", "cleaning", "over", "killed"}
  /\ docker \in [Drill!Names -> {"none", "mine", "foreign"}]
  /\ drill = "production" => \A n \in Drill!Names : docker[n] # "foreign"
  /\ lost \subseteq Drill!Names
  /\ secrets \in BOOLEAN /\ report \in BOOLEAN /\ broken \in BOOLEAN /\ faulty \in 0 .. MaxBroken
  /\ phase = "over" => ~secrets /\ todo = <<>>
  /\ phase = "running" => ~broken
  /\ report => ~broken /\ step = Len(Drill!Plan(drill)) + 1
  /\ drill \in Drill!Drills /\ Listing(tracked) /\ Ordered(todo) /\ Accounted

LEMMA InitDrill == DrillInstances /\ Drill!Init => DrillInv
<1> SUFFICES ASSUME DrillInstances, Drill!Init PROVE DrillInv
  OBVIOUS
<1>1. /\ drill \in Drill!Drills /\ step = 1 /\ phase = "running" /\ tracked = Drill!Noted(drill)
      /\ todo = <<>> /\ lost = {} /\ faulty = 0
      /\ secrets = FALSE /\ report = FALSE /\ broken = FALSE
  BY DEF Drill!Init
<1>2. PICK f \in {{}} \cup IF drill = "production" THEN {}
                        ELSE {{n} : n \in Drill!NamesOf(drill, Drill!Made \ {"anonymous"})} :
       docker = [n \in Drill!Names |-> IF n \in f THEN "foreign" ELSE "none"]
  BY DEF Drill!Init
<1>3. drill = "production" => f = {}
  BY <1>2
<1>4. /\ docker \in [Drill!Names -> {"none", "mine", "foreign"}]
      /\ drill = "production" => \A n \in Drill!Names : docker[n] # "foreign"
      /\ \A n \in Drill!Names : docker[n] # "mine"
  BY <1>2, <1>3
<1>5. Listing(tracked)
  <2>1. tracked = Drill!Noted(drill)
    BY <1>1
  <2>2. /\ tracked.containers \in Seq(Drill!Names \ Stores)
        /\ tracked.volumes \in Seq(Drill!Names \cap Stores)
        /\ tracked.networks \in Seq(Drill!Names \cap Stores)
        /\ drill \in Ops => "network" \in Drill!ToSet(tracked.networks)
    BY <1>1, <2>1, NotedNames
  <2>3. \A F, G : Seq(F \ G) \subseteq Seq(F) /\ Seq(F \cap G) \subseteq Seq(F)
    OBVIOUS
  <2>4. tracked = [containers |-> tracked.containers, volumes |-> tracked.volumes,
                   networks |-> tracked.networks]
    BY <2>1 DEF Drill!Noted
  <2>5. tracked \in [containers : Seq(Drill!Names), volumes : Seq(Drill!Names),
                    networks : Seq(Drill!Names)]
    BY <2>2, <2>3, <2>4
  <2> QED BY <1>1, <2>2, <2>5 DEF Listing
<1>6. Ordered(todo)
  BY <1>1 DEF Ordered
<1>7. Accounted
  BY <1>4 DEF Accounted
<1>8. step \in 1 .. Len(Drill!Plan(drill)) + 1
  BY <1>1, PlanFits
<1>9. faulty \in 0 .. MaxBroken
  BY <1>1 DEF DrillInstances
<1> QED BY <1>1, <1>4, <1>5, <1>6, <1>7, <1>8, <1>9 DEF DrillInv

LEMMA SetOfConcat ==
  ASSUME NEW F, NEW s \in Seq(F), NEW u \in Seq(F)
  PROVE  Drill!ToSet(s \o u) = Drill!ToSet(s) \cup Drill!ToSet(u)
<1>1. /\ s \o u \in Seq(F) /\ Len(s \o u) = Len(s) + Len(u) /\ Len(s) \in Nat /\ Len(u) \in Nat
      /\ DOMAIN s = 1 .. Len(s) /\ DOMAIN u = 1 .. Len(u) /\ DOMAIN (s \o u) = 1 .. Len(s) + Len(u)
      /\ \A i \in 1 .. Len(s) : (s \o u)[i] = s[i]
      /\ \A i \in Len(s) + 1 .. Len(s) + Len(u) : (s \o u)[i] = u[i - Len(s)]
  OBVIOUS
<1>2. ASSUME NEW i \in DOMAIN (s \o u)
      PROVE  (s \o u)[i] \in Drill!ToSet(s) \cup Drill!ToSet(u)
  <2>1. CASE i <= Len(s)
    BY <1>1, <2>1 DEF Drill!ToSet
  <2>2. CASE i > Len(s)
    <3>1. i - Len(s) \in DOMAIN u /\ (s \o u)[i] = u[i - Len(s)]
      BY <1>1, <2>2
    <3> QED BY <3>1 DEF Drill!ToSet
  <2> QED BY <1>1, <2>1, <2>2
<1>3. ASSUME NEW i \in DOMAIN s PROVE s[i] \in Drill!ToSet(s \o u)
  <2>1. i \in DOMAIN (s \o u) /\ (s \o u)[i] = s[i]
    BY <1>1
  <2> QED BY <2>1 DEF Drill!ToSet
<1>4. ASSUME NEW i \in DOMAIN u PROVE u[i] \in Drill!ToSet(s \o u)
  <2>1. i + Len(s) \in DOMAIN (s \o u) /\ (s \o u)[i + Len(s)] = u[i]
    BY <1>1
  <2> QED BY <2>1, Zenon DEF Drill!ToSet
<1> QED BY <1>2, <1>3, <1>4 DEF Drill!ToSet

LEMMA SetOfReverse ==
  ASSUME NEW F, NEW s \in Seq(F)
  PROVE  Drill!Reverse(s) \in Seq(F) /\ Drill!ToSet(Drill!Reverse(s)) = Drill!ToSet(s)
<1> DEFINE v == Drill!Reverse(s)
<1>1. /\ Len(s) \in Nat /\ DOMAIN s = 1 .. Len(s) /\ v = [i \in 1 .. Len(s) |-> s[(Len(s) - i) + 1]]
  BY DEF Drill!Reverse
<1>2. \A i \in 1 .. Len(s) : (Len(s) - i) + 1 \in 1 .. Len(s)
  BY <1>1
<1>3. DOMAIN v = 1 .. Len(s) /\ \A i \in 1 .. Len(s) : v[i] = s[(Len(s) - i) + 1] /\ v[i] \in F
  BY <1>1, <1>2
<1>4. v \in Seq(F)
  BY <1>1, <1>3
<1> HIDE DEF v
<1>5. ASSUME NEW i \in 1 .. Len(s) PROVE s[i] \in Drill!ToSet(v)
  <2>1. (Len(s) - i) + 1 \in 1 .. Len(s) /\ v[(Len(s) - i) + 1] = s[i]
    BY <1>1, <1>3
  <2> QED BY <1>3, <2>1, Zenon DEF Drill!ToSet
<1>6. ASSUME NEW i \in 1 .. Len(s) PROVE v[i] \in Drill!ToSet(s)
  BY <1>1, <1>2, <1>3, ZenonT(30) DEF Drill!ToSet
<1>7. Drill!ToSet(v) = Drill!ToSet(s)
  BY <1>1, <1>3, <1>5, <1>6, ZenonT(30) DEF Drill!ToSet
<1> QED BY <1>4, <1>7 DEF v

LEMMA SetOfWith ==
  ASSUME NEW F, NEW s \in Seq(F), NEW x \in F
  PROVE  /\ Drill!With(s, x) \in Seq(F)
         /\ Drill!ToSet(Drill!With(s, x)) = Drill!ToSet(s) \cup {x}
<1>1. CASE x \in Drill!ToSet(s)
  BY <1>1 DEF Drill!With
<1>2. CASE x \notin Drill!ToSet(s)
  <2>1. Drill!With(s, x) = s \o <<x>> /\ <<x>> \in Seq(F)
    BY <1>2 DEF Drill!With
  <2>2. Drill!ToSet(<<x>>) = {x}
    <3>1. DOMAIN <<x>> = {1} /\ <<x>>[1] = x
      OBVIOUS
    <3> DEFINE t == <<x>>
    <3> HIDE DEF t
    <3>2. DOMAIN t = {1} /\ t[1] = x
      BY <3>1 DEF t
    <3>3. Drill!ToSet(t) = {x}
      BY <3>2, Zenon DEF Drill!ToSet
    <3> QED BY <3>3 DEF t
  <2>3. Drill!ToSet(s \o <<x>>) = Drill!ToSet(s) \cup Drill!ToSet(<<x>>)
    BY <2>1, SetOfConcat, ZenonT(30)
  <2>4. s \o <<x>> \in Seq(F)
    BY <2>1
  <2> QED BY <2>1, <2>2, <2>3, <2>4, Zenon
<1> QED BY <1>1, <1>2

\* The step a drill is at.
LEMMA CurrentFits ==
  ASSUME drill \in Drill!Drills, step \in 1 .. Len(Drill!Plan(drill)) + 1,
         step <= Len(Drill!Plan(drill))
  PROVE  /\ Fits(Drill!Current, drill) /\ Drill!Current.uses \subseteq Stores
         /\ Drill!Current.kind = "report" => step = Len(Drill!Plan(drill))
         /\ Drill!Current.kind \in Drill!Made => Drill!Current.name \in Drill!Names
         /\ step \in 1 .. Len(Drill!Plan(drill)) /\ Len(Drill!Plan(drill)) \in Nat
<1>1. Len(Drill!Plan(drill)) \in Nat /\ step \in 1 .. Len(Drill!Plan(drill))
  BY PlanFits
<1>2. Drill!Current = Drill!Plan(drill)[step]
  BY DEF Drill!Current
<1> QED BY <1>1, <1>2, PlanFits, NamesMade

LEMMA BoxesAreNoStores == Boxes \cap Stores = {}
  BY DEF Boxes, Stores

\* What is noted, and what of it a step adds.
LEMMA NoteKept ==
  ASSUME NEW lists, Listing(lists), NEW s, NEW done \in BOOLEAN, Fits(s, drill),
         s.kind \in Drill!Made => s.name \in Drill!Names,
         NEW noted, noted = Drill!Note(lists, s, done)
  PROVE  /\ Listing(noted) /\ Drill!Known(lists) \subseteq Drill!Known(noted)
         /\ s.kind \in {"container", "job", "network"} => s.name \in Drill!Known(noted)
         /\ s.kind = "volume" /\ done => s.name \in Drill!Known(noted)
<1>1. CASE s.kind \in {"container", "job"}
  <2> DEFINE c == Drill!With(lists.containers, s.name)
  <2>1. s.name \in Drill!Names \ Stores /\ s.name \in Drill!Names
    BY <1>1, BoxesAreNoStores DEF Fits, Boxed, Drill!Made
  <2>2. /\ c \in Seq(Drill!Names \ Stores) /\ c \in Seq(Drill!Names)
        /\ Drill!ToSet(c) = Drill!ToSet(lists.containers) \cup {s.name}
    BY <2>1, SetOfWith DEF Listing
  <2>3. noted = [lists EXCEPT !.containers = c]
    BY <1>1 DEF Drill!Note
  <2> HIDE DEF c
  <2>4. /\ noted.containers = c /\ noted.volumes = lists.volumes
        /\ noted.networks = lists.networks
        /\ noted \in [containers : Seq(Drill!Names), volumes : Seq(Drill!Names),
                         networks : Seq(Drill!Names)]
    BY <2>2, <2>3 DEF Listing
  <2>5. Listing(noted)
    BY <2>2, <2>4 DEF Listing
  <2> QED BY <1>1, <2>2, <2>4, <2>5 DEF Drill!Known
<1>2. CASE s.kind = "volume" /\ done
  <2> DEFINE c == Drill!With(lists.volumes, s.name)
  <2>1. s.name \in Drill!Names \cap Stores /\ s.name \in Drill!Names
    BY <1>2 DEF Fits, Drill!Made
  <2>2. /\ c \in Seq(Drill!Names \cap Stores) /\ c \in Seq(Drill!Names)
        /\ Drill!ToSet(c) = Drill!ToSet(lists.volumes) \cup {s.name}
    BY <2>1, SetOfWith DEF Listing
  <2>3. noted = [lists EXCEPT !.volumes = c]
    BY <1>2 DEF Drill!Note
  <2> HIDE DEF c
  <2>4. /\ noted.volumes = c /\ noted.containers = lists.containers
        /\ noted.networks = lists.networks
        /\ noted \in [containers : Seq(Drill!Names), volumes : Seq(Drill!Names),
                         networks : Seq(Drill!Names)]
    BY <2>2, <2>3 DEF Listing
  <2>5. Listing(noted)
    BY <2>2, <2>4 DEF Listing
  <2> QED BY <1>2, <2>2, <2>4, <2>5 DEF Drill!Known
<1>3. CASE s.kind \notin {"container", "job"} /\ ~ (s.kind = "volume" /\ done)
  <2>1. noted = lists
    BY <1>3 DEF Drill!Note
  <2>2. Listing(noted)
    BY <2>1 DEF Listing
  <2>3. s.kind = "network" => s.name \in Drill!Known(lists)
    BY DEF Fits, Listing, Drill!Known
  <2> QED BY <1>3, <2>1, <2>2, <2>3
<1> QED BY <1>1, <1>2, <1>3

\* The order of removal.
LEMMA OrderKept ==
  ASSUME NEW lists, Listing(lists), NEW names, names = Drill!Order(lists)
  PROVE  Ordered(names) /\ Drill!ToSet(names) = Drill!Known(lists)
<1> DEFINE c == IF drill = "recovery" THEN lists.containers ELSE Drill!Reverse(lists.containers)
           v == lists.volumes
           w == lists.networks
<1>1. /\ c \in Seq(Drill!Names \ Stores) /\ Drill!ToSet(c) = Drill!ToSet(lists.containers)
      /\ v \in Seq(Drill!Names \cap Stores) /\ w \in Seq(Drill!Names \cap Stores)
  BY SetOfReverse DEF Listing
<1>2. names = c \o v \o w
  BY DEF Drill!Order
<1>3. Drill!Known(lists) = Drill!ToSet(c) \cup Drill!ToSet(v) \cup Drill!ToSet(w)
  BY <1>1 DEF Drill!Known
<1> HIDE DEF c, v, w
<1>4. c \in Seq(Drill!Names) /\ v \in Seq(Drill!Names) /\ w \in Seq(Drill!Names)
  BY <1>1
<1>5. c \o v \o w = c \o (v \o w) /\ v \o w \in Seq(Drill!Names \cap Stores)
      /\ v \o w \in Seq(Drill!Names) /\ c \o (v \o w) \in Seq(Drill!Names)
  BY <1>1, <1>4
<1>6. Drill!ToSet(names) = Drill!Known(lists)
  <2>1. Drill!ToSet(v \o w) = Drill!ToSet(v) \cup Drill!ToSet(w)
    BY <1>4, SetOfConcat
  <2> DEFINE u == v \o w
  <2>2. u \in Seq(Drill!Names) /\ names = c \o u /\ Drill!ToSet(u) = Drill!ToSet(v) \cup Drill!ToSet(w)
    BY <1>2, <1>5, <2>1
  <2> HIDE DEF u
  <2>3. Drill!ToSet(c \o u) = Drill!ToSet(c) \cup Drill!ToSet(u)
    BY <1>4, <2>2, SetOfConcat
  <2> QED BY <1>3, <2>2, <2>3, Zenon
<1>7. ASSUME NEW i \in 1 .. Len(names), NEW j \in 1 .. Len(names), i < j, names[i] \in Stores
      PROVE  names[j] \in Stores
  <2> DEFINE u == v \o w
  <2>1. names = c \o u /\ u \in Seq(Drill!Names \cap Stores)
    BY <1>2, <1>5
  <2> HIDE DEF u
  <2>2. Len(c) \in Nat /\ Len(u) \in Nat /\ Len(names) = Len(c) + Len(u)
    BY <1>1, <2>1
  <2>3. i > Len(c)
    <3> SUFFICES ASSUME i <= Len(c) PROVE FALSE
      BY <2>2
    <3>1. names[i] = c[i] /\ i \in 1 .. Len(c)
      BY <1>1, <2>1, <2>2
    <3> QED BY <1>1, <1>7, <3>1
  <2>4. j - Len(c) \in 1 .. Len(u) /\ names[j] = u[j - Len(c)]
    BY <1>1, <1>7, <2>1, <2>2, <2>3
  <2> QED BY <2>1, <2>4
<1> QED BY <1>2, <1>5, <1>6, <1>7 DEF Ordered

\* What is in use is what containers hold on to, and stays so with them.
LEMMA UsesStores ==
  ASSUME drill \in Drill!Drills, NEW n, Drill!InUse(n)
  PROVE  n \in Stores /\ \E c \in Drill!Names \ Stores : docker[c] = "mine"
<1>1. CASE n = "network" /\ \E c \in Drill!NamesOf(drill, {"container", "job"}) : docker[c] = "mine"
  <2>1. PICK i \in 1 .. Len(Drill!Plan(drill)) :
          Drill!Plan(drill)[i].kind \in {"container", "job"} /\ docker[Drill!Plan(drill)[i].name] = "mine"
    BY <1>1, PlanFits DEF Drill!NamesOf, Drill!ToSet
  <2>2. Drill!Plan(drill)[i].name \in Drill!Names \ Stores
    BY <2>1, PlanFits, NamesMade, BoxesAreNoStores DEF Fits, Boxed, Drill!Made
  <2> QED BY <1>1, <2>1, <2>2 DEF Stores
<1>2. CASE \E s \in Drill!ToSet(Drill!Plan(drill)) : n \in s.uses /\ docker[s.name] = "mine"
  <2>1. PICK i \in 1 .. Len(Drill!Plan(drill)) :
          n \in Drill!Plan(drill)[i].uses /\ docker[Drill!Plan(drill)[i].name] = "mine"
    BY <1>2, PlanFits DEF Drill!ToSet
  <2>2. n \in Stores /\ Drill!Plan(drill)[i].kind \in {"container", "anonymous"}
    BY <2>1, PlanFits DEF Fits
  <2>3. Drill!Plan(drill)[i].name \in Drill!Names \ Stores
    BY <2>2, PlanFits, NamesMade, BoxesAreNoStores DEF Fits, Boxed, Drill!Made
  <2> QED BY <2>1, <2>2, <2>3
<1> QED BY <1>1, <1>2 DEF Drill!InUse

LEMMA UseKept ==
  ASSUME drill \in Drill!Drills, drill' = drill, NEW n, Drill!InUse(n),
         \A c \in Drill!Names \ Stores : docker[c] = "mine" => docker'[c] = "mine"
  PROVE  Drill!InUse(n)'
<1>1. CASE n = "network" /\ \E c \in Drill!NamesOf(drill, {"container", "job"}) : docker[c] = "mine"
  <2>1. PICK c \in Drill!NamesOf(drill, {"container", "job"}) : docker[c] = "mine"
    BY <1>1
  <2>2. PICK i \in 1 .. Len(Drill!Plan(drill)) :
          Drill!Plan(drill)[i].kind \in {"container", "job"} /\ Drill!Plan(drill)[i].name = c
    BY PlanFits DEF Drill!NamesOf, Drill!ToSet
  <2>3. c \in Drill!Names \ Stores
    BY <2>2, PlanFits, NamesMade, BoxesAreNoStores DEF Fits, Boxed, Drill!Made
  <2>4. c \in Drill!NamesOf(drill', {"container", "job"}) /\ docker'[c] = "mine"
    BY <2>1, <2>3
  <2> QED BY <1>1, <2>4 DEF Drill!InUse
<1>2. CASE \E s \in Drill!ToSet(Drill!Plan(drill)) : n \in s.uses /\ docker[s.name] = "mine"
  <2>1. PICK i \in 1 .. Len(Drill!Plan(drill)) :
          n \in Drill!Plan(drill)[i].uses /\ docker[Drill!Plan(drill)[i].name] = "mine"
    BY <1>2, PlanFits DEF Drill!ToSet
  <2>2. Drill!Plan(drill)[i].kind \in {"container", "anonymous"}
    BY <2>1, PlanFits DEF Fits
  <2>3. Drill!Plan(drill)[i].name \in Drill!Names \ Stores
    BY <2>2, PlanFits, NamesMade, BoxesAreNoStores DEF Fits, Boxed, Drill!Made
  <2>4. Drill!Plan(drill)[i] \in Drill!ToSet(Drill!Plan(drill'))
    BY PlanFits DEF Drill!ToSet
  <2>5. docker'[Drill!Plan(drill)[i].name] = "mine"
    BY <2>1, <2>3
  <2> QED BY <2>1, <2>4, <2>5 DEF Drill!InUse
<1> QED BY <1>1, <1>2 DEF Drill!InUse

\* The steps of a drill.
LEMMA NextDrill == DrillInstances /\ DrillInv /\ [Drill!Next]_Drill!vars => DrillInv'
<1> SUFFICES ASSUME DrillInstances, DrillInv, [Drill!Next]_Drill!vars PROVE DrillInv'
  OBVIOUS
<1> DEFINE c == Drill!Current
           n == Len(Drill!Plan(drill))
<1>i. /\ drill \in Drill!Drills /\ step \in 1 .. n + 1 /\ n \in Nat /\ MaxBroken \in Nat
      /\ docker \in [Drill!Names -> {"none", "mine", "foreign"}]
      /\ drill = "production" => \A x \in Drill!Names : docker[x] # "foreign"
      /\ lost \subseteq Drill!Names /\ faulty \in 0 .. MaxBroken
      /\ secrets \in BOOLEAN /\ report \in BOOLEAN /\ broken \in BOOLEAN
      /\ phase = "running" => ~broken
      /\ report => ~broken /\ step = n + 1
      /\ drill \in Drill!Drills /\ Listing(tracked) /\ Ordered(todo) /\ Accounted
  BY PlanFits DEF DrillInv, DrillInstances
<1>c. step <= n => /\ Fits(c, drill) /\ (c.kind = "report" => step = n)
                   /\ (c.kind \in Drill!Made => c.name \in Drill!Names)
  BY <1>i, CurrentFits
<1>made. /\ Drill!Created(c) \in [Drill!Names -> {"none", "mine", "foreign"}]
         /\ \A x \in Drill!Names : Drill!Created(c)[x] # docker[x] =>
              docker[x] = "none" /\ Drill!Created(c)[x] = "mine" /\ x = c.name /\ c.kind \in Drill!Made
  BY <1>i DEF Drill!Created
<1>plan. Len(Drill!Plan(drill)) = n
  OBVIOUS
<1> HIDE DEF c, n
\* The lists as they are, and as the present step leaves them.
<1>quiet. drill' = drill /\ tracked' = tracked => Listing(tracked)'
  BY <1>i DEF Listing
<1>noted. ASSUME NEW done \in BOOLEAN, step <= n, drill' = drill,
                 tracked' = Drill!Note(tracked, c, done)
          PROVE  /\ Listing(tracked)' /\ Listing(tracked')
                 /\ Drill!Known(tracked) \subseteq Drill!Known(tracked')
                 /\ c.kind \in {"container", "job", "network"} => c.name \in Drill!Known(tracked')
                 /\ c.kind = "volume" /\ done => c.name \in Drill!Known(tracked')
  <2>1. /\ Listing(tracked') /\ Drill!Known(tracked) \subseteq Drill!Known(tracked')
        /\ c.kind \in {"container", "job", "network"} => c.name \in Drill!Known(tracked')
        /\ c.kind = "volume" /\ done => c.name \in Drill!Known(tracked')
    BY <1>i, <1>c, <1>noted, NoteKept
  <2> QED BY <1>noted, <2>1 DEF Listing
\* The finally block begins with every made resource among its names.
<1>leave. ASSUME drill' = drill, Listing(tracked'), phase' = "cleaning", todo' = Drill!Order(tracked'),
                 \A x \in Drill!Names : docker'[x] = "mine" => x \in Drill!Known(tracked') \cup lost'
          PROVE  Ordered(todo)' /\ Accounted'
  <2>1. Ordered(todo') /\ Drill!ToSet(todo') = Drill!Known(tracked')
    BY <1>leave, OrderKept
  <2>2. Ordered(todo)'
    BY <2>1 DEF Ordered
  <2>3. Accounted'
    BY <1>leave, <2>1 DEF Accounted, Drill!Known, Drill!ToSet
  <2> QED BY <2>2, <2>3
<1>1. CASE Drill!Proceed
  <2>1. /\ phase = "running" /\ step <= n /\ step' = step + 1
        /\ tracked' = Drill!Note(tracked, c, TRUE)
        /\ docker' = IF c.kind = "anonymous" THEN docker ELSE Drill!Created(c)
        /\ secrets' \in BOOLEAN /\ report' = (report \/ c.kind = "report")
        /\ UNCHANGED <<drill, phase, todo, broken, lost, faulty>>
    BY <1>1 DEF Drill!Proceed, c, n
  <2>2. /\ docker' \in [Drill!Names -> {"none", "mine", "foreign"}]
        /\ \A x \in Drill!Names : docker'[x] # docker[x] =>
              /\ docker[x] = "none" /\ docker'[x] = "mine" /\ x = c.name
              /\ c.kind \in {"network", "volume", "container", "job"}
    <3>1. CASE c.kind = "anonymous"
      BY <1>i, <2>1, <3>1
    <3>2. CASE c.kind # "anonymous"
      BY <1>made, <2>1, <3>2 DEF Drill!Made
    <3> QED BY <3>1, <3>2
  <2>3. /\ Listing(tracked)' /\ Drill!Known(tracked) \subseteq Drill!Known(tracked')
        /\ c.kind \in {"container", "job", "network", "volume"} => c.name \in Drill!Known(tracked')
    BY <1>noted, <2>1
  <2>4. Accounted'
    <3> SUFFICES ASSUME NEW x \in Drill!Names, docker'[x] = "mine", x \notin lost
                 PROVE  x \in Drill!Known(tracked')
      BY <2>1 DEF Accounted, Drill!Known, Drill!ToSet, Drill!Names
    <3>1. CASE docker'[x] = docker[x]
      BY <1>i, <2>1, <2>3, <3>1 DEF Accounted
    <3>2. CASE docker'[x] # docker[x]
      BY <2>2, <2>3, <3>2
    <3> QED BY <3>1, <3>2
  <2>5. step' \in 1 .. Len(Drill!Plan(drill')) + 1
    BY <1>i, <1>plan, <2>1
  <2>6. report' => ~broken' /\ step' = Len(Drill!Plan(drill')) + 1
    <3>1. report = FALSE
      BY <1>i, <2>1
    <3> QED BY <1>i, <1>c, <1>plan, <2>1, <3>1
  <2>7. /\ drill' = "production" => \A x \in Drill!Names : docker'[x] # "foreign"
        /\ Ordered(todo)'
    BY <1>i, <2>1, <2>2 DEF Ordered
  <2> QED BY <1>i, <2>1, <2>2, <2>3, <2>4, <2>5, <2>6, <2>7 DEF DrillInv, Drill!Names
<1>2. CASE Drill!Failed
  <2>1. /\ phase = "running" /\ step <= n /\ faulty' \in 0 .. MaxBroken
        /\ broken' = TRUE /\ tracked' = Drill!Note(tracked, c, FALSE) /\ phase' = "cleaning"
        /\ todo' = Drill!Order(tracked') /\ secrets' \in BOOLEAN
        /\ \/ UNCHANGED <<docker, lost>>
           \/ /\ c.kind \in Drill!Made /\ docker' = Drill!Created(c)
              /\ lost' = IF docker' # docker /\ c.name \notin Drill!Known(tracked')
                         THEN lost \cup {c.name} ELSE lost
        /\ UNCHANGED <<drill, step, report>>
    <3>1. /\ phase = "running" /\ step <= n /\ broken' = TRUE
          /\ tracked' = Drill!Note(tracked, c, FALSE) /\ Drill!Leave
          /\ \/ UNCHANGED faulty
             \/ faulty < MaxBroken /\ faulty' = faulty + 1
          /\ \/ UNCHANGED <<docker, lost>>
             \/ /\ c.kind \in Drill!Made /\ docker' = Drill!Created(c)
                /\ lost' = IF docker' # docker /\ c.name \notin Drill!Known(tracked')
                           THEN lost \cup {c.name} ELSE lost
          /\ UNCHANGED <<drill, step, report>>
      BY <1>2, Zenon DEF Drill!Failed, c, n
    <3>2. faulty' \in 0 .. MaxBroken
      BY <1>i, <3>1
    <3>3. phase' = "cleaning" /\ todo' = Drill!Order(tracked') /\ secrets' \in BOOLEAN
      BY <3>1 DEF Drill!Leave
    <3> QED BY <3>1, <3>2, <3>3
  <2>2. /\ docker' \in [Drill!Names -> {"none", "mine", "foreign"}]
        /\ \A x \in Drill!Names : docker'[x] # docker[x] =>
              docker[x] = "none" /\ docker'[x] = "mine" /\ x \in Drill!Known(tracked') \cup lost'
        /\ lost \subseteq lost' /\ lost' \subseteq Drill!Names
    <3>1. CASE UNCHANGED <<docker, lost>>
      BY <1>i, <3>1
    <3>2. CASE /\ c.kind \in Drill!Made /\ docker' = Drill!Created(c)
               /\ lost' = IF docker' # docker /\ c.name \notin Drill!Known(tracked')
                          THEN lost \cup {c.name} ELSE lost
      BY <1>i, <1>c, <1>made, <2>1, <3>2
    <3> QED BY <2>1, <3>1, <3>2
  <2>3. /\ Listing(tracked)' /\ Listing(tracked')
        /\ Drill!Known(tracked) \subseteq Drill!Known(tracked')
    BY <1>noted, <2>1
  <2>4. ASSUME NEW x \in Drill!Names, docker'[x] = "mine"
        PROVE  x \in Drill!Known(tracked') \cup lost'
    <3>1. CASE docker'[x] = docker[x]
      BY <1>i, <2>1, <2>2, <2>3, <2>4, <3>1 DEF Accounted
    <3>2. CASE docker'[x] # docker[x]
      BY <2>2, <3>2
    <3> QED BY <3>1, <3>2
  <2>5. Ordered(todo)' /\ Accounted'
    BY <1>leave, <2>1, <2>3, <2>4
  <2>6. report = FALSE
    BY <1>i, <2>1
  <2>7. drill' = "production" => \A x \in Drill!Names : docker'[x] # "foreign"
    BY <1>i, <2>1, <2>2
  <2> QED BY <1>i, <1>plan, <2>1, <2>2, <2>3, <2>5, <2>6, <2>7 DEF DrillInv, Drill!Names
<1>3. CASE Drill!Finish
  <2>1. /\ phase = "running" /\ step = n + 1 /\ tracked' = tracked /\ phase' = "cleaning"
        /\ todo' = Drill!Order(tracked') /\ secrets' \in BOOLEAN
        /\ UNCHANGED <<drill, step, docker, report, broken, lost, faulty>>
    BY <1>i, <1>3 DEF Drill!Finish, Drill!Leave, n
  <2>2. \A x \in Drill!Names : docker'[x] = "mine" => x \in Drill!Known(tracked') \cup lost'
    BY <1>i, <2>1 DEF Accounted
  <2>3. Listing(tracked)' /\ Listing(tracked')
    BY <1>i, <1>quiet, <2>1
  <2>4. Ordered(todo)' /\ Accounted'
    BY <1>leave, <2>1, <2>2, <2>3
  <2> QED BY <1>i, <1>plan, <2>1, <2>3, <2>4 DEF DrillInv, Drill!Names
\* A removal takes the first name from the list, and may take the resource.
<1>tail. ASSUME todo # <<>>, todo' = Tail(todo)
         PROVE  /\ Ordered(todo)' /\ Head(todo) \in Drill!Names
                /\ Drill!ToSet(todo) = {Head(todo)} \cup Drill!ToSet(todo')
                /\ Head(todo) \in Stores => Drill!ToSet(todo') \subseteq Stores
  <2>1. /\ todo \in Seq(Drill!Names) /\ Len(todo) \in Nat /\ Len(todo) >= 1
        /\ Head(todo) = todo[1] /\ todo' \in Seq(Drill!Names) /\ Len(todo') = Len(todo) - 1
        /\ \A i \in 1 .. Len(todo') : todo'[i] = todo[i + 1]
        /\ DOMAIN todo = 1 .. Len(todo) /\ DOMAIN todo' = 1 .. Len(todo')
    BY <1>i, <1>tail DEF Ordered
  <2>2. \A i, j \in 1 .. Len(todo) : i < j /\ todo[i] \in Stores => todo[j] \in Stores
    BY <1>i DEF Ordered
  <2>3. \A i \in 1 .. Len(todo') : i + 1 \in 1 .. Len(todo) /\ 1 < i + 1
    BY <2>1
  <2>4. ASSUME NEW i \in 1 .. Len(todo'), NEW j \in 1 .. Len(todo'), i < j, todo'[i] \in Stores
        PROVE  todo'[j] \in Stores
    <3>1. i + 1 < j + 1 /\ todo[i + 1] \in Stores
      BY <2>1, <2>4
    <3> QED BY <2>1, <2>2, <2>3, <3>1
  <2>5. Drill!ToSet(todo) = {Head(todo)} \cup Drill!ToSet(todo')
    <3>1. ASSUME NEW i \in 1 .. Len(todo) PROVE todo[i] \in {Head(todo)} \cup Drill!ToSet(todo')
      <4>1. CASE i = 1
        BY <2>1, <4>1
      <4>2. CASE i # 1
        <5>1. i - 1 \in 1 .. Len(todo') /\ todo'[i - 1] = todo[i]
          BY <2>1, <4>2
        <5> QED BY <2>1, <5>1, Zenon DEF Drill!ToSet
      <4> QED BY <4>1, <4>2
    <3>2. ASSUME NEW i \in 1 .. Len(todo') PROVE todo'[i] \in Drill!ToSet(todo)
      BY <2>1, <2>3 DEF Drill!ToSet
    <3>3. Head(todo) \in Drill!ToSet(todo)
      BY <2>1 DEF Drill!ToSet
    <3> QED BY <2>1, <3>1, <3>2, <3>3 DEF Drill!ToSet
  <2>6. Head(todo) \in Stores => Drill!ToSet(todo') \subseteq Stores
    <3> SUFFICES ASSUME todo[1] \in Stores, NEW i \in 1 .. Len(todo') PROVE todo'[i] \in Stores
      BY <2>1 DEF Drill!ToSet
    <3>1. 1 \in 1 .. Len(todo)
      BY <2>1
    <3> QED BY <2>1, <2>2, <2>3, <3>1
  <2>7. Ordered(todo)'
    BY <2>1, <2>4 DEF Ordered
  <2> QED BY <2>1, <2>5, <2>6, <2>7
<1>4. CASE Drill!Clean
  <2> DEFINE h == Head(todo)
  <2>1. /\ phase = "cleaning" /\ todo # <<>> /\ todo' = Tail(todo)
        /\ docker' = IF Drill!Owned(h) /\ ~Drill!InUse(h) THEN [docker EXCEPT ![h] = "none"] ELSE docker
        /\ UNCHANGED <<drill, step, phase, tracked, secrets, report, broken, lost, faulty>>
    BY <1>4 DEF Drill!Clean
  <2>2. /\ Ordered(todo)' /\ h \in Drill!Names
        /\ Drill!ToSet(todo) = {h} \cup Drill!ToSet(todo')
        /\ h \in Stores => Drill!ToSet(todo') \subseteq Stores
    BY <1>tail, <2>1
  <2> HIDE DEF h
  <2>3. /\ docker' \in [Drill!Names -> {"none", "mine", "foreign"}]
        /\ \A x \in Drill!Names : x # h => docker'[x] = docker[x]
        /\ docker'[h] = docker[h] \/ docker'[h] = "none"
        /\ docker'[h] = "mine" => docker[h] = "mine" /\ Drill!InUse(h)
    <3>1. docker[h] = "mine" => Drill!Owned(h)
      BY DEF Drill!Owned
    <3>2. CASE Drill!Owned(h) /\ ~Drill!InUse(h)
      BY <1>i, <2>1, <2>2, <3>2
    <3>3. CASE ~ (Drill!Owned(h) /\ ~Drill!InUse(h))
      BY <1>i, <2>1, <2>2, <3>1, <3>3
    <3> QED BY <3>2, <3>3
  <2>4. ASSUME NEW x \in Drill!Names, docker'[x] = "mine", x \notin lost
        PROVE  x \in Drill!ToSet(todo') \/ (Drill!InUse(x)' /\ Drill!ToSet(todo') \subseteq Stores)
    <3>1. CASE x = h
      <4>1. Drill!InUse(x) /\ x \in Stores
        BY <1>i, <2>3, <2>4, <3>1, UsesStores
      <4>2. \A y \in Drill!Names \ Stores : docker[y] = "mine" => docker'[y] = "mine"
        BY <2>3, <3>1, <4>1
      <4>3. Drill!InUse(x)'
        BY <1>i, <2>1, <4>1, <4>2, UseKept
      <4> QED BY <2>2, <3>1, <4>1, <4>3
    <3>2. CASE x # h /\ x \in Drill!ToSet(todo)
      BY <2>2, <3>2
    <3>3. CASE x # h /\ x \notin Drill!ToSet(todo)
      <4>1. docker[x] = "mine"
        BY <2>3, <2>4, <3>3
      <4>2. Drill!InUse(x) /\ Drill!ToSet(todo) \subseteq Stores
        BY <1>i, <2>1, <2>4, <3>3, <4>1 DEF Accounted
      <4>3. \A y \in Drill!Names \ Stores : docker[y] = "mine" => docker'[y] = "mine"
        BY <2>2, <2>3, <4>2
      <4>4. Drill!InUse(x)'
        BY <1>i, <2>1, <4>2, <4>3, UseKept
      <4> QED BY <2>2, <4>2, <4>4
    <3> QED BY <3>1, <3>2, <3>3
  <2>5. Accounted'
    BY <2>1, <2>4 DEF Accounted, Drill!ToSet, Drill!Names
  <2>6. drill' = "production" => \A x \in Drill!Names : docker'[x] # "foreign"
    BY <1>i, <2>1, <2>3
  <2> QED BY <1>i, <1>plan, <1>quiet, <2>1, <2>2, <2>3, <2>5, <2>6 DEF DrillInv, Drill!Names
<1>5. CASE Drill!CleanFails
  <2> DEFINE h == Head(todo)
  <2>1. /\ phase = "cleaning" /\ todo # <<>> /\ todo' = Tail(todo) /\ lost' = lost \cup {h}
        /\ faulty' \in 0 .. MaxBroken
        /\ UNCHANGED <<drill, step, phase, docker, tracked, secrets, report, broken>>
    BY <1>i, <1>5 DEF Drill!CleanFails
  <2>2. /\ Ordered(todo)' /\ h \in Drill!Names
        /\ Drill!ToSet(todo) = {h} \cup Drill!ToSet(todo')
    BY <1>tail, <2>1
  <2> HIDE DEF h
  <2>3. ASSUME NEW x \in Drill!Names, docker'[x] = "mine", x \notin lost'
        PROVE  x \in Drill!ToSet(todo') \/ (Drill!InUse(x)' /\ Drill!ToSet(todo') \subseteq Stores)
    <3>1. x # h /\ x \notin lost /\ docker[x] = "mine"
      BY <2>1, <2>3
    <3>2. CASE x \in Drill!ToSet(todo)
      BY <2>2, <3>1, <3>2
    <3>3. CASE x \notin Drill!ToSet(todo)
      <4>1. Drill!InUse(x) /\ Drill!ToSet(todo) \subseteq Stores
        BY <1>i, <2>1, <3>1, <3>3 DEF Accounted
      <4>2. Drill!InUse(x)'
        BY <1>i, <2>1, <4>1, UseKept
      <4> QED BY <2>2, <4>1, <4>2
    <3> QED BY <3>2, <3>3
  <2>4. Accounted'
    BY <2>1, <2>3 DEF Accounted, Drill!ToSet, Drill!Names
  <2> QED BY <1>i, <1>plan, <1>quiet, <2>1, <2>2, <2>4 DEF DrillInv, Drill!Names
<1>6. CASE Drill!CleanRaises
  <2>1. /\ phase = "cleaning" /\ todo' = <<>> /\ lost' = lost \cup Drill!ToSet(todo)
        /\ faulty' \in 0 .. MaxBroken
        /\ UNCHANGED <<drill, step, phase, docker, tracked, secrets, report, broken>>
    BY <1>i, <1>6 DEF Drill!CleanRaises
  <2>2. Ordered(todo)' /\ Drill!ToSet(todo') = {} /\ Drill!ToSet(todo) \subseteq Drill!Names
    BY <1>i, <2>1 DEF Ordered, Drill!ToSet
  <2>3. ASSUME NEW x \in Drill!Names, docker'[x] = "mine", x \notin lost'
        PROVE  Drill!InUse(x)' /\ Drill!ToSet(todo') \subseteq Stores
    <3>1. x \notin Drill!ToSet(todo) /\ x \notin lost /\ docker[x] = "mine"
      BY <2>1, <2>3
    <3>2. Drill!InUse(x)
      BY <1>i, <2>1, <3>1 DEF Accounted
    <3> QED BY <1>i, <2>1, <2>2, <3>2, UseKept
  <2>4. Accounted'
    BY <2>1, <2>3 DEF Accounted, Drill!ToSet, Drill!Names
  <2> QED BY <1>i, <1>plan, <1>quiet, <2>1, <2>2, <2>4 DEF DrillInv, Drill!Names
<1>7. CASE Drill!End \/ Drill!Kill \/ UNCHANGED Drill!vars
  <2>1. /\ phase' \in {"running", "cleaning", "over", "killed"}
        /\ phase' = "running" => phase = "running"
        /\ phase' \in {"cleaning", "over"} => phase \in {"cleaning", "over"}
        /\ phase' = "over" => ~secrets' /\ todo = <<>>
        /\ secrets' \in BOOLEAN
        /\ UNCHANGED <<drill, step, docker, tracked, todo, report, broken, lost, faulty>>
    <3>1. phase = "over" => ~secrets /\ todo = <<>>
      BY DEF DrillInv
    <3>2. phase \in {"running", "cleaning", "over", "killed"}
      BY DEF DrillInv
    <3>3. CASE Drill!End
      BY <3>3 DEF Drill!End
    <3>4. CASE Drill!Kill
      BY <1>i, <3>4 DEF Drill!Kill
    <3>5. CASE UNCHANGED Drill!vars
      <4>1. UNCHANGED <<drill, step, phase, docker, tracked, todo, secrets, report, broken, lost, faulty>>
        BY <3>5 DEF Drill!vars
      <4> QED BY <1>i, <3>1, <3>2, <4>1
    <3> QED BY <1>7, <3>3, <3>4, <3>5
  <2>2. Accounted'
    <3>1. \A x : Drill!InUse(x) => Drill!InUse(x)'
      BY <1>i, <2>1, UseKept
    <3> QED BY <1>i, <2>1, <3>1 DEF Accounted, Drill!Known, Drill!ToSet, Drill!Names
  <2>3. Ordered(todo)'
    BY <1>i, <2>1 DEF Ordered
  <2> QED BY <1>i, <1>plan, <1>quiet, <2>1, <2>2, <2>3 DEF DrillInv, Drill!Names
<1> QED BY <1>1, <1>2, <1>3, <1>4, <1>5, <1>6, <1>7 DEF Drill!Next

LEMMA DrillIsHonest ==
  DrillInv => Drill!TypeOK /\ Drill!LeavesNothing /\ Drill!ReportMeansPassed
<1> SUFFICES ASSUME DrillInv PROVE Drill!TypeOK /\ Drill!LeavesNothing /\ Drill!ReportMeansPassed
  OBVIOUS
<1>1. Drill!TypeOK
  BY DEF DrillInv, Listing, Ordered, Drill!TypeOK
<1>2. Drill!LeavesNothing
  BY DEF DrillInv, Accounted, Drill!ToSet, Drill!LeavesNothing
<1>3. Drill!ReportMeansPassed
  BY DEF DrillInv, Drill!ReportMeansPassed
<1> QED BY <1>1, <1>2, <1>3

LEMMA DrillSpares ==
  ASSUME DrillInv, [Drill!Next]_Drill!vars
  PROVE  \A n \in Drill!Names : docker[n] = "foreign" => docker'[n] = "foreign"
<1> SUFFICES ASSUME NEW n \in Drill!Names, docker[n] = "foreign" PROVE docker'[n] = "foreign"
  OBVIOUS
<1>1. docker \in [Drill!Names -> {"none", "mine", "foreign"}] /\ drill # "production"
  BY DEF DrillInv
<1>2. \A s : Drill!Created(s)[n] = "foreign"
  BY <1>1 DEF Drill!Created
<1>3. CASE Drill!Clean
  <2>1. ~Drill!Owned(n)
    BY <1>1 DEF Drill!Owned
  <2>2. \/ docker' = docker
        \/ docker' = [docker EXCEPT ![Head(todo)] = "none"] /\ Drill!Owned(Head(todo))
    BY <1>3 DEF Drill!Clean
  <2> QED BY <1>1, <2>1, <2>2
<1>4. CASE Drill!Proceed \/ Drill!Failed
  <2>1. docker' = docker \/ \E s : docker' = Drill!Created(s)
    BY <1>4 DEF Drill!Proceed, Drill!Failed
  <2> QED BY <1>2, <2>1
<1>5. CASE \/ Drill!Finish \/ Drill!CleanFails \/ Drill!CleanRaises \/ Drill!End \/ Drill!Kill
           \/ UNCHANGED Drill!vars
  BY <1>5 DEF Drill!Finish, Drill!CleanFails, Drill!CleanRaises, Drill!End, Drill!Kill, Drill!vars
<1> QED BY <1>3, <1>4, <1>5 DEF Drill!Next

-----------------------------------------------------------------------------
(* The restart under observation *)

States == {"up", "down", "starting"}
Samples == [first : {"none", "ok", "bad"}, last : {"none", "ok", "bad"},
            failures : 0 .. MaxProbes, number : 0 .. MaxProbes]

\* What the present answer is worth: one that was asked for after the restart was
\* noted and is good shows the revived component.
Worth ==
  /\ main \in {"healthy?", "kill", "failed?", "note"} => ~restarting
  /\ main \in {"failed?", "note", "start"} => component = "down"
  /\ restarting /\ component = "up" => revived
  /\ probe \in {"asking", "setting"} /\ sent.after => restarting
  /\ probe \in {"asking", "setting"} /\ sent.after /\ "up" \in sent.seen => revived
  /\ probe = "setting" /\ status = "ok" => "up" \in sent.seen

ProbesInv ==
  /\ Probes!TypeOK
  /\ samples.failures <= samples.number
  /\ probe = "asking" => samples.number < MaxProbes
  /\ Worth
  /\ Probes!RecoveryIsReal
  /\ main \in {"stop", "join", "assert"} /\ observed = "none" => revived
  /\ main = "assert" /\ observed = "none" => probe = "ended"
  /\ observed = "passed" => main = "over" /\ Probes!SamplesFinal

LEMMA InitProbes == ProbesInstances /\ Probes!Init => ProbesInv
<1> SUFFICES ASSUME ProbesInstances, Probes!Init PROVE ProbesInv
  OBVIOUS
<1>1. /\ component = "up" /\ noise = 0 /\ main = "healthy?" /\ restarting = FALSE
      /\ probe = "idle" /\ sent = [after |-> FALSE, seen |-> {}] /\ status = "none"
      /\ samples = [first |-> "none", last |-> "none", failures |-> 0, number |-> 0]
      /\ events = {} /\ stop = FALSE /\ revived = FALSE /\ observed = "none"
  BY DEF Probes!Init, Probes!NoSamples
<1>2. samples \in Samples /\ samples.failures <= samples.number
  BY <1>1 DEF Samples, ProbesInstances
<1>3. sent \in [after : BOOLEAN, seen : SUBSET States]
  BY <1>1
<1>b. restarting \in BOOLEAN /\ stop \in BOOLEAN /\ revived \in BOOLEAN
  BY <1>1, Zenon
<1>4. Probes!TypeOK
  BY <1>1, <1>2, <1>3, <1>b DEF Probes!TypeOK, Probes!Mains, Samples, States, ProbesInstances
<1> QED BY <1>1, <1>2, <1>4 DEF ProbesInv, Worth, Probes!RecoveryIsReal

LEMMA NextProbes == ProbesInstances /\ ProbesInv /\ [Probes!Next]_Probes!vars => ProbesInv'
<1> SUFFICES ASSUME ProbesInstances, ProbesInv, [Probes!Next]_Probes!vars PROVE ProbesInv'
  OBVIOUS
<1>i. /\ component \in States /\ noise \in 0 .. MaxNoise /\ MaxNoise \in Nat /\ MaxProbes \in Nat
      /\ main \in Probes!Mains /\ restarting \in BOOLEAN /\ stop \in BOOLEAN /\ revived \in BOOLEAN
      /\ probe \in {"idle", "asking", "setting", "ended"}
      /\ sent \in [after : BOOLEAN, seen : SUBSET States]
      /\ status \in {"none", "ok", "bad"} /\ samples \in Samples
      /\ events \subseteq {"healthy", "failed", "recovered"}
      /\ observed \in {"none", "passed", "failed"}
      /\ samples.failures <= samples.number /\ (probe = "asking" => samples.number < MaxProbes)
      /\ Worth /\ ("recovered" \in events => revived)
      /\ (main \in {"stop", "join", "assert"} /\ observed = "none" => revived)
      /\ (main = "assert" /\ observed = "none" => probe = "ended")
      /\ (observed = "passed" => main = "over" /\ probe = "ended" /\ samples.last = "ok" /\ revived)
  BY DEF ProbesInv, Probes!TypeOK, Samples, States, ProbesInstances, Probes!RecoveryIsReal,
     Probes!SamplesFinal
<1> DEFINE Kept ==
      /\ component \in States /\ noise \in 0 .. MaxNoise
      /\ main \in Probes!Mains /\ restarting \in BOOLEAN /\ stop \in BOOLEAN /\ revived \in BOOLEAN
      /\ probe \in {"idle", "asking", "setting", "ended"}
      /\ sent \in [after : BOOLEAN, seen : SUBSET States]
      /\ status \in {"none", "ok", "bad"} /\ samples \in Samples
      /\ events \subseteq {"healthy", "failed", "recovered"}
      /\ observed \in {"none", "passed", "failed"}
      /\ samples.failures <= samples.number /\ (probe = "asking" => samples.number < MaxProbes)
      /\ Worth /\ ("recovered" \in events => revived)
      /\ (main \in {"stop", "join", "assert"} /\ observed = "none" => revived)
      /\ (main = "assert" /\ observed = "none" => probe = "ended")
      /\ (observed = "passed" => main = "over" /\ probe = "ended" /\ samples.last = "ok" /\ revived)
<1> SUFFICES Kept'
  BY DEF ProbesInv, Probes!TypeOK, Samples, States, ProbesInstances, Probes!RecoveryIsReal,
     Probes!SamplesFinal, Probes!Mains
\* A change of the component reaches a probe that is under way.
<1>b. ASSUME NEW s \in States, Probes!Becomes(s)
      PROVE  /\ component' = s /\ sent' \in [after : BOOLEAN, seen : SUBSET States]
             /\ sent'.after = sent.after
             /\ sent'.seen \subseteq sent.seen \cup {s} /\ sent.seen \subseteq sent'.seen
             /\ probe # "asking" => sent'.seen = sent.seen
  BY <1>i, <1>b DEF Probes!Becomes
<1>1. CASE Probes!ComesUp
  <2>1. /\ component = "starting" /\ Probes!Becomes("up") /\ revived' = TRUE
        /\ UNCHANGED <<noise, main, restarting, probe, status, samples, events, stop, observed>>
    BY <1>1 DEF Probes!ComesUp
  <2>2. /\ component' = "up" /\ sent' \in [after : BOOLEAN, seen : SUBSET States]
        /\ sent'.after = sent.after /\ sent.seen \subseteq sent'.seen
    BY <1>b, <2>1 DEF States
  <2>3. Worth'
    BY <1>i, <2>1, <2>2 DEF Worth
  <2> QED BY <1>i, <2>1, <2>2, <2>3 DEF Samples, States, Probes!Mains
<1>2. CASE Probes!Ask
  <2>1. /\ probe = "idle" /\ samples.number < MaxProbes
        /\ probe' = "asking" /\ sent' = [after |-> restarting, seen |-> {component}]
        /\ UNCHANGED <<component, noise, main, restarting, status, samples, events, stop, revived,
                       observed>>
    BY <1>2 DEF Probes!Ask
  <2>2. Worth'
    BY <1>i, <2>1 DEF Worth
  <2> QED BY <1>i, <2>1, <2>2 DEF Samples, Probes!Mains
<1>3. ASSUME NEW st \in {"ok", "bad"}, Probes!Answer(st) PROVE Kept'
  <2>1. /\ probe = "asking" /\ (st = "ok" => "up" \in sent.seen)
        /\ noise' = noise \/ (noise < MaxNoise /\ noise' = noise + 1)
        /\ status' = st /\ probe' = "setting"
        /\ samples' = [first |-> IF samples.number = 0 THEN st ELSE samples.first, last |-> st,
                       failures |-> samples.failures + (IF st = "bad" THEN 1 ELSE 0),
                       number |-> samples.number + 1]
        /\ UNCHANGED <<component, main, restarting, sent, events, stop, revived, observed>>
    BY <1>3 DEF Probes!Answer
  <2>2. noise' \in 0 .. MaxNoise
    BY <1>i, <2>1
  <2>3. samples' \in Samples /\ samples'.failures <= samples'.number
    BY <1>i, <2>1 DEF Samples
  <2>4. Worth'
    BY <1>i, <2>1 DEF Worth
  <2>5. observed # "passed"
    BY <1>i, <2>1
  <2> QED BY <1>i, <2>1, <2>2, <2>3, <2>4, <2>5 DEF Samples, Probes!Mains
<1>4. CASE Probes!Set
  <2>1. /\ probe = "setting" /\ probe' = "idle" /\ events' = events \cup Probes!Sets
        /\ UNCHANGED <<component, noise, main, restarting, sent, status, samples, stop, revived,
                       observed>>
    BY <1>4 DEF Probes!Set
  <2>2. /\ Probes!Sets \subseteq {"healthy", "failed", "recovered"}
        /\ "recovered" \in Probes!Sets => status = "ok" /\ restarting /\ sent.after
    BY DEF Probes!Sets
  <2>3. "recovered" \in events' => revived
    BY <1>i, <2>1, <2>2 DEF Worth
  <2>4. Worth'
    BY <1>i, <2>1 DEF Worth
  <2> QED BY <1>i, <2>1, <2>2, <2>3, <2>4 DEF Samples, Probes!Mains
<1>5. CASE Probes!Ends
  <2>1. /\ probe = "idle" /\ stop /\ probe' = "ended"
        /\ UNCHANGED <<component, noise, main, restarting, sent, status, samples, events, stop,
                       revived, observed>>
    BY <1>5 DEF Probes!Ends
  <2>2. Worth'
    BY <1>i, <2>1 DEF Worth
  <2> QED BY <1>i, <2>1, <2>2 DEF Samples, Probes!Mains
<1>6. CASE Probes!KillIt
  <2>1. /\ main = "kill" /\ main' = "failed?" /\ Probes!Becomes("down")
        /\ UNCHANGED <<noise, restarting, probe, status, samples, events, stop, revived, observed>>
    BY <1>6 DEF Probes!KillIt
  <2>2. /\ component' = "down" /\ sent' \in [after : BOOLEAN, seen : SUBSET States]
        /\ sent'.after = sent.after /\ sent.seen \subseteq sent'.seen
        /\ sent'.seen \subseteq sent.seen \cup {"down"}
    BY <1>b, <2>1 DEF States
  <2>3. Worth'
    BY <1>i, <2>1, <2>2 DEF Worth
  <2> QED BY <1>i, <2>1, <2>2, <2>3 DEF Samples, States, Probes!Mains
<1>7. CASE Probes!StartIt
  <2>1. /\ main = "start" /\ main' = "recovered?" /\ Probes!Becomes("starting")
        /\ UNCHANGED <<noise, restarting, probe, status, samples, events, stop, revived, observed>>
    BY <1>7 DEF Probes!StartIt
  <2>2. /\ component' = "starting" /\ sent' \in [after : BOOLEAN, seen : SUBSET States]
        /\ sent'.after = sent.after /\ sent.seen \subseteq sent'.seen
        /\ sent'.seen \subseteq sent.seen \cup {"starting"}
    BY <1>b, <2>1 DEF States
  <2>3. Worth'
    BY <1>i, <2>1, <2>2 DEF Worth
  <2> QED BY <1>i, <2>1, <2>2, <2>3 DEF Samples, States, Probes!Mains
\* The other steps of the main thread.
<1>8. ASSUME UNCHANGED <<component, noise, probe, sent, status, samples, events, revived>>,
             main' \in Probes!Mains, restarting' \in BOOLEAN, stop' \in BOOLEAN,
             observed' \in {"none", "passed", "failed"}, Worth',
             main' \in {"stop", "join", "assert"} /\ observed' = "none" => revived,
             main' = "assert" /\ observed' = "none" => probe = "ended",
             observed' = "passed" => main' = "over" /\ probe = "ended" /\ samples.last = "ok" /\ revived
      PROVE  Kept'
  BY <1>i, <1>8 DEF Samples, Probes!Mains
<1>9. ASSUME Probes!Waits("healthy?", "healthy", "kill") \/ Probes!Waits("failed?", "failed", "note")
             \/ Probes!Waits("recovered?", "recovered", "stop")
      PROVE  Kept'
  <2>1. /\ \/ main = "healthy?" /\ main' = "kill"
           \/ main = "failed?" /\ main' = "note"
           \/ main = "recovered?" /\ main' = "stop" /\ "recovered" \in events
        /\ UNCHANGED <<component, noise, restarting, probe, sent, status, samples, events, stop,
                       revived, observed>>
    BY <1>9 DEF Probes!Waits
  <2>2. Worth'
    BY <1>i, <2>1 DEF Worth
  <2> QED BY <1>i, <1>8, <2>1, <2>2 DEF Probes!Mains
<1>10. CASE Probes!Fails
  <2>1. /\ main \in {"healthy?", "failed?", "recovered?", "kill", "note", "start"}
        /\ main' = "stop" /\ observed' = "failed"
        /\ UNCHANGED <<component, noise, restarting, probe, sent, status, samples, events, stop,
                       revived>>
    BY <1>10 DEF Probes!Fails
  <2>2. Worth'
    BY <1>i, <2>1 DEF Worth
  <2> QED BY <1>i, <1>8, <2>1, <2>2 DEF Probes!Mains
<1>11. CASE Probes!NoteRestart
  <2>1. /\ main = "note" /\ main' = "start" /\ restarting' = TRUE
        /\ UNCHANGED <<component, noise, probe, sent, status, samples, events, stop, revived, observed>>
    BY <1>11 DEF Probes!NoteRestart
  <2>2. Worth'
    BY <1>i, <2>1 DEF Worth
  <2> QED BY <1>i, <1>8, <2>1, <2>2 DEF Probes!Mains
<1>12. CASE Probes!StopProbes
  <2>1. /\ main = "stop" /\ main' = "join" /\ stop' = TRUE
        /\ UNCHANGED <<component, noise, restarting, probe, sent, status, samples, events, revived,
                       observed>>
    BY <1>12 DEF Probes!StopProbes
  <2>2. Worth'
    BY <1>i, <2>1 DEF Worth
  <2> QED BY <1>i, <1>8, <2>1, <2>2 DEF Probes!Mains
<1>13. CASE Probes!Join
  <2>1. /\ main = "join" /\ main' = "assert"
        /\ observed' = IF probe = "ended" THEN observed ELSE "failed"
        /\ UNCHANGED <<component, noise, restarting, probe, sent, status, samples, events, stop,
                       revived>>
    BY <1>13 DEF Probes!Join
  <2>2. Worth'
    BY <1>i, <2>1 DEF Worth
  <2> QED BY <1>i, <1>8, <2>1, <2>2 DEF Probes!Mains
<1>14. CASE Probes!Assert
  <2>1. /\ main = "assert" /\ main' = "over"
        /\ observed' \in {"passed", "failed"}
        /\ observed' = "passed" => observed = "none" /\ samples.last = "ok"
        /\ UNCHANGED <<component, noise, restarting, probe, sent, status, samples, events, stop,
                       revived>>
    BY <1>14 DEF Probes!Assert
  <2>2. Worth'
    BY <1>i, <2>1 DEF Worth
  <2> QED BY <1>i, <1>8, <2>1, <2>2 DEF Probes!Mains
<1>15. CASE UNCHANGED Probes!vars
  <2>1. UNCHANGED <<component, noise, main, restarting, probe, sent, status, samples, events, stop,
                    revived, observed>>
    BY <1>15 DEF Probes!vars
  <2>2. Worth'
    BY <1>i, <2>1 DEF Worth
  <2> QED BY <1>i, <1>8, <2>1, <2>2
<1> QED BY <1>1, <1>2, <1>3, <1>4, <1>5, <1>6, <1>7, <1>9, <1>10, <1>11, <1>12, <1>13,
           <1>14, <1>15 DEF Probes!Next, Probes!Main

LEMMA ProbesAreHonest ==
  ProbesInv => Probes!TypeOK /\ Probes!RecoveryIsReal /\ Probes!SamplesFinal
  BY DEF ProbesInv, Probes!SamplesFinal

-----------------------------------------------------------------------------
(* The measurement campaign *)

Result == [run : Campaign!Runs, host : Hosts]
Ats == {"idle", "stages", "filling", "board", "drawing"}
FileStates == {"absent", "torn", "whole"}

\* The results of a payload are of its host, are the stages it says were run, and
\* those last asked for are of its run.
OfHost(p) == \A s \in Campaign!Measured(p.results) : p.results[s].host = p.host
OfRun(p, s) == p.results[s] # None /\ p.results[s].run = p.run
Honest(p) ==
  /\ OfHost(p) /\ p.ran = Campaign!Measured(p.results)
  /\ \A s \in p.asked : OfRun(p, s)

Filed ==
  /\ file.state # "whole" => file.payload = Campaign!Fresh
  /\ file.state = "absent" => kept = {}
  /\ Campaign!NothingDropped
  /\ Honest(file.payload) /\ Campaign!Held(file.payload.results) \subseteq saved

\* A run has left out nothing of the file it started from, and what it has still to
\* measure is all that is missing of what it will save.
Going ==
  /\ campaign.at = "stages" =>
       /\ campaign.payload.host = here /\ campaign.run \in Campaign!Runs
       /\ campaign.payload.run = campaign.run /\ OfHost(campaign.payload)
       /\ campaign.payload.ran = Campaign!Measured(campaign.payload.results) \cup campaign.todo
       /\ \A s \in campaign.payload.asked \ campaign.todo : OfRun(campaign.payload, s)
  /\ campaign.at = "filling" => Honest(campaign.payload)
  /\ campaign.at \in {"stages", "filling"} =>
       kept \subseteq Campaign!Measured(campaign.payload.results)
  /\ campaign.at \in {"board", "drawing"} =>
       Campaign!Held(campaign.payload.results) \subseteq saved

CampaignInv == Campaign!TypeOK /\ Filed /\ Going /\ Campaign!BoardGrounded

\* The naturals are well founded.
LEMMA LeastNatural == ASSUME NEW M \in SUBSET Nat, M # {} PROVE \E i \in M : \A j \in M : i <= j
<1> DEFINE Less == OpToRel(<, Nat)
<1>1. IsWellFoundedOn(Less, Nat)
  BY NatLessThanWellFounded, Zenon
<1>2. \A i, j \in Nat : i < j => <<i, j>> \in Less
  BY DEF OpToRel
<1> HIDE DEF Less
<1>3. PICK i \in M : \A j \in M : ~(<<j, i>> \in Less)
  BY <1>1, WFMin, Zenon
<1>4. \A j \in M : ~(j < i)
  BY <1>2, <1>3
<1>5. \A j \in M : i <= j
  BY <1>4
<1> QED BY <1>5

LEMMA FollowingIsLeft ==
  ASSUME CampaignInstances, NEW left \in SUBSET Campaign!Stages, left # {}
  PROVE  Campaign!Following(left) \in left
<1> DEFINE At == {i \in 1 .. Len(StageOrder) : StageOrder[i] \in left}
<1>1. StageOrder \in Seq(Campaign!Stages) /\ Len(StageOrder) \in Nat
  BY LenProperties DEF CampaignInstances
<1>2. \A q \in left : \E j \in 1 .. Len(StageOrder) : StageOrder[j] = q
  BY <1>1 DEF Campaign!Stages, Campaign!Range
<1>3. At \in SUBSET Nat /\ At # {}
  BY <1>1, <1>2
<1>4. PICK i \in At : \A j \in At : i <= j
  BY <1>3, LeastNatural, Zenon
<1>5. \A q \in left : \E k, j \in 1 .. Len(StageOrder) :
        k <= j /\ StageOrder[k] = StageOrder[i] /\ StageOrder[j] = q
  BY <1>2, <1>4
<1>6. StageOrder[i] \in left
  BY <1>4
<1> QED BY <1>5, <1>6, Zenon DEF Campaign!Following

LEMMA ResultFacts ==
  ASSUME NEW results \in Campaign!Results
  PROVE  /\ Campaign!Measured(results) \subseteq Campaign!Stages
         /\ \A s \in Campaign!Measured(results) : results[s] \in Result /\ results[s] # None
         /\ Campaign!Held(results) \subseteq Campaign!Stages \X Result
<1>1. \A s \in Campaign!Measured(results) :
        s \in Campaign!Stages /\ results[s] \in Result /\ results[s] # None
  BY DEF Campaign!Results, Campaign!Measured, Result
<1> QED BY <1>1 DEF Campaign!Held

LEMMA FreshFacts ==
  ASSUME CampaignInstances
  PROVE  /\ Campaign!Empty \in Campaign!Results /\ Campaign!Fresh \in Campaign!Payloads
         /\ Campaign!Fresh.results = Campaign!Empty
         /\ Campaign!Measured(Campaign!Empty) = {} /\ Campaign!Held(Campaign!Empty) = {}
         /\ Honest(Campaign!Fresh)
<1>1. Campaign!Empty \in Campaign!Results /\ Campaign!Measured(Campaign!Empty) = {}
  BY DEF Campaign!Empty, Campaign!Results, Campaign!Measured
<1>2. Campaign!Held(Campaign!Empty) = {}
  BY <1>1 DEF Campaign!Held
<1>3. Campaign!Fresh \in Campaign!Payloads
  BY <1>1 DEF Campaign!Fresh, Campaign!Payloads, CampaignInstances
<1>4. /\ Campaign!Fresh.results = Campaign!Empty /\ Campaign!Fresh.ran = {}
      /\ Campaign!Fresh.asked = {}
  BY DEF Campaign!Fresh
<1> QED BY <1>1, <1>2, <1>3, <1>4 DEF Honest, OfHost

LEMMA InitCampaign == CampaignInstances /\ Campaign!Init => CampaignInv
<1> SUFFICES ASSUME CampaignInstances, Campaign!Init PROVE CampaignInv
  OBVIOUS
<1>1. /\ here \in Hosts /\ moves = 0 /\ kept = {} /\ saved = {}
      /\ campaign = [at |-> "idle", run |-> 0, todo |-> {}, payload |-> Campaign!Fresh]
      /\ file = [state |-> "absent", payload |-> Campaign!Fresh]
      /\ board = [state |-> "absent", results |-> Campaign!Empty]
      /\ own = [s \in Scripted |-> None]
  BY DEF Campaign!Init
<1>2. Campaign!TypeOK
  BY <1>1, FreshFacts DEF Campaign!TypeOK, CampaignInstances
<1>3. Filed /\ Going /\ Campaign!BoardGrounded
  BY <1>1, FreshFacts DEF Filed, Going, Campaign!BoardGrounded, Campaign!NothingDropped
<1> QED BY <1>2, <1>3 DEF CampaignInv

LEMMA NextCampaign ==
  CampaignInstances /\ CampaignInv /\ [Campaign!Next]_Campaign!vars => CampaignInv'
<1> SUFFICES ASSUME CampaignInstances, CampaignInv, [Campaign!Next]_Campaign!vars
             PROVE  CampaignInv'
  OBVIOUS
<1> DEFINE Campaigns == [at : Ats, run : 0 .. MaxCampaigns, todo : SUBSET Campaign!Stages,
                         payload : Campaign!Payloads]
           Files == [state : FileStates, payload : Campaign!Payloads]
           Boards == [state : FileStates, results : Campaign!Results]
           Owns == [Scripted -> {None} \cup Result]
           Saved == SUBSET (Campaign!Stages \X Result)
           p == campaign.payload
<1>i. /\ here \in Hosts /\ moves \in 0 .. MaxMoves /\ MaxMoves \in Nat /\ MaxCampaigns \in Nat
      /\ campaign \in Campaigns /\ file \in Files /\ board \in Boards /\ own \in Owns
      /\ kept \subseteq Campaign!Stages /\ saved \in Saved
      /\ Campaign!Runs = 1 .. MaxCampaigns
  BY DEF CampaignInv, Campaign!TypeOK, Ats, FileStates, Result, CampaignInstances, Campaign!Runs
<1>g. Filed /\ Going /\ Campaign!Held(board.results) \subseteq saved
  BY DEF CampaignInv, Campaign!BoardGrounded
<1>k. ASSUME here' \in Hosts, moves' \in 0 .. MaxMoves, campaign' \in Campaigns, file' \in Files,
             board' \in Boards, own' \in Owns, kept' \subseteq Campaign!Stages, saved' \in Saved,
             Filed', Going', Campaign!Held(board'.results) \subseteq saved'
      PROVE  CampaignInv'
  BY <1>k DEF CampaignInv, Campaign!TypeOK, Campaign!BoardGrounded, Ats, FileStates, Result
<1>f. /\ Campaign!Empty \in Campaign!Results /\ Campaign!Fresh \in Campaign!Payloads
      /\ Campaign!Fresh.results = Campaign!Empty
      /\ Campaign!Measured(Campaign!Empty) = {} /\ Campaign!Held(Campaign!Empty) = {}
      /\ Honest(Campaign!Fresh)
  BY FreshFacts
<1>t. /\ campaign.at \in Ats /\ campaign.run \in 0 .. MaxCampaigns
      /\ campaign.todo \in SUBSET Campaign!Stages /\ campaign.payload \in Campaign!Payloads
      /\ file.state \in FileStates /\ file.payload \in Campaign!Payloads
      /\ board.results \in Campaign!Results
  BY <1>i
<1>p. /\ p.results \in Campaign!Results /\ p.ran \in SUBSET Campaign!Stages
      /\ p.asked \in SUBSET Campaign!Stages /\ file.payload.results \in Campaign!Results
      /\ file.payload.ran \in SUBSET Campaign!Stages
  BY <1>t DEF Campaign!Payloads
<1>m. /\ Campaign!Measured(p.results) \subseteq Campaign!Stages
      /\ Campaign!Held(p.results) \in Saved
  BY <1>p, ResultFacts
<1>s. here \in Hosts
  BY <1>i
<1> HIDE DEF Campaigns, Files, Boards, Owns, Saved, p
\* A run that ends, by failing or killed, takes its payload with it.
<1>e. ASSUME campaign' \in Campaigns, campaign'.at = "idle",
             UNCHANGED <<here, file, kept, saved>>
      PROVE  Filed' /\ Going'
  BY <1>g, <1>e DEF Filed, Going, Campaign!NothingDropped
<1>1. CASE \E h \in Hosts : Campaign!Move(h)
  <2>1. /\ campaign.at = "idle" /\ here' \in Hosts /\ moves' \in 0 .. MaxMoves
        /\ UNCHANGED <<campaign, file, board, own, kept, saved>>
    BY <1>1, <1>i DEF Campaign!Move
  <2>2. Filed' /\ Going'
    BY <1>g, <2>1 DEF Filed, Going, Campaign!NothingDropped
  <2> QED BY <1>i, <1>g, <1>k, <2>1, <2>2
<1>2. CASE Campaign!Discard
  <2>1. /\ campaign.at = "idle" /\ moves' \in 0 .. MaxMoves /\ kept' = {}
        /\ file' = [state |-> "absent", payload |-> Campaign!Fresh]
        /\ UNCHANGED <<here, campaign, board, own, saved>>
    BY <1>2, <1>i DEF Campaign!Discard
  <2>2. file' \in Files
    BY <1>f, <2>1 DEF Files, FileStates
  <2>3. Filed'
    BY <1>f, <2>1 DEF Filed, Campaign!NothingDropped
  <2>4. Going'
    BY <2>1 DEF Going
  <2> QED BY <1>i, <1>g, <1>k, <2>1, <2>2, <2>3, <2>4
<1>3. CASE Campaign!BoardOnly
  <2>1. /\ campaign' = [campaign EXCEPT !.at = "board", !.payload = file.payload]
        /\ UNCHANGED <<here, moves, file, board, own, kept, saved>>
    BY <1>3 DEF Campaign!BoardOnly
  <2>2. /\ campaign' \in Campaigns /\ campaign'.at = "board" /\ campaign'.payload = file.payload
    BY <1>i, <1>t, <2>1 DEF Campaigns, Ats
  <2>3. Filed'
    BY <1>g, <2>1 DEF Filed, Campaign!NothingDropped
  <2>4. Going'
    BY <1>g, <2>1, <2>2 DEF Filed, Going
  <2> QED BY <1>i, <1>g, <1>k, <2>1, <2>2, <2>3, <2>4
<1>4. CASE \E asked \in (SUBSET Campaign!Stages) \ {{}} : Campaign!Start(asked)
  <2>1. PICK asked \in SUBSET Campaign!Stages : Campaign!Start(asked)
    BY <1>4
  <2> DEFINE q == Campaign!Merged(file, asked)
  <2>2. /\ campaign.run < MaxCampaigns
        /\ file.state # "torn" /\ (file.state = "whole" => file.payload.host = here)
        /\ campaign' = [at |-> "stages", run |-> campaign.run + 1, todo |-> asked, payload |-> q]
        /\ UNCHANGED <<here, moves, file, board, own, kept, saved>>
    BY <2>1 DEF Campaign!Start, Campaign!Accepts
  <2>3. /\ q.host = here /\ q.run = campaign.run + 1 /\ q.asked = asked
        /\ q.ran = file.payload.ran \cup asked /\ q.results = file.payload.results
    BY DEF Campaign!Merged
  <2>4. campaign.run + 1 \in Campaign!Runs
    BY <1>i, <1>t, <2>2
  <2>5. q \in Campaign!Payloads
    BY <1>i, <1>p, <2>4 DEF Campaign!Payloads, Campaign!Merged
  <2> HIDE DEF q
  <2>6. campaign' \in Campaigns
    BY <1>i, <2>2, <2>4, <2>5 DEF Campaigns, Ats
  <2>7. Filed'
    BY <1>g, <2>2 DEF Filed, Campaign!NothingDropped
  <2>8. OfHost(q) /\ kept \subseteq Campaign!Measured(q.results)
    <3>1. CASE file.state = "whole"
      BY <1>g, <2>2, <2>3, <3>1 DEF Filed, Honest, OfHost, Campaign!NothingDropped
    <3>2. CASE file.state # "whole"
      <4>1. file.state = "absent" /\ Campaign!Measured(file.payload.results) = {} /\ kept = {}
        BY <1>f, <1>g, <1>t, <2>2, <3>2 DEF Filed, FileStates
      <4> QED BY <2>3, <4>1 DEF OfHost
    <3> QED BY <3>1, <3>2
  <2>9. q.ran = Campaign!Measured(q.results) \cup asked
    BY <1>g, <2>3 DEF Filed, Honest
  <2>10. Going'
    <3>1. /\ campaign'.at = "stages" /\ campaign'.run = campaign.run + 1 /\ campaign'.todo = asked
          /\ campaign'.payload = q /\ here' = here /\ kept' = kept
      BY <2>2
    <3> QED BY <2>3, <2>4, <2>8, <2>9, <3>1 DEF Going
  <2> QED BY <1>i, <1>g, <1>k, <2>2, <2>6, <2>7, <2>10
<1>5. CASE Campaign!Measure
  <2> DEFINE s == Campaign!Following(campaign.todo)
             now == [run |-> campaign.run, host |-> here]
             q == [p EXCEPT !.results[s] = now]
  <2>1. /\ campaign.at = "stages" /\ campaign.todo # {}
        /\ own' = IF s \in Scripted THEN [own EXCEPT ![s] = now] ELSE own
        /\ campaign' = [campaign EXCEPT !.todo = @ \ {s}, !.payload.results[s] = now]
        /\ UNCHANGED <<here, moves, file, board, kept, saved>>
    BY <1>5 DEF Campaign!Measure, Campaign!Now
  <2>2. s \in campaign.todo /\ s \in Campaign!Stages
    BY <1>t, <2>1, FollowingIsLeft
  <2>3. /\ now \in Result /\ now # None /\ now.run = campaign.run /\ now.host = here
    <3>1. campaign.run \in Campaign!Runs
      BY <1>g, <2>1 DEF Going
    <3>2. now \in Result
      BY <1>i, <3>1 DEF Result
    <3> QED BY <3>2 DEF CampaignInstances, Result
  <2> HIDE DEF s, now
  <2>4. /\ q \in Campaign!Payloads /\ q.host = p.host /\ q.run = p.run /\ q.ran = p.ran
        /\ q.asked = p.asked /\ q.results = [p.results EXCEPT ![s] = now]
    <3>1. q.results = [p.results EXCEPT ![s] = now]
      BY <1>t DEF p, Campaign!Payloads
    <3>2. [p.results EXCEPT ![s] = now] \in Campaign!Results
      BY <1>p, <2>2, <2>3 DEF Campaign!Results, Result
    <3> QED BY <1>t, <3>1, <3>2 DEF p, Campaign!Payloads
  <2>5. campaign' = [campaign EXCEPT !.todo = campaign.todo \ {s}, !.payload = q]
    BY <1>i, <1>t, <2>1, SMTT(20) DEF p, Campaigns
  <2> HIDE DEF q
  <2>6. /\ campaign' \in Campaigns /\ campaign'.at = "stages" /\ campaign'.run = campaign.run
        /\ campaign'.todo = campaign.todo \ {s} /\ campaign'.payload = q
    BY <1>i, <1>t, <2>1, <2>4, <2>5, ZenonT(60) DEF Campaigns
  <2>7. own' \in Owns
    BY <1>i, <2>1, <2>3 DEF Owns
  <2>8. Campaign!Measured(q.results) = Campaign!Measured(p.results) \cup {s}
    BY <1>p, <2>2, <2>3, <2>4 DEF Campaign!Measured, Campaign!Results
  <2>9. \A r \in Campaign!Stages : q.results[r] = IF r = s THEN now ELSE p.results[r]
    BY <1>p, <2>2, <2>4 DEF Campaign!Results
  <2>g. /\ p.host = here /\ campaign.run \in Campaign!Runs /\ p.run = campaign.run
        /\ OfHost(p) /\ p.ran = Campaign!Measured(p.results) \cup campaign.todo
        /\ \A r \in p.asked \ campaign.todo : OfRun(p, r)
        /\ kept \subseteq Campaign!Measured(p.results)
    BY <1>g, <2>1 DEF Going, p
  <2>10. OfHost(q)
    <3> SUFFICES ASSUME NEW r \in Campaign!Measured(q.results) PROVE q.results[r].host = q.host
      BY DEF OfHost
    <3>1. r \in Campaign!Stages
      BY <1>m, <2>2, <2>8
    <3> QED BY <2>3, <2>4, <2>8, <2>9, <2>g, <3>1 DEF OfHost
  <2>11. \A r \in q.asked \ (campaign.todo \ {s}) : OfRun(q, r)
    <3> SUFFICES ASSUME NEW r \in q.asked \ (campaign.todo \ {s}) PROVE OfRun(q, r)
      OBVIOUS
    <3>1. r \in Campaign!Stages
      BY <1>p, <2>4
    <3>2. CASE r = s
      BY <2>3, <2>4, <2>9, <2>g, <3>1, <3>2 DEF OfRun
    <3>3. CASE r # s
      <4>1. OfRun(p, r)
        BY <2>4, <2>g, <3>3
      <4> QED BY <2>4, <2>9, <3>1, <3>3, <4>1 DEF OfRun
    <3> QED BY <3>2, <3>3
  <2>12. Filed'
    BY <1>g, <2>1 DEF Filed, Campaign!NothingDropped
  <2>13. Going'
    <3>1. /\ q.ran = Campaign!Measured(q.results) \cup (campaign.todo \ {s})
          /\ kept \subseteq Campaign!Measured(q.results)
      BY <2>2, <2>4, <2>8, <2>g
    <3>2. here' = here /\ kept' = kept
      BY <2>1
    <3> QED BY <2>4, <2>6, <2>10, <2>11, <2>g, <3>1, <3>2 DEF Going
  <2> QED BY <1>i, <1>g, <1>k, <2>1, <2>6, <2>7, <2>12, <2>13
<1>6. CASE Campaign!Fails
  <2> DEFINE s == Campaign!Following(campaign.todo)
             now == [run |-> campaign.run, host |-> here]
  <2>1. /\ campaign.at = "stages"
        /\ own' = own \/ own' = [t \in Scripted |-> IF t = s THEN now ELSE own[t]]
        /\ campaign' = [campaign EXCEPT !.at = "idle", !.todo = {}, !.payload = Campaign!Fresh]
        /\ UNCHANGED <<here, moves, file, board, kept, saved>>
    BY <1>6 DEF Campaign!Fails, Campaign!Now
  <2>2. now \in Result
    <3>1. campaign.run \in Campaign!Runs
      BY <1>g, <2>1 DEF Going
    <3> QED BY <1>i, <3>1 DEF Result
  <2> HIDE DEF s, now
  <2>3. own' \in Owns
    BY <1>i, <2>1, <2>2 DEF Owns
  <2>4. campaign' \in Campaigns /\ campaign'.at = "idle"
    BY <1>i, <1>f, <2>1 DEF Campaigns, Ats
  <2> QED BY <1>i, <1>e, <1>g, <1>k, <2>1, <2>3, <2>4
<1>7. CASE Campaign!OpenOut
  <2>1. /\ campaign.at = "stages" /\ campaign.todo = {}
        /\ campaign' = [campaign EXCEPT !.at = "filling"]
        /\ file' = [state |-> "torn", payload |-> Campaign!Fresh]
        /\ UNCHANGED <<here, moves, board, own, kept, saved>>
    BY <1>7 DEF Campaign!OpenOut
  <2>2. /\ campaign' \in Campaigns /\ campaign'.at = "filling" /\ campaign'.payload = p
    BY <1>i, <2>1 DEF Campaigns, Ats, p
  <2>3. file' \in Files
    BY <1>f, <2>1 DEF Files, FileStates
  <2>4. Filed'
    BY <1>f, <2>1 DEF Filed, Campaign!NothingDropped
  <2>5. Honest(p) /\ kept \subseteq Campaign!Measured(p.results)
    BY <1>g, <2>1 DEF Going, Honest, p
  <2>6. Going'
    BY <2>1, <2>2, <2>5 DEF Going
  <2> QED BY <1>i, <1>g, <1>k, <2>1, <2>2, <2>3, <2>4, <2>6
<1>8. CASE Campaign!FillOut
  <2>1. /\ campaign.at = "filling"
        /\ campaign' = [campaign EXCEPT !.at = "board"]
        /\ file' = [state |-> "whole", payload |-> p]
        /\ kept' = kept \cup Campaign!Measured(p.results)
        /\ saved' = saved \cup Campaign!Held(p.results)
        /\ UNCHANGED <<here, moves, board, own>>
    BY <1>8 DEF Campaign!FillOut, p
  <2>2. /\ campaign' \in Campaigns /\ campaign'.at = "board" /\ campaign'.payload = p
    BY <1>i, <2>1 DEF Campaigns, Ats, p
  <2>3. file' \in Files
    BY <1>t, <2>1 DEF Files, FileStates, p
  <2>4. Honest(p) /\ kept \subseteq Campaign!Measured(p.results)
    BY <1>g, <2>1 DEF Going, p
  <2>5. kept' \subseteq Campaign!Stages /\ saved' \in Saved
    BY <1>i, <1>m, <2>1 DEF Saved
  <2>6. Filed'
    <3>1. file'.state = "whole" /\ file'.payload = p
      BY <2>1
    <3> QED BY <2>1, <2>4, <3>1 DEF Filed, Campaign!NothingDropped
  <2>7. Going'
    BY <2>1, <2>2 DEF Going
  <2>8. Campaign!Held(board'.results) \subseteq saved'
    BY <1>g, <2>1
  <2> QED BY <1>i, <1>k, <2>1, <2>2, <2>3, <2>5, <2>6, <2>7, <2>8
<1>9. CASE Campaign!OpenBoard
  <2>1. /\ campaign.at = "board" /\ campaign' = [campaign EXCEPT !.at = "drawing"]
        /\ board' = [state |-> "torn", results |-> Campaign!Empty]
        /\ UNCHANGED <<here, moves, file, own, kept, saved>>
    BY <1>9 DEF Campaign!OpenBoard
  <2>2. /\ campaign' \in Campaigns /\ campaign'.at = "drawing" /\ campaign'.payload = p
    BY <1>i, <2>1 DEF Campaigns, Ats, p
  <2>3. board' \in Boards /\ Campaign!Held(board'.results) \subseteq saved'
    BY <1>f, <2>1 DEF Boards, FileStates
  <2>4. Filed'
    BY <1>g, <2>1 DEF Filed, Campaign!NothingDropped
  <2>5. Going'
    BY <1>g, <2>1, <2>2 DEF Going, p
  <2> QED BY <1>i, <1>k, <2>1, <2>2, <2>3, <2>4, <2>5
<1>10. CASE Campaign!WriteBoard
  <2>1. /\ campaign.at = "drawing"
        /\ campaign' = [campaign EXCEPT !.at = "idle", !.payload = Campaign!Fresh]
        /\ board' = [state |-> "whole", results |-> p.results]
        /\ UNCHANGED <<here, moves, file, own, kept, saved>>
    BY <1>10 DEF Campaign!WriteBoard, p
  <2>2. campaign' \in Campaigns /\ campaign'.at = "idle"
    BY <1>i, <1>f, <2>1 DEF Campaigns, Ats
  <2>3. board' \in Boards
    BY <1>p, <2>1 DEF Boards, FileStates
  <2>4. Campaign!Held(board'.results) \subseteq saved'
    BY <1>g, <2>1 DEF Going, p
  <2> QED BY <1>i, <1>e, <1>k, <2>1, <2>2, <2>3, <2>4
<1>11. CASE Campaign!Crash
  <2>1. /\ campaign' = [campaign EXCEPT !.at = "idle", !.todo = {}, !.payload = Campaign!Fresh]
        /\ UNCHANGED <<here, moves, file, board, own, kept, saved>>
    BY <1>11 DEF Campaign!Crash
  <2>2. campaign' \in Campaigns /\ campaign'.at = "idle"
    BY <1>i, <1>f, <2>1 DEF Campaigns, Ats
  <2> QED BY <1>i, <1>e, <1>g, <1>k, <2>1, <2>2
<1>12. CASE UNCHANGED Campaign!vars
  <2>1. UNCHANGED <<here, moves, campaign, file, board, own, kept, saved>>
    BY <1>12 DEF Campaign!vars
  <2>2. Filed' /\ Going'
    BY <1>g, <2>1 DEF Filed, Going, Campaign!NothingDropped
  <2> QED BY <1>i, <1>g, <1>k, <2>1, <2>2
<1> QED BY <1>1, <1>2, <1>3, <1>4, <1>5, <1>6, <1>7, <1>8, <1>9, <1>10, <1>11, <1>12
        DEF Campaign!Next

LEMMA CampaignIsHonest == CampaignInv => ResultsKept
<1> SUFFICES ASSUME CampaignInv PROVE ResultsKept
  OBVIOUS
<1>1. Honest(file.payload) /\ Campaign!NothingDropped /\ Campaign!TypeOK /\ Campaign!BoardGrounded
  BY DEF CampaignInv, Filed
<1>2. Campaign!OneHost /\ Campaign!StagesHonest
  BY <1>1 DEF Honest, OfHost, OfRun, Campaign!OneHost, Campaign!StagesHonest
<1> QED BY <1>1, <1>2 DEF ResultsKept

-----------------------------------------------------------------------------
(* The tuning agent *)

Configs == [Agent!Knobs -> Nat]
Entries == [action : Agent!Actions, from : Configs, config : Configs, accepted : BOOLEAN,
            measured : Nat]
Inside == start \in [Agent!Knobs -> Nat \ {0}]
Disciplined == planner \in {"heuristic", "grid"}

\* The proposal under way, and how many proposals the iterations begun have made.
Proposal ==
  /\ agent = "measure" =>
       /\ act \in Agent!Actions /\ bestCfg[act[1]] # act[2]
       /\ Disciplined => act \notin Agent!Tried
  /\ LET made == IF agent = "measure" THEN Len(history) + 1 ELSE Len(history)
     IN  made <= turn /\ (Inside /\ agent \in {"plan", "measure", "final"} => made = turn)
  /\ agent = "final" => turn = Agent!Iterations

AgentTypes ==
  /\ planner \in DOMAIN Budgets /\ start \in Starts /\ bestCfg \in Configs
  /\ \A k \in Agent!Knobs : bestCfg[k] \in 1 .. Space[k] \cup {start[k]}
  /\ history \in Seq(Entries) /\ act \in Agent!Actions \cup {<<>>}
  /\ wins \in 0 .. Repeats /\ turn \in 0 .. Agent!Iterations
  /\ agent \in {"plan", "measure", "final", "write", "done", "aborted"}
  /\ written \subseteq {"runs", "summary"}
  /\ result = <<>> \/ \E r : result = <<r>>
  /\ result = <<>> <=> agent \in {"plan", "measure", "final", "aborted"}

AgentInv ==
  /\ AgentTypes /\ Proposal
  /\ Agent!IncumbentIsAccepted /\ Agent!NothingRemeasured /\ Agent!ResultHonest

LEMMA InitAgent == AgentInstances /\ Agent!Init => AgentInv
<1> SUFFICES ASSUME AgentInstances, Agent!Init PROVE AgentInv
  OBVIOUS
<1>1. /\ planner \in DOMAIN Budgets /\ start \in Starts /\ bestCfg = start /\ history = <<>>
      /\ act = <<>> /\ wins = 0 /\ turn = 0 /\ agent = "plan" /\ result = <<>> /\ written = {}
  BY DEF Agent!Init
<1>2. start \in Configs /\ Agent!Iterations \in Nat /\ Repeats \in Nat
  BY <1>1 DEF AgentInstances, Configs, Agent!Iterations
<1>3. AgentTypes
  BY <1>1, <1>2 DEF AgentTypes
<1>4. Proposal
  BY <1>1 DEF Proposal
<1>5. Agent!Accepted = {}
  BY <1>1 DEF Agent!Accepted
<1>6. Agent!IncumbentIsAccepted /\ Agent!NothingRemeasured /\ Agent!ResultHonest
  BY <1>1, <1>5 DEF Agent!IncumbentIsAccepted, Agent!MadeOf, Agent!NothingRemeasured,
     Agent!ResultHonest, Agent!Range
<1> QED BY <1>3, <1>4, <1>6 DEF AgentInv

\* What a planner proposes is in the space when the incumbent is, and the planners
\* that sweep it propose what was never tried, or no change.
LEMMA ActionPairs ==
  ASSUME AgentInstances
  PROVE  /\ \A a \in Agent!Actions : a = <<a[1], a[2]>> /\ Agent!Valid(a)
         /\ \A k, v : Agent!Valid(<<k, v>>) => <<k, v>> \in Agent!Actions
         /\ \A a \in Agent!Answers : a = <<a[1], a[2]>>
  BY DEF Agent!Actions, Agent!Valid, Agent!Answers

Unswept(a) ==
  /\ a = <<a[1], a[2]>> /\ a[1] \in Agent!Knobs
  /\ Inside => Agent!Valid(a)
  /\ bestCfg[a[1]] # a[2] => a \notin Agent!Tried

LEMMA InsideCounts ==
  ASSUME AgentInstances, AgentTypes
  PROVE  /\ \A k \in Agent!Knobs : bestCfg[k] \in 0 .. Space[k] /\ Space[k] \in Nat \ {0}
         /\ Inside => \A k \in Agent!Knobs : bestCfg[k] \in 1 .. Space[k]
<1>1. start \in [Agent!Knobs -> Nat] /\ \A k \in Agent!Knobs : start[k] <= Space[k]
  BY DEF AgentInstances, AgentTypes
<1>2. \A k \in Agent!Knobs : Space[k] \in Nat \ {0} /\ start[k] \in Nat
  BY <1>1 DEF AgentInstances
<1>3. Inside => \A k \in Agent!Knobs : start[k] \in Nat \ {0}
  BY DEF Inside
<1> QED BY <1>1, <1>2, <1>3 DEF AgentTypes

LEMMA RulesUnswept ==
  ASSUME AgentInstances, AgentTypes, NEW a \in Agent!Rules PROVE Unswept(a)
<1>1. a \notin Agent!Tried
  BY DEF Agent!Rules
<1>2. \E k \in {"ef", "retrieve_k"}, d \in {"up", "down"} : a = <<k, Agent!Neighbour(k, d)>>
        \/ a = <<"pin", 2>>
  BY DEF Agent!Rules
<1>3. CASE a = <<"pin", 2>>
  <2>1. Agent!Valid(a)
    BY <1>3 DEF AgentInstances, Agent!Valid
  <2> QED BY <1>1, <1>3, <2>1 DEF Unswept, AgentInstances
<1>4. ASSUME NEW k \in {"ef", "retrieve_k"}, NEW d \in {"up", "down"},
             a = <<k, Agent!Neighbour(k, d)>>
      PROVE  Unswept(a)
  <2>1. k \in Agent!Knobs
    BY DEF AgentInstances
  <2>2. bestCfg[k] \in 0 .. Space[k] /\ Space[k] \in Nat \ {0}
    BY <2>1, InsideCounts
  <2>3. Agent!Neighbour(k, d) \in 1 .. Space[k]
    BY <2>2 DEF Agent!Neighbour
  <2>4. Agent!Valid(a)
    BY <1>4, <2>1, <2>3 DEF Agent!Valid
  <2> QED BY <1>1, <1>4, <2>1, <2>4 DEF Unswept
<1> QED BY <1>2, <1>3, <1>4

LEMMA SweepUnswept == ASSUME AgentInstances, AgentTypes PROVE Unswept(Agent!Sweep)
<1> DEFINE left(k) == {v \in 1 .. Space[k] : v # bestCfg[k] /\ <<k, v>> \notin Agent!Tried}
           first(S) == CHOOSE v \in S : \A w \in S : v <= w
<1>1. ASSUME NEW k \in Agent!Knobs, left(k) # {} PROVE Unswept(<<k, first(left(k))>>)
  <2>1. left(k) \in SUBSET Nat
    BY InsideCounts
  <2>2. \E v \in left(k) : \A w \in left(k) : v <= w
    BY <1>1, <2>1, LeastNatural, Zenon
  <2>3. first(left(k)) \in left(k)
    BY <2>2
  <2> QED BY <2>3, SMTT(30) DEF Unswept, Agent!Valid
<1>2. Unswept(<<"ef", bestCfg["ef"]>>)
  BY InsideCounts DEF Unswept, Agent!Valid, AgentInstances
<1>3. Agent!Sweep = IF left("kernel") # {} THEN <<"kernel", first(left("kernel"))>>
                    ELSE IF left("ef") # {} THEN <<"ef", first(left("ef"))>>
                    ELSE <<"ef", bestCfg["ef"]>>
  BY DEF Agent!Sweep
<1>4. "kernel" \in Agent!Knobs /\ "ef" \in Agent!Knobs
  BY DEF AgentInstances
<1> HIDE DEF left, first
<1> QED BY <1>1, <1>2, <1>3, <1>4

LEMMA GridUnswept ==
  ASSUME AgentInstances, AgentTypes, NEW a \in Agent!Grid PROVE Unswept(a)
<1>1. CASE a \in Agent!Actions \ Agent!Tried
  BY <1>1, ActionPairs DEF Unswept, Agent!Valid
<1>2. CASE a = <<"ef", bestCfg["ef"]>>
  BY <1>2, InsideCounts DEF Unswept, Agent!Valid, AgentInstances
<1> QED BY <1>1, <1>2 DEF Agent!Grid

LEMMA PlansInside ==
  ASSUME AgentInstances, AgentTypes, NEW a \in Agent!Plans
  PROVE  /\ Agent!Valid(a) => a \in Agent!Actions
         /\ Inside => Agent!Valid(a)
         /\ Disciplined /\ bestCfg[a[1]] # a[2] => a \notin Agent!Tried
<1>1. planner \in {"heuristic", "random", "grid", "llm"}
  BY DEF AgentTypes, AgentInstances
<1>2. CASE a \in Agent!Heuristic
  <2>1. Unswept(a)
    BY <1>2, RulesUnswept, SweepUnswept DEF Agent!Heuristic
  <2> QED BY <2>1, ActionPairs DEF Unswept
<1>3. CASE planner = "grid"
  <2>1. a \in Agent!Grid
    BY <1>3 DEF Agent!Plans
  <2>2. Unswept(a)
    BY <2>1, GridUnswept
  <2> QED BY <2>2, ActionPairs DEF Unswept
<1>4. CASE planner = "random"
  <2>1. a \in Agent!Actions
    BY <1>4 DEF Agent!Plans
  <2> QED BY <1>4, <2>1, ActionPairs DEF Disciplined
<1>5. CASE planner = "llm"
  <2>1. a \in Agent!Heuristic \/ (a \in Agent!Answers /\ Agent!Valid(a))
    BY <1>5 DEF Agent!Plans, Agent!LLM
  <2> QED BY <1>2, <1>5, <2>1, ActionPairs DEF Disciplined
<1>6. CASE planner = "heuristic"
  BY <1>2, <1>6 DEF Agent!Plans
<1> QED BY <1>1, <1>3, <1>4, <1>5, <1>6

LEMMA AgentCounts == \A S : Agent!Cardinality(S) = Cardinality(S)
  BY Zenon DEF Agent!Cardinality, Cardinality

OneKnob(one, other) == Agent!Cardinality({k \in Agent!Knobs : one[k] # other[k]}) = 1

\* What is proved of the history when an entry is added to it.
LEMMA HistoryGrows ==
  ASSUME AgentInv, NEW e \in Entries, history' = Append(history, e),
         UNCHANGED <<planner, start>>,
         e.from = bestCfg, bestCfg' = IF e.accepted THEN e.config ELSE bestCfg,
         e.accepted => e.measured = 1 + Repeats /\ OneKnob(e.from, e.config),
         Disciplined /\ e.measured > 0 => e.action \notin Agent!Tried
  PROVE  /\ history' \in Seq(Entries) /\ Len(history') = Len(history) + 1
         /\ Agent!IncumbentIsAccepted' /\ Agent!NothingRemeasured'
<1> DEFINE n == Len(history)
           Old(cfg, i) ==
             \/ cfg = start /\ \A j \in Agent!Accepted : j >= i
             \/ \E m \in Agent!Accepted : /\ m < i /\ cfg = history[m].config
                                          /\ \A j \in Agent!Accepted : j < i => j <= m
           New(cfg, i) ==
             \/ cfg = start' /\ \A j \in Agent!Accepted' : j >= i
             \/ \E m \in Agent!Accepted' : /\ m < i /\ cfg = history'[m].config
                                           /\ \A j \in Agent!Accepted' : j < i => j <= m
<1>1. /\ history \in Seq(Entries) /\ n \in Nat /\ DOMAIN history = 1 .. n
  BY LenProperties DEF AgentInv, AgentTypes
<1>2. /\ history' \in Seq(Entries) /\ Len(history') = n + 1 /\ DOMAIN history' = 1 .. n + 1
      /\ \A i \in 1 .. n : history'[i] = history[i]
      /\ history'[n + 1] = e
  BY <1>1, AppendProperties, LenProperties
<1>3. /\ Agent!Accepted \subseteq 1 .. n
      /\ \A i \in 1 .. n : i \in Agent!Accepted <=> history[i].accepted
  BY <1>1 DEF Agent!Accepted
<1>4. Agent!Accepted' = IF e.accepted THEN Agent!Accepted \cup {n + 1} ELSE Agent!Accepted
  BY <1>1, <1>2 DEF Agent!Accepted
<1>5. /\ \A i \in Agent!Accepted : /\ Old(history[i].from, i)
                                   /\ OneKnob(history[i].from, history[i].config)
                                   /\ history[i].measured = 1 + Repeats
      /\ Old(bestCfg, n + 1)
  <2>1. Agent!IncumbentIsAccepted
    BY DEF AgentInv
  <2> QED BY <2>1, Zenon DEF Agent!IncumbentIsAccepted, Agent!MadeOf, OneKnob
<1> HIDE DEF n
\* The entries before the new one make what they made.
<1>6. ASSUME NEW cfg, NEW i \in 1 .. n + 1, Old(cfg, i) PROVE New(cfg, i)
  <2>1. ASSUME cfg = start, \A j \in Agent!Accepted : j >= i
        PROVE  cfg = start' /\ \A j \in Agent!Accepted' : j >= i
    BY <1>1, <1>4, <2>1
  <2>2. ASSUME NEW j \in Agent!Accepted, j < i, cfg = history[j].config,
               \A m \in Agent!Accepted : m < i => m <= j
        PROVE  /\ j \in Agent!Accepted' /\ cfg = history'[j].config
               /\ \A m \in Agent!Accepted' : m < i => m <= j
    BY <1>1, <1>2, <1>3, <1>4, <2>2
  <2> QED BY <1>6, <2>1, <2>2
<1>7. ASSUME NEW i \in Agent!Accepted'
      PROVE  /\ New(history'[i].from, i)
             /\ OneKnob(history'[i].from, history'[i].config)
             /\ history'[i].measured = 1 + Repeats
  <2>1. CASE i \in Agent!Accepted
    <3>1. i \in 1 .. n /\ i \in 1 .. n + 1 /\ history'[i] = history[i]
      BY <1>1, <1>2, <1>3, <2>1
    <3>2. New(history[i].from, i)
      BY <1>5, <1>6, <2>1, <3>1, Zenon
    <3> QED BY <1>5, <2>1, <3>1, <3>2, Zenon
  <2>2. CASE i \notin Agent!Accepted
    <3>1. i = n + 1 /\ e.accepted /\ n + 1 \in 1 .. n + 1
      BY <1>1, <1>4, <2>2
    <3>2. New(e.from, n + 1)
      BY <1>5, <1>6, <3>1, Zenon
    <3> QED BY <1>2, <3>1, <3>2, Zenon
  <2> QED BY <2>1, <2>2
<1>8. New(bestCfg', n + 2)
  <2>1. CASE e.accepted
    <3>1. /\ n + 1 \in Agent!Accepted' /\ n + 1 < n + 2 /\ bestCfg' = history'[n + 1].config
          /\ \A j \in Agent!Accepted' : j < n + 2 => j <= n + 1
      <4>1. bestCfg' = e.config
        BY <2>1
      <4>2. \A j \in Agent!Accepted' : j \in 1 .. n + 1
        BY <1>1, <1>3, <1>4
      <4> QED BY <1>1, <1>2, <1>4, <2>1, <4>1, <4>2
    <3> QED BY <3>1
  <2>2. CASE ~e.accepted
    <3>1. /\ Agent!Accepted' = Agent!Accepted /\ bestCfg' = bestCfg /\ start' = start
          /\ \A j \in Agent!Accepted : history'[j] = history[j]
      BY <1>2, <1>3, <1>4, <2>2
    <3>2. \A j \in Agent!Accepted : j < n + 1 /\ j < n + 2 /\ ~(j >= n + 1)
      <4>1. \A j \in Agent!Accepted : j \in 1 .. n
        BY <1>3
      <4>2. \A j \in 1 .. n : j < n + 1 /\ j < n + 2 /\ ~(j >= n + 1)
        BY <1>1
      <4> QED BY <4>1, <4>2
    <3>3. CASE bestCfg = start /\ \A j \in Agent!Accepted : j >= n + 1
      BY <3>1, <3>2, <3>3
    <3>4. ASSUME NEW m \in Agent!Accepted, bestCfg = history[m].config,
                 \A j \in Agent!Accepted : j < n + 1 => j <= m
          PROVE  New(bestCfg', n + 2)
      <4>1. bestCfg' = history'[m].config
        BY <3>1, <3>4
      <4>2. \A j \in Agent!Accepted : j <= m
        BY <3>2, <3>4
      <4> QED BY <3>1, <3>2, <4>1, <4>2
    <3> QED BY <1>5, <3>3, <3>4
  <2> QED BY <2>1, <2>2
<1>9. Agent!IncumbentIsAccepted'
  <2>1. Len(history') + 1 = n + 2
    BY <1>1, <1>2
  <2>2. New(bestCfg', Len(history') + 1)
    BY <1>8, <2>1
  <2> QED BY <1>7, <2>2, Zenon DEF Agent!IncumbentIsAccepted, Agent!MadeOf, OneKnob
<1>10. Agent!NothingRemeasured'
  <2> SUFFICES ASSUME Disciplined, NEW i \in 1 .. n + 1, NEW j \in 1 .. n + 1,
                      history'[i].measured > 0, history'[j].measured > 0,
                      history'[i].action = history'[j].action
               PROVE  i = j
    BY <1>2 DEF Agent!NothingRemeasured, Disciplined
  <2>1. \A m \in 1 .. n : history[m].action \in Agent!Tried
    BY <1>1 DEF Agent!Tried
  <2>2. CASE i \in 1 .. n /\ j \in 1 .. n
    BY <1>1, <1>2, <2>2 DEF AgentInv, Agent!NothingRemeasured, Disciplined
  <2>3. CASE ~(i \in 1 .. n /\ j \in 1 .. n)
    <3>1. i = n + 1 \/ j = n + 1
      BY <1>1, <2>3
    <3> QED BY <1>1, <1>2, <2>1, <3>1
  <2> QED BY <2>2, <2>3
<1> QED BY <1>2, <1>9, <1>10 DEF n

LEMMA HistoryStays ==
  ASSUME AgentInv, UNCHANGED <<planner, start, bestCfg, history>>
  PROVE  Agent!IncumbentIsAccepted' /\ Agent!NothingRemeasured'
<1>1. Agent!IncumbentIsAccepted /\ Agent!NothingRemeasured
  BY DEF AgentInv
<1>2. Agent!Accepted' = Agent!Accepted
  BY DEF Agent!Accepted
<1>3. Agent!IncumbentIsAccepted'
  BY <1>1, <1>2, Zenon DEF Agent!IncumbentIsAccepted, Agent!MadeOf
<1>4. Agent!NothingRemeasured'
  BY <1>1 DEF Agent!NothingRemeasured
<1> QED BY <1>3, <1>4

\* Nothing is known of a result before there is one.
LEMMA NoResult ==
  ASSUME AgentInv, agent \in {"plan", "measure", "final"}
  PROVE  result = <<>> /\ written = {}
  BY DEF AgentInv, AgentTypes, Agent!ResultHonest

LEMMA NextAgent == AgentInstances /\ AgentInv /\ [Agent!Next]_Agent!vars => AgentInv'
<1> SUFFICES ASSUME AgentInstances, AgentInv, [Agent!Next]_Agent!vars PROVE AgentInv'
  OBVIOUS
<1>t. AgentTypes /\ Proposal
  BY DEF AgentInv
<1>i. /\ planner \in DOMAIN Budgets /\ start \in Starts /\ bestCfg \in Configs
      /\ \A k \in Agent!Knobs : bestCfg[k] \in 1 .. Space[k] \cup {start[k]}
      /\ history \in Seq(Entries) /\ Len(history) \in Nat
      /\ wins \in 0 .. Repeats /\ Repeats \in Nat
      /\ turn \in 0 .. Agent!Iterations /\ Agent!Iterations \in Nat
      /\ \A k \in Agent!Knobs : Space[k] \in Nat \ {0}
  BY LenProperties DEF AgentInv, AgentTypes, AgentInstances, Agent!Iterations
<1>1. CASE Agent!Plan
  <2>1. PICK a \in Agent!Plans :
          /\ agent = "plan" /\ turn < Agent!Iterations /\ turn' = turn + 1
          /\ UNCHANGED <<planner, start, bestCfg, wins, result, written>>
          /\ \/ ~Agent!Valid(a) /\ UNCHANGED <<history, act, agent>>
             \/ /\ Agent!Valid(a) /\ bestCfg[a[1]] = a[2]
                /\ history' = Append(history, Agent!Entry(a, bestCfg, FALSE, 0))
                /\ UNCHANGED <<act, agent>>
             \/ /\ Agent!Valid(a) /\ bestCfg[a[1]] # a[2]
                /\ act' = a /\ agent' = "measure" /\ UNCHANGED history
    BY <1>1 DEF Agent!Plan
  <2>2. /\ Agent!Valid(a) => a \in Agent!Actions
        /\ Inside => Agent!Valid(a)
        /\ Disciplined /\ bestCfg[a[1]] # a[2] => a \notin Agent!Tried
    BY <1>t, PlansInside
  <2>3. result = <<>> /\ written = {} /\ agent' \in {"plan", "measure"}
    BY <2>1, NoResult
  <2>4. Agent!ResultHonest'
    BY <2>1, <2>3 DEF Agent!ResultHonest, Agent!Range
  <2>5. /\ Agent!Iterations' = Agent!Iterations /\ Inside' = Inside /\ Disciplined' = Disciplined
    BY <2>1 DEF Agent!Iterations, Inside, Disciplined
  <2>6. turn' \in 0 .. Agent!Iterations /\ Len(history) <= turn /\ (Inside => Len(history) = turn)
    BY <1>i, <1>t, <2>1 DEF Proposal
  <2>7. CASE ~Agent!Valid(a) /\ UNCHANGED <<history, act, agent>>
    <3>1. AgentTypes'
      BY <1>t, <2>1, <2>3, <2>5, <2>6, <2>7 DEF AgentTypes
    <3>2. Proposal'
      BY <1>i, <2>1, <2>2, <2>5, <2>6, <2>7 DEF Proposal
    <3>3. Agent!IncumbentIsAccepted' /\ Agent!NothingRemeasured'
      BY <2>1, <2>7, HistoryStays
    <3> QED BY <2>4, <3>1, <3>2, <3>3 DEF AgentInv
  <2>8. CASE /\ Agent!Valid(a) /\ history' = Append(history, Agent!Entry(a, bestCfg, FALSE, 0))
             /\ UNCHANGED <<act, agent>>
    <3> DEFINE e == Agent!Entry(a, bestCfg, FALSE, 0)
    <3>1. e \in Entries /\ e.from = bestCfg /\ ~e.accepted /\ e.measured = 0
      BY <1>i, <2>2, <2>8 DEF Entries, Agent!Entry
    <3> HIDE DEF e
    <3>2. history' = Append(history, e)
      BY <2>8 DEF e
    <3>3. /\ history' \in Seq(Entries) /\ Len(history') = Len(history) + 1
          /\ Agent!IncumbentIsAccepted' /\ Agent!NothingRemeasured'
      BY <2>1, <3>1, <3>2, HistoryGrows
    <3>4. AgentTypes'
      BY <1>t, <2>1, <2>3, <2>5, <2>6, <2>8, <3>3 DEF AgentTypes
    <3>5. Proposal'
      BY <1>i, <2>1, <2>5, <2>6, <2>8, <3>3 DEF Proposal
    <3> QED BY <2>4, <3>3, <3>4, <3>5 DEF AgentInv
  <2>9. CASE /\ Agent!Valid(a) /\ bestCfg[a[1]] # a[2]
             /\ act' = a /\ agent' = "measure" /\ UNCHANGED history
    <3>1. AgentTypes'
      BY <1>t, <2>1, <2>2, <2>3, <2>5, <2>6, <2>9 DEF AgentTypes
    <3>2. Agent!Tried' = Agent!Tried
      BY <2>9 DEF Agent!Tried
    <3>3. Proposal'
      BY <1>i, <2>1, <2>2, <2>5, <2>6, <2>9, <3>2 DEF Proposal
    <3>4. Agent!IncumbentIsAccepted' /\ Agent!NothingRemeasured'
      BY <2>1, <2>9, HistoryStays
    <3> QED BY <2>4, <3>1, <3>3, <3>4 DEF AgentInv
  <2> QED BY <2>1, <2>7, <2>8, <2>9
<1>2. CASE Agent!Measure
  <2>1. /\ agent = "measure" /\ UNCHANGED <<planner, start, turn, result, written>>
        /\ \/ Agent!Decide(FALSE, wins + 1)
           \/ wins + 1 >= 1 + Repeats /\ Agent!Decide(TRUE, wins + 1)
           \/ wins + 1 < 1 + Repeats /\ wins' = wins + 1 /\ UNCHANGED <<bestCfg, history, act, agent>>
    BY <1>2 DEF Agent!Measure, Agent!Required
  <2>2. /\ act \in Agent!Actions /\ bestCfg[act[1]] # act[2] /\ (Disciplined => act \notin Agent!Tried)
        /\ Len(history) + 1 <= turn /\ (Inside => Len(history) + 1 = turn)
    BY <1>t, <2>1 DEF Proposal
  <2>3. result = <<>> /\ written = {}
    BY <2>1, NoResult
  <2>4. /\ Agent!Iterations' = Agent!Iterations /\ Inside' = Inside /\ Disciplined' = Disciplined
    BY <2>1 DEF Agent!Iterations, Inside, Disciplined
  <2>5. CASE wins + 1 < 1 + Repeats /\ wins' = wins + 1 /\ UNCHANGED <<bestCfg, history, act, agent>>
    <3>1. AgentTypes'
      <4>1. wins' \in 0 .. Repeats
        BY <1>i, <2>5
      <4> QED BY <1>t, <2>1, <2>4, <2>5, <4>1 DEF AgentTypes
    <3>2. Agent!Tried' = Agent!Tried
      BY <2>5 DEF Agent!Tried
    <3>3. Proposal'
      BY <1>t, <2>1, <2>4, <2>5, <3>2 DEF Proposal
    <3>4. Agent!IncumbentIsAccepted' /\ Agent!NothingRemeasured'
      BY <2>1, <2>5, HistoryStays
    <3>5. Agent!ResultHonest'
      BY <2>1, <2>3 DEF Agent!ResultHonest, Agent!Range
    <3> QED BY <3>1, <3>3, <3>4, <3>5 DEF AgentInv
  <2>6. ASSUME NEW ok \in BOOLEAN, ok => wins + 1 >= 1 + Repeats, Agent!Decide(ok, wins + 1)
        PROVE  AgentInv'
    <3> DEFINE e == Agent!Entry(act, Agent!Candidate, ok, wins + 1)
    <3>1. /\ history' = Append(history, e) /\ bestCfg' = IF ok THEN Agent!Candidate ELSE bestCfg
          /\ agent' = "plan" /\ act' = <<>> /\ wins' = 0
      BY <2>6 DEF Agent!Decide
    <3>2. /\ act[1] \in Agent!Knobs /\ act[2] \in 1 .. Space[act[1]]
      BY <2>2 DEF Agent!Actions
    <3>3. /\ Agent!Candidate \in Configs /\ Agent!Candidate[act[1]] = act[2]
          /\ \A k \in Agent!Knobs : k # act[1] => Agent!Candidate[k] = bestCfg[k]
      BY <1>i, <3>2 DEF Agent!Candidate, Configs
    <3>4. e \in Entries
      BY <1>i, <2>2, <3>3 DEF Entries, Agent!Entry
    <3>5. /\ e.from = bestCfg /\ e.accepted = ok /\ e.config = Agent!Candidate
          /\ e.measured = wins + 1 /\ e.action = act
      BY DEF Agent!Entry
    <3>6. {k \in Agent!Knobs : bestCfg[k] # Agent!Candidate[k]} = {act[1]}
      BY <2>2, <3>2, <3>3
    <3>7. OneKnob(e.from, e.config)
      <4>1. Agent!Cardinality({act[1]}) = 1
        BY FS_Singleton, AgentCounts
      <4>2. {k \in Agent!Knobs : e.from[k] # e.config[k]} = {act[1]}
        BY <3>5, <3>6
      <4> QED BY <4>1, <4>2 DEF OneKnob
    <3>8. ok => e.measured = 1 + Repeats
      <4>1. ok => wins + 1 = 1 + Repeats
        BY <1>i, <2>6
      <4> QED BY <3>5, <4>1, Zenon
    <3> HIDE DEF e
    <3>9. /\ history' \in Seq(Entries) /\ Len(history') = Len(history) + 1
          /\ Agent!IncumbentIsAccepted' /\ Agent!NothingRemeasured'
      BY <2>1, <2>2, <3>1, <3>4, <3>5, <3>7, <3>8, HistoryGrows
    <3>10. bestCfg' \in Configs /\ \A k \in Agent!Knobs : bestCfg'[k] \in 1 .. Space[k] \cup {start[k]}
      BY <1>i, <3>1, <3>2, <3>3
    <3>11. AgentTypes'
      <4>1. wins' \in 0 .. Repeats
        BY <1>i, <3>1
      <4> QED BY <1>i, <2>1, <2>3, <2>4, <3>1, <3>9, <3>10, <4>1 DEF AgentTypes
    <3>12. Proposal'
      BY <1>i, <2>1, <2>2, <2>4, <3>1, <3>9 DEF Proposal
    <3>13. Agent!ResultHonest'
      BY <2>1, <2>3 DEF Agent!ResultHonest, Agent!Range
    <3> QED BY <3>9, <3>11, <3>12, <3>13 DEF AgentInv
  <2> QED BY <2>1, <2>5, <2>6
<1>3. CASE Agent!Abort \/ Agent!Finish
  <2>1. /\ agent \in {"plan", "measure", "final"}
        /\ agent' = "aborted" \/ (agent' = "final" /\ agent = "plan" /\ turn = Agent!Iterations)
        /\ UNCHANGED <<planner, start, bestCfg, history, act, wins, turn, result, written>>
    BY <1>3 DEF Agent!Abort, Agent!Finish
  <2>2. result = <<>> /\ written = {}
    BY <2>1, NoResult
  <2>3. /\ Agent!Iterations' = Agent!Iterations /\ Inside' = Inside /\ Disciplined' = Disciplined
    BY <2>1 DEF Agent!Iterations, Inside, Disciplined
  <2>4. AgentTypes'
    BY <1>t, <2>1, <2>2, <2>3 DEF AgentTypes
  <2>5. Proposal'
    BY <1>i, <1>t, <2>1, <2>3 DEF Proposal
  <2>6. Agent!IncumbentIsAccepted' /\ Agent!NothingRemeasured'
    BY <2>1, HistoryStays
  <2>7. Agent!ResultHonest'
    BY <2>1, <2>2 DEF Agent!ResultHonest, Agent!Range
  <2> QED BY <2>4, <2>5, <2>6, <2>7 DEF AgentInv
<1>4. CASE Agent!Confirm
  <2> DEFINE acc == Agent!Accepted
             rej == DOMAIN history \ Agent!Accepted
  <2>1. PICK improvement \in Agent!Improvement(bestCfg), confirmed \in BOOLEAN :
          result' = <<[best |-> bestCfg, improvement |-> improvement, confirmed |-> confirmed,
                       accepted |-> Cardinality(acc), rejected |-> Cardinality(rej)]>>
    BY <1>4, AgentCounts DEF Agent!Confirm
  <2>2. /\ agent = "final" /\ agent' = "write"
        /\ UNCHANGED <<planner, start, bestCfg, history, act, wins, turn, written>>
    BY <1>4 DEF Agent!Confirm
  <2>3. /\ Agent!Iterations' = Agent!Iterations /\ Inside' = Inside /\ Disciplined' = Disciplined
    BY <2>2 DEF Agent!Iterations, Inside, Disciplined
  <2>4. /\ IsFiniteSet(acc) /\ IsFiniteSet(rej) /\ acc \cap rej = {} /\ acc \cup rej = 1 .. Len(history)
    <3>1. acc \subseteq 1 .. Len(history) /\ rej \subseteq 1 .. Len(history)
          /\ acc \cap rej = {} /\ acc \cup rej = 1 .. Len(history)
      BY <1>i, LenProperties DEF Agent!Accepted
    <3>2. IsFiniteSet(1 .. Len(history))
      BY <1>i, FS_Interval
    <3> QED BY <3>1, <3>2, FS_Subset
  <2> HIDE DEF acc, rej
  <2>5. Cardinality(acc) + Cardinality(rej) = Len(history)
    <3>1. Cardinality(1 .. Len(history)) = Len(history)
      BY <1>i, FS_Interval, SMTT(30)
    <3>2. /\ Cardinality(acc) \in Nat /\ Cardinality(rej) \in Nat /\ Cardinality({}) = 0
      BY <2>4, FS_CardinalityType, FS_EmptySet
    <3>3. Cardinality(acc \cup rej) = Cardinality(acc) + Cardinality(rej) - Cardinality(acc \cap rej)
      BY <2>4, FS_Union
    <3>4. Cardinality(acc \cap rej) = 0 /\ Cardinality(acc \cup rej) = Len(history)
      BY <2>4, <3>1, <3>2, Zenon
    <3>5. Cardinality(acc \cup rej) = Cardinality(acc) + Cardinality(rej)
      BY <3>2, <3>3, <3>4
    <3> QED BY <3>4, <3>5
  <2>6. Len(history) <= Agent!Iterations /\ (Inside => Len(history) = Agent!Iterations)
    BY <1>t, <2>2 DEF Proposal
  <2>7. Cardinality(acc) = 0 => bestCfg = start
    <3>1. Cardinality(acc) = 0 => acc = {}
      BY <2>4, FS_EmptySet
    <3> QED BY <3>1 DEF AgentInv, Agent!IncumbentIsAccepted, Agent!MadeOf, acc
  <2>8. Agent!ResultHonest'
    <3> DEFINE r == [best |-> bestCfg, improvement |-> improvement, confirmed |-> confirmed,
                     accepted |-> Cardinality(acc), rejected |-> Cardinality(rej)]
    <3>1. /\ r.best = bestCfg /\ r.improvement = improvement
          /\ r.accepted = Cardinality(acc) /\ r.rejected = Cardinality(rej)
      OBVIOUS
    <3>2. result' = <<r>>
      BY <2>1
    <3> HIDE DEF r
    <3>3. Agent!Range(result') = {r}
      BY <3>2 DEF Agent!Range
    <3>4. bestCfg = start => improvement = "none"
      BY DEF Agent!Improvement
    <3>5. written = {}
      BY <2>2, NoResult
    <3> QED BY <2>2, <2>3, <2>5, <2>6, <2>7, <3>1, <3>3, <3>4, <3>5 DEF Agent!ResultHonest, Inside
  <2>9. AgentTypes'
    <3>1. result' # <<>> /\ \E r : result' = <<r>>
      BY <2>1
    <3> QED BY <1>t, <2>2, <2>3, <3>1 DEF AgentTypes
  <2>10. Proposal'
    BY <1>t, <2>2, <2>3 DEF Proposal
  <2>11. Agent!IncumbentIsAccepted' /\ Agent!NothingRemeasured'
    BY <2>2, HistoryStays
  <2> QED BY <2>8, <2>9, <2>10, <2>11 DEF AgentInv
<1>5. CASE Agent!Write
  <2>1. /\ agent = "write" /\ agent' \in {"write", "done"} /\ written' \subseteq {"runs", "summary"}
        /\ UNCHANGED <<planner, start, bestCfg, history, act, wins, turn, result>>
    BY <1>5, <1>t DEF Agent!Write, AgentTypes
  <2>2. /\ Agent!Iterations' = Agent!Iterations /\ Inside' = Inside /\ Disciplined' = Disciplined
    BY <2>1 DEF Agent!Iterations, Inside, Disciplined
  <2>3. AgentTypes'
    BY <1>t, <2>1, <2>2 DEF AgentTypes
  <2>4. Proposal'
    BY <1>t, <2>1, <2>2 DEF Proposal
  <2>5. Agent!IncumbentIsAccepted' /\ Agent!NothingRemeasured'
    BY <2>1, HistoryStays
  <2>6. result # <<>>
    BY <1>t, <2>1 DEF AgentTypes
  <2>7. Agent!ResultHonest'
    BY <2>1, <2>2, <2>6 DEF AgentInv, Agent!ResultHonest
  <2> QED BY <2>3, <2>4, <2>5, <2>7 DEF AgentInv
<1>6. CASE UNCHANGED Agent!vars
  <2>1. UNCHANGED <<planner, start, bestCfg, history, act, wins, turn, agent, result, written>>
    BY <1>6 DEF Agent!vars
  <2>2. AgentTypes' /\ Proposal'
    BY <1>t, <2>1 DEF AgentTypes, Proposal, Inside, Disciplined, Agent!Tried, Agent!Iterations
  <2>3. Agent!IncumbentIsAccepted' /\ Agent!NothingRemeasured' /\ Agent!ResultHonest'
    <3>1. Agent!ResultHonest'
      BY <2>1 DEF AgentInv, Agent!ResultHonest, Agent!Iterations
    <3> QED BY <2>1, <3>1, HistoryStays
  <2> QED BY <2>2, <2>3 DEF AgentInv
<1> QED BY <1>1, <1>2, <1>3, <1>4, <1>5, <1>6 DEF Agent!Next

LEMMA AgentIsHonest == AgentInstances /\ AgentInv => AgentHonest
<1> SUFFICES ASSUME AgentInstances, AgentInv PROVE AgentHonest
  OBVIOUS
<1>1. AgentTypes /\ Proposal
  BY DEF AgentInv
<1>2. history \in Seq(Entries) /\ Len(history) <= turn /\ turn <= Agent!Iterations
  <2>1. Len(history) \in Nat /\ history \in Seq(Entries)
    BY <1>1, LenProperties DEF AgentTypes
  <2> QED BY <1>1, <2>1 DEF AgentTypes, Proposal
<1>3. \A i \in DOMAIN history : history[i].action \in Agent!Actions
  <2>1. \A i \in DOMAIN history : history[i] \in Entries
    BY <1>2
  <2> QED BY <2>1 DEF Entries
<1>4. wins \in 0 .. Repeats + 1 /\ Len(result) <= 1
  <2>1. wins \in 0 .. Repeats /\ Repeats \in Nat
    BY <1>1 DEF AgentTypes, AgentInstances
  <2>2. Len(result) <= 1
    <3>1. CASE result = <<>>
      BY <3>1
    <3>2. ASSUME NEW r, result = <<r>> PROVE Len(result) <= 1
      <4>1. Len(<<r>>) = 1
        OBVIOUS
      <4> QED BY <3>2, <4>1
    <3>3. result = <<>> \/ \E r : result = <<r>>
      BY <1>1 DEF AgentTypes
    <3> QED BY <3>1, <3>2, <3>3
  <2> QED BY <2>1, <2>2
<1>5. Agent!TypeOK
  BY <1>1, <1>2, <1>3, <1>4 DEF AgentTypes, Agent!TypeOK
<1> QED BY <1>5 DEF AgentInv, AgentHonest

-----------------------------------------------------------------------------
(* Counts: tables and sums *)

\* What holds of 0, and of n + 1 if it holds of n, holds of N.
LEMMA UpTo ==
  ASSUME NEW N \in Nat, NEW S, 0 \in S, \A n \in 1 .. N : n - 1 \in S => n \in S
  PROVE  \A n \in 0 .. N : n \in S
<1> SUFFICES ASSUME NEW n \in 0 .. N, n \notin S PROVE FALSE
  OBVIOUS
<1> DEFINE bad == {m \in 0 .. N : m \notin S}
<1>1. bad \in SUBSET Nat /\ bad # {}
  OBVIOUS
<1>2. PICK m \in bad : \A j \in bad : m <= j
  BY <1>1, LeastNatural, Zenon
<1>3. m \in 1 .. N /\ m \notin S
  BY <1>2
<1>4. m - 1 \in bad
  BY <1>3
<1>5. m <= m - 1
  BY <1>2, <1>4
<1> QED BY <1>3, <1>5

\* The function a LET of Tallied defines is there.
LEMMA TalliesExist ==
  ASSUME NEW b, NEW es, NEW N \in Nat
  PROVE  \E f : f = [n \in 0 .. N |-> IF n = 0 THEN b ELSE Tally(f[n - 1], es[n])]
<1> DEFINE S == {m \in 0 .. N :
                   \E f : f = [n \in 0 .. m |-> IF n = 0 THEN b ELSE Tally(f[n - 1], es[n])]}
<1>1. 0 \in S
  <2>1. [n \in 0 .. 0 |-> b] = [n \in 0 .. 0 |-> IF n = 0 THEN b
                                 ELSE Tally([q \in 0 .. 0 |-> b][n - 1], es[n])]
    OBVIOUS
  <2>2. \E f : f = [n \in 0 .. 0 |-> IF n = 0 THEN b ELSE Tally(f[n - 1], es[n])]
    BY <2>1
  <2>3. 0 \in 0 .. N
    OBVIOUS
  <2> QED BY <2>2, <2>3
<1>2. ASSUME NEW m \in 1 .. N, m - 1 \in S PROVE m \in S
  <2>1. PICK f : f = [n \in 0 .. m - 1 |-> IF n = 0 THEN b ELSE Tally(f[n - 1], es[n])]
    BY <1>2
  <2> DEFINE g == [n \in 0 .. m |-> IF n = m THEN Tally(f[m - 1], es[m]) ELSE f[n]]
  <2>2. \A n \in 0 .. m : g[n] = IF n = 0 THEN b ELSE Tally(g[n - 1], es[n])
    <3> SUFFICES ASSUME NEW n \in 0 .. m
                 PROVE  g[n] = IF n = 0 THEN b ELSE Tally(g[n - 1], es[n])
      OBVIOUS
    <3>1. CASE n = m
      <4>1. n - 1 \in 0 .. m /\ n - 1 # m /\ n # 0
        BY <1>2, <3>1
      <4>2. g[n - 1] = f[m - 1]
        BY <3>1, <4>1
      <4> QED BY <3>1, <4>1, <4>2
    <3>2. CASE n # m /\ n # 0
      <4>1. n \in 0 .. m - 1 /\ n - 1 \in 0 .. m /\ n - 1 # m
        BY <1>2, <3>2
      <4>2. g[n - 1] = f[n - 1] /\ g[n] = f[n]
        BY <3>2, <4>1
      <4>3. f[n] = Tally(f[n - 1], es[n])
        BY <2>1, <3>2, <4>1
      <4> QED BY <3>2, <4>2, <4>3
    <3>3. CASE n = 0
      <4>1. 0 \in 0 .. m - 1 /\ n # m
        BY <1>2, <3>3
      <4>2. f[0] = b
        BY <2>1, <4>1
      <4> QED BY <3>3, <4>1, <4>2
    <3> QED BY <3>1, <3>2, <3>3
  <2>3. g = [n \in 0 .. m |-> g[n]]
    OBVIOUS
  <2> HIDE DEF g
  <2>4. g = [n \in 0 .. m |-> IF n = 0 THEN b ELSE Tally(g[n - 1], es[n])]
    BY <2>2, <2>3
  <2> QED BY <2>4
<1> HIDE DEF S
<1>3. N \in S
  BY <1>1, <1>2, UpTo
<1> QED BY <1>3 DEF S

LEMMA TalliedSteps ==
  ASSUME NEW table, NEW es, Len(es) \in Nat
  PROVE  \E f : /\ f[0] = table /\ Tallied(table, es) = f[Len(es)]
                /\ \A n \in 1 .. Len(es) : f[n] = Tally(f[n - 1], es[n])
<1> DEFINE N == Len(es)
           f == CHOOSE f : f = [n \in 0 .. N |-> IF n = 0 THEN table
                                                 ELSE Tally(f[n - 1], es[n])]
<1>1. f = [n \in 0 .. N |-> IF n = 0 THEN table ELSE Tally(f[n - 1], es[n])]
  BY TalliesExist
<1>2. Tallied(table, es) = f[N]
  BY DEF Tallied
<1> HIDE DEF f
<1>3. f[0] = table /\ \A n \in 1 .. N : f[n] = Tally(f[n - 1], es[n])
  BY <1>1
<1> QED BY <1>2, <1>3

LEMMA TalliedOnly ==
  ASSUME NEW table, NEW es, Len(es) \in Nat, NEW g, g[0] = table,
         \A n \in 1 .. Len(es) : g[n] = Tally(g[n - 1], es[n])
  PROVE  Tallied(table, es) = g[Len(es)]
<1>1. PICK f : /\ f[0] = table /\ Tallied(table, es) = f[Len(es)]
               /\ \A n \in 1 .. Len(es) : f[n] = Tally(f[n - 1], es[n])
  BY TalliedSteps
<1> DEFINE N == Len(es)
           S == {n \in 0 .. N : f[n] = g[n]}
<1>2. N \in Nat /\ 0 \in S
  BY <1>1
<1>3. \A n \in 1 .. N : n - 1 \in S => n \in S
  BY <1>1
<1> HIDE DEF S, N
<1>4. \A n \in 0 .. N : n \in S
  BY <1>2, <1>3, UpTo
<1>5. N \in S
  BY <1>2, <1>4
<1> QED BY <1>1, <1>5 DEF S, N

\* Adding one es and then another is adding them in a row.
LEMMA TalliedTwice ==
  ASSUME NEW E, NEW table, NEW p \in Seq(E), NEW s \in Seq(E)
  PROVE  Tallied(Tallied(table, p), s) = Tallied(table, p \o s)
<1> DEFINE P == Len(p)
           Q == Len(s)
           l == p \o s
<1>1. P \in Nat /\ Q \in Nat /\ Len(l) = P + Q
  OBVIOUS
<1>2. /\ \A n \in 1 .. P : l[n] = p[n]
      /\ \A n \in P + 1 .. P + Q : l[n] = s[n - P]
  OBVIOUS
<1>3. PICK f : /\ f[0] = table /\ Tallied(table, p) = f[P]
               /\ \A n \in 1 .. P : f[n] = Tally(f[n - 1], p[n])
  BY <1>1, TalliedSteps
<1>4. PICK h : /\ h[0] = f[P] /\ Tallied(f[P], s) = h[Q]
               /\ \A n \in 1 .. Q : h[n] = Tally(h[n - 1], s[n])
  BY <1>1, TalliedSteps
<1> DEFINE g == [n \in 0 .. P + Q |-> IF n <= P THEN f[n] ELSE h[n - P]]
<1> HIDE DEF P, Q, l
<1>5. g[0] = table
  BY <1>1, <1>3
<1>6. ASSUME NEW n \in 1 .. P + Q PROVE g[n] = Tally(g[n - 1], l[n])
  <2>1. CASE n <= P
    <3>1. n \in 1 .. P /\ g[n] = f[n] /\ g[n - 1] = f[n - 1]
      BY <1>1, <1>6, <2>1
    <3> QED BY <1>2, <1>3, <3>1
  <2>2. CASE n = P + 1
    <3>1. 1 \in 1 .. Q /\ n - P = 1 /\ n \in P + 1 .. P + Q /\ ~(n <= P) /\ n - 1 = P
      BY <1>1, <1>6, <2>2
    <3>2. g[n] = h[1] /\ g[n - 1] = h[0] /\ l[n] = s[1]
      BY <1>1, <1>2, <1>4, <3>1
    <3>3. h[1] = Tally(h[1 - 1], s[1])
      BY <1>4, <3>1, Zenon
    <3>4. 1 - 1 = 0
      OBVIOUS
    <3> QED BY <3>2, <3>3, <3>4
  <2>3. CASE n > P + 1
    <3>1. /\ n - P \in 1 .. Q /\ n \in P + 1 .. P + Q /\ ~(n <= P) /\ ~(n - 1 <= P)
          /\ n - 1 \in 0 .. P + Q /\ (n - 1) - P = (n - P) - 1
      BY <1>1, <1>6, <2>3
    <3>2. g[n] = h[n - P] /\ g[n - 1] = h[(n - P) - 1] /\ l[n] = s[n - P]
      BY <1>2, <3>1
    <3> QED BY <1>4, <3>1, <3>2
  <2> QED BY <1>1, <2>1, <2>2, <2>3
<1>7. g[P + Q] = h[Q]
  <2>1. CASE Q = 0
    BY <1>1, <1>4, <2>1
  <2>2. CASE Q # 0
    BY <1>1, <2>2
  <2> QED BY <2>1, <2>2
<1> HIDE DEF g
<1>8. Tallied(table, l) = g[P + Q]
  <2>1. Len(l) \in Nat /\ \A n \in 1 .. Len(l) : g[n] = Tally(g[n - 1], l[n])
    BY <1>1, <1>6
  <2> QED BY <1>1, <1>5, <2>1, TalliedOnly
<1> QED BY <1>3, <1>4, <1>7, <1>8 DEF P, Q, l

LEMMA PositionsFinite ==
  ASSUME NEW N \in Nat, NEW S \in SUBSET (1 .. N)
  PROVE  IsFiniteSet(S) /\ Cardinality(S) \in Nat /\ Cardinality(S) <= N
<1>1. 1 \in Int /\ N \in Int
  OBVIOUS
<1>2. IsFiniteSet(1 .. N) /\ Cardinality(1 .. N) = N
  BY <1>1, FS_Interval
<1>3. IsFiniteSet(S) /\ Cardinality(S) <= Cardinality(1 .. N)
  BY <1>2, FS_Subset
<1> QED BY <1>2, <1>3, FS_CardinalityType

\* A table that was made from nothing holds the counts of its items.
LEMMA AggregateCounts ==
  ASSUME NEW E, NEW es \in Seq(E)
  PROVE  /\ DOMAIN Aggregate(es) = {es[i].item : i \in DOMAIN es}
         /\ \A i \in DOMAIN Aggregate(es) : Aggregate(es)[i] = Counts(es, i)
<1> DEFINE N == Len(es)
           at(n, i) == {j \in 1 .. n : es[j].item = i}
           counts(n, i) == [views |-> Cardinality(at(n, i)),
                            likes |-> Cardinality(Liked(es, at(n, i)))]
           items(n) == {es[j].item : j \in 1 .. n}
<1>1. N \in Nat /\ DOMAIN es = 1 .. N
  OBVIOUS
<1> HIDE DEF N
<1>2. PICK f : /\ f[0] = NoRows /\ Aggregate(es) = f[N]
               /\ \A n \in 1 .. N : f[n] = Tally(f[n - 1], es[n])
  BY <1>1, TalliedSteps DEF Aggregate, N
<1> DEFINE S == {n \in 0 .. N : /\ DOMAIN f[n] = items(n)
                                /\ \A i \in items(n) : f[n][i] = counts(n, i)}
<1>3. 0 \in S
  <2>1. items(0) = {} /\ DOMAIN NoRows = {}
    BY DEF NoRows
  <2> HIDE DEF items, counts
  <2>2. 0 \in 0 .. N /\ DOMAIN f[0] = items(0)
    BY <1>1, <1>2, <2>1
  <2>3. \A i \in items(0) : f[0][i] = counts(0, i)
    BY <2>1
  <2> QED BY <2>2, <2>3
<1>4. ASSUME NEW n \in 1 .. N, n - 1 \in S PROVE n \in S
  <2> DEFINE t == f[n - 1]
             e == es[n]
             k == e.item
             old == at(n - 1, k)
  <2>1. DOMAIN t = items(n - 1) /\ \A i \in items(n - 1) : t[i] = counts(n - 1, i)
    BY <1>4
  <2>2. f[n] = [i \in DOMAIN t \cup {k} |-> IF i = k THEN Add(Row(t, k), e.like) ELSE t[i]]
    BY <1>2 DEF Tally, Put
  <2>3. items(n) = items(n - 1) \cup {k}
    <3>1. 1 .. n = (1 .. n - 1) \cup {n}
      BY <1>1
    <3> QED BY <3>1
  <2>4. Row(t, k) = counts(n - 1, k)
    <3>1. CASE k \in items(n - 1)
      BY <2>1, <3>1 DEF Row
    <3>2. CASE k \notin items(n - 1)
      <4>1. old = {} /\ Liked(es, old) = {}
        BY <3>2 DEF Liked
      <4>2. Row(t, k) = NoCounts
        BY <2>1, <3>2 DEF Row
      <4> QED BY <4>1, <4>2, FS_EmptySet DEF NoCounts
    <3> QED BY <3>1, <3>2
  <2>5. ASSUME NEW i \in items(n - 1), i # k PROVE counts(n, i) = counts(n - 1, i)
    <3>1. at(n, i) = at(n - 1, i)
      BY <1>1, <2>5
    <3> QED BY <3>1
  <2>6. counts(n, k) = Add(counts(n - 1, k), e.like)
    <3>1. at(n, k) = old \cup {n} /\ n \notin old /\ old \in SUBSET (1 .. N)
      BY <1>1
    <3>2. Liked(es, at(n, k)) = Liked(es, old) \cup (IF e.like THEN {n} ELSE {})
      BY <3>1 DEF Liked
    <3>3. Liked(es, old) \in SUBSET (1 .. N) /\ n \notin Liked(es, old)
      BY <3>1 DEF Liked
    <3>4. IsFiniteSet(old) /\ IsFiniteSet(Liked(es, old))
      BY <1>1, <3>1, <3>3, PositionsFinite
    <3> HIDE DEF at, old
    <3>5. Cardinality(at(n, k)) = Cardinality(old) + 1
      BY <3>1, <3>4, FS_AddElement
    <3>6. Cardinality(Liked(es, at(n, k)))
            = Cardinality(Liked(es, old)) + IF e.like THEN 1 ELSE 0
      <4>1. CASE e.like
        <5>1. Liked(es, at(n, k)) = Liked(es, old) \cup {n}
          BY <3>2, <4>1
        <5>2. Cardinality(Liked(es, old) \cup {n}) = Cardinality(Liked(es, old)) + 1
          BY <3>3, <3>4, FS_AddElement
        <5> QED BY <4>1, <5>1, <5>2
      <4>2. CASE ~e.like
        <5>1. Liked(es, at(n, k)) = Liked(es, old)
          BY <3>2, <4>2
        <5>2. Cardinality(Liked(es, old)) \in Nat
          BY <3>4, FS_CardinalityType
        <5> QED BY <4>2, <5>1, <5>2
      <4> QED BY <4>1, <4>2
    <3>7. counts(n - 1, k) = [views |-> Cardinality(old), likes |-> Cardinality(Liked(es, old))]
      BY DEF old
    <3> QED BY <3>5, <3>6, <3>7 DEF Add
  <2> HIDE DEF counts, items, t, k, e
  <2>7. DOMAIN f[n] = items(n)
    BY <2>1, <2>2, <2>3
  <2>8. ASSUME NEW i \in items(n) PROVE f[n][i] = counts(n, i)
    <3>1. CASE i = k
      BY <2>1, <2>2, <2>3, <2>4, <2>6, <3>1
    <3>2. CASE i # k
      BY <2>1, <2>2, <2>3, <2>5, <3>2
    <3> QED BY <3>1, <3>2
  <2> QED BY <1>1, <2>7, <2>8
<1> HIDE DEF S
<1>5. N \in S
  BY <1>1, <1>3, <1>4, UpTo
<1>6. DOMAIN f[N] = items(N) /\ \A i \in items(N) : f[N][i] = counts(N, i)
  BY <1>5 DEF S
<1>7. \A i : at(N, i) = Of(es, i)
  BY <1>1 DEF Of
<1>8. \A i : counts(N, i) = Counts(es, i)
  BY <1>7 DEF Counts
<1> QED BY <1>1, <1>2, <1>6, <1>8

\* A sum of the sizes of disjoint sets is the size of their union.
LEMMA TotalIsUnion ==
  ASSUME NEW U, IsFiniteSet(U), NEW I, NEW f \in [I -> Nat], NEW M \in [I -> SUBSET U],
         \A i \in I : Cardinality(M[i]) = f[i],
         \A i, j \in I : i # j => M[i] \cap M[j] = {},
         NEW V \in SUBSET U, \A u \in U : u \in V <=> \E i \in I : u \in M[i]
  PROVE  Total(f) = Cardinality(V)
<1> DEFINE P == UNION {{i} \X (1 .. f[i]) : i \in I}
           b(i) == CHOOSE h : h \in Bijection(M[i], 1 .. f[i])
           home(u) == CHOOSE i \in I : u \in M[i]
           g == [u \in V |-> <<home(u), b(home(u))[u]>>]
<1>1. IsFiniteSet(V)
  BY FS_Subset
<1>2. ASSUME NEW i \in I PROVE b(i) \in Bijection(M[i], 1 .. f[i])
  <2>1. f[i] \in Nat /\ M[i] \in SUBSET U /\ Cardinality(M[i]) = f[i]
    OBVIOUS
  <2>2. 1 \in Int /\ f[i] \in Int /\ (f[i] = 0 <=> 1 > f[i])
    BY <2>1
  <2>3. IsFiniteSet(1 .. f[i]) /\ Cardinality(1 .. f[i]) = f[i]
    BY <2>1, <2>2, FS_Interval
  <2>4. IsFiniteSet(M[i])
    BY <2>1, FS_Subset
  <2>5. ExistsBijection(M[i], 1 .. f[i])
    BY <2>1, <2>3, <2>4, FS_SameCardinalityBij
  <2> QED BY <2>5, Zenon DEF ExistsBijection
<1>3. \A u \in V : home(u) \in I /\ u \in M[home(u)]
  <2> SUFFICES ASSUME NEW u \in V PROVE home(u) \in I /\ u \in M[home(u)]
    OBVIOUS
  <2>1. \E i \in I : u \in M[i]
    OBVIOUS
  <2> QED BY <2>1, Zenon
<1>4. \A u \in V : \A i \in I : u \in M[i] => i = home(u)
  BY <1>3
<1> HIDE DEF b, home
<1>5. \A i \in I : /\ \A u \in M[i] : b(i)[u] \in 1 .. f[i]
                   /\ \A u, v \in M[i] : b(i)[u] = b(i)[v] => u = v
                   /\ \A k \in 1 .. f[i] : \E u \in M[i] : b(i)[u] = k
  <2> SUFFICES ASSUME NEW i \in I
               PROVE  /\ \A u \in M[i] : b(i)[u] \in 1 .. f[i]
                      /\ \A u, v \in M[i] : b(i)[u] = b(i)[v] => u = v
                      /\ \A k \in 1 .. f[i] : \E u \in M[i] : b(i)[u] = k
    OBVIOUS
  <2>1. b(i) \in Bijection(M[i], 1 .. f[i])
    BY <1>2
  <2>2. b(i) \in [M[i] -> 1 .. f[i]]
    BY <2>1, Zenon DEF Bijection, Injection
  <2>3. \A u, v \in M[i] : b(i)[u] = b(i)[v] => u = v
    BY <2>1 DEF Bijection, Injection, IsInjective
  <2>4. \A k \in 1 .. f[i] : \E u \in M[i] : b(i)[u] = k
    BY <2>1 DEF Bijection, Surjection
  <2> QED BY <2>2, <2>3, <2>4
<1>6. g \in [V -> P]
  BY <1>3, <1>5
<1>7. \A u, v \in V : g[u] = g[v] => u = v
  <2> SUFFICES ASSUME NEW u \in V, NEW v \in V, g[u] = g[v] PROVE u = v
    OBVIOUS
  <2>1. home(u) = home(v) /\ b(home(u))[u] = b(home(v))[v]
    OBVIOUS
  <2> QED BY <1>3, <1>5, <2>1
<1>8. \A p \in P : \E u \in V : g[u] = p
  <2> SUFFICES ASSUME NEW p \in P PROVE \E u \in V : g[u] = p
    OBVIOUS
  <2>1. PICK i \in I : p \in {i} \X (1 .. f[i])
    OBVIOUS
  <2> DEFINE k == p[2]
  <2>2. k \in 1 .. f[i] /\ p = <<i, k>>
    BY <2>1
  <2> HIDE DEF P
  <2>3. PICK u \in M[i] : b(i)[u] = k
    BY <1>5, <2>2
  <2>4. u \in V /\ home(u) = i
    BY <1>4
  <2> QED BY <2>2, <2>3, <2>4
<1> HIDE DEF g, P
<1>9. g \in Bijection(V, P)
  BY <1>6, <1>7, <1>8 DEF Bijection, Injection, Surjection, IsInjective
<1>10. Cardinality(P) = Cardinality(V)
  <2>1. ExistsBijection(V, P)
    BY <1>9, Zenon DEF ExistsBijection
  <2> QED BY <1>1, <2>1, FS_Bijection
<1>11. Total(f) = Cardinality(P)
  BY DEF Total, P
<1> QED BY <1>10, <1>11

\* The two components count alike.
LEMMA NearlineCounts ==
  /\ \A S : Nearline!Cardinality(S) = Cardinality(S)
  /\ \A f : Nearline!Total(f) = Total(f)
  /\ \A t, i : Nearline!Row(t, i) = Row(t, i)
  /\ \A c, l : Nearline!Add(c, l) = Add(c, l)
  /\ \A t, es : Nearline!Tallied(t, es) = Tallied(t, es)
  /\ \A t, e : Nearline!Tally(t, e) = Tally(t, e)
  /\ \A es : Nearline!Aggregate(es) = Aggregate(es)
  /\ Nearline!NoRows = NoRows /\ Nearline!NoCounts = NoCounts
<1>1. \A S : Nearline!Cardinality(S) = Cardinality(S)
  BY Zenon DEF Nearline!Cardinality, Cardinality
<1>2. \A f : Nearline!Total(f) = Total(f)
  BY <1>1 DEF Nearline!Total, Total
<1>3. Nearline!NoCounts = NoCounts /\ Nearline!NoRows = NoRows
  BY DEF Nearline!NoCounts, NoCounts, Nearline!NoRows, NoRows
<1>4. \A t, i : Nearline!Row(t, i) = Row(t, i)
  BY <1>3 DEF Nearline!Row, Row
<1>5. \A c, l : Nearline!Add(c, l) = Add(c, l)
  BY DEF Nearline!Add, Add
<1>6. \A t, es : Nearline!Tallied(t, es) = Tallied(t, es)
  BY Zenon DEF Nearline!Tallied, Tallied, Nearline!Tally, Tally, Nearline!Put, Put,
     Nearline!Row, Row, Nearline!Add, Add, Nearline!NoCounts, NoCounts
<1>7. \A es : Nearline!Aggregate(es) = Aggregate(es)
  BY <1>3, <1>6 DEF Nearline!Aggregate, Aggregate
<1>8. \A t, e : Nearline!Tally(t, e) = Tally(t, e)
  BY Zenon DEF Nearline!Tally, Tally, Nearline!Put, Put, Nearline!Row, Row, Nearline!Add, Add,
     Nearline!NoCounts, NoCounts
<1> QED BY <1>1, <1>2, <1>3, <1>4, <1>5, <1>6, <1>7, <1>8

LEMMA StreamingCounts ==
  /\ \A S : Streaming!Cardinality(S) = Cardinality(S)
  /\ \A f : Streaming!Total(f) = Total(f)
  /\ \A es, S : Streaming!Liked(es, S) = Liked(es, S)
  /\ \A es, i : Streaming!Counts(es, i) = Counts(es, i)
  /\ \A es : Streaming!Aggregate(es) = Aggregate(es)
<1>1. \A S : Streaming!Cardinality(S) = Cardinality(S)
  BY Zenon DEF Streaming!Cardinality, Cardinality
<1>2. \A f : Streaming!Total(f) = Total(f)
  BY <1>1 DEF Streaming!Total, Total
<1>3. \A es, S : Streaming!Liked(es, S) = Liked(es, S)
  BY DEF Streaming!Liked, Liked
<1>4. \A es, i : Streaming!Counts(es, i) = Counts(es, i)
  BY <1>1, <1>3 DEF Streaming!Counts, Counts, Streaming!Of, Of
<1>5. \A es : Streaming!Aggregate(es) = Aggregate(es)
  BY Zenon DEF Streaming!Aggregate, Aggregate, Streaming!NoRows, NoRows, Streaming!Tallied,
     Tallied, Streaming!Tally, Tally, Streaming!Put, Put, Streaming!Row, Row,
     Streaming!Add, Add, Streaming!NoCounts, NoCounts
<1> QED BY <1>1, <1>2, <1>3, <1>4, <1>5

-----------------------------------------------------------------------------
(* The window counter *)

LEMMA RingsExist ==
  ASSUME NEW b, NEW es, NEW N \in Nat
  PROVE  \E f : f = [n \in 0 .. N |-> IF n = 0 THEN b ELSE Nearline!RingAdd(f[n - 1], es[n])]
<1> DEFINE S == {m \in 0 .. N : \E f : f = [n \in 0 .. m |->
                   IF n = 0 THEN b ELSE Nearline!RingAdd(f[n - 1], es[n])]}
<1>1. 0 \in S
  <2>1. [n \in 0 .. 0 |-> b] = [n \in 0 .. 0 |-> IF n = 0 THEN b
                                 ELSE Nearline!RingAdd([q \in 0 .. 0 |-> b][n - 1], es[n])]
    OBVIOUS
  <2>2. \E f : f = [n \in 0 .. 0 |-> IF n = 0 THEN b ELSE Nearline!RingAdd(f[n - 1], es[n])]
    BY <2>1
  <2>3. 0 \in 0 .. N
    OBVIOUS
  <2> QED BY <2>2, <2>3
<1>2. ASSUME NEW m \in 1 .. N, m - 1 \in S PROVE m \in S
  <2>1. PICK f : f = [n \in 0 .. m - 1 |->
                       IF n = 0 THEN b ELSE Nearline!RingAdd(f[n - 1], es[n])]
    BY <1>2
  <2> DEFINE g == [n \in 0 .. m |-> IF n = m THEN Nearline!RingAdd(f[m - 1], es[m]) ELSE f[n]]
  <2>2. \A n \in 0 .. m : g[n] = IF n = 0 THEN b ELSE Nearline!RingAdd(g[n - 1], es[n])
    <3> SUFFICES ASSUME NEW n \in 0 .. m
                 PROVE  g[n] = IF n = 0 THEN b ELSE Nearline!RingAdd(g[n - 1], es[n])
      OBVIOUS
    <3>1. CASE n = m
      <4>1. n - 1 \in 0 .. m /\ n - 1 # m /\ n # 0
        BY <1>2, <3>1
      <4>2. g[n - 1] = f[m - 1]
        BY <3>1, <4>1
      <4> QED BY <3>1, <4>1, <4>2
    <3>2. CASE n # m /\ n # 0
      <4>1. n \in 0 .. m - 1 /\ n - 1 \in 0 .. m /\ n - 1 # m
        BY <1>2, <3>2
      <4>2. g[n - 1] = f[n - 1] /\ g[n] = f[n]
        BY <3>2, <4>1
      <4>3. f[n] = Nearline!RingAdd(f[n - 1], es[n])
        BY <2>1, <3>2, <4>1
      <4> QED BY <3>2, <4>2, <4>3
    <3>3. CASE n = 0
      <4>1. 0 \in 0 .. m - 1 /\ n # m
        BY <1>2, <3>3
      <4>2. f[0] = b
        BY <2>1, <4>1
      <4> QED BY <3>3, <4>1, <4>2
    <3> QED BY <3>1, <3>2, <3>3
  <2>3. g = [n \in 0 .. m |-> g[n]]
    OBVIOUS
  <2> HIDE DEF g
  <2>4. g = [n \in 0 .. m |-> IF n = 0 THEN b ELSE Nearline!RingAdd(g[n - 1], es[n])]
    BY <2>2, <2>3
  <2> QED BY <2>4
<1> HIDE DEF S
<1>3. N \in S
  BY <1>1, <1>2, UpTo
<1> QED BY <1>3 DEF S

BlankRing == [i \in 0 .. Buckets - 1 |-> [stamp |-> 0, counts |-> NoCounts]]

LEMMA RingSteps ==
  ASSUME NEW es, Len(es) \in Nat
  PROVE  \E f : /\ f[0] = BlankRing /\ Nearline!Ring(es) = f[Len(es)]
                /\ \A n \in 1 .. Len(es) : f[n] = Nearline!RingAdd(f[n - 1], es[n])
<1> DEFINE N == Len(es)
           f == CHOOSE f : f = [n \in 0 .. N |-> IF n = 0 THEN BlankRing
                                                 ELSE Nearline!RingAdd(f[n - 1], es[n])]
<1>1. f = [n \in 0 .. N |-> IF n = 0 THEN BlankRing ELSE Nearline!RingAdd(f[n - 1], es[n])]
  BY RingsExist
<1>2. Nearline!Ring(es) = f[N]
  BY NearlineCounts DEF Nearline!Ring, BlankRing
<1> HIDE DEF f
<1>3. f[0] = BlankRing /\ \A n \in 1 .. N : f[n] = Nearline!RingAdd(f[n - 1], es[n])
  BY <1>1
<1> QED BY <1>2, <1>3

LEMMA OneRoundApart ==
  ASSUME NEW B \in Nat \ {0}, NEW s \in Nat, NEW t \in Nat, s % B = t % B, s < t
  PROVE  s + B <= t
<1> DEFINE p == s \div B
           q == t \div B
           r == t % B
<1>1. p \in Nat /\ q \in Nat /\ r \in 0 .. B - 1 /\ s = p * B + r /\ t = q * B + r
  OBVIOUS
<1> HIDE DEF p, q, r
<1>2. p < q
  <2> SUFFICES ASSUME q <= p PROVE FALSE
    BY <1>1
  <2>1. q * B <= p * B
    BY <1>1
  <2> QED BY <1>1, <2>1
<1>3. (p + 1) * B <= q * B
  BY <1>1, <1>2
<1>4. (p + 1) * B = p * B + B
  BY <1>1
<1> QED BY <1>1, <1>3, <1>4

\* The events a bucket counts: those after which none of another interval came to it.
Kept(es, ring, n, b) ==
  {j \in 1 .. n : /\ es[j].time % Buckets = b
                  /\ \A q \in j .. n : es[q].time % Buckets = b => es[q].time = ring[b].stamp}

RingTells(es, ring, n) ==
  /\ DOMAIN ring = 0 .. Buckets - 1
  /\ \A b \in 0 .. Buckets - 1 :
       /\ ring[b].stamp \in Nat
       /\ ring[b].counts.views = Cardinality(Kept(es, ring, n, b))
       /\ \A j \in 1 .. n : es[j].time % Buckets = b =>
            \E q \in j .. n : es[q].time % Buckets = b /\ es[q].time = ring[b].stamp

LEMMA RingAddTells ==
  ASSUME Buckets \in Nat \ {0}, NEW es, NEW ring, NEW n \in Nat \ {0},
         \A j \in 1 .. n : es[j].time \in Nat, RingTells(es, ring, n - 1)
  PROVE  RingTells(es, Nearline!RingAdd(ring, es[n]), n)
<1> DEFINE e == es[n]
           k == e.time % Buckets
           old == IF ring[k].stamp = e.time THEN ring[k].counts ELSE NoCounts
           new == Nearline!RingAdd(ring, e)
<1>1. e.time \in Nat /\ k \in 0 .. Buckets - 1
  OBVIOUS
<1>2. new = [ring EXCEPT ![k] = [stamp |-> e.time, counts |-> Add(old, e.like)]]
  BY NearlineCounts DEF Nearline!RingAdd
<1>3. /\ DOMAIN new = 0 .. Buckets - 1
      /\ new[k].stamp = e.time /\ new[k].counts.views = old.views + 1
      /\ \A b \in 0 .. Buckets - 1 : b # k => new[b] = ring[b]
  BY <1>1, <1>2, SMTT(30) DEF RingTells, Add
<1>4. \A j \in 1 .. n : j = n \/ j \in 1 .. n - 1
  OBVIOUS
<1> HIDE DEF new
<1>5. ASSUME NEW b \in 0 .. Buckets - 1, b # k
      PROVE  /\ new[b].stamp \in Nat
             /\ new[b].counts.views = Cardinality(Kept(es, new, n, b))
             /\ \A j \in 1 .. n : es[j].time % Buckets = b =>
                  \E q \in j .. n : es[q].time % Buckets = b /\ es[q].time = new[b].stamp
  <2>1. Kept(es, new, n, b) = Kept(es, ring, n - 1, b)
    <3>1. ASSUME NEW j \in 1 .. n - 1
          PROVE  (\A q \in j .. n : es[q].time % Buckets = b => es[q].time = ring[b].stamp)
                   <=> \A q \in j .. n - 1 : es[q].time % Buckets = b => es[q].time = ring[b].stamp
      <4>1. j .. n = (j .. n - 1) \cup {n}
        OBVIOUS
      <4> QED BY <1>5, <4>1
    <3>2. \A j \in 1 .. n : es[j].time % Buckets = b => j \in 1 .. n - 1
      BY <1>4, <1>5
    <3>3. 1 .. n - 1 \subseteq 1 .. n
      OBVIOUS
    <3> QED BY <1>3, <1>5, <3>1, <3>2, <3>3, SMTT(30) DEF Kept
  <2>2. ASSUME NEW j \in 1 .. n, es[j].time % Buckets = b
        PROVE  \E q \in j .. n : es[q].time % Buckets = b /\ es[q].time = ring[b].stamp
    <3>1. j \in 1 .. n - 1
      BY <1>4, <1>5, <2>2
    <3>2. j .. n - 1 \subseteq j .. n
      OBVIOUS
    <3> QED BY <2>2, <3>1, <3>2 DEF RingTells
  <2> QED BY <1>3, <1>5, <2>1, <2>2 DEF RingTells
<1>6. new[k].counts.views = Cardinality(Kept(es, new, n, k))
  <2>1. CASE ring[k].stamp = e.time
    <3>1. Kept(es, new, n, k) = Kept(es, ring, n - 1, k) \cup {n}
      <4>1. ASSUME NEW j \in 1 .. n - 1
            PROVE  (\A q \in j .. n : es[q].time % Buckets = k => es[q].time = e.time)
                     <=> \A q \in j .. n - 1 : es[q].time % Buckets = k => es[q].time = e.time
        <5>1. j .. n = (j .. n - 1) \cup {n}
          OBVIOUS
        <5> QED BY <5>1
      <4>2. 1 .. n = (1 .. n - 1) \cup {n} /\ n .. n = {n}
        OBVIOUS
      <4> HIDE DEF k
      <4>3. n \in Kept(es, new, n, k)
        BY <1>3, <4>2 DEF Kept, k
      <4>4. \A j \in 1 .. n - 1 : j \in Kept(es, new, n, k) <=> j \in Kept(es, ring, n - 1, k)
        BY <1>3, <2>1, <4>1, <4>2 DEF Kept
      <4>5. Kept(es, new, n, k) \subseteq 1 .. n /\ Kept(es, ring, n - 1, k) \subseteq 1 .. n - 1
        BY DEF Kept
      <4> QED BY <4>2, <4>3, <4>4, <4>5
    <3>2. Kept(es, ring, n - 1, k) \in SUBSET (1 .. n - 1) /\ n - 1 \in Nat /\ n \notin 1 .. n - 1
      BY DEF Kept
    <3>3. Cardinality(Kept(es, ring, n - 1, k) \cup {n}) = Cardinality(Kept(es, ring, n - 1, k)) + 1
      BY <3>2, PositionsFinite, FS_AddElement
    <3>4. old.views = Cardinality(Kept(es, ring, n - 1, k))
      BY <1>1, <2>1 DEF RingTells
    <3> QED BY <1>3, <3>1, <3>3, <3>4
  <2>2. CASE ring[k].stamp # e.time
    <3>1. n \in Kept(es, new, n, k)
      <4>1. n .. n = {n} /\ n \in 1 .. n
        OBVIOUS
      <4> QED BY <1>3, <4>1 DEF Kept
    <3>2. ASSUME NEW j \in 1 .. n - 1, j \in Kept(es, new, n, k) PROVE FALSE
      <4>1. j .. n - 1 \subseteq j .. n /\ j \in j .. n
        OBVIOUS
      <4>2. es[j].time % Buckets = k
        BY <3>2 DEF Kept
      <4>3. \A q \in j .. n : es[q].time % Buckets = k => es[q].time = e.time
        BY <1>3, <3>2 DEF Kept
      <4>4. \E q \in j .. n - 1 : es[q].time % Buckets = k /\ es[q].time = ring[k].stamp
        BY <1>1, <4>2 DEF RingTells
      <4> QED BY <2>2, <4>1, <4>3, <4>4
    <3>3. Kept(es, new, n, k) \subseteq 1 .. n
      BY DEF Kept
    <3>4. Kept(es, new, n, k) = {n}
      BY <1>4, <3>1, <3>2, <3>3
    <3>5. old.views = 0
      BY <2>2 DEF NoCounts
    <3>6. Cardinality(Kept(es, new, n, k)) = 1
      BY <3>4, FS_Singleton
    <3> HIDE DEF k, old
    <3> QED BY <1>3, <3>5, <3>6
  <2> QED BY <2>1, <2>2
<1>7. \A j \in 1 .. n : \E q \in j .. n : es[q].time % Buckets = k /\ es[q].time = new[k].stamp
  <2> SUFFICES ASSUME NEW j \in 1 .. n
               PROVE  \E q \in j .. n : es[q].time % Buckets = k /\ es[q].time = new[k].stamp
    OBVIOUS
  <2>1. n \in j .. n
    OBVIOUS
  <2> QED BY <1>3, <2>1
<1> HIDE DEF k
<1>8. \A b \in 0 .. Buckets - 1 :
        /\ new[b].stamp \in Nat
        /\ new[b].counts.views = Cardinality(Kept(es, new, n, b))
        /\ \A j \in 1 .. n : es[j].time % Buckets = b =>
             \E q \in j .. n : es[q].time % Buckets = b /\ es[q].time = new[b].stamp
  <2> SUFFICES ASSUME NEW b \in 0 .. Buckets - 1
               PROVE  /\ new[b].stamp \in Nat
                      /\ new[b].counts.views = Cardinality(Kept(es, new, n, b))
                      /\ \A j \in 1 .. n : es[j].time % Buckets = b =>
                           \E q \in j .. n : es[q].time % Buckets = b /\ es[q].time = new[b].stamp
    OBVIOUS
  <2>1. CASE b # k
    BY <1>5, <2>1
  <2>2. CASE b = k
    BY <1>1, <1>3, <1>6, <1>7, <2>2
  <2> QED BY <2>1, <2>2
<1> QED BY <1>3, <1>8 DEF RingTells, new

LEMMA RingIsTold ==
  ASSUME Buckets \in Nat \ {0}, NEW es, Len(es) \in Nat,
         \A j \in 1 .. Len(es) : es[j].time \in Nat
  PROVE  RingTells(es, Nearline!Ring(es), Len(es))
<1> DEFINE N == Len(es)
<1>1. PICK f : /\ f[0] = BlankRing /\ Nearline!Ring(es) = f[N]
               /\ \A n \in 1 .. N : f[n] = Nearline!RingAdd(f[n - 1], es[n])
  BY RingSteps
<1> DEFINE S == {n \in 0 .. N : RingTells(es, f[n], n)}
<1> HIDE DEF N
<1>2. N \in Nat /\ \A j \in 1 .. N : es[j].time \in Nat
  BY DEF N
<1>3. 0 \in S
  <2>1. \A b : Cardinality(Kept(es, BlankRing, 0, b)) = 0
    <3>1. \A b : Kept(es, BlankRing, 0, b) = {}
      BY DEF Kept
    <3> QED BY <3>1, FS_EmptySet
  <2>2. \A b \in 0 .. Buckets - 1 :
          BlankRing[b].stamp = 0 /\ BlankRing[b].counts.views = 0
    BY DEF BlankRing, NoCounts
  <2>3. DOMAIN BlankRing = 0 .. Buckets - 1 /\ 1 .. 0 = {}
    BY DEF BlankRing
  <2>4. RingTells(es, BlankRing, 0)
    BY <2>1, <2>2, <2>3 DEF RingTells
  <2> QED BY <1>1, <1>2, <2>4
<1>4. \A n \in 1 .. N : n - 1 \in S => n \in S
  <2> SUFFICES ASSUME NEW n \in 1 .. N, n - 1 \in S PROVE n \in S
    OBVIOUS
  <2>1. RingTells(es, f[n - 1], n - 1) /\ n \in Nat \ {0} /\ \A j \in 1 .. n : es[j].time \in Nat
    BY <1>2
  <2>2. RingTells(es, Nearline!RingAdd(f[n - 1], es[n]), n)
    BY <2>1, RingAddTells
  <2> QED BY <1>1, <1>2, <2>2
<1> HIDE DEF S
<1>5. \A n \in 0 .. N : n \in S
  BY <1>2, <1>3, <1>4, UpTo
<1>6. N \in S
  BY <1>2, <1>5
<1> QED BY <1>1, <1>6 DEF S, N

LEMMA WindowIsExact == NearlineInstances /\ log \in Seq(LogEvents) => Nearline!WindowExact
<1> SUFFICES ASSUME NearlineInstances, log \in Seq(LogEvents) PROVE Nearline!WindowExact
  OBVIOUS
<1> DEFINE N == Len(log)
           ring == Nearline!Ring(log)
           timely == \A i \in 1 .. N : \A j \in 1 .. i : log[j].time < log[i].time + Buckets
           mine(b) == Kept(log, ring, N, b)
<1>1. N \in Nat /\ DOMAIN log = 1 .. N /\ Buckets \in Nat \ {0}
  BY DEF NearlineInstances
<1>2. \A j \in 1 .. N : log[j].time \in Nat
  <2>1. \A e \in LogEvents : e.time \in Nat
    BY DEF NearlineInstances
  <2> QED BY <2>1
<1>3. RingTells(log, ring, N)
  BY <1>1, <1>2, RingIsTold
<1> HIDE DEF N, ring
<1>4. /\ DOMAIN ring = 0 .. Buckets - 1
      /\ \A b \in 0 .. Buckets - 1 : ring[b].stamp \in Nat /\ ring[b].counts.views = Cardinality(mine(b))
  BY <1>3 DEF RingTells
<1>5. \A b : \A j \in mine(b) :
        /\ j \in 1 .. N /\ log[j].time % Buckets = b /\ log[j].time = ring[b].stamp
  <2> SUFFICES ASSUME NEW b, NEW j \in mine(b)
               PROVE  /\ j \in 1 .. N /\ log[j].time % Buckets = b
                      /\ log[j].time = ring[b].stamp
    OBVIOUS
  <2>1. j \in 1 .. N /\ log[j].time % Buckets = b
    BY DEF Kept
  <2>2. j \in j .. N
    BY <1>1, <2>1
  <2> QED BY <2>1, <2>2 DEF Kept
<1>6. ASSUME timely, NEW k \in 1 .. N, \A j \in 1 .. N : log[j].time <= log[k].time,
             NEW span \in 0 .. Buckets - 1, NEW j \in 1 .. N, log[j].time + span >= log[k].time
      PROVE  /\ log[j].time % Buckets \in 0 .. Buckets - 1
             /\ j \in mine(log[j].time % Buckets)
  <2> DEFINE b == log[j].time % Buckets
  <2>1. b \in 0 .. Buckets - 1
    BY <1>1, <1>2
  <2>2. ASSUME NEW q \in j .. N, log[q].time % Buckets = b PROVE log[q].time = log[j].time
    <3>1. q \in 1 .. N /\ j \in 1 .. q
      BY <1>1, <2>2
    <3>2. /\ log[q].time \in Nat /\ log[j].time \in Nat /\ log[k].time \in Nat
          /\ log[q].time <= log[k].time /\ log[j].time < log[q].time + Buckets
      BY <1>2, <1>6, <3>1
    <3>3. ~(log[q].time < log[j].time)
      <4>1. log[q].time < log[j].time => log[q].time + Buckets <= log[j].time
        BY <1>1, <2>2, <3>2, OneRoundApart
      <4> QED BY <1>1, <3>2, <4>1
    <3>4. ~(log[j].time < log[q].time)
      <4>1. log[j].time < log[q].time => log[j].time + Buckets <= log[q].time
        BY <1>1, <2>2, <3>2, OneRoundApart
      <4> QED BY <1>1, <1>6, <3>2, <4>1, SMTT(30)
    <3> QED BY <3>2, <3>3, <3>4
  <2>3. PICK p \in j .. N : log[p].time % Buckets = b /\ log[p].time = ring[b].stamp
    BY <1>3, <2>1 DEF RingTells
  <2>4. \A q \in j .. N : log[q].time % Buckets = b => log[q].time = ring[b].stamp
    BY <2>2, <2>3
  <2> QED BY <2>1, <2>4 DEF Kept
<1>7. ASSUME NEW k \in 1 .. N, \A j \in 1 .. N : log[j].time <= log[k].time,
             NEW span \in 0 .. Buckets - 1
      PROVE  LET now == log[k].time
                 exact == Cardinality({j \in 1 .. N : log[j].time + span >= now})
             IN /\ Nearline!Window(ring, now, span) <= exact
                /\ timely => Nearline!Window(ring, now, span) = exact
  <2> DEFINE now == log[k].time
             X == {j \in 1 .. N : log[j].time + span >= now}
             since == IF span >= now THEN 0 ELSE now - span
             I == {b \in DOMAIN ring : ring[b].stamp >= since /\ ring[b].stamp <= now}
             f == [b \in I |-> ring[b].counts.views]
             M == [b \in I |-> mine(b)]
             V == UNION {M[b] : b \in I}
  <2>1. now \in Nat /\ since \in Nat /\ span \in Nat
        /\ \A t \in Nat : t >= since <=> t + span >= now
    BY <1>1, <1>2
  <2>2. IsFiniteSet(1 .. N) /\ IsFiniteSet(X) /\ Cardinality(X) \in Nat
    BY <1>1, PositionsFinite
  <2>3. Nearline!Window(ring, now, span) = Total(f)
    BY NearlineCounts DEF Nearline!Window
  <2>4. Total(f) = Cardinality(V)
    <3>1. M \in [I -> SUBSET (1 .. N)]
      BY <1>5
    <3>2. \A b \in I : Cardinality(M[b]) = f[b]
      BY <1>4
    <3>3. \A b \in I : f[b] \in Nat
      BY <1>1, <3>1, <3>2, PositionsFinite
    <3>4. \A b, c \in I : b # c => M[b] \cap M[c] = {}
      BY <1>5
    <3>5. f \in [I -> Nat]
      BY <3>3
    <3>6. \A j \in 1 .. N : j \in V <=> \E b \in I : j \in M[b]
      OBVIOUS
    <3> DEFINE U == 1 .. N
    <3>7. /\ IsFiniteSet(U) /\ M \in [I -> SUBSET U] /\ V \in SUBSET U
          /\ \A j \in U : j \in V <=> \E b \in I : j \in M[b]
      BY <2>2, <3>1, <3>6
    <3> HIDE DEF I, M, f, V, U
    <3> QED BY <3>2, <3>4, <3>5, <3>7, TotalIsUnion, SMTT(30)
  <2>5. V \in SUBSET X
    <3> SUFFICES ASSUME NEW b \in I, NEW j \in mine(b) PROVE j \in X
      OBVIOUS
    <3>1. j \in 1 .. N /\ log[j].time = ring[b].stamp
      BY <1>5
    <3>2. ring[b].stamp \in Nat /\ ring[b].stamp >= since
      BY <1>4
    <3> QED BY <2>1, <3>1, <3>2
  <2>6. ASSUME timely PROVE X \subseteq V
    <3> SUFFICES ASSUME NEW j \in X PROVE j \in V
      OBVIOUS
    <3> DEFINE b == log[j].time % Buckets
    <3>1. b \in 0 .. Buckets - 1 /\ j \in mine(b)
      BY <1>6, <1>7, <2>6
    <3>2. ring[b].stamp = log[j].time /\ log[j].time \in Nat /\ log[j].time <= now
      BY <1>2, <1>5, <1>7, <3>1
    <3>3. ring[b].stamp >= since
      BY <2>1, <3>2
    <3>4. b \in I
      BY <1>4, <3>1, <3>2, <3>3
    <3> HIDE DEF I, b
    <3>5. M[b] = mine(b)
      BY <3>4
    <3> QED BY <3>1, <3>4, <3>5
  <2> HIDE DEF V, X, f, I
  <2>7. Cardinality(V) <= Cardinality(X)
    BY <2>2, <2>5, FS_Subset
  <2>8. timely => Cardinality(V) = Cardinality(X)
    <3>1. ASSUME timely PROVE V = X
      BY <2>5, <2>6, <3>1
    <3> QED BY <3>1
  <2>9. /\ Nearline!Window(ring, now, span) <= Cardinality(X)
        /\ timely => Nearline!Window(ring, now, span) = Cardinality(X)
    BY <2>3, <2>4, <2>7, <2>8
  <2> QED BY <2>9 DEF X
<1>8. \A S : Nearline!Cardinality(S) = Cardinality(S)
  BY NearlineCounts
<1> HIDE DEF timely
<1> QED BY <1>1, <1>7, <1>8 DEF Nearline!WindowExact, ring, timely

-----------------------------------------------------------------------------
(* The streaming aggregation *)

\* The events of a row of the job's output.
Within(es, r) ==
  {j \in DOMAIN es : es[j].item = r.item /\ es[j].time \div Width = r.window}

LEMMA WindowedRows ==
  ASSUME NEW es
  PROVE  /\ \A r \in Streaming!Windowed(es) :
              /\ r.views = Cardinality(Within(es, r))
              /\ r.likes = Cardinality(Liked(es, Within(es, r)))
              /\ \E j \in DOMAIN es : j \in Within(es, r)
         /\ \A r, s \in Streaming!Windowed(es) : r.item = s.item /\ r.window = s.window => r = s
         /\ \A j \in DOMAIN es : \E r \in Streaming!Windowed(es) : j \in Within(es, r)
<1> DEFINE W == Streaming!Windowed(es)
           key(e) == <<e.item, e.time \div Width>>
           with(k) == {i \in DOMAIN es : key(es[i]) = k}
           row(k) == [item |-> k[1], window |-> k[2], views |-> Cardinality(with(k)),
                      likes |-> Cardinality(Liked(es, with(k)))]
<1>1. W = {row(k) : k \in {key(es[i]) : i \in DOMAIN es}}
  BY StreamingCounts DEF Streaming!Windowed
<1>2. \A j \in DOMAIN es : Within(es, row(key(es[j]))) = with(key(es[j]))
  BY DEF Within
<1>3. \A r \in W : r = row(<<r.item, r.window>>) /\ \E j \in DOMAIN es : r = row(key(es[j]))
  <2> SUFFICES ASSUME NEW r \in W
               PROVE  r = row(<<r.item, r.window>>) /\ \E j \in DOMAIN es : r = row(key(es[j]))
    OBVIOUS
  <2>1. PICK j \in DOMAIN es : r = row(key(es[j]))
    BY <1>1
  <2>2. <<r.item, r.window>> = key(es[j])
    BY <2>1
  <2> QED BY <2>1, <2>2
<1>4. \A j \in DOMAIN es : row(key(es[j])) \in W
  BY <1>1
<1>5. \A j \in DOMAIN es : /\ j \in with(key(es[j]))
                           /\ row(key(es[j])).views = Cardinality(with(key(es[j])))
                           /\ row(key(es[j])).likes = Cardinality(Liked(es, with(key(es[j]))))
  OBVIOUS
<1> HIDE DEF W, row, with, key
<1>6. ASSUME NEW r \in W
      PROVE  /\ r.views = Cardinality(Within(es, r))
             /\ r.likes = Cardinality(Liked(es, Within(es, r)))
             /\ \E j \in DOMAIN es : j \in Within(es, r)
  <2>1. PICK j \in DOMAIN es : r = row(key(es[j]))
    BY <1>3
  <2> QED BY <1>2, <1>5, <2>1
<1>7. \A r, s \in W : r.item = s.item /\ r.window = s.window => r = s
  <2> SUFFICES ASSUME NEW r \in W, NEW s \in W, r.item = s.item, r.window = s.window PROVE r = s
    OBVIOUS
  <2>1. r = row(<<r.item, r.window>>) /\ s = row(<<s.item, s.window>>)
    BY <1>3
  <2> QED BY <2>1
<1>8. \A j \in DOMAIN es : \E r \in W : j \in Within(es, r)
  BY <1>2, <1>4, <1>5
<1> QED BY <1>6, <1>7, <1>8 DEF W

\* Summed over its windows, the output has for every item what the log has.
LEMMA ReadFlinkCounts ==
  ASSUME NEW E, NEW es \in Seq(E)
  PROVE  LET flink == Streaming!ReadFlink(Streaming!Windowed(es)) IN
         /\ DOMAIN flink = {es[j].item : j \in DOMAIN es}
         /\ \A k \in DOMAIN flink : flink[k] = Counts(es, k)
<1> DEFINE W == Streaming!Windowed(es)
           N == Len(es)
           flink == Streaming!ReadFlink(W)
           OfItem(k) == {r \in W : r.item = k}
<1>1. N \in Nat /\ DOMAIN es = 1 .. N
  OBVIOUS
<1>2. flink = [k \in {r.item : r \in W} |-> [views |-> Total([r \in OfItem(k) |-> r.views]),
                                             likes |-> Total([r \in OfItem(k) |-> r.likes])]]
  BY StreamingCounts DEF Streaming!ReadFlink
<1>3. /\ \A r \in W : /\ r.views = Cardinality(Within(es, r))
                      /\ r.likes = Cardinality(Liked(es, Within(es, r)))
                      /\ \E j \in DOMAIN es : j \in Within(es, r)
      /\ \A r, s \in W : r.item = s.item /\ r.window = s.window => r = s
      /\ \A j \in DOMAIN es : \E r \in W : j \in Within(es, r)
  BY WindowedRows
<1> HIDE DEF W, N, flink
<1>4. {r.item : r \in W} = {es[j].item : j \in DOMAIN es}
  <2>1. ASSUME NEW r \in W PROVE \E j \in DOMAIN es : es[j].item = r.item
    BY <1>3 DEF Within
  <2>2. ASSUME NEW j \in DOMAIN es PROVE \E r \in W : r.item = es[j].item
    <3>1. PICK r \in W : j \in Within(es, r)
      BY <1>3
    <3> QED BY <3>1 DEF Within
  <2> QED BY <2>1, <2>2
<1>5. ASSUME NEW k
      PROVE  /\ Total([r \in OfItem(k) |-> r.views]) = Cardinality(Of(es, k))
             /\ Total([r \in OfItem(k) |-> r.likes]) = Cardinality(Liked(es, Of(es, k)))
  <2> DEFINE I == OfItem(k)
             U == 1 .. N
             V == Of(es, k)
             L == Liked(es, V)
             f == [r \in I |-> r.views]
             g == [r \in I |-> r.likes]
             M == [r \in I |-> Within(es, r)]
             K == [r \in I |-> Liked(es, Within(es, r))]
  <2>1. IsFiniteSet(U) /\ V \in SUBSET U /\ L \in SUBSET U
    BY <1>1, PositionsFinite DEF Of, Liked
  <2>2. M \in [I -> SUBSET U] /\ K \in [I -> SUBSET U]
    BY <1>1 DEF Within, Liked
  <2>3. /\ \A r \in I : Cardinality(M[r]) = f[r]
        /\ \A r \in I : Cardinality(K[r]) = g[r]
    BY <1>3
  <2>4. f \in [I -> Nat] /\ g \in [I -> Nat]
    <3>1. ASSUME NEW r \in I PROVE r.views \in Nat /\ r.likes \in Nat
      <4>1. M[r] \in SUBSET (1 .. N) /\ K[r] \in SUBSET (1 .. N)
        BY <2>2
      <4>2. Cardinality(M[r]) \in Nat /\ Cardinality(K[r]) \in Nat
        BY <1>1, <4>1, PositionsFinite
      <4>3. f[r] = r.views /\ g[r] = r.likes
        OBVIOUS
      <4> QED BY <2>3, <4>2, <4>3
    <3> QED BY <3>1
  <2>5. ASSUME NEW r \in I, NEW s \in I, r # s PROVE M[r] \cap M[s] = {} /\ K[r] \cap K[s] = {}
    <3>1. r.window # s.window
      BY <1>3, <2>5
    <3>2. Within(es, r) \cap Within(es, s) = {}
      BY <3>1 DEF Within
    <3>3. Liked(es, Within(es, r)) \cap Liked(es, Within(es, s)) = {}
      BY <3>2 DEF Liked
    <3> QED BY <3>2, <3>3
  <2>6. ASSUME NEW j \in U
        PROVE  /\ j \in V <=> \E r \in I : j \in M[r]
               /\ j \in L <=> \E r \in I : j \in K[r]
    <3>1. PICK r \in W : j \in Within(es, r)
      BY <1>1, <1>3
    <3>2. r.item = es[j].item /\ \A s \in W : j \in Within(es, s) => s.item = es[j].item
      BY <3>1 DEF Within
    <3>3. j \in V <=> es[j].item = k
      BY <1>1 DEF Of
    <3>4. r \in I <=> es[j].item = k
      BY <3>2
    <3>5. \A s \in I : j \in M[s] => es[j].item = k
      BY <3>2
    <3>6. \A s \in I : j \in K[s] <=> j \in M[s] /\ es[j].like
      BY DEF Liked
    <3>7. j \in L <=> j \in V /\ es[j].like
      BY DEF Liked
    <3> QED BY <3>1, <3>3, <3>4, <3>5, <3>6, <3>7
  <2> HIDE DEF I, U, V, L, f, g, M, K
  <2>7. Total(f) = Cardinality(V)
    <3>1. \A r, s \in I : r # s => M[r] \cap M[s] = {}
      BY <2>5
    <3>2. \A j \in U : j \in V <=> \E r \in I : j \in M[r]
      BY <2>6
    <3>3. /\ IsFiniteSet(U) /\ V \in SUBSET U /\ M \in [I -> SUBSET U] /\ f \in [I -> Nat]
          /\ \A r \in I : Cardinality(M[r]) = f[r]
      BY <2>1, <2>2, <2>3, <2>4
    <3> QED BY <3>1, <3>2, <3>3, TotalIsUnion, SMTT(30)
  <2>8. Total(g) = Cardinality(L)
    <3>1. \A r, s \in I : r # s => K[r] \cap K[s] = {}
      BY <2>5
    <3>2. \A j \in U : j \in L <=> \E r \in I : j \in K[r]
      BY <2>6
    <3>3. /\ IsFiniteSet(U) /\ L \in SUBSET U /\ K \in [I -> SUBSET U] /\ g \in [I -> Nat]
          /\ \A r \in I : Cardinality(K[r]) = g[r]
      BY <2>1, <2>2, <2>3, <2>4
    <3> QED BY <3>1, <3>2, <3>3, TotalIsUnion
  <2> QED BY <2>7, <2>8 DEF f, g, V, L, I
<1>6. \A k \in DOMAIN flink : flink[k] = Counts(es, k)
  BY <1>2, <1>5 DEF Counts
<1>7. DOMAIN flink = {es[j].item : j \in DOMAIN es}
  BY <1>2, <1>4
<1> QED BY <1>6, <1>7 DEF flink, W

\* The comparison of the two aggregates is the comparison of their counts.
LEMMA AgreeIsEqual ==
  ASSUME StreamingInstances, NEW es \in Seq(StreamEvents), NEW ref \in Seq(StreamEvents)
  PROVE  Streaming!Agree(Streaming!ReadFlink(Streaming!Windowed(es)), Aggregate(ref))
           <=> \A k \in Streaming!Items : Counts(es, k) = Counts(ref, k)
<1> DEFINE flink == Streaming!ReadFlink(Streaming!Windowed(es))
           table == Aggregate(ref)
<1>1. /\ DOMAIN flink = {es[j].item : j \in DOMAIN es}
      /\ \A k \in DOMAIN flink : flink[k] = Counts(es, k)
  BY ReadFlinkCounts
<1>2. /\ DOMAIN table = {ref[j].item : j \in DOMAIN ref}
      /\ \A k \in DOMAIN table : table[k] = Counts(ref, k)
  BY AggregateCounts
<1>3. ASSUME NEW log1 \in Seq(StreamEvents)
      PROVE  /\ {log1[j].item : j \in DOMAIN log1} \subseteq Streaming!Items
             /\ \A k : k \in {log1[j].item : j \in DOMAIN log1} <=> Counts(log1, k).views # 0
             /\ \A k : k \notin {log1[j].item : j \in DOMAIN log1} => Counts(log1, k) = NoCounts
  <2>1. Len(log1) \in Nat /\ DOMAIN log1 = 1 .. Len(log1)
    OBVIOUS
  <2>2. \A j \in DOMAIN log1 : log1[j] \in StreamEvents
    OBVIOUS
  <2>3. {log1[j].item : j \in DOMAIN log1} \subseteq Streaming!Items
    BY <2>2 DEF Streaming!Items
  <2>4. \A k : Of(log1, k) = {} <=> k \notin {log1[j].item : j \in DOMAIN log1}
    BY DEF Of
  <2>5. \A k : IsFiniteSet(Of(log1, k)) /\ (Cardinality(Of(log1, k)) = 0 <=> Of(log1, k) = {})
    <3> SUFFICES ASSUME NEW k
                 PROVE  /\ IsFiniteSet(Of(log1, k))
                        /\ Cardinality(Of(log1, k)) = 0 <=> Of(log1, k) = {}
      OBVIOUS
    <3>1. Of(log1, k) \in SUBSET (1 .. Len(log1))
      BY <2>1 DEF Of
    <3>2. IsFiniteSet(Of(log1, k))
      BY <2>1, <3>1, PositionsFinite
    <3> QED BY <3>2, FS_EmptySet
  <2>6. \A k : Counts(log1, k).views = Cardinality(Of(log1, k))
    BY DEF Counts
  <2>7. ASSUME NEW k, Of(log1, k) = {} PROVE Counts(log1, k) = NoCounts
    <3>1. Liked(log1, {}) = {} /\ Cardinality({}) = 0
      BY FS_EmptySet DEF Liked
    <3> QED BY <2>7, <3>1 DEF Counts, NoCounts
  <2> QED BY <2>3, <2>4, <2>5, <2>6, <2>7
<1> HIDE DEF flink, table
<1>4. ASSUME Streaming!Agree(flink, table), NEW k \in Streaming!Items
      PROVE  Counts(es, k) = Counts(ref, k)
  <2>1. DOMAIN flink = DOMAIN table /\ \A i \in DOMAIN table : flink[i] = table[i]
    BY <1>4 DEF Streaming!Agree
  <2>2. CASE k \in DOMAIN flink
    BY <1>1, <1>2, <2>1, <2>2, Zenon
  <2>3. CASE k \notin DOMAIN flink
    BY <1>1, <1>2, <1>3, <2>1, <2>3, Zenon
  <2> QED BY <2>2, <2>3
<1>5. ASSUME \A k \in Streaming!Items : Counts(es, k) = Counts(ref, k)
      PROVE  Streaming!Agree(flink, table)
  <2>1. \A k : k \in DOMAIN flink <=> k \in DOMAIN table
    <3>1. DOMAIN flink \subseteq Streaming!Items /\ DOMAIN table \subseteq Streaming!Items
      BY <1>1, <1>2, <1>3
    <3>2. \A k \in DOMAIN flink : Counts(es, k).views # 0
      BY <1>1, <1>3
    <3>3. \A k \in DOMAIN table : Counts(ref, k).views # 0
      BY <1>2, <1>3
    <3>4. \A k : /\ Counts(es, k).views # 0 => k \in DOMAIN flink
                 /\ Counts(ref, k).views # 0 => k \in DOMAIN table
      BY <1>1, <1>2, <1>3
    <3> QED BY <1>5, <3>1, <3>2, <3>3, <3>4
  <2>2. \A k \in DOMAIN table : flink[k] = table[k]
    BY <1>1, <1>2, <1>3, <1>5, <2>1
  <2>3. DOMAIN flink = DOMAIN table
    BY <2>1
  <2> QED BY <2>2, <2>3 DEF Streaming!Agree
<1> QED BY <1>4, <1>5 DEF flink, table

StreamShape ==
  /\ dump \in Seq(StreamEvents) /\ flight \in Seq(StreamEvents)
  /\ topic \in Seq(StreamEvents) /\ read \in Seq(StreamEvents)
  /\ faults \in 0 .. MaxFaults
  /\ job \in {None} \cup 0 .. Len(topic)

\* An output is of the records it was made from, a reference of its dump.
Derived ==
  /\ rows = None \/ rows = Streaming!Windowed(read)
  /\ \/ reference = None
     \/ /\ reference.log \in Seq(StreamEvents)
        /\ reference.table = Aggregate(reference.log)

Judged ==
  /\ verdict \in {None} \cup [pass : BOOLEAN, equal : BOOLEAN]
  /\ Streaming!ComparisonSound

StreamInv == StreamShape /\ Derived /\ Judged

LEMMA InitStream == StreamingInstances /\ Streaming!Init => StreamInv
<1> SUFFICES ASSUME StreamingInstances, Streaming!Init PROVE StreamInv
  OBVIOUS
<1>1. StreamShape
  BY DEF Streaming!Init, StreamShape, StreamingInstances
<1>2. Derived /\ Judged
  BY DEF Streaming!Init, Derived, Judged, Streaming!ComparisonSound
<1> QED BY <1>1, <1>2 DEF StreamInv

LEMMA NextStream == StreamingInstances /\ StreamInv /\ [Streaming!Next]_Streaming!vars => StreamInv'
<1> SUFFICES ASSUME StreamingInstances, StreamInv, [Streaming!Next]_Streaming!vars
             PROVE  StreamInv'
  OBVIOUS
<1> USE DEF StreamInv
<1>1. ASSUME NEW e \in StreamEvents, Streaming!Send(e) PROVE StreamInv'
  <2>1. StreamShape'
    BY <1>1 DEF Streaming!Send, StreamShape
  <2>2. Derived' /\ Judged'
    BY <1>1 DEF Streaming!Send, Derived, Judged, Streaming!ComparisonSound
  <2> QED BY <2>1, <2>2
<1>2. CASE Streaming!Deliver \/ Streaming!Misdeliver
  <2>1. flight # <<>> => Head(flight) \in StreamEvents /\ Tail(flight) \in Seq(StreamEvents)
    BY DEF StreamShape
  <2>2. StreamShape'
    <3>1. /\ topic' \in {topic, Append(topic, Head(flight))} /\ flight # <<>>
          /\ flight' \in {flight, Tail(flight)} /\ UNCHANGED <<dump, read, job>>
      BY <1>2 DEF Streaming!Deliver, Streaming!Misdeliver
    <3>2. topic' \in Seq(StreamEvents) /\ Len(topic) <= Len(topic')
      <4>1. topic \in Seq(StreamEvents)
        BY DEF StreamShape
      <4>2. CASE topic' = topic
        BY <4>1, <4>2
      <4>3. CASE topic' = Append(topic, Head(flight))
        <5>1. Head(flight) \in StreamEvents
          BY <2>1, <3>1
        <5> QED BY <4>1, <4>3, <5>1
      <4> QED BY <3>1, <4>2, <4>3
    <3>3. faults' \in 0 .. MaxFaults
      BY <1>2 DEF Streaming!Deliver, Streaming!Misdeliver, StreamShape, StreamingInstances
    <3>4. job' \in {None} \cup 0 .. Len(topic')
      BY <3>1, <3>2 DEF StreamShape
    <3> QED BY <2>1, <3>1, <3>2, <3>3, <3>4 DEF StreamShape
  <2>3. Derived' /\ Judged'
    BY <1>2 DEF Streaming!Deliver, Streaming!Misdeliver, Derived, Judged,
       Streaming!ComparisonSound
  <2> QED BY <2>2, <2>3
<1>3. CASE Streaming!Again \/ Streaming!JobStart \/ Streaming!JobFails
  <2>1. StreamShape'
    BY <1>3 DEF Streaming!Again, Streaming!JobStart, Streaming!JobFails, StreamShape
  <2>2. Derived' /\ Judged'
    BY <1>3 DEF Streaming!Again, Streaming!JobStart, Streaming!JobFails, Derived, Judged,
       Streaming!ComparisonSound
  <2> QED BY <2>1, <2>2
<1>4. CASE Streaming!JobDone
  <2>1. job \in 0 .. Len(topic) /\ topic \in Seq(StreamEvents)
    BY <1>4 DEF Streaming!JobDone, StreamShape
  <2>2. read' \in Seq(StreamEvents)
    BY <1>4, <2>1 DEF Streaming!JobDone
  <2>3. StreamShape'
    BY <1>4, <2>2 DEF Streaming!JobDone, StreamShape
  <2>4. Derived' /\ Judged'
    BY <1>4 DEF Streaming!JobDone, Derived, Judged, Streaming!ComparisonSound
  <2> QED BY <2>3, <2>4
<1>5. CASE Streaming!Offline
  <2>1. reference'.log = dump /\ reference'.table = Aggregate(dump)
    BY <1>5, StreamingCounts DEF Streaming!Offline
  <2>2. StreamShape' /\ Judged'
    BY <1>5 DEF Streaming!Offline, StreamShape, Judged, Streaming!ComparisonSound
  <2>3. Derived'
    BY <1>5, <2>1 DEF Streaming!Offline, Derived, StreamShape
  <2> QED BY <2>2, <2>3
<1>6. CASE Streaming!Compare
  <2>1. /\ rows = Streaming!Windowed(read) /\ read \in Seq(StreamEvents)
        /\ reference.log \in Seq(StreamEvents) /\ reference.table = Aggregate(reference.log)
    BY <1>6 DEF Streaming!Compare, Derived, StreamShape
  <2>2. Streaming!Agree(Streaming!ReadFlink(rows), reference.table)
          <=> \A k \in Streaming!Items : Streaming!Counts(read, k) = Streaming!Counts(reference.log, k)
    BY <2>1, AgreeIsEqual, StreamingCounts
  <2> DEFINE p == Streaming!Agree(Streaming!ReadFlink(rows), reference.table)
             q == \A k \in Streaming!Items :
                    Streaming!Counts(read, k) = Streaming!Counts(reference.log, k)
  <2>3. verdict' = [pass |-> p, equal |-> q]
    BY <1>6 DEF Streaming!Compare
  <2>4. p \in BOOLEAN /\ q \in BOOLEAN
    BY DEF Streaming!Agree
  <2>5. p <=> q
    BY <2>2
  <2> HIDE DEF p, q
  <2>6. verdict'.pass = p /\ verdict'.equal = q
    BY <2>3
  <2>7. verdict' \in [pass : BOOLEAN, equal : BOOLEAN]
    BY <2>3, <2>4
  <2>8. Judged'
    BY <2>5, <2>6, <2>7, Zenon DEF Judged, Streaming!ComparisonSound
  <2>9. StreamShape' /\ Derived'
    BY <1>6 DEF Streaming!Compare, StreamShape, Derived
  <2> QED BY <2>8, <2>9
<1>7. CASE UNCHANGED Streaming!vars
  <2>1. StreamShape'
    BY <1>7 DEF Streaming!vars, StreamShape
  <2>2. Derived' /\ Judged'
    BY <1>7 DEF Streaming!vars, Derived, Judged, Streaming!ComparisonSound
  <2> QED BY <2>1, <2>2
<1> QED BY <1>1, <1>2, <1>3, <1>4, <1>5, <1>6, <1>7 DEF Streaming!Next

LEMMA StreamIsSound ==
  StreamingInstances /\ StreamInv => Streaming!TypeOK /\ Streaming!ComparisonSound
<1> SUFFICES ASSUME StreamingInstances, StreamInv
             PROVE  Streaming!TypeOK /\ Streaming!ComparisonSound
  OBVIOUS
<1>1. StreamShape /\ Derived /\ Judged
  BY DEF StreamInv
<1>2. ASSUME rows # None, NEW r \in rows PROVE r.item \in Streaming!Items /\ r.views >= r.likes
  <2>1. rows = Streaming!Windowed(read) /\ read \in Seq(StreamEvents)
    BY <1>1, <1>2 DEF Derived, StreamShape
  <2>2. /\ r.views = Cardinality(Within(read, r))
        /\ r.likes = Cardinality(Liked(read, Within(read, r)))
    BY <1>2, <2>1, WindowedRows
  <2>3. PICK j \in DOMAIN read : j \in Within(read, r)
    BY <1>2, <2>1, WindowedRows
  <2>4. r.item \in Streaming!Items
    BY <2>1, <2>3 DEF Within, Streaming!Items
  <2>5. Len(read) \in Nat /\ Within(read, r) \in SUBSET (1 .. Len(read))
    BY <2>1 DEF Within
  <2>6. IsFiniteSet(Within(read, r)) /\ Cardinality(Within(read, r)) \in Nat
    BY <2>5, PositionsFinite
  <2>7. Liked(read, Within(read, r)) \in SUBSET Within(read, r)
    BY DEF Liked
  <2>8. /\ Cardinality(Liked(read, Within(read, r))) <= Cardinality(Within(read, r))
        /\ Cardinality(Liked(read, Within(read, r))) \in Nat
    BY <2>6, <2>7, FS_Subset, FS_CardinalityType
  <2>9. r.views >= r.likes
    BY <2>2, <2>6, <2>8
  <2> QED BY <2>4, <2>9
<1>3. ASSUME reference # None PROVE DOMAIN reference.table \subseteq Streaming!Items
  <2>1. reference.log \in Seq(StreamEvents) /\ reference.table = Aggregate(reference.log)
    BY <1>1, <1>3 DEF Derived
  <2>2. DOMAIN reference.table = {reference.log[i].item : i \in DOMAIN reference.log}
    BY <2>1, AggregateCounts
  <2>3. \A i \in DOMAIN reference.log : reference.log[i] \in StreamEvents
    BY <2>1
  <2> QED BY <2>2, <2>3 DEF Streaming!Items
<1> QED BY <1>1, <1>2, <1>3 DEF StreamShape, Judged, Streaming!TypeOK

-----------------------------------------------------------------------------
(* The nearline pipeline *)

NearShape ==
  /\ log \in Seq(LogEvents) /\ consumed \in Seq(LogEvents) /\ staged \in Seq(LogEvents)
  /\ Len(log) <= MaxLog /\ Len(consumed) <= Wanted
  /\ pipeline \in {"recording", "replay", "live", "stopped"} /\ from \in {"replay", "live"}
  /\ wall \in 1 .. MaxClock /\ last \in 0 .. MaxClock

\* What was consumed is the file, over and over.
Follows ==
  /\ pipeline = "recording" => consumed = <<>>
  /\ pipeline # "recording" => log # <<>>
  /\ pipeline \in {"replay", "live"} => from = pipeline
  /\ \A i \in DOMAIN consumed : consumed[i] = log[((i - 1) % Len(log)) + 1]
  /\ pipeline = "stopped" /\ from = "replay" => Len(consumed) = Wanted

\* It was published first, and what is staged after it.
Shown ==
  /\ \E shown \in Seq(LogEvents) : /\ consumed = shown \o staged /\ Len(shown) = published
                                   /\ online = Nearline!Within(Aggregate(shown))
  /\ pipeline = "stopped" /\ from = "live" => staged = <<>>

NearInv == NearShape /\ Follows /\ Shown

\* A step of an online table is, within the catalogue, one of the offline table.
LEMMA ApplyWithin ==
  ASSUME NEW t, NEW e
  PROVE  Nearline!Apply(Nearline!Within(t), e) = Nearline!Within(Tally(t, e))
<1> DEFINE k == e.item
           w == Nearline!Within(t)
           put == Tally(t, e)
<1>1. w = [i \in DOMAIN t \cap Catalogue |-> t[i]]
  BY DEF Nearline!Within
<1>2. put = [i \in DOMAIN t \cup {k} |-> IF i = k THEN Add(Row(t, k), e.like) ELSE t[i]]
  BY DEF Tally, Put
<1>3. Nearline!Within(put) = [i \in DOMAIN put \cap Catalogue |-> put[i]]
  BY DEF Nearline!Within
<1>4. Tally(w, e) = [i \in DOMAIN w \cup {k} |-> IF i = k THEN Add(Row(w, k), e.like) ELSE w[i]]
  BY DEF Tally, Put
<1>5. Nearline!Apply(w, e) = IF k \in Catalogue THEN Tally(w, e) ELSE w
  BY NearlineCounts DEF Nearline!Apply
<1> HIDE DEF k, w, put
<1>6. CASE k \in Catalogue
  <2>1. Row(w, k) = Row(t, k)
    BY <1>1, <1>6 DEF Row
  <2> QED BY <1>1, <1>2, <1>3, <1>4, <1>5, <1>6, <2>1 DEF w, put
<1>7. CASE k \notin Catalogue
  <2>1. (DOMAIN t \cup {k}) \cap Catalogue = DOMAIN t \cap Catalogue
    BY <1>7
  <2>2. \A i \in DOMAIN t \cap Catalogue : put[i] = t[i]
    BY <1>2, <1>7
  <2>3. Nearline!Within(put) = w
    BY <1>1, <1>2, <1>3, <2>1, <2>2
  <2> QED BY <1>5, <1>7, <2>3 DEF w, put
<1> QED BY <1>6, <1>7

\* The online table is made from events as the offline one, within the catalogue.
LEMMA AppliedWithin ==
  ASSUME NEW t, NEW es, Len(es) \in Nat
  PROVE  Nearline!Applied(Nearline!Within(t), es) = Nearline!Within(Tallied(t, es))
<1> DEFINE N == Len(es)
           b == Nearline!Within(t)
           h == CHOOSE f : f = [n \in 0 .. N |-> IF n = 0 THEN b
                                                 ELSE Nearline!Apply(f[n - 1], es[n])]
<1>1. PICK f : /\ f[0] = t /\ Tallied(t, es) = f[N]
               /\ \A n \in 1 .. N : f[n] = Tally(f[n - 1], es[n])
  BY TalliedSteps
<1> DEFINE g == [n \in 0 .. N |-> Nearline!Within(f[n])]
<1>2. N \in Nat /\ g[0] = b /\ g[N] = Nearline!Within(Tallied(t, es))
  BY <1>1
<1>3. \A n \in 1 .. N : g[n] = Nearline!Apply(g[n - 1], es[n])
  <2> SUFFICES ASSUME NEW n \in 1 .. N PROVE g[n] = Nearline!Apply(g[n - 1], es[n])
    OBVIOUS
  <2>1. g[n] = Nearline!Within(f[n]) /\ g[n - 1] = Nearline!Within(f[n - 1])
    BY <1>2
  <2> QED BY <1>1, <2>1, ApplyWithin
<1>4. g = [n \in 0 .. N |-> g[n]]
  OBVIOUS
<1> HIDE DEF N, b, g
<1>5. g = [n \in 0 .. N |-> IF n = 0 THEN b ELSE Nearline!Apply(g[n - 1], es[n])]
  BY <1>2, <1>3, <1>4
<1>6. h = [n \in 0 .. N |-> IF n = 0 THEN b ELSE Nearline!Apply(h[n - 1], es[n])]
  BY <1>5, Zenon
<1>7. Nearline!Applied(b, es) = h[N]
  BY DEF Nearline!Applied, N
<1> HIDE DEF h
<1>8. h[0] = b /\ \A n \in 1 .. N : h[n] = Nearline!Apply(h[n - 1], es[n])
  BY <1>2, <1>6
<1> DEFINE S == {n \in 0 .. N : h[n] = g[n]}
<1>9. 0 \in S
  BY <1>2, <1>8
<1>10. \A n \in 1 .. N : n - 1 \in S => n \in S
  BY <1>2, <1>3, <1>8
<1> HIDE DEF S
<1>11. N \in S
  BY <1>2, <1>9, <1>10, UpTo
<1> QED BY <1>2, <1>7, <1>11 DEF S, b

LEMMA NothingBefore == \A E : \A s \in Seq(E) : <<>> \o s = s /\ s \o <<>> = s
<1> SUFFICES ASSUME NEW E, NEW s \in Seq(E) PROVE <<>> \o s = s /\ s \o <<>> = s
  OBVIOUS
<1>1. <<>> \in Seq(E)
  OBVIOUS
<1> QED BY <1>1, ConcatEmptySeq

LEMMA InitNear == NearlineInstances /\ Nearline!Init => NearInv
<1> SUFFICES ASSUME NearlineInstances, Nearline!Init PROVE NearInv
  OBVIOUS
<1>1. NearShape /\ Follows
  BY DEF Nearline!Init, NearShape, Follows, NearlineInstances
<1>2. Shown
  <2>1. <<>> \in Seq(LogEvents) /\ Len(<<>>) = 0
    OBVIOUS
  <2>2. Aggregate(<<>>) = NoRows
    <3>1. PICK f : f[0] = NoRows /\ Aggregate(<<>>) = f[Len(<<>>)]
      BY <2>1, TalliedSteps DEF Aggregate
    <3> QED BY <2>1, <3>1
  <2>3. <<>> \o <<>> = <<>>
    BY <2>1, NothingBefore
  <2>4. Nearline!Within(NoRows) = NoRows
    BY DEF Nearline!Within, NoRows
  <2> QED BY <2>1, <2>2, <2>3, <2>4, NearlineCounts DEF Nearline!Init, Shown
<1> QED BY <1>1, <1>2 DEF NearInv

LEMMA DoPublishShows ==
  ASSUME NEW stage \in Seq(LogEvents), NEW now, NEW shown \in Seq(LogEvents),
         Len(shown) = published, online = Nearline!Within(Aggregate(shown)), Nearline!DoPublish(stage, now)
  PROVE  /\ shown \o stage \in Seq(LogEvents) /\ Len(shown \o stage) = published'
         /\ online' = Nearline!Within(Aggregate(shown \o stage)) /\ staged' = <<>> /\ last' = now
<1>1. /\ online' = Nearline!Applied(online, stage) /\ published' = published + Len(stage)
      /\ last' = now /\ staged' = <<>>
  BY DEF Nearline!DoPublish
<1>2. shown \o stage \in Seq(LogEvents) /\ Len(shown \o stage) = published + Len(stage)
  OBVIOUS
<1>3. Tallied(Aggregate(shown), stage) = Aggregate(shown \o stage)
  BY TalliedTwice DEF Aggregate
<1>4. Nearline!Applied(online, stage) = Nearline!Within(Tallied(Aggregate(shown), stage))
  <2>1. Len(stage) \in Nat
    OBVIOUS
  <2> QED BY <2>1, AppliedWithin
<1> QED BY <1>1, <1>2, <1>3, <1>4

\* Events that are consumed are staged, or published with all that were.
LEMMA PublishShows ==
  ASSUME NearlineInstances, NearShape, Shown, NEW got \in Seq(LogEvents), consumed' = consumed \o got,
         NEW now \in 1 .. MaxClock, Nearline!PublishIfDue(staged \o got, now)
  PROVE  /\ \E shown \in Seq(LogEvents) : /\ consumed' = shown \o staged'
                                          /\ Len(shown) = published'
                                          /\ online' = Nearline!Within(Aggregate(shown))
         /\ staged' \in Seq(LogEvents) /\ last' \in 0 .. MaxClock
<1> DEFINE stage == staged \o got
<1>1. PICK shown \in Seq(LogEvents) : /\ consumed = shown \o staged /\ Len(shown) = published
                                      /\ online = Nearline!Within(Aggregate(shown))
  BY DEF Shown
<1>2. staged \in Seq(LogEvents) /\ stage \in Seq(LogEvents) /\ last \in 0 .. MaxClock
      /\ MaxClock \in Nat
  BY DEF NearShape, NearlineInstances
<1>3. consumed' = shown \o stage
  BY <1>1, <1>2, ConcatAssociative, SMTT(30)
<1>4. \/ Nearline!DoPublish(stage, now)
      \/ /\ last' \in {last, now} /\ staged' = stage /\ UNCHANGED <<online, published>>
  BY DEF Nearline!PublishIfDue
<1> HIDE DEF stage
<1>5. CASE Nearline!DoPublish(stage, now)
  <2>1. /\ shown \o stage \in Seq(LogEvents) /\ Len(shown \o stage) = published'
        /\ online' = Nearline!Within(Aggregate(shown \o stage)) /\ staged' = <<>> /\ last' = now
    BY <1>1, <1>2, <1>5, DoPublishShows
  <2>2. consumed' = (shown \o stage) \o staged'
    BY <1>3, <2>1, NothingBefore
  <2>3. staged' \in Seq(LogEvents)
    BY <2>1
  <2>4. \E s \in Seq(LogEvents) : /\ consumed' = s \o staged' /\ Len(s) = published'
                                  /\ online' = Nearline!Within(Aggregate(s))
    BY <2>1, <2>2, Zenon
  <2>5. last' \in 0 .. MaxClock
    BY <1>2, <2>1
  <2> QED BY <2>3, <2>4, <2>5
<1>6. CASE last' \in {last, now} /\ staged' = stage /\ UNCHANGED <<online, published>>
  <2>1. /\ consumed' = shown \o staged' /\ Len(shown) = published'
        /\ online' = Nearline!Within(Aggregate(shown))
    BY <1>1, <1>3, <1>6, Zenon
  <2>2. \E s \in Seq(LogEvents) : /\ consumed' = s \o staged' /\ Len(s) = published'
                                  /\ online' = Nearline!Within(Aggregate(s))
    BY <2>1, Zenon
  <2>3. staged' \in Seq(LogEvents)
    BY <1>2, <1>6, Zenon
  <2>4. last' \in 0 .. MaxClock
    BY <1>2, <1>6
  <2> QED BY <2>2, <2>3, <2>4
<1> QED BY <1>4, <1>5, <1>6

\* n events of the file follow those that were consumed.
LEMMA ConsumedFollows ==
  ASSUME NearlineInstances, NearShape, Follows, log # <<>>, NEW n \in Nat, NEW got,
         got = [i \in 1 .. n |-> log[((Len(consumed) + i - 1) % Len(log)) + 1]]
  PROVE  /\ got \in Seq(LogEvents) /\ Len(got) = n /\ consumed \o got \in Seq(LogEvents)
         /\ Len(consumed \o got) = Len(consumed) + n
         /\ \A i \in DOMAIN got : got[i].time \in 1 .. MaxClock
         /\ \A i \in DOMAIN (consumed \o got) :
              (consumed \o got)[i] = log[((i - 1) % Len(log)) + 1]
<1> DEFINE L == Len(log)
           C == Len(consumed)
<1>1. /\ L \in Nat \ {0} /\ C \in Nat /\ DOMAIN log = 1 .. L /\ log \in [1 .. L -> LogEvents]
      /\ consumed \in Seq(LogEvents)
  BY DEF NearShape
<1>2. \A i \in Nat : (i % L) + 1 \in 1 .. L
  BY <1>1
<1>3. \A i \in 1 .. n : C + i - 1 \in Nat
  BY <1>1
<1> HIDE DEF L, C
<1>4. got \in [1 .. n -> LogEvents]
  BY <1>1, <1>2, <1>3 DEF L, C
<1>5. got \in Seq(LogEvents) /\ Len(got) = n /\ DOMAIN got = 1 .. n
  <2> SUFFICES ASSUME NEW f \in [1 .. n -> LogEvents]
               PROVE  f \in Seq(LogEvents) /\ Len(f) = n /\ DOMAIN f = 1 .. n
    BY <1>4
  <2> QED OBVIOUS
<1>6. /\ consumed \o got \in Seq(LogEvents) /\ Len(consumed \o got) = C + n
      /\ \A i \in 1 .. C + n : (consumed \o got)[i] = IF i <= C THEN consumed[i] ELSE got[i - C]
  BY <1>1, <1>5, ConcatProperties DEF C
<1>7. \A i \in DOMAIN got : got[i].time \in 1 .. MaxClock
  <2>1. \A e \in LogEvents : e.time \in 1 .. MaxClock
    BY DEF NearlineInstances
  <2>2. \A i \in 1 .. n : got[i] \in LogEvents
    BY <1>4
  <2> QED BY <1>5, <2>1, <2>2
<1>8. ASSUME NEW i \in 1 .. C + n PROVE (consumed \o got)[i] = log[((i - 1) % L) + 1]
  <2>1. CASE i <= C
    <3>1. i \in DOMAIN consumed
      BY <1>1, <2>1 DEF C
    <3> QED BY <1>6, <2>1, <3>1 DEF Follows, L
  <2>2. CASE ~(i <= C)
    <3>1. i - C \in 1 .. n /\ C + (i - C) - 1 = i - 1
      BY <1>1, <2>2
    <3>2. got[i - C] = log[((C + (i - C) - 1) % L) + 1]
      BY <3>1 DEF C, L
    <3> QED BY <1>6, <2>2, <3>1, <3>2
  <2> QED BY <2>1, <2>2
<1>9. DOMAIN (consumed \o got) = 1 .. C + n
  BY <1>6
<1> QED BY <1>5, <1>6, <1>7, <1>8, <1>9 DEF C, L

LEMMA NextNear == NearlineInstances /\ NearInv /\ [Nearline!Next]_Nearline!vars => NearInv'
<1> SUFFICES ASSUME NearlineInstances, NearInv, [Nearline!Next]_Nearline!vars PROVE NearInv'
  OBVIOUS
<1>1. NearShape /\ Follows /\ Shown
  BY DEF NearInv
<1>2. ASSUME NEW e \in LogEvents, Nearline!Record(e) PROVE NearInv'
  <2>1. /\ pipeline = "recording" /\ log' = Append(log, e) /\ Len(log) < MaxLog
        /\ UNCHANGED <<pipeline, from, wall, consumed, staged, online, last, published>>
    BY <1>2 DEF Nearline!Record
  <2>2. NearShape'
    BY <1>1, <2>1 DEF NearShape, NearlineInstances
  <2>3. Follows'
    BY <1>1, <2>1 DEF Follows
  <2>4. Shown'
    BY <1>1, <2>1 DEF Shown
  <2> QED BY <2>2, <2>3, <2>4 DEF NearInv
<1>3. ASSUME NEW kind \in {"replay", "live"}, Nearline!Begin(kind) PROVE NearInv'
  <2>1. /\ pipeline = "recording" /\ log # <<>> /\ pipeline' = kind /\ from' = kind
        /\ UNCHANGED <<log, wall, consumed, staged, online, last, published>>
    BY <1>3 DEF Nearline!Begin
  <2>2. NearShape'
    BY <1>1, <2>1 DEF NearShape
  <2>3. Follows'
    BY <1>1, <2>1 DEF Follows
  <2>4. Shown'
    BY <1>1, <2>1 DEF Shown
  <2> QED BY <2>2, <2>3, <2>4 DEF NearInv
\* A run consumes n events.
<1>4. ASSUME NEW n \in Nat, NEW got,
             got = [i \in 1 .. n |-> log[((Len(consumed) + i - 1) % Len(log)) + 1]],
             pipeline \in {"replay", "live"}, Len(consumed) + n <= Wanted,
             consumed' = consumed \o got, NEW now \in 1 .. MaxClock,
             Nearline!PublishIfDue(staged \o got, now), UNCHANGED <<log, pipeline, from, wall>>
      PROVE  NearInv'
  <2>1. log # <<>>
    BY <1>1, <1>4 DEF Follows
  <2>2. /\ got \in Seq(LogEvents) /\ consumed' \in Seq(LogEvents)
        /\ Len(consumed') = Len(consumed) + n
        /\ \A i \in DOMAIN consumed' : consumed'[i] = log[((i - 1) % Len(log)) + 1]
    <3>1. /\ got \in Seq(LogEvents) /\ consumed \o got \in Seq(LogEvents)
          /\ Len(consumed \o got) = Len(consumed) + n
          /\ \A i \in DOMAIN (consumed \o got) :
               (consumed \o got)[i] = log[((i - 1) % Len(log)) + 1]
      BY <1>1, <1>4, <2>1, ConsumedFollows, ZenonT(60)
    <3>2. consumed' = consumed \o got
      BY <1>4
    <3> QED BY <3>1, <3>2, Zenon
  <2>3. /\ \E shown \in Seq(LogEvents) : /\ consumed' = shown \o staged'
                                         /\ Len(shown) = published'
                                         /\ online' = Nearline!Within(Aggregate(shown))
        /\ staged' \in Seq(LogEvents) /\ last' \in 0 .. MaxClock
    BY <1>1, <1>4, <2>2, PublishShows
  <2>4. NearShape'
    BY <1>1, <1>4, <2>2, <2>3 DEF NearShape
  <2>5. Follows'
    BY <1>1, <1>4, <2>1, <2>2 DEF Follows
  <2>6. Shown'
    BY <1>4, <2>3 DEF Shown
  <2> QED BY <2>4, <2>5, <2>6 DEF NearInv
<1>5. CASE Nearline!Replay
  <2> DEFINE e == Nearline!Following
             got == [i \in 1 .. 1 |-> log[((Len(consumed) + i - 1) % Len(log)) + 1]]
  <2>1. /\ pipeline = "replay" /\ Len(consumed) < Wanted /\ consumed' = Append(consumed, e)
        /\ Nearline!PublishIfDue(Append(staged, e), e.time) /\ UNCHANGED <<log, pipeline, from, wall>>
    BY <1>5 DEF Nearline!Replay
  <2>2. log # <<>>
    BY <1>1, <2>1 DEF Follows
  <2>3. got \in Seq(LogEvents) /\ Len(got) = 1 /\ got[1].time \in 1 .. MaxClock
    <3>1. 1 \in DOMAIN got /\ 1 \in Nat
      OBVIOUS
    <3> HIDE DEF got
    <3>2. /\ got \in Seq(LogEvents) /\ Len(got) = 1
          /\ \A i \in DOMAIN got : got[i].time \in 1 .. MaxClock
      BY <1>1, <2>2, <3>1, ConsumedFollows DEF got
    <3> QED BY <3>1, <3>2
  <2>4. got[1] = e /\ Len(consumed) \in Nat /\ Wanted \in Nat
    BY <1>1 DEF Nearline!Following, NearShape, NearlineInstances
  <2> HIDE DEF e, got
  <2>5. got = <<e>> /\ e \in LogEvents
    BY <2>3, <2>4, SMTT(30)
  <2>6. consumed' = consumed \o got /\ Append(staged, e) = staged \o got
    BY <1>1, <2>1, <2>5, AppendIsConcat DEF NearShape
  <2>7. Len(consumed) + 1 <= Wanted
    BY <2>1, <2>4
  <2>8. e.time \in 1 .. MaxClock /\ Nearline!PublishIfDue(staged \o got, e.time)
    BY <2>1, <2>3, <2>4, <2>6
  <2> QED BY <1>4, <2>1, <2>6, <2>7, <2>8 DEF got
<1>6. ASSUME NEW n \in 1 .. 2, Nearline!Poll(n) PROVE NearInv'
  <2> DEFINE got == [i \in 1 .. n |-> log[((Len(consumed) + i - 1) % Len(log)) + 1]]
  <2>1. /\ pipeline = "live" /\ Len(consumed) + n <= Wanted /\ consumed' = consumed \o got
        /\ Nearline!PublishIfDue(staged \o got, wall) /\ UNCHANGED <<log, pipeline, from, wall>>
    BY <1>6 DEF Nearline!Poll
  <2>2. n \in Nat /\ wall \in 1 .. MaxClock
    BY <1>1 DEF NearShape
  <2> QED BY <1>4, <2>1, <2>2
<1>7. CASE Nearline!Tick
  <2>1. /\ wall < MaxClock /\ wall' = wall + 1
        /\ UNCHANGED <<log, pipeline, from, consumed, staged, online, last, published>>
    BY <1>7 DEF Nearline!Tick
  <2>2. NearShape'
    BY <1>1, <2>1 DEF NearShape, NearlineInstances
  <2>3. Follows' /\ Shown'
    BY <1>1, <2>1 DEF Follows, Shown
  <2> QED BY <2>2, <2>3 DEF NearInv
<1>8. CASE Nearline!Stop
  <2>1. pipeline' = "stopped" /\ UNCHANGED <<log, from, wall, consumed>>
    BY <1>8 DEF Nearline!Stop
  <2>2. pipeline \in {"live", "replay"} /\ (pipeline = "replay" => Len(consumed) = Wanted)
    BY <1>8 DEF Nearline!Stop
  <2>3. Follows'
    BY <1>1, <2>1, <2>2 DEF Follows
  <2>4. CASE Nearline!DoPublish(staged, wall)
    <3>1. PICK shown \in Seq(LogEvents) : /\ consumed = shown \o staged /\ Len(shown) = published
                                          /\ online = Nearline!Within(Aggregate(shown))
      BY <1>1 DEF Shown
    <3>2. /\ shown \o staged \in Seq(LogEvents) /\ Len(shown \o staged) = published'
          /\ online' = Nearline!Within(Aggregate(shown \o staged)) /\ staged' = <<>> /\ last' = wall
      BY <1>1, <2>4, <3>1, DoPublishShows DEF NearShape
    <3>3. consumed' = consumed \o staged' /\ consumed \in Seq(LogEvents)
      BY <1>1, <2>1, <3>2, NothingBefore DEF NearShape
    <3>4. Shown'
      BY <3>1, <3>2, <3>3 DEF Shown
    <3>5. NearShape'
      BY <1>1, <2>1, <3>2 DEF NearShape, NearlineInstances
    <3> QED BY <2>3, <3>4, <3>5 DEF NearInv
  <2>5. CASE /\ (pipeline = "live" /\ staged = <<>>) \/ pipeline = "replay"
             /\ UNCHANGED <<staged, online, last, published>>
    <3>1. NearShape'
      BY <1>1, <2>1, <2>5 DEF NearShape
    <3>2. from = pipeline
      BY <1>1, <2>2 DEF Follows
    <3>3. Shown'
      BY <1>1, <2>1, <2>5, <3>2 DEF Shown
    <3> QED BY <2>3, <3>1, <3>3 DEF NearInv
  <2> QED BY <1>8, <2>4, <2>5 DEF Nearline!Stop
<1>9. CASE UNCHANGED Nearline!vars
  <2>1. UNCHANGED <<log, pipeline, from, wall, consumed, staged, online, last, published>>
    BY <1>9 DEF Nearline!vars
  <2>2. NearShape'
    BY <1>1, <2>1 DEF NearShape
  <2>3. Follows' /\ Shown'
    BY <1>1, <2>1 DEF Follows, Shown
  <2> QED BY <2>2, <2>3 DEF NearInv
<1> QED BY <1>2, <1>3, <1>5, <1>6, <1>7, <1>8, <1>9 DEF Nearline!Next

\* The events of one item are finitely many.
LEMMA EventsOfItem ==
  ASSUME NEW E, NEW es \in Seq(E), NEW i
  PROVE  Cardinality(Of(es, i)) \in Nat
<1>1. Len(es) \in Nat /\ Of(es, i) \in SUBSET (1 .. Len(es))
  BY DEF Of
<1> QED BY <1>1, PositionsFinite

\* The views of the rows of I, for items of W alone, and the events of these.
ViewsWithin(es, I, W) == [i \in I |-> IF i \in W THEN Cardinality(Of(es, i)) ELSE 0]
EventsWithin(es, W) == {j \in DOMAIN es : es[j].item \in W}

LEMMA ViewsAreEvents ==
  ASSUME NEW E, NEW es \in Seq(E), NEW I, \A j \in DOMAIN es : es[j].item \in I, NEW W
  PROVE  Total(ViewsWithin(es, I, W)) = Cardinality(EventsWithin(es, W))
<1> DEFINE N == Len(es)
           U == 1 .. N
           V == {j \in DOMAIN es : es[j].item \in W}
           f == [i \in I |-> IF i \in W THEN Cardinality(Of(es, i)) ELSE 0]
           M == [i \in I |-> IF i \in W THEN Of(es, i) ELSE {}]
<1>1. N \in Nat /\ DOMAIN es = U
  OBVIOUS
<1>2. IsFiniteSet(U) /\ Cardinality(U) = N
  <2>1. 1 \in Int /\ N \in Int /\ (N # 0 <=> ~(1 > N)) /\ N - 1 + 1 = N
    BY <1>1
  <2> QED BY <2>1, FS_Interval
<1>3. M \in [I -> SUBSET U]
  BY <1>1 DEF Of
<1>4. f \in [I -> Nat]
  BY EventsOfItem
<1>5. \A i \in I : Cardinality(M[i]) = f[i]
  BY FS_EmptySet
<1>6. \A i, j \in I : i # j => M[i] \cap M[j] = {}
  BY DEF Of
<1>7. \A u \in U : u \in V <=> \E i \in I : u \in M[i]
  <2> SUFFICES ASSUME NEW u \in U PROVE u \in V <=> \E i \in I : u \in M[i]
    OBVIOUS
  <2>1. es[u].item \in I /\ u \in Of(es, es[u].item)
    BY <1>1 DEF Of
  <2>2. \A i \in I : u \in M[i] <=> i \in W /\ i = es[u].item
    BY <1>1 DEF Of
  <2>3. u \in V <=> es[u].item \in W
    BY <1>1
  <2> QED BY <2>1, <2>2, <2>3
<1>8. V \in SUBSET U
  BY <1>1
<1> HIDE DEF N, U, V, f, M
<1>9. Total(f) = Cardinality(V)
  BY <1>2, <1>3, <1>4, <1>5, <1>6, <1>7, <1>8, TotalIsUnion, SMTT(30)
<1> QED BY <1>9 DEF f, V, ViewsWithin, EventsWithin

LEMMA SizeOfRange == \A N \in Nat : Cardinality(1 .. N) = N
<1> SUFFICES ASSUME NEW N \in Nat PROVE Cardinality(1 .. N) = N
  OBVIOUS
<1>1. 1 \in Int /\ N \in Int /\ (N # 0 <=> ~(1 > N)) /\ N - 1 + 1 = N
  OBVIOUS
<1> QED BY <1>1, FS_Interval

LEMMA RowCounts ==
  ASSUME NEW E, NEW es \in Seq(E), NEW i
  PROVE  Row(Aggregate(es), i).views = Cardinality(Of(es, i))
<1>1. /\ DOMAIN Aggregate(es) = {es[j].item : j \in DOMAIN es}
      /\ \A k \in DOMAIN Aggregate(es) : Aggregate(es)[k] = Counts(es, k)
  BY AggregateCounts
<1>2. CASE i \in DOMAIN Aggregate(es)
  <2>1. Aggregate(es)[i] = Counts(es, i)
    BY <1>1, <1>2, Zenon
  <2>2. Counts(es, i).views = Cardinality(Of(es, i))
    BY DEF Counts
  <2>3. Row(Aggregate(es), i) = Aggregate(es)[i]
    BY <1>2, Zenon DEF Row
  <2> QED BY <2>1, <2>2, <2>3, Zenon
<1>3. CASE i \notin DOMAIN Aggregate(es)
  <2>1. Of(es, i) = {}
    BY <1>1, <1>3 DEF Of
  <2>2. Cardinality(Of(es, i)) = 0
    BY <2>1, FS_EmptySet
  <2> QED BY <1>3, <2>2 DEF Row, NoCounts
<1> QED BY <1>2, <1>3

LEMMA NearIsExact ==
  NearlineInstances /\ NearInv =>
    /\ Nearline!TypeOK /\ Nearline!VisibleIsPrefix
    /\ Nearline!SkewIsInvisible /\ Nearline!WindowExact
<1> SUFFICES ASSUME NearlineInstances, NearInv
             PROVE  /\ Nearline!TypeOK /\ Nearline!VisibleIsPrefix
                    /\ Nearline!SkewIsInvisible /\ Nearline!WindowExact
  OBVIOUS
<1>1. NearShape /\ Follows /\ Shown
  BY DEF NearInv
<1>2. PICK shown \in Seq(LogEvents) : /\ consumed = shown \o staged /\ Len(shown) = published
                                      /\ online = Nearline!Within(Aggregate(shown))
  BY <1>1 DEF Shown
<1> DEFINE P == Len(shown)
           C == Len(consumed)
           Dropped == {i \in 1 .. published : consumed[i].item \notin Catalogue}
<1>3. staged \in Seq(LogEvents) /\ consumed \in Seq(LogEvents) /\ log \in Seq(LogEvents)
  BY <1>1 DEF NearShape
<1>4. /\ P \in Nat /\ Len(staged) \in Nat /\ C = P + Len(staged) /\ C \in Nat /\ C <= Wanted
      /\ Wanted \in Nat
  <2>1. P \in Nat /\ Len(staged) \in Nat /\ C = P + Len(staged)
    BY <1>2, <1>3, ConcatProperties
  <2>2. C <= Wanted /\ Wanted \in Nat
    BY <1>1 DEF NearShape, NearlineInstances
  <2> QED BY <2>1, <2>2
<1>5. shown = SubSeq(consumed, 1, P) /\ staged = SubSeq(consumed, P + 1, C)
  BY <1>2, <1>3
<1>6. Nearline!TypeOK
  <2>1. \A i \in DOMAIN online : online[i].likes <= online[i].views
    <3> SUFFICES ASSUME NEW i \in DOMAIN online PROVE online[i].likes <= online[i].views
      OBVIOUS
    <3>1. online[i] = Counts(shown, i)
      <4>1. i \in DOMAIN Aggregate(shown) /\ online[i] = Aggregate(shown)[i]
        BY <1>2 DEF Nearline!Within
      <4> QED BY <4>1, AggregateCounts
    <3>2. Of(shown, i) \in SUBSET (1 .. P)
      BY DEF Of
    <3>3. IsFiniteSet(Of(shown, i))
      BY <1>4, <3>2, PositionsFinite
    <3>4. Liked(shown, Of(shown, i)) \in SUBSET Of(shown, i)
      BY DEF Liked
    <3>5. Cardinality(Liked(shown, Of(shown, i))) <= Cardinality(Of(shown, i))
      BY <3>3, <3>4, FS_Subset
    <3> QED BY <3>1, <3>5 DEF Counts
  <2>2. published \in 0 .. Wanted
    BY <1>2, <1>4
  <2>3. DOMAIN online \subseteq Catalogue
    BY <1>2 DEF Nearline!Within
  <2> QED BY <1>1, <1>3, <2>1, <2>2, <2>3 DEF NearShape, Nearline!TypeOK
<1>7. Nearline!VisibleIsPrefix
  <2>1. online = Nearline!Within(Nearline!Aggregate(SubSeq(consumed, 1, published)))
    BY <1>2, <1>5, NearlineCounts
  <2>2. staged = SubSeq(consumed, published + 1, Len(consumed))
    BY <1>2, <1>5
  <2>3. pipeline = "stopped" /\ from = "live" => staged = <<>>
    BY <1>1 DEF Shown
  <2> QED BY <2>1, <2>2, <2>3 DEF Nearline!VisibleIsPrefix
<1>8. ASSUME pipeline = "stopped", from = "replay", Wanted <= Len(log)
      PROVE  Nearline!ViewsMissing(online, Nearline!Aggregate(SubSeq(log, 1, Wanted)))
               = (Len(consumed) - published)
                 + Nearline!Cardinality(Dropped)
  <2> DEFINE ref == SubSeq(log, 1, Wanted)
             I == DOMAIN Aggregate(ref)
  <2>1. C = Wanted
    BY <1>1, <1>8 DEF Follows
  <2>2. ref \in Seq(LogEvents) /\ Len(ref) = Wanted /\ DOMAIN ref = 1 .. Wanted
        /\ \A i \in 1 .. Wanted : ref[i] = log[i]
    BY <1>3, <1>4, <1>8
  <2>3. \A i \in 1 .. Wanted : consumed[i] = log[i]
    <3> SUFFICES ASSUME NEW i \in 1 .. Wanted PROVE consumed[i] = log[i]
      OBVIOUS
    <3>1. i \in DOMAIN consumed
      BY <1>3, <1>4, <2>1
    <3>2. Len(log) \in Nat \ {0} /\ i - 1 \in 0 .. Len(log) - 1
      BY <1>3, <1>4, <1>8
    <3>3. ((i - 1) % Len(log)) + 1 = i
      BY <3>2
    <3> QED BY <1>1, <3>1, <3>3 DEF Follows
  <2> HIDE DEF ref
  <2>4. \A j \in DOMAIN ref : ref[j].item \in I
    BY <2>2, AggregateCounts
  <2>5. \A j \in DOMAIN shown : shown[j].item \in I
    <3> SUFFICES ASSUME NEW j \in DOMAIN shown PROVE shown[j].item \in I
      OBVIOUS
    <3>1. j \in 1 .. P /\ j \in 1 .. Wanted
      BY <1>4
    <3>2. shown[j] = consumed[j]
      BY <1>2, <1>3, <3>1
    <3> QED BY <2>2, <2>3, <2>4, <3>1, <3>2
  <2>6. [i \in I |-> Aggregate(ref)[i].views]
          = [i \in I |-> IF i \in I THEN Cardinality(Of(ref, i)) ELSE 0]
    <3>1. ASSUME NEW i \in I PROVE Aggregate(ref)[i].views = Cardinality(Of(ref, i))
      <4>1. Aggregate(ref)[i] = Counts(ref, i)
        BY <2>2, AggregateCounts
      <4> QED BY <4>1 DEF Counts
    <3> QED BY <3>1
  <2>7. [i \in I |-> Row(online, i).views]
          = [i \in I |-> IF i \in Catalogue THEN Cardinality(Of(shown, i)) ELSE 0]
    <3> SUFFICES ASSUME NEW i \in I
                 PROVE  Row(online, i).views
                          = IF i \in Catalogue THEN Cardinality(Of(shown, i)) ELSE 0
      OBVIOUS
    <3>1. Row(Aggregate(shown), i).views = Cardinality(Of(shown, i))
      BY RowCounts
    <3>2. i \in Catalogue => Row(online, i) = Row(Aggregate(shown), i)
      BY <1>2 DEF Row, Nearline!Within
    <3>3. i \notin Catalogue => Row(online, i) = NoCounts
      BY <1>2 DEF Row, Nearline!Within
    <3> QED BY <3>1, <3>2, <3>3 DEF NoCounts
  <2> DEFINE offline == [i \in I |-> Aggregate(ref)[i].views]
             visible == [i \in I |-> Row(online, i).views]
             Seen == {j \in 1 .. P : shown[j].item \in Catalogue}
             Unseen == {j \in 1 .. P : shown[j].item \notin Catalogue}
  <2>8. Total(offline) = Wanted
    <3>1. DOMAIN ref = EventsWithin(ref, I) /\ offline = ViewsWithin(ref, I, I)
      BY <2>4, <2>6 DEF EventsWithin, ViewsWithin
    <3>2. Cardinality(DOMAIN ref) = Wanted
      BY <1>4, <2>2, SizeOfRange
    <3> HIDE DEF I, offline
    <3>3. Total(ViewsWithin(ref, I, I)) = Cardinality(EventsWithin(ref, I))
      BY <2>2, <2>4, ViewsAreEvents
    <3> QED BY <3>1, <3>2, <3>3
  <2>9. Total(visible) = P - Cardinality(Unseen)
    <3>1. Total(visible) = Cardinality(Seen)
      <4>1. Seen = EventsWithin(shown, Catalogue)
        BY <1>4 DEF EventsWithin
      <4>2. visible = ViewsWithin(shown, I, Catalogue)
        BY <2>7 DEF ViewsWithin
      <4> HIDE DEF I, visible, Seen
      <4>3. Total(ViewsWithin(shown, I, Catalogue)) = Cardinality(EventsWithin(shown, Catalogue))
        BY <2>5, ViewsAreEvents
      <4> QED BY <4>1, <4>2, <4>3
    <3>2. Seen \cup Unseen = 1 .. P /\ Seen \cap Unseen = {}
      OBVIOUS
    <3>3. /\ IsFiniteSet(Seen) /\ Cardinality(Seen) \in Nat
          /\ IsFiniteSet(Unseen) /\ Cardinality(Unseen) \in Nat
      <4>1. P \in Nat /\ Seen \in SUBSET (1 .. P) /\ Unseen \in SUBSET (1 .. P)
        BY <1>4
      <4> HIDE DEF Seen, Unseen, P
      <4> QED BY <4>1, PositionsFinite
    <3>4. Cardinality(1 .. P) = P
      BY <1>4, SizeOfRange
    <3>5. P \in Nat
      BY <1>4
    <3> HIDE DEF Seen, Unseen, visible, P
    <3>6. Cardinality(Seen \cap Unseen) = 0 /\ Cardinality(Seen \cup Unseen) = P
      BY <3>2, <3>4, FS_EmptySet, Zenon
    <3>7. Cardinality(Seen \cup Unseen)
            = Cardinality(Seen) + Cardinality(Unseen) - Cardinality(Seen \cap Unseen)
      BY <3>3, FS_Union
    <3> QED BY <3>1, <3>3, <3>5, <3>6, <3>7
  <2>10. Nearline!ViewsMissing(online, Aggregate(ref))
           = Total(offline) - Total(visible)
    BY NearlineCounts, Zenon DEF Nearline!ViewsMissing
  <2>11. Nearline!Aggregate(SubSeq(log, 1, Wanted)) = Aggregate(ref)
    BY NearlineCounts DEF ref
  <2>12. Unseen = Dropped
    <3>1. \A i \in 1 .. P : shown[i] = consumed[i]
      BY <1>2, <1>3
    <3> QED BY <1>2, <3>1
  <2>13. Nearline!Cardinality(Dropped) = Cardinality(Unseen) /\ Cardinality(Unseen) \in Nat
    <3>1. Unseen \in SUBSET (1 .. P)
      OBVIOUS
    <3> HIDE DEF Unseen, Dropped
    <3> QED BY <1>4, <2>12, <3>1, NearlineCounts, PositionsFinite
  <2> HIDE DEF I, offline, visible, Unseen, Dropped
  <2> QED BY <1>2, <1>4, <2>1, <2>8, <2>9, <2>10, <2>11, <2>13
<1>9. Nearline!SkewIsInvisible
  BY <1>8 DEF Nearline!SkewIsInvisible
<1>10. Nearline!WindowExact
  BY <1>3, WindowIsExact
<1> QED BY <1>6, <1>7, <1>9, <1>10

-----------------------------------------------------------------------------
(* What holds of the whole *)

\* A step of Operations is, to each component, a step of its own or none.
LEMMA RunnerOnlySteps == [Next]_vars => [Runner!Next]_Runner!vars
  BY DEF Next, vars, runnerVars, Runner!vars, AccessOnly, AgentOnly, RunnerOnly, CampaignOnly,
     DrillOnly, ProbesOnly, StreamingOnly, NearlineOnly

LEMMA AccessOnlySteps == [Next]_vars => [Access!Next]_Access!vars
  BY DEF Next, vars, accessVars, Access!vars, AccessOnly, AgentOnly, RunnerOnly, CampaignOnly,
     DrillOnly, ProbesOnly, StreamingOnly, NearlineOnly

LEMMA DrillOnlySteps == [Next]_vars => [Drill!Next]_Drill!vars
  BY DEF Next, vars, drillVars, Drill!vars, AccessOnly, AgentOnly, RunnerOnly, CampaignOnly,
     DrillOnly, ProbesOnly, StreamingOnly, NearlineOnly

LEMMA ProbesOnlySteps == [Next]_vars => [Probes!Next]_Probes!vars
  BY DEF Next, vars, probesVars, Probes!vars, AccessOnly, AgentOnly, RunnerOnly, CampaignOnly,
     DrillOnly, ProbesOnly, StreamingOnly, NearlineOnly

LEMMA CampaignOnlySteps == [Next]_vars => [Campaign!Next]_Campaign!vars
  BY DEF Next, vars, campaignVars, Campaign!vars, AccessOnly, AgentOnly, RunnerOnly,
     CampaignOnly, DrillOnly, ProbesOnly, StreamingOnly, NearlineOnly

LEMMA AgentOnlySteps == [Next]_vars => [Agent!Next]_Agent!vars
  BY DEF Next, vars, agentVars, Agent!vars, AccessOnly, AgentOnly, RunnerOnly, CampaignOnly,
     DrillOnly, ProbesOnly, StreamingOnly, NearlineOnly

LEMMA StreamingOnlySteps == [Next]_vars => [Streaming!Next]_Streaming!vars
  BY DEF Next, vars, streamingVars, Streaming!vars, AccessOnly, AgentOnly, RunnerOnly, CampaignOnly,
     DrillOnly, ProbesOnly, StreamingOnly, NearlineOnly

LEMMA NearlineOnlySteps == [Next]_vars => [Nearline!Next]_Nearline!vars
  BY DEF Next, vars, nearlineVars, Nearline!vars, AccessOnly, AgentOnly, RunnerOnly, CampaignOnly,
     DrillOnly, ProbesOnly, StreamingOnly, NearlineOnly

\* A receipt that is taken in place of a run stands for a whole run of the stage
\* on the present tree, and a runner that has ended leaves no child behind.
THEOREM EvidenceTheorem == Spec => []EvidenceIsCurrent
<1>0. RunnerInstances
  BY OperationsAssumption
<1>1. Init => RunnerInv
  BY <1>0, InitRunner DEF Init
<1>2. RunnerInv /\ [Next]_vars => RunnerInv'
  BY <1>0, RunnerOnlySteps, NextRunner
<1>3. RunnerInv => EvidenceIsCurrent
  BY RunnerIsSound DEF EvidenceIsCurrent
<1> QED BY <1>1, <1>2, <1>3, PTL DEF Spec

\* Flows are spent once and by their browser, no window lets more through than
\* its limit, and the keys a token is checked with are fresh.
THEOREM AccessTheorem == Spec => []AccessControlled
<1>0. AccessInstances
  BY OperationsAssumption
<1>1. Init => AccessInv
  BY <1>0, InitAccess DEF Init
<1>2. AccessInv /\ [Next]_vars => AccessInv'
  BY <1>0, AccessOnlySteps, NextAccess
<1>3. AccessInv => AccessControlled
  BY <1>0, AccessIsControlled
<1> QED BY <1>1, <1>2, <1>3, PTL DEF Spec

\* However runs fail, are killed or find the files of another host, the results
\* file is of one host, says which run measured what, loses no result, and the
\* board shows nothing else.
THEOREM CampaignTheorem == Spec => []ResultsKept
<1>0. CampaignInstances
  BY OperationsAssumption
<1>1. Init => CampaignInv
  BY <1>0, InitCampaign DEF Init
<1>2. CampaignInv /\ [Next]_vars => CampaignInv'
  BY <1>0, CampaignOnlySteps, NextCampaign
<1>3. CampaignInv => ResultsKept
  BY CampaignIsHonest
<1> QED BY <1>1, <1>2, <1>3, PTL DEF Spec

\* The incumbent is what the accepted proposals make of the start, one knob each
\* after all the measurements asked for; the planners that sweep the space measure
\* nothing twice; the result counts every proposal.
THEOREM AgentTheorem == Spec => []AgentHonest
<1>0. AgentInstances
  BY OperationsAssumption
<1>1. Init => AgentInv
  BY <1>0, InitAgent DEF Init
<1>2. AgentInv /\ [Next]_vars => AgentInv'
  BY <1>0, AgentOnlySteps, NextAgent
<1>3. AgentInv => AgentHonest
  BY <1>0, AgentIsHonest
<1> QED BY <1>1, <1>2, <1>3, PTL DEF Spec

\* A drill that ends leaves nothing of its own and reports only what passed, and
\* a recovery passes only when the restarted component answered after its restart.
THEOREM DrillsTheorem == Spec => []DrillsHonest
<1>0. DrillInstances /\ ProbesInstances
  BY OperationsAssumption
<1>1. Init => DrillInv /\ ProbesInv
  BY <1>0, InitDrill, InitProbes DEF Init
<1>2. DrillInv /\ ProbesInv /\ [Next]_vars => DrillInv' /\ ProbesInv'
  BY <1>0, DrillOnlySteps, ProbesOnlySteps, NextDrill, NextProbes
<1>3. DrillInv /\ ProbesInv => DrillsHonest
  BY <1>0, DrillIsHonest, ProbesAreHonest DEF DrillsHonest
<1> QED BY <1>1, <1>2, <1>3, PTL DEF Spec

\* The stream job and the nearline table agree with the offline aggregate exactly
\* when they counted the same events, what queries see is what was published of the
\* catalogue's items, the skew that is found is the events not published and those
\* published of other items, and the window counter counts no event that it should
\* not.
THEOREM AggregatesTheorem == Spec => []AggregatesAgree
<1>0. StreamingInstances /\ NearlineInstances
  BY OperationsAssumption
<1>1. Init => StreamInv /\ NearInv
  BY <1>0, InitStream, InitNear DEF Init
<1>2. StreamInv /\ NearInv /\ [Next]_vars => StreamInv' /\ NearInv'
  BY <1>0, StreamingOnlySteps, NearlineOnlySteps, NextStream, NextNear
<1>3. StreamInv /\ NearInv => AggregatesAgree
  BY <1>0, StreamIsSound, NearIsExact DEF AggregatesAgree
<1> QED BY <1>1, <1>2, <1>3, PTL DEF Spec

\* The sweep removes no window that still counts and no session or flow that is
\* still good, and no drill removes a resource that was there before it.
THEOREM SparedTheorem == Spec => OthersSpared
<1>0. AccessInstances /\ DrillInstances
  BY OperationsAssumption
<1>1. Init => AccessInv /\ DrillInv
  BY <1>0, InitAccess, InitDrill DEF Init
<1>2. AccessInv /\ DrillInv /\ [Next]_vars => AccessInv' /\ DrillInv'
  BY <1>0, AccessOnlySteps, DrillOnlySteps, NextAccess, NextDrill
<1>3. AccessInv /\ [Next]_vars =>
        [Access!Sweep => /\ \A f \in Access!Ids :
                              flows'[f] # flows[f] => clock - flows[f] > FlowLife
                         /\ \A s \in sessions \ sessions' : ~Access!Usable(s, clock)]_Access!vars
  BY <1>0, SweepSpares DEF AccessInv
<1>4. DrillInv /\ [Next]_vars =>
        [\A n \in Drill!Names : docker[n] = "foreign" => docker'[n] = "foreign"]_Drill!vars
  BY DrillOnlySteps, DrillSpares
<1>5. Spec => Access!SweepSparesTheLiving
  BY <1>1, <1>2, <1>3, PTL DEF Spec, Access!SweepSparesTheLiving
<1>6. Spec => Drill!SparesForeign
  BY <1>1, <1>2, <1>4, PTL DEF Spec, Drill!SparesForeign
<1> QED BY <1>5, <1>6 DEF OthersSpared
=============================================================================
