----------------------------- MODULE PilotProofs -----------------------------
(***************************************************************************)
(* Proofs about Pilot for any number of handler threads, users, items,     *)
(* requests and events: issuing is atomic, a request has one answer, and   *)
(* the projection is the replay of the journal.                            *)
(***************************************************************************)
EXTENDS Pilot, FiniteSetTheorems, FunctionTheorems, TLAPS

\* A set of the size ranking chooses, however many items were retrieved.
LEMMA AnswersSize ==
  ASSUME NEW u \in Users, NEW k \in Ks, NEW s, NEW retrieved,
         NEW S \in Answers(u, k, s, retrieved)
  PROVE  /\ S \subseteq Eligible(u, s)
         /\ S \subseteq Items
         /\ Cardinality(S) = Smaller(k, Cardinality(Eligible(u, s)))
<1> DEFINE ranked == Eligible(u, s) \cap retrieved
<1>1. Eligible(u, s) \subseteq Items
  BY DEF Eligible
<1>2. IsFiniteSet(Eligible(u, s))
  BY <1>1, ItemsAssumption, FS_Subset
<1>3. /\ Cardinality(ranked) <= Cardinality(Eligible(u, s))
      /\ Cardinality(ranked) \in Nat
      /\ Cardinality(Eligible(u, s)) \in Nat
  BY <1>2, FS_Subset, FS_CardinalityType
<1>4. k \in Nat
  BY KsAssumption
<1> HIDE DEF Eligible
<1>5. CASE Cardinality(ranked) >= k
  <2>1. S \subseteq ranked /\ Cardinality(S) = k
    BY <1>5 DEF Answers
  <2> QED BY <1>1, <1>3, <1>4, <1>5, <2>1 DEF Smaller
<1>6. CASE ~(Cardinality(ranked) >= k)
  BY <1>1, <1>6 DEF Answers
<1> QED BY <1>5, <1>6

LEMMA InitType == Init => TypeOK
  BY MaxAttemptsAssumption DEF Init, Idle, TypeOK

LEMMA NextType == TypeOK /\ [Next]_vars => TypeOK'
<1> SUFFICES ASSUME TypeOK, [Next]_vars PROVE TypeOK'
  OBVIOUS
<1> USE NoneAssumption, MaxAttemptsAssumption DEF TypeOK, dbVars, threadVars
<1>1. ASSUME NEW m \in Models, Start(m) PROVE TypeOK'
  BY <1>1 DEF Start
<1>2. CASE Crash
  BY <1>2 DEF Crash
<1>3. ASSUME NEW t \in Threads, NEW c \in Calls, Receive(t, c) PROVE TypeOK'
  BY <1>3 DEF Receive
<1>4. ASSUME NEW t \in Threads, Existing(t) PROVE TypeOK'
  <2>1. call[t] \in Calls /\ call[t].request \in Requests
    BY <1>4 DEF Existing, Calls
  <2> QED BY <1>4, <2>1 DEF Existing, Finish, Return, Hit
<1>5. ASSUME NEW t \in Threads, Snapshot(t) PROVE TypeOK'
  <2>1. Projection(call[t].user) \in Snapshots
    BY <1>5 DEF Snapshot, Projection, Snapshots, Calls
  <2> QED BY <1>5, <2>1 DEF Snapshot
<1>6. ASSUME NEW t \in Threads, Retrieve(t) PROVE TypeOK'
  <2>1. call[t] \in Calls /\ call[t].user \in Users /\ call[t].k \in Ks
    BY <1>6 DEF Retrieve, Calls
  <2>2. snap[t] \in Snapshots /\ snap[t].generation \in Nat /\ model \in Models
    BY <1>6 DEF Retrieve, Snapshots
  <2>3. PICK retrieved \in SUBSET Items, failed \in BOOLEAN :
          \E S \in Answers(call[t].user, call[t].k, snap[t], retrieved) :
            response' = [response EXCEPT ![t] =
              [user |-> call[t].user, k |-> call[t].k, items |-> S,
               generation |-> snap[t].generation, model |-> model,
               degraded |-> failed]]
    BY <1>6 DEF Retrieve
  <2>4. PICK S \in Answers(call[t].user, call[t].k, snap[t], retrieved) :
            response' = [response EXCEPT ![t] =
              [user |-> call[t].user, k |-> call[t].k, items |-> S,
               generation |-> snap[t].generation, model |-> model,
               degraded |-> failed]]
    BY <2>3
  <2>5. S \subseteq Items
    BY <2>1, AnswersSize
  <2>6. [user |-> call[t].user, k |-> call[t].k, items |-> S,
         generation |-> snap[t].generation, model |-> model,
         degraded |-> failed] \in Responses
    BY <2>1, <2>2, <2>5 DEF Responses
  <2> QED BY <1>6, <2>2, <2>4, <2>6 DEF Retrieve
<1>7. ASSUME NEW t \in Threads, PublishCommit(t) PROVE TypeOK'
  <2>1. call[t] \in Calls /\ call[t].request \in Requests /\ response[t] \in Responses
    BY <1>7 DEF PublishCommit, Calls
  <2> QED BY <1>7, <2>1 DEF PublishCommit, Finish, Return
<1>8. ASSUME NEW t \in Threads, PublishCached(t) PROVE TypeOK'
  <2>1. call[t] \in Calls /\ call[t].request \in Requests
    BY <1>8 DEF PublishCached, Calls
  <2> QED BY <1>8, <2>1 DEF PublishCached, Finish, Return, Hit
<1>9. ASSUME NEW t \in Threads, PublishChanged(t) PROVE TypeOK'
  BY <1>9 DEF PublishChanged, Finish
<1>10. ASSUME NEW t \in Threads, Busy(t) PROVE TypeOK'
  BY <1>10 DEF Busy, Finish
<1>11. ASSUME NEW e \in Events, Apply(e) PROVE TypeOK'
  <2>1. e.user \in Users /\ e.item \in Items
    BY DEF Events
  <2> QED BY <1>11, <2>1 DEF Apply
<1>12. ASSUME NEW i \in Items, NEW value \in BOOLEAN, SetUnavailable(i, value)
       PROVE  TypeOK'
  BY <1>12 DEF SetUnavailable
<1>13. CASE UNCHANGED vars
  BY <1>13 DEF vars
<1> QED BY <1>1, <1>2, <1>3, <1>4, <1>5, <1>6, <1>7, <1>8, <1>9, <1>10, <1>11,
           <1>12, <1>13 DEF Next, Handler

\* Types, and what a handler thread carries at each point of recommend().
THEOREM TypeCorrect == Spec => []TypeOK
  BY InitType, NextType, PTL DEF Spec

-----------------------------------------------------------------------------
(* The generation fence *)

\* A generation names one state of the projection: a snapshot whose generation
\* is still the current one is still the current projection.
Fence ==
  \A t \in Threads :
    pc[t] \in {"retrieve", "publish"} =>
      /\ snap[t].generation <= generation
      /\ snap[t].generation = generation => snap[t] = Projection(call[t].user)

\* A response waiting to be published is an answer for its snapshot.
Answer ==
  \A t \in Threads :
    pc[t] = "publish" =>
      LET e == Eligible(call[t].user, snap[t])
      IN  /\ response[t].user = call[t].user
          /\ response[t].k = call[t].k
          /\ response[t].generation = snap[t].generation
          /\ response[t].items \subseteq e
          /\ Cardinality(response[t].items) = Smaller(call[t].k, Cardinality(e))

FenceInv == TypeOK /\ Fence /\ Answer /\ OneAnswerPerRequest

LEMMA InitFence == Init => FenceInv
  BY InitType DEF Init, Idle, FenceInv, Fence, Answer, OneAnswerPerRequest

\* Steps of one handler thread leave the projection alone.
LEMMA ProjectionKept ==
  ASSUME UNCHANGED <<generation, blocked, shown, saved, unavailable>>
  PROVE  \A u : Projection(u)' = Projection(u)
  BY DEF Projection

LEMMA NextFence == FenceInv /\ [Next]_vars => FenceInv'
<1> SUFFICES ASSUME FenceInv, [Next]_vars PROVE FenceInv'
  OBVIOUS
<1>t. TypeOK'
  BY NextType DEF FenceInv
<1> SUFFICES Fence' /\ Answer' /\ OneAnswerPerRequest'
  BY <1>t DEF FenceInv
<1> USE NoneAssumption, MaxAttemptsAssumption DEF FenceInv, dbVars, threadVars
<1>1. ASSUME NEW m \in Models, Start(m)
      PROVE  Fence' /\ Answer' /\ OneAnswerPerRequest'
  BY <1>1, ProjectionKept DEF Start, Fence, Answer, OneAnswerPerRequest
<1>2. CASE Crash
  BY <1>2 DEF Crash, Fence, Answer, OneAnswerPerRequest
<1>3. ASSUME NEW t \in Threads, NEW c \in Calls, Receive(t, c)
      PROVE  Fence' /\ Answer' /\ OneAnswerPerRequest'
  BY <1>3, ProjectionKept DEF Receive, Fence, Answer, OneAnswerPerRequest, TypeOK
<1>4. ASSUME NEW t \in Threads, Existing(t)
      PROVE  Fence' /\ Answer' /\ OneAnswerPerRequest'
  <2>1. Fence' /\ Answer'
    BY <1>4, ProjectionKept DEF Existing, Finish, Fence, Answer, TypeOK
  <2>2. OneAnswerPerRequest'
    BY <1>4 DEF Existing, Hit, Return, OneAnswerPerRequest
  <2> QED BY <2>1, <2>2
<1>5. ASSUME NEW t \in Threads, Snapshot(t)
      PROVE  Fence' /\ Answer' /\ OneAnswerPerRequest'
  <2>1. Fence'
    <3>1. Projection(call[t].user).generation = generation /\ generation \in Nat
      BY DEF Projection, TypeOK
    <3> QED BY <1>5, <3>1, ProjectionKept DEF Snapshot, Fence, TypeOK
  <2>2. Answer'
    BY <1>5 DEF Snapshot, Answer, TypeOK
  <2>3. OneAnswerPerRequest'
    BY <1>5 DEF Snapshot, OneAnswerPerRequest
  <2> QED BY <2>1, <2>2, <2>3
<1>6. ASSUME NEW t \in Threads, Retrieve(t)
      PROVE  Fence' /\ Answer' /\ OneAnswerPerRequest'
  <2>1. Fence'
    BY <1>6, ProjectionKept DEF Retrieve, Fence, TypeOK
  <2>2. call[t].user \in Users /\ call[t].k \in Ks
    BY <1>6 DEF Retrieve, TypeOK, Calls
  <2>3. PICK retrieved \in SUBSET Items, failed \in BOOLEAN :
          \E S \in Answers(call[t].user, call[t].k, snap[t], retrieved) :
            response' = [response EXCEPT ![t] =
              [user |-> call[t].user, k |-> call[t].k, items |-> S,
               generation |-> snap[t].generation, model |-> model,
               degraded |-> failed]]
    BY <1>6 DEF Retrieve
  <2>4. PICK S \in Answers(call[t].user, call[t].k, snap[t], retrieved) :
            response' = [response EXCEPT ![t] =
              [user |-> call[t].user, k |-> call[t].k, items |-> S,
               generation |-> snap[t].generation, model |-> model,
               degraded |-> failed]]
    BY <2>3
  <2>5. /\ S \subseteq Eligible(call[t].user, snap[t])
        /\ Cardinality(S) =
             Smaller(call[t].k, Cardinality(Eligible(call[t].user, snap[t])))
    BY <2>2, AnswersSize
  <2>6. Answer'
    BY <1>6, <2>4, <2>5 DEF Retrieve, Answer, TypeOK
  <2>7. OneAnswerPerRequest'
    BY <1>6 DEF Retrieve, OneAnswerPerRequest
  <2> QED BY <2>1, <2>6, <2>7
<1>7. ASSUME NEW t \in Threads, PublishCommit(t)
      PROVE  Fence' /\ Answer' /\ OneAnswerPerRequest'
  <2>1. Fence' /\ Answer'
    BY <1>7, ProjectionKept DEF PublishCommit, Finish, Fence, Answer, TypeOK
  <2>2. /\ call[t].request \in Requests
        /\ response[t].user = call[t].user
        /\ response[t].k = call[t].k
    BY <1>7 DEF PublishCommit, TypeOK, Calls, Answer
  <2>3. \A a \in returned :
          /\ a.call.request \in Requests
          /\ a.call.request # call[t].request
    BY <1>7 DEF PublishCommit, TypeOK, Calls, OneAnswerPerRequest
  <2>4. OneAnswerPerRequest'
    BY <1>7, <2>2, <2>3 DEF PublishCommit, Return, OneAnswerPerRequest, TypeOK
  <2> QED BY <2>1, <2>4
<1>8. ASSUME NEW t \in Threads, PublishCached(t)
      PROVE  Fence' /\ Answer' /\ OneAnswerPerRequest'
  <2>1. Fence' /\ Answer'
    BY <1>8, ProjectionKept DEF PublishCached, Finish, Fence, Answer, TypeOK
  <2>2. OneAnswerPerRequest'
    BY <1>8 DEF PublishCached, Hit, Return, OneAnswerPerRequest
  <2> QED BY <2>1, <2>2
<1>9. ASSUME NEW t \in Threads, PublishChanged(t)
      PROVE  Fence' /\ Answer' /\ OneAnswerPerRequest'
  BY <1>9, ProjectionKept
     DEF PublishChanged, Finish, Fence, Answer, OneAnswerPerRequest, TypeOK
<1>10. ASSUME NEW t \in Threads, Busy(t)
       PROVE  Fence' /\ Answer' /\ OneAnswerPerRequest'
  BY <1>10, ProjectionKept
     DEF Busy, Finish, Fence, Answer, OneAnswerPerRequest, TypeOK
<1>11. ASSUME NEW e \in Events, Apply(e)
       PROVE  Fence' /\ Answer' /\ OneAnswerPerRequest'
  <2>1. Fence'
    BY <1>11 DEF Apply, Fence, TypeOK, Snapshots
  <2>2. Answer' /\ OneAnswerPerRequest'
    BY <1>11 DEF Apply, Answer, OneAnswerPerRequest
  <2> QED BY <2>1, <2>2
<1>12. ASSUME NEW i \in Items, NEW value \in BOOLEAN, SetUnavailable(i, value)
       PROVE  Fence' /\ Answer' /\ OneAnswerPerRequest'
  <2>1. Fence'
    BY <1>12 DEF SetUnavailable, Fence, TypeOK, Snapshots
  <2>2. Answer' /\ OneAnswerPerRequest'
    BY <1>12 DEF SetUnavailable, Answer, OneAnswerPerRequest
  <2> QED BY <2>1, <2>2
<1>13. CASE UNCHANGED vars
  BY <1>13, ProjectionKept DEF vars, Fence, Answer, OneAnswerPerRequest
<1> QED BY <1>1, <1>2, <1>3, <1>4, <1>5, <1>6, <1>7, <1>8, <1>9, <1>10, <1>11,
           <1>12, <1>13 DEF Next, Handler

LEMMA FenceInvariant == Spec => []FenceInv
  BY InitFence, NextFence, PTL DEF Spec

\* Retries, concurrent duplicates and restarts included, every caller of a
\* request ID is given the one response issued for it.
THEOREM OneAnswerTheorem == Spec => []OneAnswerPerRequest
<1>1. FenceInv => OneAnswerPerRequest
  BY DEF FenceInv
<1> QED BY <1>1, FenceInvariant, PTL

\* The condition IssueIsAtomic puts on a step.
Issue ==
  \A q \in Requests :
    impressions[q] # impressions'[q] =>
      LET r == impressions'[q]
          e == Eligible(r.user, Projection(r.user))
      IN  /\ r.items \subseteq e
          /\ Cardinality(r.items) = Smaller(r.k, Cardinality(e))
          /\ r.generation = generation

LEMMA StepIssues == FenceInv /\ [Next]_vars => [Issue]_vars
<1> SUFFICES ASSUME FenceInv, [Next]_vars, ~UNCHANGED vars PROVE Issue
  OBVIOUS
<1> USE DEF FenceInv, dbVars
<1>1. CASE UNCHANGED impressions
  BY <1>1 DEF Issue
<1>2. ASSUME NEW t \in Threads, PublishCommit(t) PROVE Issue
  <2>1. /\ impressions' = [impressions EXCEPT ![call[t].request] = response[t]]
        /\ impressions \in [Requests -> Responses \cup {None}]
        /\ call[t].request \in Requests
    BY <1>2 DEF PublishCommit, TypeOK, Calls
  <2>2. snap[t] = Projection(call[t].user) /\ response[t].generation = generation
    BY <1>2 DEF PublishCommit, Fence, Answer
  <2>3. /\ response[t].user = call[t].user
        /\ response[t].k = call[t].k
        /\ response[t].items \subseteq Eligible(call[t].user, snap[t])
        /\ Cardinality(response[t].items) =
             Smaller(call[t].k, Cardinality(Eligible(call[t].user, snap[t])))
    BY <1>2 DEF PublishCommit, Answer
  <2> QED BY <2>1, <2>2, <2>3 DEF Issue
<1>3. (\E t \in Threads : PublishCommit(t)) \/ UNCHANGED impressions
  BY DEF Next, Handler, Start, Crash, Receive, Existing, Snapshot, Retrieve,
     PublishCached, PublishChanged, Busy, Apply, SetUnavailable, vars
<1> QED BY <1>1, <1>2, <1>3

\* Every response is, at the moment it is issued, the answer an atomic recommend
\* would give: feedback and withdrawals during retrieval cannot leak past it.
THEOREM IssueIsAtomicTheorem == Spec => IssueIsAtomic
<1>1. FenceInv /\ [Next]_vars => [Issue]_vars
  BY StepIssues
<1>2. Spec => [][Issue]_vars
  BY <1>1, FenceInvariant, PTL DEF Spec
<1> QED BY <1>2 DEF IssueIsAtomic, Issue
-----------------------------------------------------------------------------
(* The journal and its projection *)

\* The events of one kind about one item.
About(i, kind) == {e \in journal : e.item = i /\ e.kind = kind}

\* An event is recorded once for a request and an item, so that the saves of an
\* item are no more than the occasions it was shown.
Once ==
  \A e, f \in journal :
    e.request = f.request /\ e.item = f.item /\ e.kind = f.kind => e = f

\* Everything issued, or waiting to be, is of the bundle the database belongs to.
Pinned ==
  /\ model # None => model = fingerprint
  /\ \A t \in Threads : pc[t] = "publish" => response[t].model = fingerprint
  /\ \A q \in Requests : impressions[q] # None => impressions[q].model = fingerprint

\* The items a user has an outcome for.
Blocked ==
  \A u \in Users, i \in Items :
    i \in blocked[u] <=> \E e \in journal : e.user = u /\ e.kind # "shown" /\ e.item = i

\* The counters of item_features.
Counted ==
  \A i \in Items :
    shown[i] = Cardinality(About(i, "shown")) /\ saved[i] = Cardinality(About(i, "save"))

JournalInv ==
  /\ TypeOK
  /\ IsFiniteSet(journal)
  /\ Once /\ OutcomesGrounded /\ Pinned /\ Blocked /\ Counted

\* What one new event does to the events of a kind about an item.
LEMMA AboutNext ==
  ASSUME IsFiniteSet(journal), NEW e, e \notin journal, journal' = journal \cup {e},
         NEW i, NEW kind
  PROVE  /\ IsFiniteSet(About(i, kind))
         /\ Cardinality(About(i, kind)) \in Nat
         /\ Cardinality(About(i, kind)') =
              IF e.item = i /\ e.kind = kind THEN Cardinality(About(i, kind)) + 1
              ELSE Cardinality(About(i, kind))
<1>1. About(i, kind) \in SUBSET journal
  BY DEF About
<1>2. IsFiniteSet(About(i, kind)) /\ Cardinality(About(i, kind)) \in Nat
  BY <1>1, FS_Subset, FS_CardinalityType
<1>3. CASE e.item = i /\ e.kind = kind
  <2>1. About(i, kind)' = About(i, kind) \cup {e} /\ e \notin About(i, kind)
    BY <1>3 DEF About
  <2>2. Cardinality(About(i, kind)') = Cardinality(About(i, kind)) + 1
    BY <1>2, <2>1, FS_AddElement
  <2> QED BY <1>2, <1>3, <2>2
<1>4. CASE ~(e.item = i /\ e.kind = kind)
  <2>1. About(i, kind)' = About(i, kind)
    BY <1>4 DEF About
  <2> QED BY <1>2, <1>4, <2>1
<1> QED BY <1>3, <1>4

LEMMA InitJournal == Init => JournalInv
<1> SUFFICES ASSUME Init PROVE JournalInv
  OBVIOUS
<1>1. TypeOK
  BY InitType
<1>2. journal = {} /\ IsFiniteSet(journal) /\ Cardinality({}) = 0
  BY FS_EmptySet DEF Init
<1>3. \A i \in Items : About(i, "shown") = {} /\ About(i, "save") = {}
  BY <1>2 DEF About
<1>4. Once /\ OutcomesGrounded /\ Blocked
  BY <1>2 DEF Init, Once, OutcomesGrounded, Blocked
<1>5. Pinned
  BY DEF Init, Idle, Pinned
<1>6. Counted
  BY <1>2, <1>3 DEF Init, Counted
<1> QED BY <1>1, <1>2, <1>4, <1>5, <1>6 DEF JournalInv

\* apply() inserts one event and brings the projection up to date with it.
LEMMA ApplyJournal ==
  ASSUME JournalInv, NEW e \in Events, Apply(e)
  PROVE  /\ IsFiniteSet(journal')
         /\ Once' /\ OutcomesGrounded' /\ Pinned' /\ Blocked' /\ Counted'
<1>t. /\ journal \subseteq Events
      /\ blocked \in [Users -> SUBSET Items]
      /\ shown \in [Items -> Nat] /\ saved \in [Items -> Nat]
  BY DEF JournalInv, TypeOK
<1>e. e.user \in Users /\ e.item \in Items /\ e.request \in Requests
  BY DEF Events
<1>a. Acceptable(e) /\ journal' = journal \cup {e}
  BY DEF Apply
<1>u. UNCHANGED <<fingerprint, impressions, model, threadVars>>
  BY DEF Apply
<1>1. e \notin journal
  BY <1>a DEF Acceptable
<1>2. IsFiniteSet(journal')
  BY <1>a, FS_AddElement DEF JournalInv
<1>3. Once'
  BY <1>a DEF JournalInv, Once, Acceptable, Recorded
<1>4. OutcomesGrounded'
  <2> SUFFICES ASSUME NEW f \in journal'
               PROVE  /\ impressions'[f.request] # None
                      /\ f.user = impressions'[f.request].user
                      /\ f.item \in impressions'[f.request].items
                      /\ Recorded(f, "shown")'
    BY DEF OutcomesGrounded
  <2>1. CASE f \in journal
    BY <1>a, <1>u, <2>1 DEF JournalInv, OutcomesGrounded, Recorded
  <2>2. CASE f = e
    BY <1>a, <1>u, <2>2 DEF Acceptable, Recorded
  <2> QED BY <1>a, <2>1, <2>2
<1>5. Pinned'
  BY <1>u DEF JournalInv, Pinned, threadVars
<1>6. Blocked'
  <2> SUFFICES ASSUME NEW u \in Users, NEW i \in Items
               PROVE  i \in blocked'[u] <=>
                        \E f \in journal' : f.user = u /\ f.kind # "shown" /\ f.item = i
    BY DEF Blocked
  <2>1. i \in blocked'[u] <=>
          i \in blocked[u] \/ (e.kind # "shown" /\ e.user = u /\ e.item = i)
    BY <1>t, <1>e DEF Apply
  <2> QED BY <1>a, <2>1 DEF JournalInv, Blocked
<1>7. Counted'
  <2> SUFFICES ASSUME NEW i \in Items
               PROVE  /\ shown'[i] = Cardinality(About(i, "shown")')
                      /\ saved'[i] = Cardinality(About(i, "save")')
    BY DEF Counted
  <2>1. \A k : Cardinality(About(i, k)') =
                 IF e.item = i /\ e.kind = k THEN Cardinality(About(i, k)) + 1
                 ELSE Cardinality(About(i, k))
    BY <1>1, <1>a, AboutNext DEF JournalInv
  <2>2. shown[i] = Cardinality(About(i, "shown")) /\ saved[i] = Cardinality(About(i, "save"))
    BY DEF JournalInv, Counted
  <2>3. shown'[i] = IF e.item = i /\ e.kind = "shown" THEN shown[i] + 1 ELSE shown[i]
    BY <1>t, <1>e DEF Apply
  <2>4. saved'[i] = IF e.item = i /\ e.kind = "save" THEN saved[i] + 1 ELSE saved[i]
    BY <1>t, <1>e DEF Apply
  <2> QED BY <2>1, <2>2, <2>3, <2>4
<1> QED BY <1>2, <1>3, <1>4, <1>5, <1>6, <1>7

LEMMA NextJournal == JournalInv /\ [Next]_vars => JournalInv'
<1> SUFFICES ASSUME JournalInv, [Next]_vars PROVE JournalInv'
  OBVIOUS
<1>t. TypeOK /\ TypeOK'
  BY NextType DEF JournalInv
<1> SUFFICES /\ IsFiniteSet(journal')
             /\ Once' /\ OutcomesGrounded' /\ Pinned' /\ Blocked' /\ Counted'
  BY <1>t DEF JournalInv
<1> USE DEF dbVars, threadVars
<1>p. Pinned /\ OutcomesGrounded
  BY DEF JournalInv
<1>1. ASSUME NEW e \in Events, Apply(e)
      PROVE  /\ IsFiniteSet(journal')
             /\ Once' /\ OutcomesGrounded' /\ Pinned' /\ Blocked' /\ Counted'
  BY <1>1, ApplyJournal
<1>2. ASSUME UNCHANGED <<journal, blocked, shown, saved>>
      PROVE  IsFiniteSet(journal') /\ Once' /\ Blocked' /\ Counted'
  BY <1>2 DEF JournalInv, Once, Blocked, Counted, About
<1>3. ASSUME UNCHANGED <<journal, impressions>> PROVE OutcomesGrounded'
  BY <1>3, <1>p DEF OutcomesGrounded, Recorded
<1>4. ASSUME NEW m \in Models, Start(m) PROVE Pinned'
  <2>1. /\ fingerprint' = m /\ model' = m /\ fingerprint \in {None, m} /\ model = None
        /\ UNCHANGED <<impressions, threadVars>>
    BY <1>4 DEF Start
  <2>2. \A t \in Threads : pc[t] # "publish"
    BY <1>t, <2>1 DEF TypeOK
  <2>3. \A q \in Requests : impressions[q] # None => impressions[q].model # None
    BY <1>t, NoneAssumption DEF TypeOK, Responses
  <2> QED BY <1>p, <2>1, <2>2, <2>3 DEF Pinned
<1>5. ASSUME Crash PROVE Pinned'
  <2>1. /\ model' = None /\ UNCHANGED <<fingerprint, impressions>>
        /\ \A t \in Threads : pc'[t] # "publish"
    BY <1>5 DEF Crash
  <2> QED BY <1>p, <2>1, Zenon DEF Pinned
<1>6. ASSUME NEW t \in Threads, Retrieve(t) PROVE Pinned'
  <2>1. model # None
    BY <1>6, <1>t DEF Retrieve, TypeOK
  <2>2. response \in [Threads -> Responses \cup {None}]
    BY <1>t DEF TypeOK
  <2>3. PICK retrieved \in SUBSET Items, failed \in BOOLEAN :
          \E S \in Answers(call[t].user, call[t].k, snap[t], retrieved) :
            response' = [response EXCEPT ![t] =
              [user |-> call[t].user, k |-> call[t].k, items |-> S,
               generation |-> snap[t].generation, model |-> model,
               degraded |-> failed]]
    BY <1>6 DEF Retrieve
  <2>4. pc' = [pc EXCEPT ![t] = "publish"] /\ UNCHANGED <<model, fingerprint, impressions>>
    BY <1>6 DEF Retrieve
  <2> QED BY <1>p, <1>t, <2>1, <2>2, <2>3, <2>4 DEF Pinned, TypeOK
<1>7. ASSUME NEW t \in Threads, PublishCommit(t) PROVE Pinned' /\ OutcomesGrounded'
  <2>1. call[t].request \in Requests /\ response[t].model = fingerprint
    BY <1>7, <1>t, <1>p DEF PublishCommit, TypeOK, Calls, Pinned
  <2>2. /\ impressions' = [impressions EXCEPT ![call[t].request] = response[t]]
        /\ impressions[call[t].request] = None
        /\ UNCHANGED <<model, fingerprint, journal>>
        /\ pc' = [pc EXCEPT ![t] = "idle"]
        /\ response' = [response EXCEPT ![t] = None]
    BY <1>7 DEF PublishCommit, Finish
  <2>3. Pinned'
    BY <1>p, <1>t, <2>1, <2>2 DEF Pinned, TypeOK
  <2>4. \A e \in journal : e.request \in Requests /\ e.request # call[t].request
    BY <1>p, <1>t, <2>2 DEF OutcomesGrounded, TypeOK, Events
  <2>5. \A e \in journal : impressions'[e.request] = impressions[e.request]
    BY <1>t, <2>1, <2>2, <2>4 DEF TypeOK
  <2>6. OutcomesGrounded'
    BY <1>p, <2>2, <2>5 DEF OutcomesGrounded, Recorded
  <2> QED BY <2>3, <2>6
<1>8. ASSUME UNCHANGED <<model, fingerprint, impressions>>,
             \A t \in Threads : pc'[t] = "publish" =>
               pc[t] = "publish" /\ response'[t] = response[t]
      PROVE  Pinned'
  BY <1>8, <1>p DEF Pinned
<1>9. ASSUME NEW t \in Threads,
             Existing(t) \/ Snapshot(t) \/ PublishCached(t) \/ PublishChanged(t)
               \/ Busy(t) \/ \E c \in Calls : Receive(t, c)
      PROVE  /\ UNCHANGED <<dbVars, model>>
             /\ \A u \in Threads : pc'[u] = "publish" =>
                  pc[u] = "publish" /\ response'[u] = response[u]
  BY <1>9, <1>t DEF Existing, Snapshot, PublishCached, PublishChanged, Busy, Receive,
     Finish, TypeOK
<1>10. ASSUME NEW t \in Threads, Handler(t)
       PROVE  UNCHANGED <<journal, blocked, shown, saved>> /\ Pinned' /\ OutcomesGrounded'
  <2>1. CASE Retrieve(t)
    <3>1. UNCHANGED dbVars
      BY <2>1 DEF Retrieve
    <3> QED BY <1>3, <1>6, <2>1, <3>1
  <2>2. CASE PublishCommit(t)
    <3>1. UNCHANGED <<journal, blocked, shown, saved>>
      BY <2>2 DEF PublishCommit
    <3> QED BY <1>7, <2>2, <3>1
  <2>3. CASE Existing(t) \/ Snapshot(t) \/ PublishCached(t) \/ PublishChanged(t)
               \/ Busy(t) \/ \E c \in Calls : Receive(t, c)
    BY <1>3, <1>8, <1>9, <2>3
  <2> QED BY <1>10, <2>1, <2>2, <2>3 DEF Handler
<1>11. ASSUME NEW i \in Items, NEW value \in BOOLEAN, SetUnavailable(i, value)
       PROVE  UNCHANGED <<journal, blocked, shown, saved>> /\ Pinned' /\ OutcomesGrounded'
  BY <1>3, <1>8, <1>11 DEF SetUnavailable
<1>12. CASE UNCHANGED vars
  BY <1>2, <1>3, <1>8, <1>12 DEF vars
<1>13. ASSUME NEW m \in Models, Start(m)
       PROVE  UNCHANGED <<journal, blocked, shown, saved>> /\ OutcomesGrounded'
  BY <1>3, <1>13 DEF Start
<1>14. Crash => UNCHANGED <<journal, blocked, shown, saved>> /\ OutcomesGrounded'
  BY <1>3 DEF Crash
<1> QED BY <1>1, <1>2, <1>4, <1>5, <1>10, <1>11, <1>12, <1>13, <1>14 DEF Next

LEMMA JournalInvariant == Spec => []JournalInv
  BY InitJournal, NextJournal, PTL DEF Spec

\* The saves of an item are no more than the times it was shown: each belongs to
\* a request that showed it, and a request saves an item once.
LEMMA SavesWithinShown ==
  ASSUME JournalInv, NEW i \in Items
  PROVE  Cardinality(About(i, "save")) <= Cardinality(About(i, "shown"))
<1> DEFINE S == About(i, "save")
           T == About(i, "shown")
           f == [e \in S |-> CHOOSE g \in T : g.request = e.request]
<1>1. \A e \in S : \E g \in T : g.request = e.request
  BY DEF JournalInv, OutcomesGrounded, Recorded, About
<1>2. \A e \in S : f[e] \in T /\ f[e].request = e.request
  BY <1>1
<1>3. \A e, g \in S : e.request = g.request => e = g
  BY DEF JournalInv, Once, About
<1>4. IsFiniteSet(T)
  <2>1. T \in SUBSET journal
    BY DEF About
  <2> QED BY <2>1, FS_Subset DEF JournalInv
<1>5. f \in [S -> T]
  BY <1>2
<1>6. \A e, g \in S : f[e] = f[g] => e = g
  BY <1>2, <1>3
<1> HIDE DEF f
<1>7. f \in Injection(S, T)
  BY <1>5, <1>6, Fun_IsInj
<1> HIDE DEF S, T
<1>8. Cardinality(S) <= Cardinality(T)
  BY <1>4, <1>7, FS_Injection
<1> QED BY <1>8 DEF S, T

LEMMA JournalIsExact == JournalInv => JournalExact
<1> SUFFICES ASSUME JournalInv PROVE JournalExact
  OBVIOUS
<1>t. journal \subseteq Events /\ blocked \in [Users -> SUBSET Items]
  BY DEF JournalInv, TypeOK
<1>1. ASSUME NEW u \in Users
      PROVE  blocked[u] = {e.item : e \in {f \in journal : f.user = u /\ f.kind # "shown"}}
  <2>1. \A e \in journal : e.item \in Items
    BY <1>t DEF Events
  <2>2. \A i : i \in blocked[u] <=>
               \E e \in journal : e.user = u /\ e.kind # "shown" /\ e.item = i
    BY <1>t, <2>1 DEF JournalInv, Blocked
  <2> QED BY <2>2
<1>2. \A i \in Items : /\ shown[i] = Cardinality(About(i, "shown"))
                       /\ saved[i] = Cardinality(About(i, "save"))
  BY DEF JournalInv, Counted
<1>3. ProjectionIsReplay
  BY <1>1, <1>2 DEF ProjectionIsReplay, About
<1>4. SaveRateBounded
  BY <1>2, SavesWithinShown DEF SaveRateBounded
<1>5. OutcomesGrounded
  BY DEF JournalInv
<1>6. OneModelPerDatabase
  BY DEF JournalInv, Pinned, OneModelPerDatabase
<1> QED BY <1>3, <1>4, <1>5, <1>6 DEF JournalExact

\* Across crashes, retries and restarts the projection is the journal's replay,
\* save rates are rates, every outcome belongs to what was issued and shown, and
\* all that was issued is of one bundle.
THEOREM JournalTheorem == Spec => []JournalExact
  BY JournalInvariant, JournalIsExact, PTL
=============================================================================
