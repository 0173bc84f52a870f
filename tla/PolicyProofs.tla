---------------------------- MODULE PolicyProofs ----------------------------
(***************************************************************************)
(* Proofs about Policy for any number of threads, movies, requests and     *)
(* mutations and every bound of the cache, the clock and the revisions: a  *)
(* stored recommendation is current, the cache serves the right vectors, a *)
(* request ID replays, and preferences are the replay of the mutations.    *)
(***************************************************************************)
EXTENDS Policy, SequenceTheorems, FiniteSetTheorems, TLAPS

Points == {"idle", "read", "lookup", "fold", "select", "issue"}
Reading == {"lookup", "fold", "select", "issue"}
Entries == [revision : Nat, vector : Prefs]
Snapshots == [revision : Nat, prefs : Prefs, blocked : SUBSET Items]
Responses == [k : Ks, items : SUBSET Items, revision : Nat, vector : Prefs]
Answers == [request : Requests, at : Nat, row : Rows]

\* The rows of the account.
RowsShape ==
  /\ now \in 0..MaxTime /\ revision \in 0..MaxRevision
  /\ prefs \in Prefs /\ Cardinality(DOMAIN prefs) <= MaxPrefs
  /\ outcomes \subseteq Items
  /\ issued \in [Requests -> Rows \cup {None}]
  /\ mutations \in [Mutations -> MutationRows \cup {None}]
  /\ states \in Seq(Prefs) /\ Len(states) = revision + 1
  /\ answers \subseteq Answers

\* What a handler thread carries at each point of recommend().
ThreadShape ==
  /\ pc \in [Threads -> Points] /\ late \subseteq Threads
  /\ attempt \in [Threads -> 0..MaxAttempts]
  /\ DOMAIN call = Threads /\ DOMAIN snap = Threads
  /\ DOMAIN vector = Threads /\ DOMAIN response = Threads
  /\ \A t \in Threads :
       /\ pc[t] # "idle" => call[t] \in Calls
       /\ pc[t] \in Reading => snap[t] \in Snapshots
       /\ pc[t] \in {"select", "issue"} => vector[t] \in Prefs
       /\ pc[t] = "issue" => response[t] \in Responses

CacheShape == cache \in Seq(Entries) /\ Len(cache) <= CacheSize

Shape == RowsShape /\ ThreadShape /\ CacheShape

-----------------------------------------------------------------------------
(* Sequences and preferences *)

\* A sequence is one of every set its elements belong to.
LEMMA SeqOf ==
  ASSUME NEW S, NEW s \in Seq(S), NEW T, \A i \in 1..Len(s) : s[i] \in T
  PROVE  s \in Seq(T)
<1>1. Len(s) \in Nat
  BY LenProperties
<1>2. SubSeq(s, 1, Len(s)) = s
  BY SubSeqFull
<1>3. SubSeq(s, 1, Len(s)) \in Seq(T)
  BY <1>1, SubSeqProperties
<1> QED BY <1>2, <1>3

LEMMA DropSeq ==
  ASSUME NEW S, NEW s \in Seq(S), NEW i \in 1..Len(s)
  PROVE  Drop(s, i) \in Seq(S) /\ Len(Drop(s, i)) = Len(s) - 1
<1>1. Len(s) \in Nat
  BY LenProperties
<1>2. /\ SubSeq(s, 1, i - 1) \in Seq(S)
      /\ Len(SubSeq(s, 1, i - 1)) = IF 1 <= i - 1 THEN (i - 1) - 1 + 1 ELSE 0
  <2>1. \A j \in 1..(i - 1) : s[j] \in S
    BY <1>1, ElementOfSeq
  <2> QED BY <1>1, <2>1, SubSeqProperties
<1>3. /\ SubSeq(s, i + 1, Len(s)) \in Seq(S)
      /\ Len(SubSeq(s, i + 1, Len(s))) =
           IF i + 1 <= Len(s) THEN Len(s) - (i + 1) + 1 ELSE 0
  <2>1. \A j \in (i + 1)..Len(s) : s[j] \in S
    BY <1>1, ElementOfSeq
  <2> QED BY <1>1, <2>1, SubSeqProperties
<1>4. /\ SubSeq(s, 1, i - 1) \o SubSeq(s, i + 1, Len(s)) \in Seq(S)
      /\ Len(SubSeq(s, 1, i - 1) \o SubSeq(s, i + 1, Len(s))) =
           Len(SubSeq(s, 1, i - 1)) + Len(SubSeq(s, i + 1, Len(s)))
  BY <1>2, <1>3, ConcatProperties, Zenon
<1>5. Len(SubSeq(s, 1, i - 1)) + Len(SubSeq(s, i + 1, Len(s))) = Len(s) - 1
  <2> DEFINE a == Len(SubSeq(s, 1, i - 1))
             b == Len(SubSeq(s, i + 1, Len(s)))
             n == Len(s)
  <2>1. /\ n \in Nat /\ i \in 1..n
        /\ a = IF 1 <= i - 1 THEN (i - 1) - 1 + 1 ELSE 0
        /\ b = IF i + 1 <= n THEN n - (i + 1) + 1 ELSE 0
    BY <1>1, <1>2, <1>3, Zenon
  <2> HIDE DEF a, b, n
  <2>2. a + b = n - 1
    BY <2>1
  <2> QED BY <2>2 DEF a, b, n
<1> QED BY <1>4, <1>5 DEF Drop

\* Storing an entry keeps the cache among the entries it had and the new one,
\* and within its size.
LEMMA StoredSeq ==
  ASSUME NEW S, cache \in Seq(S), Len(cache) <= CacheSize, NEW r, NEW v,
         [revision |-> r, vector |-> v] \in S
  PROVE  Stored(r, v) \in Seq(S) /\ Len(Stored(r, v)) <= CacheSize
<1> DEFINE others == IF Cached(r) = {} THEN cache
                     ELSE Drop(cache, CHOOSE i \in Cached(r) : TRUE)
           grown == Append(others, [revision |-> r, vector |-> v])
           first == IF Len(grown) > CacheSize THEN 2 ELSE 1
<1>1. Len(cache) \in Nat /\ DOMAIN cache = 1..Len(cache) /\ CacheSize \in Nat
  BY LenProperties, BoundsAssumption
<1>2. others \in Seq(S) /\ Len(others) <= CacheSize /\ Len(others) \in Nat
  <2>1. CASE Cached(r) = {}
    BY <1>1, <2>1
  <2>2. CASE Cached(r) # {}
    <3> DEFINE i == CHOOSE j \in Cached(r) : TRUE
    <3>1. i \in 1..Len(cache)
      BY <1>1, <2>2 DEF Cached
    <3> HIDE DEF i
    <3>2. Drop(cache, i) \in Seq(S) /\ Len(Drop(cache, i)) = Len(cache) - 1
      BY <3>1, DropSeq
    <3>3. others = Drop(cache, i)
      BY <2>2 DEF i
    <3> QED BY <1>1, <3>1, <3>2, <3>3
  <2> QED BY <2>1, <2>2
<1> HIDE DEF others
<1>3. grown \in Seq(S) /\ Len(grown) = Len(others) + 1
  BY <1>2, AppendProperties
<1> HIDE DEF grown
<1>4. first \in Int /\ Len(grown) \in Int /\ \A i \in first..Len(grown) : grown[i] \in S
  BY <1>2, <1>3, ElementOfSeq
<1>5. /\ SubSeq(grown, first, Len(grown)) \in Seq(S)
      /\ Len(SubSeq(grown, first, Len(grown))) =
           IF first <= Len(grown) THEN Len(grown) - first + 1 ELSE 0
  BY <1>4, SubSeqProperties
<1>6. Len(SubSeq(grown, first, Len(grown))) <= CacheSize
  BY <1>1, <1>2, <1>3, <1>5
<1>7. Stored(r, v) = SubSeq(grown, first, Len(grown))
  BY DEF Stored, grown, others
<1> QED BY <1>5, <1>6, <1>7

\* A change set turns preferences into preferences.
LEMMA ChangedPrefs ==
  ASSUME prefs \in Prefs, NEW c \in ChangeSets
  PROVE  /\ Changed(c) \in Prefs
         /\ \A i \in Items :
              /\ i \in DOMAIN Changed(c) <=>
                   IF i \in DOMAIN c THEN c[i] # 0 ELSE i \in DOMAIN prefs
              /\ i \in DOMAIN Changed(c) =>
                   Changed(c)[i] = IF i \in DOMAIN c
                                   THEN (IF c[i] = 1 THEN "like" ELSE "dislike")
                                   ELSE prefs[i]
<1>1. PICK S \in SUBSET Items : prefs \in [S -> Values]
  BY DEF Prefs
<1>2. PICK T \in SUBSET Items : c \in [T -> {-1, 0, 1}]
  BY ChangesAssumption
<1> DEFINE kept == DOMAIN prefs \ DOMAIN c
           set == {i \in DOMAIN c : c[i] # 0}
<1>3. kept \cup set \in SUBSET Items
  BY <1>1, <1>2
<1>4. Changed(c) = [i \in kept \cup set |->
         IF i \in set THEN (IF c[i] = 1 THEN "like" ELSE "dislike") ELSE prefs[i]]
  BY DEF Changed
<1>5. Changed(c) \in [kept \cup set -> Values]
  BY <1>1, <1>4 DEF Values
<1>6. Changed(c) \in Prefs
  BY <1>3, <1>5 DEF Prefs
<1>7. DOMAIN Changed(c) = kept \cup set
  BY <1>4
<1> QED BY <1>4, <1>6, <1>7

\* The states of the account grow at their end.
LEMMA StatesGrow ==
  ASSUME states \in Seq(Prefs), NEW p \in Prefs, states' = Append(states, p)
  PROVE  /\ states' \in Seq(Prefs)
         /\ Len(states') = Len(states) + 1
         /\ \A i \in 1..Len(states) : states'[i] = states[i]
         /\ states'[Len(states) + 1] = p
  BY AppendProperties

-----------------------------------------------------------------------------
(* The shape is inductive *)

LEMMA EmptyPrefs == << >> \in Prefs
<1>1. << >> \in [{} -> Values]
  OBVIOUS
<1> QED BY <1>1 DEF Prefs

LEMMA FinishShape ==
  ASSUME ThreadShape, NEW t \in Threads, Finish(t)
  PROVE  ThreadShape'
  BY BoundsAssumption DEF ThreadShape, Finish, Points, Reading

LEMMA InitShape == Init => Shape
<1> SUFFICES ASSUME Init PROVE Shape
  OBVIOUS
<1>1. prefs \in Prefs /\ DOMAIN prefs = {} /\ Cardinality(DOMAIN prefs) = 0
  BY EmptyPrefs, FS_EmptySet DEF Init
<1>2. states \in Seq(Prefs) /\ Len(states) = 1
  BY EmptyPrefs DEF Init
<1>3. RowsShape
  BY <1>1, <1>2, BoundsAssumption DEF Init, RowsShape
<1>4. ThreadShape
  BY BoundsAssumption DEF Init, ThreadShape, Points, Reading
<1>5. CacheShape
  BY BoundsAssumption DEF Init, CacheShape
<1> QED BY <1>3, <1>4, <1>5 DEF Shape

LEMMA NextShape == Shape /\ [Next]_vars => Shape'
<1> SUFFICES ASSUME Shape, [Next]_vars PROVE Shape'
  OBVIOUS
<1>r. RowsShape
  BY DEF Shape
<1>t. ThreadShape
  BY DEF Shape
<1>c. CacheShape
  BY DEF Shape
<1>sameRows. ASSUME UNCHANGED <<now, rows, states>>, answers' \subseteq Answers
             PROVE  RowsShape'
  BY <1>r, <1>sameRows DEF RowsShape, rows
<1>sameThreads. ASSUME UNCHANGED threadVars PROVE ThreadShape'
  BY <1>t, <1>sameThreads DEF ThreadShape, threadVars
<1>sameCache. ASSUME UNCHANGED cache PROVE CacheShape'
  BY <1>c, <1>sameCache DEF CacheShape
<1>answers. answers \subseteq Answers
  BY <1>r DEF RowsShape
<1>1. CASE Tick
  <2>1. RowsShape'
    BY <1>1, <1>r, BoundsAssumption DEF Tick, RowsShape, rows
  <2>2. ThreadShape'
    BY <1>1, <1>t DEF Tick, ThreadShape
  <2> QED BY <1>1, <2>1, <2>2, <1>sameCache DEF Tick, Shape
<1>2. CASE GiveConsent
  <2>1. RowsShape'
    BY <1>2, <1>r DEF GiveConsent, RowsShape
  <2> QED BY <1>2, <2>1, <1>sameThreads, <1>sameCache DEF GiveConsent, Shape
<1>3. CASE Restart
  <2>1. ThreadShape'
    BY <1>3, BoundsAssumption DEF Restart, ThreadShape, Points, Reading
  <2>2. CacheShape'
    BY <1>3, BoundsAssumption DEF Restart, CacheShape
  <2> QED BY <1>3, <2>1, <2>2, <1>sameRows, <1>answers DEF Restart, Shape
<1>4. CASE Maintain
  <2>1. RowsShape'
    BY <1>4, <1>r DEF Maintain, RowsShape
  <2> QED BY <1>4, <2>1, <1>sameThreads, <1>sameCache DEF Maintain, Shape
<1>5. ASSUME NEW m \in Mutations, NEW c \in ChangeSets, ChangePreferences(m, c)
      PROVE  Shape'
  <2>1. prefs' \in Prefs /\ Cardinality(DOMAIN prefs') <= MaxPrefs
    BY <1>5, <1>r, ChangedPrefs DEF ChangePreferences, RowsShape
  <2>2. states' \in Seq(Prefs) /\ Len(states') = Len(states) + 1
    BY <1>5, <1>r, <2>1, StatesGrow DEF ChangePreferences, RowsShape
  <2>3. revision' = revision + 1 /\ revision' \in 0..MaxRevision
    BY <1>5, <1>r, BoundsAssumption DEF ChangePreferences, RowsShape
  <2>4. mutations' \in [Mutations -> MutationRows \cup {None}]
    BY <1>5, <1>r, BoundsAssumption DEF ChangePreferences, RowsShape, MutationRows
  <2>5. RowsShape'
    BY <1>5, <1>r, <2>1, <2>2, <2>3, <2>4 DEF ChangePreferences, RowsShape
  <2> QED BY <1>5, <2>5, <1>sameThreads, <1>sameCache DEF ChangePreferences, Shape
<1>6. ASSUME NEW id \in EventIds, NEW q \in Requests, NEW i \in Items, NEW kind \in Kinds,
             Feedback(id, q, i, kind)
      PROVE  Shape'
  <2>1. CASE kind = "shown"
    <3>1. RowsShape'
      BY <1>6, <2>1, <1>r DEF Feedback, RowsShape
    <3> QED BY <1>6, <3>1, <1>sameThreads, <1>sameCache DEF Feedback, Shape
  <2>2. CASE kind # "shown"
    <3>1. states' \in Seq(Prefs) /\ Len(states') = Len(states) + 1
      BY <1>6, <1>r, <2>2, StatesGrow DEF Feedback, RowsShape
    <3>2. revision' = revision + 1 /\ revision' \in 0..MaxRevision
      BY <1>6, <1>r, <2>2, BoundsAssumption DEF Feedback, RowsShape
    <3>3. RowsShape'
      BY <1>6, <2>2, <1>r, <3>1, <3>2 DEF Feedback, RowsShape
    <3> QED BY <1>6, <3>3, <1>sameThreads, <1>sameCache DEF Feedback, Shape
  <2> QED BY <2>1, <2>2
<1>7. ASSUME NEW t \in Threads, NEW c \in Calls, Receive(t, c) PROVE Shape'
  <2>1. ThreadShape'
    BY <1>7, <1>t, BoundsAssumption DEF Receive, ThreadShape, Points, Reading
  <2> QED BY <1>7, <2>1, <1>sameRows, <1>sameCache, <1>answers DEF Receive, Shape
<1>8. ASSUME NEW t \in Threads, ReadStored(t) PROVE Shape'
  <2>1. call[t].request \in Requests
    BY <1>8, <1>t DEF ReadStored, ThreadShape, Calls
  <2>2. issued[call[t].request] \in Rows /\ now \in Nat
    BY <1>8, <1>r, <2>1 DEF ReadStored, RowsShape
  <2>3. [request |-> call[t].request, at |-> now, row |-> issued[call[t].request]] \in Answers
    BY <2>1, <2>2 DEF Answers
  <2>4. answers' \subseteq Answers
    BY <1>8, <1>answers, <2>3 DEF ReadStored, Return
  <2> QED BY <1>8, <2>4, <1>t, FinishShape, <1>sameRows, <1>sameCache DEF ReadStored, Shape
<1>9. ASSUME NEW t \in Threads, ReadState(t) PROVE Shape'
  <2>1. [revision |-> revision, prefs |-> prefs, blocked |-> DOMAIN prefs \cup outcomes]
          \in Snapshots
    BY <1>r DEF RowsShape, Snapshots, Prefs
  <2>2. ThreadShape'
    BY <1>9, <1>t, <2>1 DEF ReadState, ThreadShape, Points, Reading
  <2> QED BY <1>9, <2>2, <1>sameRows, <1>sameCache, <1>answers DEF ReadState, Shape
<1>10. ASSUME NEW t \in Threads, ReadRefused(t) PROVE Shape'
  BY <1>10, <1>t, FinishShape, <1>sameRows, <1>sameCache, <1>answers DEF ReadRefused, Shape
<1>11. ASSUME NEW t \in Threads, LookupHit(t) PROVE Shape'
  <2>1. PICK i \in Cached(snap[t].revision) :
          /\ cache' = Append(Drop(cache, i), cache[i])
          /\ vector' = [vector EXCEPT ![t] = cache[i].vector]
    BY <1>11 DEF LookupHit
  <2>2. i \in 1..Len(cache) /\ Len(cache) \in Nat /\ cache \in Seq(Entries)
    BY <1>c, LenProperties DEF Cached, CacheShape
  <2>3. cache[i] \in Entries
    BY <2>2, ElementOfSeq
  <2>4. Drop(cache, i) \in Seq(Entries) /\ Len(Drop(cache, i)) = Len(cache) - 1
    BY <2>2, DropSeq
  <2>5. cache' \in Seq(Entries) /\ Len(cache') = Len(Drop(cache, i)) + 1
    BY <2>1, <2>3, <2>4, AppendProperties
  <2>6. CacheShape'
    BY <1>c, <2>2, <2>4, <2>5 DEF CacheShape
  <2>7. cache[i].vector \in Prefs
    BY <2>3 DEF Entries
  <2>8. ThreadShape'
    BY <1>11, <1>t, <2>1, <2>7 DEF LookupHit, ThreadShape, Points, Reading
  <2> QED BY <1>11, <2>6, <2>8, <1>sameRows, <1>answers DEF LookupHit, Shape
<1>12. ASSUME NEW t \in Threads, LookupMiss(t) PROVE Shape'
  <2>1. ThreadShape'
    BY <1>12, <1>t DEF LookupMiss, ThreadShape, Points, Reading
  <2> QED BY <1>12, <2>1, <1>sameRows, <1>sameCache, <1>answers DEF LookupMiss, Shape
<1>13. ASSUME NEW t \in Threads, Fold(t) PROVE Shape'
  <2>1. snap[t].revision \in Nat /\ snap[t].prefs \in Prefs
    BY <1>13, <1>t DEF Fold, ThreadShape, Reading, Snapshots
  <2>2. [revision |-> snap[t].revision, vector |-> snap[t].prefs] \in Entries
    BY <2>1 DEF Entries
  <2>3. CacheShape'
    BY <1>13, <1>c, <2>2, StoredSeq DEF Fold, CacheShape
  <2>4. ThreadShape'
    BY <1>13, <1>t, <2>1 DEF Fold, ThreadShape, Points, Reading
  <2> QED BY <1>13, <2>3, <2>4, <1>sameRows, <1>answers DEF Fold, Shape
<1>14. ASSUME NEW t \in Threads, Select(t) PROVE Shape'
  <2>1. PICK S \in Selections(snap[t].blocked, call[t].k) :
          response' = [response EXCEPT ![t] =
            [k |-> call[t].k, items |-> S, revision |-> snap[t].revision,
             vector |-> vector[t]]]
    BY <1>14 DEF Select
  <2>2. S \in SUBSET Items
    BY <2>1, BoundsAssumption DEF Selections
  <2>3. [k |-> call[t].k, items |-> S, revision |-> snap[t].revision, vector |-> vector[t]]
          \in Responses
    BY <1>14, <1>t, <2>2 DEF Select, ThreadShape, Reading, Snapshots, Responses, Calls
  <2>4. ThreadShape'
    BY <1>14, <1>t, <2>1, <2>3 DEF Select, ThreadShape, Points, Reading
  <2> QED BY <1>14, <2>4, <1>sameRows, <1>sameCache, <1>answers DEF Select, Shape
<1>15. ASSUME NEW t \in Threads, IssueStored(t) PROVE Shape'
  <2>1. call[t].request \in Requests
    BY <1>15, <1>t DEF IssueStored, ThreadShape, Calls
  <2>2. issued[call[t].request] \in Rows /\ now \in Nat
    BY <1>15, <1>r, <2>1 DEF IssueStored, RowsShape
  <2>3. [request |-> call[t].request, at |-> now, row |-> issued[call[t].request]] \in Answers
    BY <2>1, <2>2 DEF Answers
  <2>4. answers' \subseteq Answers
    BY <1>15, <1>answers, <2>3 DEF IssueStored, Return
  <2> QED BY <1>15, <2>4, <1>t, FinishShape, <1>sameRows, <1>sameCache DEF IssueStored, Shape
<1>16. ASSUME NEW t \in Threads, IssueChanged(t) PROVE Shape'
  <2>1. CASE attempt[t] < MaxAttempts
    <3>1. ThreadShape'
      BY <1>16, <1>t, <2>1, BoundsAssumption DEF IssueChanged, ThreadShape, Points, Reading
    <3> QED BY <1>16, <3>1, <1>sameRows, <1>sameCache, <1>answers DEF IssueChanged, Shape
  <2>2. CASE ~(attempt[t] < MaxAttempts)
    <3>1. Finish(t)
      BY <1>16, <2>2 DEF IssueChanged
    <3> QED BY <1>16, <3>1, <1>t, FinishShape, <1>sameRows, <1>sameCache, <1>answers
            DEF IssueChanged, Shape
  <2> QED BY <2>1, <2>2
<1>17. ASSUME NEW t \in Threads, Issue(t) PROVE Shape'
  <2>1. call[t].request \in Requests /\ response[t] \in Responses /\ now \in Nat
    BY <1>17, <1>t, <1>r DEF Issue, ThreadShape, Calls, RowsShape
  <2>2. Row(t) \in Rows
    BY <2>1 DEF Row, Rows, Responses
  <2>3. [request |-> call[t].request, at |-> now, row |-> Row(t)] \in Answers
    BY <2>1, <2>2 DEF Answers
  <2>4. answers' \subseteq Answers
    BY <1>17, <1>answers, <2>3 DEF Issue, Return
  <2>5. RowsShape'
    BY <1>17, <1>r, <2>1, <2>2, <2>4 DEF Issue, RowsShape
  <2> QED BY <1>17, <2>5, <1>t, FinishShape, <1>sameCache DEF Issue, Shape
<1>18. ASSUME NEW t \in Threads, DatabaseError(t) PROVE Shape'
  BY <1>18, <1>t, FinishShape, <1>sameRows, <1>sameCache, <1>answers DEF DatabaseError, Shape
<1>19. CASE UNCHANGED vars
  BY <1>19, <1>sameRows, <1>sameThreads, <1>sameCache, <1>answers DEF vars, Shape
<1> QED BY <1>1, <1>2, <1>3, <1>4, <1>5, <1>6, <1>7, <1>8, <1>9, <1>10, <1>11, <1>12, <1>13,
           <1>14, <1>15, <1>16, <1>17, <1>18, <1>19 DEF Next, Handler

LEMMA ShapeInvariant == Spec => []Shape
  BY InitShape, NextShape, PTL DEF Spec

-----------------------------------------------------------------------------
(* The fence *)

\* What the cache may hold: the preferences of a revision the account has had.
Past == {e \in Entries : e.revision <= revision /\ e.vector = states[e.revision + 1]}

\* A thread between the two transactions works from the preferences of the
\* revision it has read; while the account is still at that revision, what it
\* may not recommend is what the account's rows say.
Fenced(t) ==
  /\ pc[t] \in Reading =>
       /\ snap[t].revision <= revision
       /\ snap[t].prefs = states[snap[t].revision + 1]
       /\ snap[t].revision = revision => snap[t].blocked = DOMAIN prefs \cup outcomes
  /\ pc[t] \in {"select", "issue"} => vector[t] = snap[t].prefs
  /\ pc[t] = "issue" =>
       LET open == Available \ snap[t].blocked
       IN  /\ response[t].revision = snap[t].revision
           /\ response[t].vector = snap[t].prefs
           /\ response[t].items \subseteq open
           /\ Cardinality(response[t].items) = response[t].k \/ response[t].items = open

FenceInv ==
  /\ Shape
  /\ states[revision + 1] = prefs
  /\ \A t \in Threads : Fenced(t)
  /\ cache \in Seq(Past)

account == <<revision, prefs, outcomes, states>>

\* The account changes: every earlier revision keeps its preferences.
LEMMA AccountGrows ==
  ASSUME FenceInv, UNCHANGED <<threadVars, cache>>, revision' = revision + 1,
         states' \in Seq(Prefs), \A i \in 1..Len(states) : states'[i] = states[i]
  PROVE  /\ \A t \in Threads : Fenced(t)'
         /\ cache' \in Seq(Past')
<1>1. revision \in Nat /\ Len(states) = revision + 1
  BY BoundsAssumption DEF FenceInv, Shape, RowsShape
<1>2. ASSUME NEW t \in Threads PROVE Fenced(t)'
  <2>1. Fenced(t)
    BY DEF FenceInv
  <2>2. pc[t] \in Reading => snap[t].revision \in Nat
    BY DEF FenceInv, Shape, ThreadShape, Snapshots
  <2>3. pc'[t] = pc[t] /\ snap'[t] = snap[t] /\ vector'[t] = vector[t]
        /\ response'[t] = response[t]
    BY DEF threadVars
  <2>4. pc[t] \in Reading =>
          /\ snap[t].revision <= revision + 1 /\ snap[t].revision # revision + 1
          /\ states'[snap[t].revision + 1] = states[snap[t].revision + 1]
    BY <1>1, <2>1, <2>2 DEF Fenced
  <2> QED BY <2>1, <2>3, <2>4 DEF Fenced
<1>3. Past \subseteq Past'
  <2> SUFFICES ASSUME NEW e \in Past PROVE e \in Past'
    OBVIOUS
  <2>1. e \in Entries /\ e.revision \in Nat /\ e.revision <= revision
        /\ e.vector = states[e.revision + 1]
    BY DEF Past, Entries
  <2>2. e.revision <= revision' /\ states'[e.revision + 1] = states[e.revision + 1]
    BY <1>1, <2>1
  <2> QED BY <2>1, <2>2 DEF Past
<1>4. cache \in Seq(Past')
  <2>1. cache \in Seq(Past)
    BY DEF FenceInv
  <2>2. \A i \in 1..Len(cache) : cache[i] \in Past'
    BY <1>3, <2>1, ElementOfSeq
  <2> QED BY <2>1, <2>2, SeqOf
<1> QED BY <1>2, <1>4

\* A step of one thread leaves the other threads as they are.
LEMMA OthersFenced ==
  ASSUME FenceInv, UNCHANGED account, NEW t \in Threads,
         \A u \in Threads \ {t} : /\ pc'[u] = pc[u] /\ snap'[u] = snap[u]
                                  /\ vector'[u] = vector[u] /\ response'[u] = response[u],
         Fenced(t)'
  PROVE  \A u \in Threads : Fenced(u)'
<1> SUFFICES ASSUME NEW u \in Threads \ {t} PROVE Fenced(u)'
  OBVIOUS
<1>1. Fenced(u)
  BY DEF FenceInv
<1> QED BY <1>1 DEF Fenced, account

LEMMA FinishFenced ==
  ASSUME FenceInv, UNCHANGED account, NEW t \in Threads, Finish(t)
  PROVE  \A u \in Threads : Fenced(u)'
<1>1. /\ DOMAIN pc = Threads /\ DOMAIN snap = Threads
      /\ DOMAIN vector = Threads /\ DOMAIN response = Threads
  BY DEF FenceInv, Shape, ThreadShape
<1>2. pc'[t] = "idle"
  BY <1>1 DEF Finish
<1>3. Fenced(t)'
  BY <1>2 DEF Fenced, Reading
<1>4. \A u \in Threads \ {t} : /\ pc'[u] = pc[u] /\ snap'[u] = snap[u]
                               /\ vector'[u] = vector[u] /\ response'[u] = response[u]
  BY <1>1 DEF Finish
<1> QED BY <1>3, <1>4, OthersFenced

\* select_items finds k items, or all there are.
LEMMA SelectionSize ==
  ASSUME NEW blocked, NEW k \in Nat, NEW S \in Selections(blocked, k)
  PROVE  /\ S \subseteq Available \ blocked
         /\ Cardinality(S) = k \/ S = Available \ blocked
<1> DEFINE open == Available \ blocked
<1>1. IsFiniteSet(open)
  BY BoundsAssumption, FS_Subset
<1>2. S \subseteq open /\ Cardinality(S) = IF Cardinality(open) < k
                                           THEN Cardinality(open) ELSE k
  BY DEF Selections
<1> HIDE DEF open
<1>3. Cardinality(S) = Cardinality(open) => S = open
  BY <1>1, <1>2, FS_Subset
<1>4. Cardinality(S) = k \/ S = open
  BY <1>2, <1>3
<1> QED BY <1>2, <1>4 DEF open

LEMMA InitFence == Init => FenceInv
<1> SUFFICES ASSUME Init PROVE FenceInv
  OBVIOUS
<1>1. states[revision + 1] = prefs
  BY DEF Init
<1>2. \A t \in Threads : Fenced(t)
  BY DEF Init, Fenced, Reading
<1>3. cache \in Seq(Past)
  BY DEF Init
<1> QED BY <1>1, <1>2, <1>3, InitShape DEF FenceInv

LEMMA NextFence == FenceInv /\ [Next]_vars => FenceInv'
<1> SUFFICES ASSUME FenceInv, [Next]_vars PROVE FenceInv'
  OBVIOUS
<1>s. Shape'
  BY NextShape DEF FenceInv
<1>t. ThreadShape /\ ThreadShape'
  BY <1>s DEF FenceInv, Shape
<1>r. RowsShape
  BY DEF FenceInv, Shape
<1>now. states[revision + 1] = prefs
  BY DEF FenceInv
<1>cache. cache \in Seq(Past)
  BY DEF FenceInv
<1>fenced. ASSUME NEW t \in Threads PROVE Fenced(t)
  BY DEF FenceInv
<1>past. ASSUME UNCHANGED account PROVE Past' = Past /\ states'[revision' + 1] = prefs'
  BY <1>past, <1>now DEF Past, account
<1>same. ASSUME UNCHANGED account, UNCHANGED cache, \A t \in Threads : Fenced(t)'
         PROVE FenceInv'
  BY <1>s, <1>past, <1>cache, <1>same DEF FenceInv
<1>idle. ASSUME UNCHANGED <<pc, snap, vector, response>>, UNCHANGED account
         PROVE  \A t \in Threads : Fenced(t)'
  BY <1>idle, <1>fenced DEF Fenced, account
<1>dom. /\ DOMAIN pc = Threads /\ DOMAIN snap = Threads
        /\ DOMAIN vector = Threads /\ DOMAIN response = Threads
  BY <1>t DEF ThreadShape
<1>1. CASE Tick
  BY <1>1, <1>same, <1>idle DEF Tick, rows, account
<1>2. CASE GiveConsent
  BY <1>2, <1>same, <1>idle DEF GiveConsent, threadVars, account
<1>3. CASE Restart
  <2>1. UNCHANGED account
    BY <1>3 DEF Restart, rows, account
  <2>2. \A t \in Threads : Fenced(t)'
    BY <1>3 DEF Restart, Fenced, Reading
  <2>3. cache' \in Seq(Past')
    BY <1>3 DEF Restart
  <2> QED BY <1>s, <1>past, <2>1, <2>2, <2>3 DEF FenceInv
<1>4. CASE Maintain
  BY <1>4, <1>same, <1>idle DEF Maintain, threadVars, account
<1>5. ASSUME NEW m \in Mutations, NEW c \in ChangeSets, ChangePreferences(m, c)
      PROVE  FenceInv'
  <2>1. prefs' \in Prefs
    BY <1>5, <1>r, ChangedPrefs DEF ChangePreferences, RowsShape
  <2>2. /\ states' \in Seq(Prefs) /\ \A i \in 1..Len(states) : states'[i] = states[i]
        /\ states'[Len(states) + 1] = prefs'
    BY <1>5, <1>r, <2>1, StatesGrow DEF ChangePreferences, RowsShape
  <2>3. revision' = revision + 1 /\ UNCHANGED <<threadVars, cache>>
    BY <1>5 DEF ChangePreferences
  <2>4. states'[revision' + 1] = prefs'
    BY <1>r, <2>2, <2>3 DEF RowsShape
  <2> QED BY <1>s, <2>2, <2>3, <2>4, AccountGrows DEF FenceInv
<1>6. ASSUME NEW id \in EventIds, NEW q \in Requests, NEW i \in Items, NEW kind \in Kinds,
             Feedback(id, q, i, kind)
      PROVE  FenceInv'
  <2>1. CASE kind = "shown"
    BY <1>6, <2>1, <1>same, <1>idle DEF Feedback, threadVars, account
  <2>2. CASE kind # "shown"
    <3>1. /\ states' \in Seq(Prefs) /\ \A j \in 1..Len(states) : states'[j] = states[j]
          /\ states'[Len(states) + 1] = prefs
      BY <1>6, <1>r, <2>2, StatesGrow DEF Feedback, RowsShape
    <3>2. revision' = revision + 1 /\ UNCHANGED <<threadVars, cache>> /\ prefs' = prefs
      BY <1>6, <2>2 DEF Feedback
    <3>3. states'[revision' + 1] = prefs'
      BY <1>r, <3>1, <3>2 DEF RowsShape
    <3> QED BY <1>s, <3>1, <3>2, <3>3, AccountGrows DEF FenceInv
  <2> QED BY <2>1, <2>2
<1>7. ASSUME NEW t \in Threads, NEW c \in Calls, Receive(t, c) PROVE FenceInv'
  <2>1. UNCHANGED <<account, cache>>
    BY <1>7 DEF Receive, rows, account
  <2>2. Fenced(t)'
    BY <1>7, <1>dom DEF Receive, Fenced, Reading
  <2>3. \A u \in Threads : Fenced(u)'
    BY <1>7, <1>dom, <2>1, <2>2, OthersFenced DEF Receive
  <2> QED BY <2>1, <2>3, <1>same
<1>8. ASSUME NEW t \in Threads, UNCHANGED <<rows, states, cache>>, Finish(t) PROVE FenceInv'
  <2>1. UNCHANGED <<account, cache>>
    BY <1>8 DEF rows, account
  <2> QED BY <1>8, <2>1, FinishFenced, <1>same
<1>9. ASSUME NEW t \in Threads, ReadState(t) PROVE FenceInv'
  <2>1. UNCHANGED <<account, cache>>
    BY <1>9 DEF ReadState, rows, account
  <2>2. Fenced(t)'
    <3>1. pc'[t] = "lookup" /\ snap'[t] = [revision |-> revision, prefs |-> prefs,
                                           blocked |-> DOMAIN prefs \cup outcomes]
      BY <1>9, <1>dom DEF ReadState
    <3>2. revision <= revision
      BY <1>r, BoundsAssumption DEF RowsShape
    <3> QED BY <1>now, <2>1, <3>1, <3>2 DEF Fenced, Reading, account
  <2>3. \A u \in Threads : Fenced(u)'
    BY <1>9, <1>dom, <2>1, <2>2, OthersFenced DEF ReadState
  <2> QED BY <2>1, <2>3, <1>same
<1>11. ASSUME NEW t \in Threads, LookupHit(t) PROVE FenceInv'
  <2>0. UNCHANGED account
    BY <1>11 DEF LookupHit, rows, account
  <2>1. PICK i \in Cached(snap[t].revision) :
          /\ cache' = Append(Drop(cache, i), cache[i])
          /\ vector' = [vector EXCEPT ![t] = cache[i].vector]
    BY <1>11 DEF LookupHit
  <2>2. i \in 1..Len(cache) /\ cache[i].revision = snap[t].revision
    BY <1>cache, LenProperties DEF Cached
  <2>3. cache[i] \in Past
    BY <1>cache, <2>2, ElementOfSeq
  <2>4. Drop(cache, i) \in Seq(Past)
    BY <1>cache, <2>2, DropSeq
  <2>5. cache' \in Seq(Past)
    BY <2>1, <2>3, <2>4, AppendProperties
  <2>6. cache[i].vector = snap[t].prefs
    BY <1>11, <1>fenced, <2>2, <2>3 DEF LookupHit, Fenced, Reading, Past
  <2>7. Fenced(t)'
    BY <1>11, <1>dom, <1>fenced, <2>0, <2>1, <2>6 DEF LookupHit, Fenced, Reading, account
  <2>8. \A u \in Threads : Fenced(u)'
    BY <1>11, <1>dom, <2>0, <2>1, <2>7, OthersFenced DEF LookupHit
  <2> QED BY <1>s, <1>past, <2>0, <2>5, <2>8 DEF FenceInv
<1>12. ASSUME NEW t \in Threads, LookupMiss(t) PROVE FenceInv'
  <2>1. UNCHANGED <<account, cache>>
    BY <1>12 DEF LookupMiss, rows, account
  <2>2. Fenced(t)'
    BY <1>12, <1>dom, <1>fenced, <2>1 DEF LookupMiss, Fenced, Reading, account
  <2>3. \A u \in Threads : Fenced(u)'
    BY <1>12, <1>dom, <2>1, <2>2, OthersFenced DEF LookupMiss
  <2> QED BY <2>1, <2>3, <1>same
<1>13. ASSUME NEW t \in Threads, Fold(t) PROVE FenceInv'
  <2>0. UNCHANGED account
    BY <1>13 DEF Fold, rows, account
  <2>1. /\ snap[t].revision \in Nat /\ snap[t].prefs \in Prefs
        /\ snap[t].revision <= revision /\ snap[t].prefs = states[snap[t].revision + 1]
    BY <1>13, <1>t, <1>fenced DEF Fold, ThreadShape, Reading, Snapshots, Fenced
  <2>2. [revision |-> snap[t].revision, vector |-> snap[t].prefs] \in Past
    BY <2>1 DEF Entries, Past
  <2>3. cache' \in Seq(Past)
    BY <1>13, <1>cache, <2>2, StoredSeq DEF Fold, FenceInv, Shape, CacheShape
  <2>4. Fenced(t)'
    BY <1>13, <1>dom, <1>fenced, <2>0 DEF Fold, Fenced, Reading, account
  <2>5. \A u \in Threads : Fenced(u)'
    BY <1>13, <1>dom, <2>0, <2>4, OthersFenced DEF Fold
  <2> QED BY <1>s, <1>past, <2>0, <2>3, <2>5 DEF FenceInv
<1>14. ASSUME NEW t \in Threads, Select(t) PROVE FenceInv'
  <2>1. UNCHANGED <<account, cache>>
    BY <1>14 DEF Select, rows, account
  <2>2. PICK S \in Selections(snap[t].blocked, call[t].k) :
          response' = [response EXCEPT ![t] =
            [k |-> call[t].k, items |-> S, revision |-> snap[t].revision,
             vector |-> vector[t]]]
    BY <1>14 DEF Select
  <2>3. call[t].k \in Nat
    BY <1>14, <1>t, BoundsAssumption DEF Select, ThreadShape, Calls
  <2>4. /\ S \subseteq Available \ snap[t].blocked
        /\ Cardinality(S) = call[t].k \/ S = Available \ snap[t].blocked
    BY <2>3, SelectionSize
  <2>5. vector[t] = snap[t].prefs
    BY <1>14, <1>fenced DEF Select, Fenced
  <2>6. Fenced(t)'
    BY <1>14, <1>dom, <1>fenced, <2>1, <2>2, <2>4, <2>5
       DEF Select, Fenced, Reading, account
  <2>7. \A u \in Threads : Fenced(u)'
    BY <1>14, <1>dom, <2>1, <2>2, <2>6, OthersFenced DEF Select
  <2> QED BY <2>1, <2>7, <1>same
<1>16. ASSUME NEW t \in Threads, IssueChanged(t) PROVE FenceInv'
  <2>1. CASE attempt[t] < MaxAttempts
    <3>1. UNCHANGED <<account, cache>>
      BY <1>16 DEF IssueChanged, rows, account
    <3>2. Fenced(t)'
      BY <1>16, <1>dom, <2>1 DEF IssueChanged, Fenced, Reading
    <3>3. \A u \in Threads : Fenced(u)'
      BY <1>16, <1>dom, <2>1, <3>1, <3>2, OthersFenced DEF IssueChanged
    <3> QED BY <3>1, <3>3, <1>same
  <2>2. CASE ~(attempt[t] < MaxAttempts)
    BY <1>16, <2>2, <1>8 DEF IssueChanged
  <2> QED BY <2>1, <2>2
<1>17. ASSUME NEW t \in Threads, Issue(t) PROVE FenceInv'
  <2>1. UNCHANGED <<account, cache>>
    BY <1>17 DEF Issue, account
  <2>2. Finish(t)
    BY <1>17 DEF Issue
  <2> QED BY <2>1, <2>2, FinishFenced, <1>same
<1>18. ASSUME NEW t \in Threads,
              ReadStored(t) \/ ReadRefused(t) \/ IssueStored(t) \/ DatabaseError(t)
       PROVE  FenceInv'
  BY <1>18, <1>8 DEF ReadStored, ReadRefused, IssueStored, DatabaseError
<1>19. CASE UNCHANGED vars
  BY <1>19, <1>same, <1>idle DEF vars, rows, threadVars, account
<1> QED BY <1>1, <1>2, <1>3, <1>4, <1>5, <1>6, <1>7, <1>9, <1>11, <1>12, <1>13,
           <1>14, <1>16, <1>17, <1>18, <1>19 DEF Next, Handler

LEMMA FenceInvariant == Spec => []FenceInv
  BY InitFence, NextFence, PTL DEF Spec

\* A recommendation stored in this step is what the account's rows call for.
Current ==
  \A q \in Requests :
    issued'[q] # issued[q] /\ issued'[q] # None =>
      LET row == issued'[q]
          open == Available \ (DOMAIN prefs \cup outcomes)
      IN  /\ row.items \subseteq open
          /\ Cardinality(row.items) = row.k \/ row.items = open
          /\ row.vector = prefs
          /\ row.revision = revision

LEMMA StepIsCurrent == FenceInv /\ [Next]_vars => [Current]_vars
<1> SUFFICES ASSUME FenceInv, [Next]_vars, ~UNCHANGED vars PROVE Current
  OBVIOUS
<1>1. CASE UNCHANGED issued
  BY <1>1 DEF Current
<1>2. ASSUME NEW t \in Threads, Issue(t) PROVE Current
  <2>1. /\ issued' = [issued EXCEPT ![call[t].request] = Row(t)]
        /\ issued \in [Requests -> Rows \cup {None}]
    BY <1>2 DEF Issue, FenceInv, Shape, RowsShape
  <2>2. /\ Fenced(t) /\ pc[t] = "issue" /\ response[t].revision = revision
        /\ states[revision + 1] = prefs
    BY <1>2 DEF Issue, FenceInv
  <2>3. snap[t].revision = revision /\ snap[t].prefs = prefs
        /\ snap[t].blocked = DOMAIN prefs \cup outcomes
    BY <2>2 DEF Fenced, Reading
  <2>4. /\ Row(t).items \subseteq Available \ (DOMAIN prefs \cup outcomes)
        /\ \/ Cardinality(Row(t).items) = Row(t).k
           \/ Row(t).items = Available \ (DOMAIN prefs \cup outcomes)
        /\ Row(t).vector = prefs /\ Row(t).revision = revision
    BY <2>2, <2>3 DEF Fenced, Row
  <2> QED BY <2>1, <2>4 DEF Current
<1>3. CASE Maintain
  BY <1>3 DEF Maintain, Current
<1>4. UNCHANGED issued \/ Maintain \/ \E t \in Threads : Issue(t)
  BY DEF Next, Handler, Tick, GiveConsent, Restart, ChangePreferences, Feedback, Receive,
     ReadStored, ReadState, ReadRefused, LookupHit, LookupMiss, Fold, Select, IssueStored,
     IssueChanged, DatabaseError, rows
<1> QED BY <1>1, <1>2, <1>3, <1>4

\* What recommend() stores is current at the moment its second transaction
\* commits: the revision it compares stands for the preferences, the outcomes and
\* the vector it has worked with since the first one.
THEOREM IssueIsCurrentTheorem == Spec => IssueIsCurrent
<1>1. FenceInv /\ [Next]_vars => [Current]_vars
  BY StepIsCurrent
<1>2. Spec => [][Current]_vars
  BY <1>1, FenceInvariant, PTL DEF Spec
<1> QED BY <1>2 DEF IssueIsCurrent, Current

-----------------------------------------------------------------------------
(* Preferences are the replay of the mutations *)

Touching(i) == {m \in Mutations : mutations[m] # None /\ i \in DOMAIN mutations[m].changes}
Holds(i, v) == IF v = 0 THEN i \notin DOMAIN prefs
               ELSE /\ i \in DOMAIN prefs
                    /\ prefs[i] = IF v = 1 THEN "like" ELSE "dislike"
IsLast(m, i) == \A n \in Touching(i) : mutations[n].revision <= mutations[m].revision

\* Mutations have revisions of their own, none later than the account's.
Numbered ==
  /\ \A m \in Mutations : mutations[m] # None => mutations[m].revision <= revision
  /\ \A m, n \in Mutations :
       mutations[m] # None /\ mutations[n] # None /\ m # n =>
         mutations[m].revision # mutations[n].revision

\* The last mutation that touches an item left it as it is.
Replayed ==
  now <= Retain =>
    \A i \in Items :
      \/ Touching(i) = {} /\ i \notin DOMAIN prefs
      \/ \E m \in Touching(i) : IsLast(m, i) /\ Holds(i, mutations[m].changes[i])

ReplayInv == Shape /\ Numbered /\ Replayed

LEMMA InitReplay == Init => ReplayInv
<1> SUFFICES ASSUME Init PROVE ReplayInv
  OBVIOUS
<1>1. Numbered
  BY DEF Init, Numbered
<1>2. \A i \in Items : Touching(i) = {} /\ i \notin DOMAIN prefs
  BY DEF Init, Touching
<1> QED BY <1>1, <1>2, InitShape DEF ReplayInv, Replayed

LEMMA NextReplay == ReplayInv /\ [Next]_vars => ReplayInv'
<1> SUFFICES ASSUME ReplayInv, [Next]_vars PROVE ReplayInv'
  OBVIOUS
<1>s. Shape'
  BY NextShape DEF ReplayInv
<1>r. RowsShape
  BY DEF ReplayInv, Shape
<1>n. Numbered
  BY DEF ReplayInv
<1>p. Replayed
  BY DEF ReplayInv
<1>nat. /\ now \in Nat /\ revision \in Nat /\ Retain \in Nat
        /\ mutations \in [Mutations -> MutationRows \cup {None}]
        /\ \A m \in Mutations : mutations[m] # None =>
             mutations[m].revision \in Nat /\ mutations[m].created \in Nat
  BY <1>r, BoundsAssumption DEF RowsShape, MutationRows
<1>same. ASSUME UNCHANGED <<mutations, prefs>>, revision' \in {revision, revision + 1},
                now' \in {now, now + 1}
         PROVE  ReplayInv'
  <2>1. Numbered'
    BY <1>n, <1>nat, <1>same DEF Numbered
  <2>2. Replayed'
    BY <1>p, <1>nat, <1>same DEF Replayed, Touching, IsLast, Holds
  <2> QED BY <1>s, <2>1, <2>2 DEF ReplayInv
<1>1. CASE Maintain
  <2>1. now' = now /\ revision' = revision /\ prefs' = prefs
    BY <1>1 DEF Maintain
  <2>2. CASE now <= Retain
    <3>1. \A m \in Mutations : mutations[m] # None => ~Old(mutations[m])
      BY <1>nat, <2>2 DEF Old
    <3>2. mutations' = [m \in Mutations |-> mutations[m]]
      BY <1>1, <3>1 DEF Maintain
    <3>3. mutations' = mutations
      BY <1>nat, <3>2
    <3> QED BY <1>same, <2>1, <3>3
  <2>3. CASE ~(now <= Retain)
    <3>1. \A m \in Mutations : mutations'[m] \in {None, mutations[m]}
      BY <1>1 DEF Maintain
    <3>2. Numbered'
      BY <1>n, <2>1, <3>1 DEF Numbered
    <3>3. Replayed'
      BY <2>1, <2>3 DEF Replayed
    <3> QED BY <1>s, <3>2, <3>3 DEF ReplayInv
  <2> QED BY <2>2, <2>3
<1>2. ASSUME NEW m \in Mutations, NEW c \in ChangeSets, ChangePreferences(m, c)
      PROVE  ReplayInv'
  <2>1. /\ mutations[m] = None /\ prefs' = Changed(c) /\ revision' = revision + 1
        /\ mutations'[m] = [changes |-> c, revision |-> revision + 1, created |-> now]
        /\ \A n \in Mutations \ {m} : mutations'[n] = mutations[n]
        /\ now' = now
    BY <1>2, <1>nat DEF ChangePreferences
  <2>2. mutations'[m] # None
    BY <1>2, <1>nat, <2>1, NoneAssumption DEF MutationRows
  <2>3. Numbered'
    BY <1>n, <1>nat, <2>1 DEF Numbered
  <2>4. ASSUME NEW i \in Items, now <= Retain
        PROVE  \/ Touching(i)' = {} /\ i \notin DOMAIN prefs'
               \/ \E n \in Touching(i)' : IsLast(n, i)' /\ Holds(i, mutations[n].changes[i])'
    <3>0. /\ i \in DOMAIN prefs' <=> IF i \in DOMAIN c THEN c[i] # 0 ELSE i \in DOMAIN prefs
          /\ i \in DOMAIN prefs' =>
               prefs'[i] = IF i \in DOMAIN c THEN (IF c[i] = 1 THEN "like" ELSE "dislike")
                           ELSE prefs[i]
      BY <1>r, <2>1, ChangedPrefs DEF RowsShape
    <3>1. CASE i \in DOMAIN c
      <4>1. m \in Touching(i)'
        BY <2>1, <2>2, <3>1 DEF Touching
      <4>2. IsLast(m, i)'
        BY <1>n, <1>nat, <2>1 DEF IsLast, Touching, Numbered
      <4>3. Holds(i, c[i])'
        BY <3>0, <3>1 DEF Holds
      <4> QED BY <2>1, <4>1, <4>2, <4>3
    <3>2. CASE i \notin DOMAIN c
      <4>1. Touching(i)' = Touching(i)
        BY <2>1, <3>2 DEF Touching
      <4>2. \A n \in Touching(i) : mutations'[n] = mutations[n]
        BY <2>1 DEF Touching
      <4>3. \A n \in Touching(i) : IsLast(n, i) => IsLast(n, i)'
        BY <4>1, <4>2 DEF IsLast
      <4>5. \/ Touching(i) = {} /\ i \notin DOMAIN prefs
            \/ \E n \in Touching(i) : IsLast(n, i) /\ Holds(i, mutations[n].changes[i])
        BY <1>p, <2>4 DEF Replayed
      <4>6. CASE Touching(i) = {} /\ i \notin DOMAIN prefs
        BY <3>0, <3>2, <4>1, <4>6
      <4>7. ASSUME NEW n \in Touching(i), IsLast(n, i), Holds(i, mutations[n].changes[i])
            PROVE  IsLast(n, i)' /\ Holds(i, mutations[n].changes[i])'
        <5>1. Holds(i, mutations[n].changes[i])'
          BY <3>0, <3>2, <4>2, <4>7 DEF Holds
        <5> QED BY <4>3, <4>7, <5>1
      <4> QED BY <4>1, <4>5, <4>6, <4>7
    <3> QED BY <3>1, <3>2
  <2>5. Replayed'
    BY <2>1, <2>4 DEF Replayed
  <2> QED BY <1>s, <2>3, <2>5 DEF ReplayInv
<1>3. CASE UNCHANGED vars
  BY <1>3, <1>same DEF vars, rows
<1>4. CASE /\ Next /\ ~Maintain
           /\ ~\E m \in Mutations, c \in ChangeSets : ChangePreferences(m, c)
  <2>1. UNCHANGED <<mutations, prefs>>
    BY <1>4 DEF Next, Handler, Tick, GiveConsent, Restart, Feedback, Receive,
       ReadStored, ReadState, ReadRefused, LookupHit, LookupMiss, Fold, Select, IssueStored,
       IssueChanged, Issue, DatabaseError, rows
  <2>2. revision' \in {revision, revision + 1}
    BY <1>4, ZenonT(60) DEF Next, Handler, Tick, GiveConsent, Restart, Feedback, Receive,
       ReadStored, ReadState, ReadRefused, LookupHit, LookupMiss, Fold, Select, IssueStored,
       IssueChanged, Issue, DatabaseError, rows
  <2>3. now' \in {now, now + 1}
    BY <1>4 DEF Next, Handler, Tick, GiveConsent, Restart, Feedback, Receive,
       ReadStored, ReadState, ReadRefused, LookupHit, LookupMiss, Fold, Select, IssueStored,
       IssueChanged, Issue, DatabaseError
  <2> QED BY <1>same, <2>1, <2>2, <2>3
<1> QED BY <1>1, <1>2, <1>3, <1>4

LEMMA ReplayInvariant == Spec => []ReplayInv
  BY InitReplay, NextReplay, PTL DEF Spec

\* The replay of the stored mutations leaves the preferences.
LEMMA ReplayMeans == ReplayInv => PreferencesAreReplay
<1> SUFFICES ASSUME ReplayInv, now <= Retain, NEW i \in Items
             PROVE  LET last == CHOOSE m \in Touching(i) : IsLast(m, i)
                        value == IF Touching(i) = {} THEN 0 ELSE mutations[last].changes[i]
                    IN  Holds(i, value)
  BY Zenon DEF PreferencesAreReplay, Touching, IsLast, Holds
<1>1. \/ Touching(i) = {} /\ i \notin DOMAIN prefs
      \/ \E m \in Touching(i) : IsLast(m, i) /\ Holds(i, mutations[m].changes[i])
  BY DEF ReplayInv, Replayed
<1>2. CASE Touching(i) = {} /\ i \notin DOMAIN prefs
  BY <1>2 DEF Holds
<1>3. ASSUME NEW m \in Touching(i), IsLast(m, i), Holds(i, mutations[m].changes[i])
      PROVE  Holds(i, mutations[CHOOSE n \in Touching(i) : IsLast(n, i)].changes[i])
  <2> DEFINE last == CHOOSE n \in Touching(i) : IsLast(n, i)
  <2>1. last \in Touching(i) /\ IsLast(last, i)
    BY <1>3
  <2> HIDE DEF last
  <2>2. \A n \in Touching(i) : n \in Mutations /\ mutations[n] # None
                               /\ mutations[n].revision \in Nat
    BY DEF Touching, ReplayInv, Shape, RowsShape, MutationRows
  <2>3. mutations[last].revision = mutations[m].revision
    BY <1>3, <2>1, <2>2 DEF IsLast
  <2>4. last = m
    BY <1>3, <2>1, <2>2, <2>3 DEF ReplayInv, Numbered
  <2>5. Holds(i, mutations[last].changes[i])
    BY <1>3, <2>4
  <2> QED BY <2>5 DEF last
<1>4. CASE Touching(i) # {}
  BY <1>1, <1>3, <1>4
<1> QED BY <1>1, <1>2, <1>4

\* The account's state is one history: the preferences stay within their limit
\* and are the replay of the mutation keys, each taken once, and no interleaving
\* of fold-ins, lookups and changes caches a vector under a wrong revision.
THEOREM StateIsReplayTheorem == Spec => []StateIsReplay
<1>1. FenceInv /\ ReplayInv => StateIsReplay
  <2> SUFFICES ASSUME FenceInv, ReplayInv PROVE StateIsReplay
    OBVIOUS
  <2>1. RowsShape /\ ThreadShape /\ CacheShape
    BY DEF FenceInv, Shape
  <2>2. TypeOK
    BY <2>1 DEF TypeOK, RowsShape, ThreadShape, CacheShape, Prefs
  <2>3. CacheCoherent
    <3>1. cache \in Seq(Past) /\ DOMAIN cache = 1..Len(cache)
      BY LenProperties DEF FenceInv
    <3>2. \A i \in DOMAIN cache : cache[i] \in Past
      BY <3>1, ElementOfSeq
    <3> QED BY <3>2 DEF CacheCoherent, Past
  <2> QED BY <2>2, <2>3, ReplayMeans DEF StateIsReplay
<1> QED BY <1>1, FenceInvariant, ReplayInvariant, PTL

-----------------------------------------------------------------------------
(* A request ID replays *)

\* How old a stored response can be when it is answered with: the first
\* transaction compares its age with Expire, the second one does not, but there
\* the response was stored while the request was under way.
Span == IF Expire > 1 THEN Expire - 1 ELSE 1

Dated == \A q \in Requests : issued[q] # None => issued[q].created <= now

\* A response stored between the two transactions of a thread is one tick old at
\* most.
Recent ==
  \A t \in Threads :
    pc[t] \in Reading /\ issued[call[t].request] # None =>
      now <= issued[call[t].request].created + IF t \in late THEN 1 ELSE 0

\* An answer less than Expire ago is still the stored one: retention is too long
\* to have deleted it.
Remembered ==
  \A a \in answers :
    /\ a.row.created <= a.at /\ a.at <= now
    /\ a.at <= a.row.created + Span
    /\ now - a.at < Expire => issued[a.request] = a.row

AnswersInv == Shape /\ Dated /\ Recent /\ Remembered /\ ReplayStable

\* One more answer, with what is stored.
LEMMA AnswerStable ==
  ASSUME Shape, Shape', Remembered, ReplayStable, now' = now,
         NEW q \in Requests, NEW row \in Rows,
         \A p \in Requests : issued[p] # None => issued'[p] = issued[p],
         issued'[q] = row, row.created <= now, now <= row.created + Span,
         answers' = answers \cup {[request |-> q, at |-> now, row |-> row]}
  PROVE  Remembered' /\ ReplayStable'
<1>1. /\ now \in Nat /\ Expire \in Nat
      /\ \A a \in answers : a.at \in Nat /\ a.request \in Requests /\ a.row \in Rows
  BY BoundsAssumption DEF Shape, RowsShape, Answers
<1>2. \A a \in answers : now - a.at < Expire => issued'[a.request] = a.row
  BY <1>1, NoneAssumption DEF Remembered
<1>3. Remembered'
  <2>1. now <= now
    BY <1>1
  <2> QED BY <1>2, <2>1 DEF Remembered
<1>4. \A a \in answers' : now - a.at < Expire => issued'[a.request] = a.row
  BY <1>2
<1>5. \A a \in answers' : a.at \in Nat /\ a.at <= now
  BY <1>1 DEF Remembered
<1>6. ReplayStable'
  <2> SUFFICES ASSUME NEW a \in answers', NEW b \in answers', a.request = b.request,
                      a.at <= b.at, b.at - a.at < Expire
               PROVE  a.row = b.row
    BY DEF ReplayStable
  <2>1. CASE a \in answers /\ b \in answers
    BY <2>1 DEF ReplayStable
  <2>2. CASE b.at = now \/ a.at = now
    <3>1. now - a.at < Expire /\ now - b.at < Expire
      BY <1>1, <1>5, <2>2
    <3> QED BY <1>4, <3>1
  <2> QED BY <2>1, <2>2
<1> QED BY <1>3, <1>6

LEMMA InitAnswers == Init => AnswersInv
<1> SUFFICES ASSUME Init PROVE AnswersInv
  OBVIOUS
<1> QED BY InitShape DEF Init, AnswersInv, Dated, Recent, Remembered, ReplayStable, Reading

LEMMA NextAnswers == AnswersInv /\ [Next]_vars => AnswersInv'
<1> SUFFICES ASSUME AnswersInv, [Next]_vars PROVE AnswersInv'
  OBVIOUS
<1>s. Shape /\ Shape'
  BY NextShape DEF AnswersInv
<1>r. RowsShape /\ RowsShape'
  BY <1>s DEF Shape
<1>t. ThreadShape
  BY <1>s DEF Shape
<1>i. Dated /\ Recent /\ Remembered /\ ReplayStable
  BY DEF AnswersInv
<1>nat. /\ now \in Nat /\ Expire \in Nat /\ Retain \in Nat /\ 2 * Expire <= Retain
        /\ issued \in [Requests -> Rows \cup {None}]
        /\ \A q \in Requests : issued[q] # None =>
             issued[q] \in Rows /\ issued[q].created \in Nat
        /\ \A a \in answers :
             /\ a \in Answers /\ a.request \in Requests /\ a.at \in Nat
             /\ a.row \in Rows /\ a.row.created \in Nat /\ a.row # None
  <2>1. \A row \in Rows : row.created \in Nat /\ row # None
    <3>1. \A row \in Rows : row # None
      BY NoneAssumption
    <3> QED BY <3>1 DEF Rows
  <2>0. now \in Nat
    BY <1>r, BoundsAssumption DEF RowsShape
  <2>2. issued \in [Requests -> Rows \cup {None}] /\ answers \subseteq Answers
    BY <1>r, Zenon DEF RowsShape
  <2>3. \A a \in answers : a.request \in Requests /\ a.at \in Nat /\ a.row \in Rows
    BY <2>2 DEF Answers
  <2>4. \A q \in Requests : issued[q] # None => issued[q] \in Rows
    BY <2>2
  <2>5. Expire \in Nat /\ Retain \in Nat /\ 2 * Expire <= Retain
    BY BoundsAssumption
  <2> QED BY <2>0, <2>1, <2>2, <2>3, <2>4, <2>5, Zenon
<1>calls. \A t \in Threads : pc[t] # "idle" => call[t].request \in Requests
  BY <1>t DEF ThreadShape, Calls
\* Steps that leave the stored responses, and threads that neither begin to read
\* nor change their call.
<1>keeps. ASSUME UNCHANGED <<now, issued>>,
                 \A t \in Threads : pc'[t] \in Reading =>
                   /\ pc[t] \in Reading \/ issued[call[t].request] = None
                   /\ call'[t] = call[t] /\ (t \in late' <=> t \in late)
          PROVE  Dated' /\ Recent'
  <2>1. Dated'
    BY <1>i, <1>keeps DEF Dated
  <2>2. Recent'
    <3> SUFFICES ASSUME NEW t \in Threads, pc'[t] \in Reading,
                        issued[call[t].request] # None
                 PROVE  now <= issued[call[t].request].created + IF t \in late' THEN 1 ELSE 0
      BY <1>keeps DEF Recent
    <3> QED BY <1>i, <1>keeps DEF Recent
  <2> QED BY <2>1, <2>2
<1>silent. ASSUME UNCHANGED <<now, issued, answers>>, Dated', Recent' PROVE AnswersInv'
  BY <1>i, <1>s, <1>silent DEF AnswersInv, Remembered, ReplayStable
<1>finish. ASSUME NEW t \in Threads, Finish(t), UNCHANGED <<now, issued>>
           PROVE  Dated' /\ Recent'
  <2>1. pc'[t] = "idle"
    BY <1>finish, <1>t DEF Finish, ThreadShape
  <2>2. \A u \in Threads \ {t} : pc'[u] = pc[u] /\ call'[u] = call[u]
                                 /\ (u \in late' <=> u \in late)
    BY <1>finish, <1>t DEF Finish, ThreadShape
  <2> QED BY <1>finish, <2>1, <2>2, <1>keeps DEF Reading
<1>idle. ASSUME UNCHANGED <<now, issued, answers, threadVars>> PROVE AnswersInv'
  BY <1>idle, <1>silent, <1>keeps DEF threadVars
<1>1. CASE Tick
  <2>1. late = {} /\ now' = now + 1 /\ late' = {t \in Threads : pc[t] # "idle"}
        /\ UNCHANGED <<issued, answers, pc, call>>
    BY <1>1 DEF Tick, rows
  <2>2. Dated'
    BY <1>i, <1>nat, <2>1 DEF Dated
  <2>3. Recent'
    <3> SUFFICES ASSUME NEW t \in Threads, pc[t] \in Reading,
                        issued[call[t].request] # None
                 PROVE  now + 1 <= issued[call[t].request].created + 1 /\ t \in late'
      BY <2>1 DEF Recent
    <3>1. call[t].request \in Requests /\ t \in late'
      BY <1>calls, <2>1 DEF Reading
    <3>2. now <= issued[call[t].request].created + 0
      BY <1>i, <2>1 DEF Recent
    <3> QED BY <1>nat, <3>1, <3>2
  <2>4. Remembered'
    BY <1>i, <1>nat, <2>1 DEF Remembered
  <2>5. ReplayStable'
    BY <1>i, <2>1 DEF ReplayStable
  <2> QED BY <1>s, <2>2, <2>3, <2>4, <2>5 DEF AnswersInv
<1>2. CASE GiveConsent
  BY <1>2, <1>idle DEF GiveConsent
<1>3. CASE Restart
  <2>1. UNCHANGED <<now, issued, answers>> /\ \A t \in Threads : pc'[t] = "idle"
    BY <1>3 DEF Restart, rows
  <2> QED BY <2>1, <1>silent, <1>keeps DEF Reading
<1>4. CASE Maintain
  <2>1. UNCHANGED <<now, answers, pc, call, late>>
    BY <1>4 DEF Maintain, threadVars
  <2>2. \A q \in Requests : issued'[q] = IF issued[q] # None /\ Old(issued[q]) THEN None
                                         ELSE issued[q]
    BY <1>4 DEF Maintain
  <2>3. Dated'
    BY <1>i, <2>1, <2>2 DEF Dated
  <2>4. Recent'
    <3> SUFFICES ASSUME NEW t \in Threads, pc[t] \in Reading,
                        issued'[call[t].request] # None
                 PROVE  now <= issued'[call[t].request].created + IF t \in late THEN 1 ELSE 0
      BY <2>1 DEF Recent
    <3>1. call[t].request \in Requests
      BY <1>calls DEF Reading
    <3>2. issued'[call[t].request] = issued[call[t].request]
      BY <2>2, <3>1
    <3> QED BY <1>i, <3>2 DEF Recent
  <2>5. Remembered'
    <3> SUFFICES ASSUME NEW a \in answers, now - a.at < Expire
                 PROVE  issued'[a.request] = a.row
      BY <1>i, <2>1 DEF Remembered
    <3>1. /\ issued[a.request] = a.row /\ a.at <= a.row.created + Span
          /\ a.at <= now
      BY <1>i DEF Remembered
    <3>2. ~Old(a.row)
      BY <1>nat, <3>1 DEF Old, Span
    <3> QED BY <1>nat, <2>2, <3>1, <3>2
  <2>6. ReplayStable'
    BY <1>i, <2>1 DEF ReplayStable
  <2> QED BY <1>s, <2>3, <2>4, <2>5, <2>6 DEF AnswersInv
<1>5. ASSUME NEW m \in Mutations, NEW c \in ChangeSets, ChangePreferences(m, c)
      PROVE  AnswersInv'
  BY <1>5, <1>idle DEF ChangePreferences
<1>6. ASSUME NEW id \in EventIds, NEW q \in Requests, NEW i \in Items, NEW kind \in Kinds,
             Feedback(id, q, i, kind)
      PROVE  AnswersInv'
  BY <1>6, <1>idle DEF Feedback
<1>7. ASSUME NEW t \in Threads, NEW c \in Calls, Receive(t, c) PROVE AnswersInv'
  <2>1. UNCHANGED <<now, issued, answers, late>>
    BY <1>7 DEF Receive, rows
  <2>2. \A u \in Threads : pc'[u] \in Reading => pc[u] \in Reading /\ call'[u] = call[u]
    BY <1>7, <1>t DEF Receive, ThreadShape, Reading
  <2> QED BY <2>1, <2>2, <1>silent, <1>keeps
<1>8. ASSUME NEW t \in Threads, ReadStored(t) PROVE AnswersInv'
  <2> DEFINE q == call[t].request
  <2>1. UNCHANGED <<now, issued>> /\ Finish(t) /\ q \in Requests /\ issued[q] # None
    BY <1>8, <1>calls DEF ReadStored, rows
  <2>2. Dated' /\ Recent'
    BY <2>1, <1>finish
  <2>3. CASE UNCHANGED answers
    BY <2>1, <2>2, <2>3, <1>silent
  <2>4. CASE Return(q, issued[q]) /\ now - issued[q].created < Expire
    <3>1. issued[q].created <= now /\ now <= issued[q].created + Span
          /\ issued[q] \in Rows
      BY <1>i, <1>nat, <2>1, <2>4 DEF Dated, Span
    <3>2. Remembered' /\ ReplayStable'
      BY <1>s, <1>i, <2>1, <2>4, <3>1, AnswerStable DEF Return
    <3> QED BY <1>s, <2>2, <3>2 DEF AnswersInv
  <2>5. issued[q].created \in Nat
    BY <1>nat, <2>1
  <2> QED BY <1>8, <1>nat, <2>3, <2>4, <2>5 DEF ReadStored
<1>9. ASSUME NEW t \in Threads, ReadState(t) PROVE AnswersInv'
  <2>1. UNCHANGED <<now, issued, answers, late, call>> /\ issued[call[t].request] = None
    BY <1>9 DEF ReadState, rows
  <2>2. \A u \in Threads : pc'[u] \in Reading => pc[u] \in Reading \/ u = t
    BY <1>9, <1>t DEF ReadState, ThreadShape
  <2> QED BY <2>1, <2>2, <1>silent, <1>keeps
<1>10. ASSUME NEW t \in Threads,
              ReadRefused(t) \/ DatabaseError(t) \/ (IssueChanged(t) /\ Finish(t))
       PROVE  AnswersInv'
  <2>1. UNCHANGED <<now, issued, answers>> /\ Finish(t)
    BY <1>10 DEF ReadRefused, DatabaseError, IssueChanged, rows
  <2> QED BY <2>1, <1>silent, <1>finish
<1>11. ASSUME NEW t \in Threads, LookupHit(t) \/ LookupMiss(t) \/ Fold(t) \/ Select(t)
       PROVE  AnswersInv'
  <2>1. UNCHANGED <<now, issued, answers, late, call>>
    BY <1>11 DEF LookupHit, LookupMiss, Fold, Select, rows
  <2>2. pc[t] \in Reading /\ \A u \in Threads \ {t} : pc'[u] = pc[u]
    BY <1>11, <1>t DEF LookupHit, LookupMiss, Fold, Select, ThreadShape, Reading
  <2> QED BY <2>1, <2>2, <1>silent, <1>keeps
<1>12. ASSUME NEW t \in Threads, IssueStored(t) PROVE AnswersInv'
  <2> DEFINE q == call[t].request
  <2>1. UNCHANGED <<now, issued>> /\ Finish(t) /\ q \in Requests /\ issued[q] # None
    BY <1>12, <1>calls DEF IssueStored, rows
  <2>2. Dated' /\ Recent'
    BY <2>1, <1>finish
  <2>3. CASE UNCHANGED answers
    BY <2>1, <2>2, <2>3, <1>silent
  <2>4. CASE Return(q, issued[q])
    <3>1. issued[q].created <= now /\ issued[q] \in Rows
      BY <1>i, <1>nat, <2>1 DEF Dated
    <3>2. now <= issued[q].created + IF t \in late THEN 1 ELSE 0
      BY <1>12, <1>i, <2>1 DEF IssueStored, Reading, Recent
    <3>3. now <= issued[q].created + Span
      BY <1>nat, <2>1, <3>2 DEF Span
    <3>4. Remembered' /\ ReplayStable'
      BY <1>s, <1>i, <2>1, <2>4, <3>1, <3>3, AnswerStable DEF Return
    <3> QED BY <1>s, <2>2, <3>4 DEF AnswersInv
  <2> QED BY <1>12, <2>3, <2>4 DEF IssueStored
<1>13. ASSUME NEW t \in Threads, IssueChanged(t), attempt[t] < MaxAttempts PROVE AnswersInv'
  <2>1. UNCHANGED <<now, issued, answers, late, call>>
    BY <1>13 DEF IssueChanged, rows
  <2>2. \A u \in Threads : pc'[u] \in Reading => pc[u] \in Reading
    BY <1>13, <1>t DEF IssueChanged, ThreadShape, Reading
  <2> QED BY <2>1, <2>2, <1>silent, <1>keeps
<1>14. ASSUME NEW t \in Threads, Issue(t) PROVE AnswersInv'
  <2> DEFINE q == call[t].request
  <2>1. /\ now' = now /\ Finish(t) /\ q \in Requests /\ issued[q] = None
        /\ issued' = [issued EXCEPT ![q] = Row(t)] /\ Return(q, Row(t))
    BY <1>14, <1>calls DEF Issue
  <2>2. Row(t).created = now
    BY DEF Row
  <2>3. issued'[q] = Row(t) /\ \A p \in Requests \ {q} : issued'[p] = issued[p]
    BY <1>nat, <2>1
  <2>4. Row(t) \in Rows
    BY <1>14, <1>t, <1>nat DEF Issue, ThreadShape, Row, Rows, Responses
  <2>5. Dated'
    BY <1>i, <1>nat, <2>1, <2>2, <2>3 DEF Dated
  <2>6. Recent'
    <3> SUFFICES ASSUME NEW u \in Threads, pc'[u] \in Reading,
                        issued'[call'[u].request] # None
                 PROVE  now <= issued'[call'[u].request].created
                                 + IF u \in late' THEN 1 ELSE 0
      BY <2>1 DEF Recent
    <3>1. u # t /\ pc[u] \in Reading /\ call'[u] = call[u] /\ (u \in late' <=> u \in late)
      BY <1>t, <2>1 DEF Finish, ThreadShape, Reading
    <3>2. call[u].request \in Requests
      BY <1>calls, <3>1 DEF Reading
    <3>3. CASE call[u].request = q
      BY <1>nat, <2>2, <2>3, <3>1, <3>3
    <3>4. CASE call[u].request # q
      BY <1>i, <2>3, <3>1, <3>2, <3>4 DEF Recent
    <3> QED BY <3>3, <3>4
  <2>7. now <= Row(t).created + Span /\ Row(t).created <= now
    BY <1>nat, <2>2 DEF Span
  <2>8. \A p \in Requests : issued[p] # None => issued'[p] = issued[p]
    BY <2>1, <2>3
  <2>9. Remembered' /\ ReplayStable'
    BY <1>s, <1>i, <2>1, <2>3, <2>4, <2>7, <2>8, AnswerStable DEF Return
  <2> QED BY <1>s, <2>5, <2>6, <2>9 DEF AnswersInv
<1>15. CASE UNCHANGED vars
  BY <1>15, <1>idle DEF vars, rows
<1>16. ASSUME NEW t \in Threads, IssueChanged(t) PROVE AnswersInv'
  BY <1>16, <1>10, <1>13 DEF IssueChanged
<1> QED BY <1>1, <1>2, <1>3, <1>4, <1>5, <1>6, <1>7, <1>8, <1>9, <1>10, <1>11, <1>12,
           <1>14, <1>15, <1>16 DEF Next, Handler

LEMMA AnswersInvariant == Spec => []AnswersInv
  BY InitAnswers, NextAnswers, PTL DEF Spec

\* For 24 hours a request ID is answered with one stored response, whichever of
\* the two transactions finds it and whatever maintenance deletes meanwhile.
THEOREM ReplayStableTheorem == Spec => []ReplayStable
  BY AnswersInvariant, PTL DEF AnswersInv
=============================================================================
