-------------------------------- MODULE Policy --------------------------------
(***************************************************************************)
(* recserve_app/policy.py with the parts of db.py, model.py and            *)
(* selection.py it uses: preferences, recommendations and feedback of one  *)
(* account.  Every row the code reads or writes is keyed by the account,   *)
(* and every transaction begins by locking the account's users row, so     *)
(* transactions of one account are serial and each is one action.          *)
(*                                                                         *)
(* A recommendation runs two transactions with the preference vector and   *)
(* the retrieval in between; the account's revision fences them.  The      *)
(* vector is a function of the preferences and stands for them.  Request   *)
(* and event times matter only for expiry and retention.                   *)
(***************************************************************************)
EXTENDS Integers, Sequences, FiniteSets

CONSTANTS Threads,      \* request handler threads
          Items,        \* the catalogue
          Available,    \* its available movies
          Requests, Mutations, EventIds, Ks,
          ChangeSets,   \* preference changes: functions from items to -1, 0, 1
          MaxPrefs,     \* 500
          MaxAttempts,  \* 3, rounds of recommend
          CacheSize,    \* 512, entries of the vector cache
          MaxFolds,     \* 2, concurrent fold-ins
          Expire,       \* 24 hours
          Retain,       \* 90 days
          MaxTime,      \* bound of the clock
          MaxRevision,  \* bound of users.revision
          None

ASSUME BoundsAssumption ==
  /\ {MaxPrefs, CacheSize, MaxFolds, Expire, Retain, MaxTime, MaxRevision} \subseteq Nat
  /\ MaxAttempts \in Nat \ {0}
  /\ 2 * Expire <= Retain
  /\ Ks \subseteq Nat \ {0}
  /\ IsFiniteSet(Items) /\ Available \subseteq Items

Kinds == {"shown", "save", "dismiss", "watched"}
Values == {"like", "dislike"}

\* Preferences, and the rows of a recommendation and of a mutation.
Prefs == UNION {[S -> Values] : S \in SUBSET Items}
Rows == [k : Ks, created : Nat, items : SUBSET Items, revision : Nat, vector : Prefs]
MutationRows == [changes : ChangeSets, revision : Nat, created : Nat]

ASSUME ChangesAssumption == ChangeSets \subseteq UNION {[S -> {-1, 0, 1}] : S \in SUBSET Items}
ASSUME NoneAssumption == None \notin Rows /\ None \notin MutationRows

VARIABLES
  now,
  \* the account's rows
  consent,      \* consent_version is the current one
  revision,     \* users.revision
  prefs,        \* preferences: item -> value, for the items that have one
  outcomes,     \* item_states with any of saved, watched, dismissed
  issued,       \* recommendations: request -> row or None
  events,
  mutations,    \* mutation -> row or None
  \* the process
  cache,        \* Model._cache: sequence of [revision, vector], oldest first
  pc, call, attempt, snap, vector, response,
  late,         \* threads whose request began before the last tick
  \* history
  answers,      \* recommendations returned with status 200, and when
  states        \* states[r + 1]: the preferences when the revision became r

rows == <<consent, revision, prefs, outcomes, issued, events, mutations>>
threadVars == <<pc, call, attempt, snap, vector, response, late>>
vars == <<now, rows, cache, threadVars, answers, states>>

Calls == [request : Requests, k : Ks]

Init ==
  /\ now = 0
  /\ consent = FALSE
  /\ revision = 0
  /\ prefs = << >>
  /\ outcomes = {}
  /\ issued = [q \in Requests |-> None]
  /\ events = {}
  /\ mutations = [m \in Mutations |-> None]
  /\ cache = <<>>
  /\ pc = [t \in Threads |-> "idle"]
  /\ call = [t \in Threads |-> None]
  /\ attempt = [t \in Threads |-> 0]
  /\ snap = [t \in Threads |-> None]
  /\ vector = [t \in Threads |-> None]
  /\ response = [t \in Threads |-> None]
  /\ late = {}
  /\ answers = {}
  /\ states = << << >> >>

\* A tick is hours or days long while a request is over in seconds (statements
\* and locks time out after two, retrieval after .3), so a request lives through
\* one tick at most.
Tick ==
  /\ now < MaxTime
  /\ late = {}
  /\ now' = now + 1
  /\ late' = {t \in Threads : pc[t] # "idle"}
  /\ UNCHANGED <<rows, cache, pc, call, attempt, snap, vector, response, answers, states>>

\* PUT /api/v2/me/consent
GiveConsent ==
  /\ ~consent
  /\ consent' = TRUE
  /\ UNCHANGED <<now, revision, prefs, outcomes, issued, events, mutations, cache,
                 threadVars, answers, states>>

-----------------------------------------------------------------------------
(* change_preferences *)

\* Zero deletes a preference, one and minus one insert or replace it.
Changed(c) ==
  LET kept == DOMAIN prefs \ DOMAIN c
      set == {i \in DOMAIN c : c[i] # 0}
  IN  [i \in kept \cup set |->
         IF i \in set THEN (IF c[i] = 1 THEN "like" ELSE "dislike") ELSE prefs[i]]

\* Mutant: the idempotency key is not looked up.
ChangePreferences_NoKey(m, c) ==
  /\ consent
  /\ revision < MaxRevision
  /\ Cardinality(DOMAIN Changed(c)) <= MaxPrefs
  /\ prefs' = Changed(c)
  /\ revision' = revision + 1
  /\ states' = Append(states, prefs')
  /\ mutations' = IF mutations[m] # None THEN mutations
                  ELSE [mutations EXCEPT ![m] = [changes |-> c, revision |-> revision + 1,
                                                 created |-> now]]
  /\ UNCHANGED <<now, consent, outcomes, issued, events, cache, threadVars, answers>>

\* Mutant: the preferences are counted before the change.
ChangePreferences_NoLimit(m, c) ==
  /\ consent
  /\ revision < MaxRevision
  /\ mutations[m] = None
  /\ Cardinality(DOMAIN prefs) <= MaxPrefs
  /\ prefs' = Changed(c)
  /\ revision' = revision + 1
  /\ states' = Append(states, prefs')
  /\ mutations' = [mutations EXCEPT ![m] = [changes |-> c, revision |-> revision + 1,
                                            created |-> now]]
  /\ UNCHANGED <<now, consent, outcomes, issued, events, cache, threadVars, answers>>

\* A known key replays its response or is a conflict, an unknown movie or too
\* many preferences roll the transaction back: no change in those cases.
ChangePreferences(m, c) ==
  /\ consent
  /\ revision < MaxRevision
  /\ mutations[m] = None
  /\ Cardinality(DOMAIN Changed(c)) <= MaxPrefs
  /\ prefs' = Changed(c)
  /\ revision' = revision + 1
  /\ states' = Append(states, prefs')
  /\ mutations' = [mutations EXCEPT ![m] = [changes |-> c, revision |-> revision + 1,
                                            created |-> now]]
  /\ UNCHANGED <<now, consent, outcomes, issued, events, cache, threadVars, answers>>

-----------------------------------------------------------------------------
(* recommend *)

Finish(t) ==
  /\ pc' = [pc EXCEPT ![t] = "idle"]
  /\ call' = [call EXCEPT ![t] = None]
  /\ attempt' = [attempt EXCEPT ![t] = 0]
  /\ snap' = [snap EXCEPT ![t] = None]
  /\ vector' = [vector EXCEPT ![t] = None]
  /\ response' = [response EXCEPT ![t] = None]
  /\ late' = late \ {t}

Return(q, row) ==
  answers' = answers \cup {[request |-> q, at |-> now, row |-> row]}

Receive(t, c) ==
  /\ pc[t] = "idle"
  /\ pc' = [pc EXCEPT ![t] = "read"]
  /\ call' = [call EXCEPT ![t] = c]
  /\ attempt' = [attempt EXCEPT ![t] = 1]
  /\ UNCHANGED <<now, rows, cache, snap, vector, response, late, answers, states>>

\* First transaction: replay a stored response ...
ReadStored(t) ==
  LET row == issued[call[t].request]
  IN  /\ pc[t] = "read"
      /\ consent
      /\ row # None
      /\ IF row.k # call[t].k \/ now - row.created >= Expire
         THEN UNCHANGED answers                              \* 409
         ELSE Return(call[t].request, row)
      /\ Finish(t)
      /\ UNCHANGED <<now, rows, cache, states>>

\* ... or read the state the response is computed from.
ReadState(t) ==
  /\ pc[t] = "read"
  /\ consent
  /\ issued[call[t].request] = None
  /\ snap' = [snap EXCEPT ![t] = [revision |-> revision, prefs |-> prefs,
                                  blocked |-> DOMAIN prefs \cup outcomes]]
  /\ pc' = [pc EXCEPT ![t] = "lookup"]
  /\ UNCHANGED <<now, rows, cache, call, attempt, vector, response, late, answers,
                 states>>

\* account(): without consent the request is refused, 403.
ReadRefused(t) ==
  /\ pc[t] = "read"
  /\ ~consent
  /\ Finish(t)
  /\ UNCHANGED <<now, rows, cache, answers, states>>

\* Model.vector: the entry of this account and revision, moved to the end.
Cached(r) == {i \in DOMAIN cache : cache[i].revision = r}
Drop(s, i) == SubSeq(s, 1, i - 1) \o SubSeq(s, i + 1, Len(s))

LookupHit(t) ==
  /\ pc[t] = "lookup"
  /\ \E i \in Cached(snap[t].revision) :
       /\ cache' = Append(Drop(cache, i), cache[i])
       /\ vector' = [vector EXCEPT ![t] = cache[i].vector]
  /\ pc' = [pc EXCEPT ![t] = "select"]
  /\ UNCHANGED <<now, rows, call, attempt, snap, response, late, answers, states>>

LookupMiss(t) ==
  /\ pc[t] = "lookup"
  /\ Cached(snap[t].revision) = {}
  /\ Cardinality({u \in Threads : pc[u] = "fold"}) < MaxFolds
  /\ pc' = [pc EXCEPT ![t] = "fold"]
  /\ UNCHANGED <<now, rows, cache, call, attempt, snap, vector, response, late,
                 answers, states>>

\* The new entry becomes the last, in place of one of the same key; the oldest
\* entry goes when there are too many.
Stored(r, v) ==
  LET others == IF Cached(r) = {} THEN cache ELSE Drop(cache, CHOOSE i \in Cached(r) : TRUE)
      grown == Append(others, [revision |-> r, vector |-> v])
  IN  SubSeq(grown, IF Len(grown) > CacheSize THEN 2 ELSE 1, Len(grown))

\* Mutant: the vector is computed from the preferences of the moment.
Fold_Current(t) ==
  /\ pc[t] = "fold"
  /\ vector' = [vector EXCEPT ![t] = prefs]
  /\ cache' = Stored(snap[t].revision, prefs)
  /\ pc' = [pc EXCEPT ![t] = "select"]
  /\ UNCHANGED <<now, rows, call, attempt, snap, response, late, answers, states>>

\* fold_in outside the lock, then the entry is stored and the oldest evicted.
Fold(t) ==
  /\ pc[t] = "fold"
  /\ vector' = [vector EXCEPT ![t] = snap[t].prefs]
  /\ cache' = Stored(snap[t].revision, snap[t].prefs)
  /\ pc' = [pc EXCEPT ![t] = "select"]
  /\ UNCHANGED <<now, rows, call, attempt, snap, response, late, answers, states>>

\* select_items: k admissible items, or all there are; popularity fills up what
\* retrieval does not deliver, or fails to, so the choice is any such set.
Selections(blocked, k) ==
  LET open == Available \ blocked
  IN  {S \in SUBSET open : Cardinality(S) = IF Cardinality(open) < k
                                            THEN Cardinality(open) ELSE k}

Select(t) ==
  /\ pc[t] = "select"
  /\ \E S \in Selections(snap[t].blocked, call[t].k) :
       response' = [response EXCEPT ![t] =
         [k |-> call[t].k, items |-> S, revision |-> snap[t].revision,
          vector |-> vector[t]]]
  /\ pc' = [pc EXCEPT ![t] = "issue"]
  /\ UNCHANGED <<now, rows, cache, call, attempt, snap, vector, late, answers, states>>

\* Second transaction; account() passes again, for consent is not withdrawn.
\* Another thread has answered this request meanwhile.
IssueStored(t) ==
  LET row == issued[call[t].request]
  IN  /\ pc[t] = "issue"
      /\ row # None
      /\ IF row.k # call[t].k THEN UNCHANGED answers          \* 409
         ELSE Return(call[t].request, row)
      /\ Finish(t)
      /\ UNCHANGED <<now, rows, cache, states>>

\* The revision has moved on: try again, three times in all, then 503.
IssueChanged(t) ==
  /\ pc[t] = "issue"
  /\ issued[call[t].request] = None
  /\ revision # response[t].revision
  /\ IF attempt[t] < MaxAttempts
     THEN /\ attempt' = [attempt EXCEPT ![t] = @ + 1]
          /\ snap' = [snap EXCEPT ![t] = None]
          /\ vector' = [vector EXCEPT ![t] = None]
          /\ response' = [response EXCEPT ![t] = None]
          /\ pc' = [pc EXCEPT ![t] = "read"]
          /\ UNCHANGED <<call, late>>
     ELSE Finish(t)
  /\ UNCHANGED <<now, rows, cache, answers, states>>

Row(t) == [k |-> response[t].k, created |-> now, items |-> response[t].items,
           revision |-> response[t].revision, vector |-> response[t].vector]

\* Mutant: the stored responses are not looked at again.
Issue_Overwrite(t) ==
  /\ pc[t] = "issue"
  /\ revision = response[t].revision
  /\ issued' = [issued EXCEPT ![call[t].request] = Row(t)]
  /\ Return(call[t].request, Row(t))
  /\ Finish(t)
  /\ UNCHANGED <<now, consent, revision, prefs, outcomes, events, mutations, cache,
                 states>>

\* Mutant: the revision is not compared.
Issue_NoFence(t) ==
  /\ pc[t] = "issue"
  /\ issued[call[t].request] = None
  /\ issued' = [issued EXCEPT ![call[t].request] = Row(t)]
  /\ Return(call[t].request, Row(t))
  /\ Finish(t)
  /\ UNCHANGED <<now, consent, revision, prefs, outcomes, events, mutations, cache,
                 states>>

Issue(t) ==
  /\ pc[t] = "issue"
  /\ issued[call[t].request] = None
  /\ revision = response[t].revision
  /\ issued' = [issued EXCEPT ![call[t].request] = Row(t)]
  /\ Return(call[t].request, Row(t))
  /\ Finish(t)
  /\ UNCHANGED <<now, consent, revision, prefs, outcomes, events, mutations, cache,
                 states>>

\* A database error in either transaction: 503.
DatabaseError(t) ==
  /\ pc[t] \in {"read", "issue"}
  /\ Finish(t)
  /\ UNCHANGED <<now, rows, cache, answers, states>>

\* The process restarts: threads and cache are gone, rows stay.
Restart ==
  /\ cache # <<>> \/ \E t \in Threads : pc[t] # "idle"
  /\ cache' = <<>>
  /\ pc' = [t \in Threads |-> "idle"]
  /\ call' = [t \in Threads |-> None]
  /\ attempt' = [t \in Threads |-> 0]
  /\ snap' = [t \in Threads |-> None]
  /\ vector' = [t \in Threads |-> None]
  /\ response' = [t \in Threads |-> None]
  /\ late' = {}
  /\ UNCHANGED <<now, rows, answers, states>>

-----------------------------------------------------------------------------
(* event, maintenance *)

Recorded(q, i, kind) ==
  \E e \in events : e.request = q /\ e.item = i /\ e.kind = kind

\* A known event ID is a duplicate or a conflict and changes nothing; display is
\* recorded without touching the revision, an outcome moves it.
Feedback(id, q, i, kind) ==
  /\ consent
  /\ \A e \in events : e.id # id
  /\ issued[q] # None
  /\ i \in issued[q].items
  /\ ~Recorded(q, i, kind)
  /\ kind # "shown" => Recorded(q, i, "shown") /\ revision < MaxRevision
  /\ events' = events \cup {[id |-> id, request |-> q, item |-> i, kind |-> kind,
                             created |-> now]}
  /\ IF kind = "shown"
     THEN UNCHANGED <<outcomes, revision, states>>
     ELSE /\ outcomes' = outcomes \cup {i}
          /\ revision' = revision + 1
          /\ states' = Append(states, prefs)
  /\ UNCHANGED <<now, consent, prefs, issued, mutations, cache, threadVars, answers>>

Old(row) == row.created + Retain < now

\* Database.maintenance: rows past their retention are deleted.
Maintain ==
  /\ events' = {e \in events : ~Old(e)}
  /\ issued' = [q \in Requests |-> IF issued[q] # None /\ Old(issued[q]) THEN None
                                   ELSE issued[q]]
  /\ mutations' = [m \in Mutations |->
                     IF mutations[m] # None /\ Old(mutations[m]) THEN None
                     ELSE mutations[m]]
  /\ <<events', issued', mutations'>> # <<events, issued, mutations>>
  /\ UNCHANGED <<now, consent, revision, prefs, outcomes, cache, threadVars, answers,
                 states>>

Handler(t) ==
  \/ \E c \in Calls : Receive(t, c)
  \/ ReadStored(t) \/ ReadState(t) \/ ReadRefused(t) \/ LookupHit(t) \/ LookupMiss(t)
  \/ Fold(t) \/ Select(t) \/ IssueStored(t) \/ IssueChanged(t) \/ Issue(t)
  \/ DatabaseError(t)

Next ==
  \/ Tick \/ GiveConsent \/ Restart \/ Maintain
  \/ \E m \in Mutations, c \in ChangeSets : ChangePreferences(m, c)
  \/ \E t \in Threads : Handler(t)
  \/ \E id \in EventIds, q \in Requests, i \in Items, kind \in Kinds :
       Feedback(id, q, i, kind)

Spec == Init /\ [][Next]_vars

-----------------------------------------------------------------------------
(* Properties *)

\* Shapes, the preference limit and the bound of the cache.
TypeOK ==
  /\ now \in 0..MaxTime /\ revision \in 0..MaxRevision
  /\ DOMAIN prefs \subseteq Items /\ \A i \in DOMAIN prefs : prefs[i] \in Values
  /\ Cardinality(DOMAIN prefs) <= MaxPrefs
  /\ outcomes \subseteq Items
  /\ Len(cache) <= CacheSize
  /\ late \subseteq Threads
  /\ \A t \in Threads : attempt[t] \in 0..MaxAttempts
  /\ Len(states) = revision + 1

\* At the moment a recommendation is stored it is what the account's rows call
\* for: nothing the user has rated or acted upon, as many items as there are up
\* to k, ranked with the vector of the current preferences.
IssueIsCurrent ==
  [][\A q \in Requests :
       issued'[q] # issued[q] /\ issued'[q] # None =>
         LET row == issued'[q]
             open == Available \ (DOMAIN prefs \cup outcomes)
         IN  /\ row.items \subseteq open
             /\ Cardinality(row.items) = row.k \/ row.items = open
             /\ row.vector = prefs
             /\ row.revision = revision]_vars

\* The vector cache never serves the vector of other preferences: whatever the
\* interleaving of fold-ins and preference changes, an entry holds the
\* preferences the account had at the entry's revision.
CacheCoherent ==
  \A i \in DOMAIN cache : cache[i].vector = states[cache[i].revision + 1]

\* A request ID replays for 24 hours: answers to one ID less than Expire apart
\* are the same stored response.
ReplayStable ==
  \A a, b \in answers :
    a.request = b.request /\ a.at <= b.at /\ b.at - a.at < Expire => a.row = b.row

\* Every mutation key takes effect once, in the order of the revisions it was
\* answered with: while no mutation has been retired, the preferences are the ones
\* a replay of the stored mutations leaves.
PreferencesAreReplay ==
  now <= Retain =>
    \A i \in Items :
      LET touching == {m \in Mutations : mutations[m] # None /\ i \in DOMAIN mutations[m].changes}
          last == CHOOSE m \in touching :
                    \A n \in touching : mutations[n].revision <= mutations[m].revision
          value == IF touching = {} THEN 0 ELSE mutations[last].changes[i]
      IN  IF value = 0 THEN i \notin DOMAIN prefs
          ELSE /\ i \in DOMAIN prefs
               /\ prefs[i] = IF value = 1 THEN "like" ELSE "dislike"

\* The account's state is one history: its preferences are the replay of the
\* mutations and within their limit, and every cached vector is of a state in
\* that history.
StateIsReplay == TypeOK /\ PreferencesAreReplay /\ CacheCoherent

\* A request ID that has been answered is never given another response: expired
\* IDs are refused, not repurposed.
NoRepurpose ==
  \A a, b \in answers : a.request = b.request => a.row = b.row
=============================================================================
