-------------------------------- MODULE Pilot --------------------------------
(***************************************************************************)
(* The pilot policy layer (recserve_pilot/): HTTP handler threads answer   *)
(* recommend requests and feedback events from one SQLite database that is *)
(* both the feedback journal and the serving projection.                   *)
(*                                                                         *)
(* A store call is one SQLite transaction and hence one action.  Between   *)
(* the snapshot and the publish of a request the thread retrieves and      *)
(* ranks candidates outside any transaction; the generation fences what    *)
(* happened meanwhile.  Scores are arbitrary, so ranking is the choice of  *)
(* any admissible set of items.  Event times are part of an event's        *)
(* identity only: for every event the code would accept some time does,    *)
(* so the time window never decides what the projection becomes.           *)
(***************************************************************************)
EXTENDS Naturals, FiniteSets

CONSTANTS Threads,        \* handler threads
          Users, Items, Requests, EventIds,
          Models,         \* bundle fingerprints the service may be started with
          Ks,             \* values of k
          Guests,         \* users the model does not know (cold start)
          Seen,           \* user -> items seen in training
          MaxAttempts,    \* 3, rounds of recommend()
          MaxGeneration,  \* bound on meta.generation
          None

ASSUME ItemsAssumption == IsFiniteSet(Items)
ASSUME KsAssumption == Ks \subseteq Nat \ {0}
ASSUME SeenAssumption == Seen \in [Users -> SUBSET Items]
ASSUME MaxAttemptsAssumption == MaxAttempts \in Nat \ {0}
ASSUME MaxGenerationAssumption == MaxGeneration \in Nat

Smaller(a, b) == IF a <= b THEN a ELSE b

Kinds == {"shown", "save", "dismiss", "watched"}
Events == [id : EventIds, request : Requests, user : Users, item : Items,
           kind : Kinds]
Calls == [request : Requests, user : Users, k : Ks]
Snapshots == [generation : Nat, blocked : SUBSET Items, unavailable : SUBSET Items,
              shown : [Items -> Nat], saved : [Items -> Nat]]
Responses == [user : Users, k : Ks, items : SUBSET Items, generation : Nat,
              model : Models, degraded : BOOLEAN]

ASSUME NoneAssumption ==
  /\ None \notin Calls /\ None \notin Snapshots /\ None \notin Responses
  /\ None \notin Models

VARIABLES
  \* the database
  fingerprint,  \* meta.fingerprint
  generation,   \* meta.generation
  impressions,  \* request -> issued response, or None
  journal,      \* table events
  blocked,      \* user -> items with an outcome
  shown,        \* item_features.shown
  saved,        \* item_features.saved
  unavailable,  \* items withdrawn by the operator
  \* the process
  model,        \* bundle the running process serves, None while it is down
  pc, call, attempt, snap, response,  \* per handler thread
  \* history
  returned      \* calls and the responses they got with status 200

dbVars == <<fingerprint, generation, impressions, journal, blocked, shown,
            saved, unavailable>>
threadVars == <<pc, call, attempt, snap, response>>
vars == <<dbVars, model, threadVars, returned>>

\* What a transaction of snapshot(user) reads.
Projection(u) ==
  [generation |-> generation, blocked |-> blocked[u],
   unavailable |-> unavailable, shown |-> shown, saved |-> saved]

\* model.py eligible(), over a snapshot.
Eligible(u, s) == Items \ (Seen[u] \cup s.blocked \cup s.unavailable)

Idle ==
  /\ pc = [t \in Threads |-> "idle"]
  /\ call = [t \in Threads |-> None]
  /\ attempt = [t \in Threads |-> 0]
  /\ snap = [t \in Threads |-> None]
  /\ response = [t \in Threads |-> None]

Init ==
  /\ fingerprint = None
  /\ generation = 0
  /\ impressions = [q \in Requests |-> None]
  /\ journal = {}
  /\ blocked = [u \in Users |-> {}]
  /\ shown = [i \in Items |-> 0]
  /\ saved = [i \in Items |-> 0]
  /\ unavailable = {}
  /\ model = None
  /\ Idle
  /\ returned = {}

-----------------------------------------------------------------------------
(* Process *)

\* Mutant: the fingerprint stored in the database is not compared.
Start_AnyModel(m) ==
  /\ model = None
  /\ fingerprint' = IF fingerprint = None THEN m ELSE fingerprint
  /\ model' = m
  /\ UNCHANGED <<generation, impressions, journal, blocked, shown, saved,
                 unavailable, threadVars, returned>>

\* Store.__init__: a database belongs to the bundle it was created with.
Start(m) ==
  /\ model = None
  /\ fingerprint \in {None, m}
  /\ fingerprint' = m
  /\ model' = m
  /\ UNCHANGED <<generation, impressions, journal, blocked, shown, saved,
                 unavailable, threadVars, returned>>

\* The process dies: open transactions roll back, committed ones stay.
Crash ==
  /\ model # None
  /\ model' = None
  /\ pc' = [t \in Threads |-> "idle"]
  /\ call' = [t \in Threads |-> None]
  /\ attempt' = [t \in Threads |-> 0]
  /\ snap' = [t \in Threads |-> None]
  /\ response' = [t \in Threads |-> None]
  /\ UNCHANGED <<dbVars, returned>>

-----------------------------------------------------------------------------
(* POST /v1/recommend *)

Finish(t) ==
  /\ pc' = [pc EXCEPT ![t] = "idle"]
  /\ call' = [call EXCEPT ![t] = None]
  /\ attempt' = [attempt EXCEPT ![t] = 0]
  /\ snap' = [snap EXCEPT ![t] = None]
  /\ response' = [response EXCEPT ![t] = None]

Return(c, r) == returned' = returned \cup {[call |-> c, answer |-> r]}

\* Store.cached: the stored response if the inputs are the stored ones.
Hit(c) ==
  LET row == impressions[c.request]
  IN  row # None /\ row.user = c.user /\ row.k = c.k

Receive(t, c) ==
  /\ model # None
  /\ pc[t] = "idle"
  /\ pc' = [pc EXCEPT ![t] = "existing"]
  /\ call' = [call EXCEPT ![t] = c]
  /\ UNCHANGED <<dbVars, model, attempt, snap, response, returned>>

Existing(t) ==
  /\ pc[t] = "existing"
  /\ \/ /\ impressions[call[t].request] = None
        /\ pc' = [pc EXCEPT ![t] = "snapshot"]
        /\ attempt' = [attempt EXCEPT ![t] = 1]
        /\ UNCHANGED <<call, snap, response, returned>>
     \/ /\ Hit(call[t])
        /\ Finish(t)
        /\ Return(call[t], impressions[call[t].request])
     \/ /\ impressions[call[t].request] # None
        /\ ~Hit(call[t])                         \* Conflict, 409
        /\ Finish(t)
        /\ UNCHANGED returned
  /\ UNCHANGED <<dbVars, model>>

Snapshot(t) ==
  /\ pc[t] = "snapshot"
  /\ snap' = [snap EXCEPT ![t] = Projection(call[t].user)]
  /\ pc' = [pc EXCEPT ![t] = "retrieve"]
  /\ UNCHANGED <<dbVars, model, call, attempt, response, returned>>

\* Ranking: k of the eligible retrieved items if there are so many; otherwise
\* all of them and the popularity fill, which offers every item of the model.
Answers(u, k, s, retrieved) ==
  LET ranked == Eligible(u, s) \cap retrieved
      filled == Eligible(u, s)
  IN  IF Cardinality(ranked) >= k
      THEN {S \in SUBSET ranked : Cardinality(S) = k}
      ELSE {S \in SUBSET filled : /\ ranked \subseteq S
                                  /\ Cardinality(S) = Smaller(k, Cardinality(filled))}

\* One pass of the loop body between snapshot and publish.  A guest or a failed
\* upstream leaves no candidates, the latter with the response marked degraded.
Retrieve(t) ==
  /\ pc[t] = "retrieve"
  /\ \E retrieved \in SUBSET Items, failed \in BOOLEAN :
       /\ call[t].user \in Guests => retrieved = {} /\ ~failed
       /\ failed => retrieved = {}
       /\ \E S \in Answers(call[t].user, call[t].k, snap[t], retrieved) :
            response' = [response EXCEPT ![t] =
              [user |-> call[t].user, k |-> call[t].k, items |-> S,
               generation |-> snap[t].generation, model |-> model,
               degraded |-> failed]]
  /\ pc' = [pc EXCEPT ![t] = "publish"]
  /\ UNCHANGED <<dbVars, model, call, attempt, snap, returned>>

\* Mutant: publish does not look for the response of a concurrent retry.
PublishCommit_Overwrite(t) ==
  /\ pc[t] = "publish"
  /\ generation = response[t].generation
  /\ impressions' = [impressions EXCEPT ![call[t].request] = response[t]]
  /\ Finish(t)
  /\ Return(call[t], response[t])
  /\ UNCHANGED <<fingerprint, generation, journal, blocked, shown, saved,
                 unavailable, model>>

\* Mutant: publish does not compare the generation.
PublishCommit_NoFence(t) ==
  /\ pc[t] = "publish"
  /\ impressions[call[t].request] = None
  /\ impressions' = [impressions EXCEPT ![call[t].request] = response[t]]
  /\ Finish(t)
  /\ Return(call[t], response[t])
  /\ UNCHANGED <<fingerprint, generation, journal, blocked, shown, saved,
                 unavailable, model>>

\* publish(): the generation is the snapshot's, so the response is issued.
PublishCommit(t) ==
  /\ pc[t] = "publish"
  /\ impressions[call[t].request] = None
  /\ generation = response[t].generation
  /\ impressions' = [impressions EXCEPT ![call[t].request] = response[t]]
  /\ Finish(t)
  /\ Return(call[t], response[t])
  /\ UNCHANGED <<fingerprint, generation, journal, blocked, shown, saved,
                 unavailable, model>>

\* publish(): another thread answered this request first.
PublishCached(t) ==
  /\ pc[t] = "publish"
  /\ impressions[call[t].request] # None
  /\ Finish(t)
  /\ IF Hit(call[t])
     THEN Return(call[t], impressions[call[t].request])
     ELSE UNCHANGED returned                     \* Conflict, 409
  /\ UNCHANGED <<dbVars, model>>

\* Mutant: the loop makes one attempt too many.
PublishChanged_Extra(t) ==
  /\ pc[t] = "publish"
  /\ impressions[call[t].request] = None
  /\ generation # response[t].generation
  /\ IF attempt[t] <= MaxAttempts
     THEN /\ attempt' = [attempt EXCEPT ![t] = @ + 1]
          /\ snap' = [snap EXCEPT ![t] = None]
          /\ response' = [response EXCEPT ![t] = None]
          /\ pc' = [pc EXCEPT ![t] = "snapshot"]
          /\ UNCHANGED call
     ELSE Finish(t)
  /\ UNCHANGED <<dbVars, model, returned>>

\* publish() raises Changed: the loop tries again, three times in all.
PublishChanged(t) ==
  /\ pc[t] = "publish"
  /\ impressions[call[t].request] = None
  /\ generation # response[t].generation
  /\ IF attempt[t] < MaxAttempts
     THEN /\ attempt' = [attempt EXCEPT ![t] = @ + 1]
          /\ snap' = [snap EXCEPT ![t] = None]
          /\ response' = [response EXCEPT ![t] = None]
          /\ pc' = [pc EXCEPT ![t] = "snapshot"]
          /\ UNCHANGED call
     ELSE Finish(t)                              \* 503
  /\ UNCHANGED <<dbVars, model, returned>>

\* sqlite3 gives up after its busy timeout in any store call: 503.
Busy(t) ==
  /\ pc[t] \in {"existing", "snapshot", "publish"}
  /\ Finish(t)
  /\ UNCHANGED <<dbVars, model, returned>>

-----------------------------------------------------------------------------
(* POST /v1/events and the operator hook *)

Recorded(e, kind) ==
  \E f \in journal : f.request = e.request /\ f.item = e.item /\ f.kind = kind

\* Mutant: an outcome needs no shown event.
Acceptable_NoShown(e) ==
  /\ \A f \in journal : f.id # e.id
  /\ impressions[e.request] # None
  /\ impressions[e.request].user = e.user
  /\ e.item \in impressions[e.request].items
  /\ ~Recorded(e, e.kind)

\* Mutant: the event's user is not compared with the impression's.
Acceptable_AnyUser(e) ==
  /\ \A f \in journal : f.id # e.id
  /\ impressions[e.request] # None
  /\ e.item \in impressions[e.request].items
  /\ e.kind # "shown" => Recorded(e, "shown")
  /\ ~Recorded(e, e.kind)

\* The checks of apply() that let an event be inserted.  A duplicate ID with the
\* same payload is acknowledged and every other event is refused: no change.
Acceptable(e) ==
  /\ \A f \in journal : f.id # e.id
  /\ impressions[e.request] # None
  /\ impressions[e.request].user = e.user
  /\ e.item \in impressions[e.request].items
  /\ e.kind # "shown" => Recorded(e, "shown")
  /\ ~Recorded(e, e.kind)

\* Mutant: only a save blocks the item.
Apply_BlockSaved(e) ==
  /\ model # None
  /\ generation < MaxGeneration
  /\ Acceptable(e)
  /\ journal' = journal \cup {e}
  /\ shown' = IF e.kind = "shown" THEN [shown EXCEPT ![e.item] = @ + 1] ELSE shown
  /\ saved' = IF e.kind = "save" THEN [saved EXCEPT ![e.item] = @ + 1] ELSE saved
  /\ blocked' = IF e.kind = "save" THEN [blocked EXCEPT ![e.user] = @ \cup {e.item}]
                ELSE blocked
  /\ generation' = generation + 1
  /\ UNCHANGED <<fingerprint, impressions, unavailable, model, threadVars,
                 returned>>

\* apply(): journal and projection change in one transaction.
Apply(e) ==
  /\ model # None
  /\ generation < MaxGeneration
  /\ Acceptable(e)
  /\ journal' = journal \cup {e}
  /\ shown' = IF e.kind = "shown" THEN [shown EXCEPT ![e.item] = @ + 1] ELSE shown
  /\ saved' = IF e.kind = "save" THEN [saved EXCEPT ![e.item] = @ + 1] ELSE saved
  /\ blocked' = IF e.kind = "shown" THEN blocked
                ELSE [blocked EXCEPT ![e.user] = @ \cup {e.item}]
  /\ generation' = generation + 1
  /\ UNCHANGED <<fingerprint, impressions, unavailable, model, threadVars,
                 returned>>

\* set_unavailable(), run by the operator with or without the service.
SetUnavailable(i, value) ==
  /\ fingerprint # None
  /\ generation < MaxGeneration
  /\ unavailable' = IF value THEN unavailable \cup {i} ELSE unavailable \ {i}
  /\ generation' = generation + 1
  /\ UNCHANGED <<fingerprint, impressions, journal, blocked, shown, saved, model,
                 threadVars, returned>>

Handler(t) ==
  \/ \E c \in Calls : Receive(t, c)
  \/ Existing(t) \/ Snapshot(t) \/ Retrieve(t) \/ PublishCommit(t)
  \/ PublishCached(t) \/ PublishChanged(t) \/ Busy(t)

Next ==
  \/ \E m \in Models : Start(m)
  \/ Crash
  \/ \E t \in Threads : Handler(t)
  \/ \E e \in Events : Apply(e)
  \/ \E i \in Items, value \in BOOLEAN : SetUnavailable(i, value)

Spec == Init /\ [][Next]_vars

-----------------------------------------------------------------------------
(* Properties *)

\* Types, and what a handler thread carries at each point of recommend().
TypeOK ==
  /\ fingerprint \in Models \cup {None} /\ model \in Models \cup {None}
  /\ generation \in Nat
  /\ impressions \in [Requests -> Responses \cup {None}]
  /\ journal \subseteq Events
  /\ blocked \in [Users -> SUBSET Items]
  /\ shown \in [Items -> Nat] /\ saved \in [Items -> Nat]
  /\ unavailable \subseteq Items
  /\ pc \in [Threads -> {"idle", "existing", "snapshot", "retrieve", "publish"}]
  /\ attempt \in [Threads -> 0..MaxAttempts]
  /\ call \in [Threads -> Calls \cup {None}]
  /\ snap \in [Threads -> Snapshots \cup {None}]
  /\ response \in [Threads -> Responses \cup {None}]
  /\ \A t \in Threads :
       /\ pc[t] # "idle" => call[t] # None /\ model # None
       /\ pc[t] = "retrieve" => snap[t] # None
       /\ pc[t] = "publish" => snap[t] # None /\ response[t] # None
  /\ returned \subseteq [call : Calls, answer : Responses]

\* At the moment a response is issued it is what an atomic recommend would have
\* issued: only items the user may still be given (feedback and withdrawals
\* committed during retrieval included), none forbidden, fewer than k only when
\* no more exist, labelled with the current generation.
IssueIsAtomic ==
  [][\A q \in Requests :
       impressions[q] # impressions'[q] =>
         LET r == impressions'[q]
             e == Eligible(r.user, Projection(r.user))
         IN  /\ r.items \subseteq e
             /\ Cardinality(r.items) = Smaller(r.k, Cardinality(e))
             /\ r.generation = generation]_vars

\* A request ID has one answer: retries, concurrent duplicates and requests after
\* a crash are all given the response that was issued, unchanged, and only to a
\* caller that asks with the inputs it was issued for.
OneAnswerPerRequest ==
  \A a \in returned :
    /\ a.answer = impressions[a.call.request]
    /\ a.answer.user = a.call.user
    /\ a.answer.k = a.call.k

\* The projection is what replaying the journal would compute.
ProjectionIsReplay ==
  /\ \A u \in Users :
       blocked[u] = {e.item : e \in {f \in journal : f.user = u /\ f.kind # "shown"}}
  /\ \A i \in Items :
       /\ shown[i] = Cardinality({e \in journal : e.item = i /\ e.kind = "shown"})
       /\ saved[i] = Cardinality({e \in journal : e.item = i /\ e.kind = "save"})

\* The save rate the ranking adds stays below one: an item is never saved more
\* often than it was shown, whatever is retried, reordered or sent twice.
SaveRateBounded == \A i \in Items : saved[i] <= shown[i]

\* Outcomes only exist for items the user was really issued and shown.
OutcomesGrounded ==
  \A e \in journal :
    /\ impressions[e.request] # None
    /\ e.user = impressions[e.request].user
    /\ e.item \in impressions[e.request].items
    /\ Recorded(e, "shown")

\* All responses of one database come from one model bundle, across restarts.
OneModelPerDatabase ==
  \A p, q \in Requests :
    impressions[p] # None /\ impressions[q] # None
      => impressions[p].model = impressions[q].model

\* The database is one history at every commit, restarts included: the
\* projection is the journal's, save rates are rates, outcomes belong to what
\* was issued and shown, and everything issued is of one bundle.
JournalExact ==
  ProjectionIsReplay /\ SaveRateBounded /\ OutcomesGrounded /\ OneModelPerDatabase
=============================================================================
