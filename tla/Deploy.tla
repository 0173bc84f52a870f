------------------------------- MODULE Deploy -------------------------------
(***************************************************************************)
(* Bringing the application up: bundles are written and verified           *)
(* (scripts/model_v2.py, recserve_app/model.py), the database is migrated  *)
(* (entrypoint.py), and each colour runs a retrieval server and an API     *)
(* that were given the same bundle or not (entrypoint.py, api.py).         *)
(*                                                                         *)
(* An API resolves the address of its retrieval server once, when it is    *)
(* started.  A server that is restarted may get another address, and the   *)
(* old one may go to the server of the other colour.                       *)
(***************************************************************************)
EXTENDS Naturals, FiniteSets

CONSTANTS Colours, Bundles, Addresses,
          Serving,     \* colours that run an API
          MaxFaults,   \* crashes, failures and damage
          None

VARIABLES
  bundle,     \* bundle -> its directory
  role,       \* the role recserve_app exists
  revision,   \* alembic_version is 0001
  grants,     \* how many of the four grants were made
  job,        \* where the migrate container is
  retrieval,  \* colour -> [model, address], or None
  api,        \* colour -> [phase, model, peer, private], or None
  faults,
  answers     \* [api, from]: bundle of the API and of the candidates it used

vars == <<bundle, role, revision, grants, job, retrieval, api, faults, answers>>

Servers == [model : Bundles, address : Addresses]
Apis == [phase : {"starting", "up"}, model : Bundles, peer : Addresses, private : BOOLEAN]

TypeOK ==
  /\ bundle \in [Bundles -> {"absent", "partial", "whole", "damaged"}]
  /\ role \in BOOLEAN /\ revision \in BOOLEAN
  /\ grants \in 0 .. 4
  /\ job \in {"down", "role", "upgrade", "grant", "complete"}
  /\ retrieval \in [Colours -> Servers \cup {None}]
  /\ api \in [Colours -> Apis \cup {None}]
  /\ faults \in 0 .. MaxFaults
  /\ answers \subseteq [api : Bundles, from : Bundles]

Init ==
  /\ bundle = [b \in Bundles |-> "absent"]
  /\ role = FALSE /\ revision = FALSE /\ grants = 0 /\ job = "down"
  /\ retrieval = [c \in Colours |-> None]
  /\ api = [c \in Colours |-> None]
  /\ faults = 0 /\ answers = {}

Fault == faults < MaxFaults /\ faults' = faults + 1

-----------------------------------------------------------------------------
(* Bundles *)

\* write_bundle() makes the directory and never reuses one.
MakeDirectory(b) ==
  /\ bundle[b] = "absent"
  /\ bundle' = [bundle EXCEPT ![b] = "partial"]
  /\ UNCHANGED <<role, revision, grants, job, retrieval, api, faults, answers>>

\* Members, then the manifest over them, then the whole is verified.  A crash
\* on the way leaves a directory without a manifest.
WriteManifest(b) ==
  /\ bundle[b] = "partial"
  /\ bundle' = [bundle EXCEPT ![b] = "whole"]
  /\ UNCHANGED <<role, revision, grants, job, retrieval, api, faults, answers>>

\* A member no longer has the content the manifest names.
Damage(b) ==
  /\ bundle[b] = "whole"
  /\ Fault
  /\ bundle' = [bundle EXCEPT ![b] = "damaged"]
  /\ UNCHANGED <<role, revision, grants, job, retrieval, api, answers>>

\* Model(): every member is hashed and compared before anything is served.
Verified(b) == bundle[b] = "whole"

-----------------------------------------------------------------------------
(* migrate() *)

Step(from, to) == job = from /\ job' = to

MigrateStart ==
  /\ Step("down", "role") \/ Step("complete", "role")
  /\ UNCHANGED <<bundle, role, revision, grants, retrieval, api, faults, answers>>

CreateRole_Unchecked ==
  /\ ~role
  /\ role' = TRUE
  /\ Step("role", "upgrade")
  /\ UNCHANGED <<bundle, revision, grants, retrieval, api, faults, answers>>

\* CREATE ROLE, unless pg_roles has it.
CreateRole ==
  /\ role' = TRUE
  /\ Step("role", "upgrade")
  /\ UNCHANGED <<bundle, revision, grants, retrieval, api, faults, answers>>

\* alembic upgrade head, one transaction; the owner's URL is put back after it.
Upgrade ==
  /\ Step("upgrade", "grant")
  /\ revision' = TRUE
  /\ UNCHANGED <<bundle, role, grants, retrieval, api, faults, answers>>

\* The four grants commit one by one and may be made again.
Grant ==
  /\ grants' = IF grants < 4 THEN grants + 1 ELSE grants
  /\ IF grants >= 3 THEN Step("grant", "complete") ELSE Step("grant", "grant")
  /\ UNCHANGED <<bundle, role, revision, retrieval, api, faults, answers>>

\* The job dies or a statement of it fails.
MigrateFails ==
  /\ job \in {"role", "upgrade", "grant"}
  /\ Fault
  /\ job' = "down"
  /\ UNCHANGED <<bundle, role, revision, grants, retrieval, api, answers>>

-----------------------------------------------------------------------------
(* Processes *)

Taken == {retrieval[c].address : c \in {d \in Colours : retrieval[d] # None}}

\* The retrieval container verifies its bundle and executes the server with it.
StartRetrieval(c, b, a) ==
  /\ retrieval[c] = None
  /\ Verified(b)
  /\ a \notin Taken
  /\ retrieval' = [retrieval EXCEPT ![c] = [model |-> b, address |-> a]]
  /\ UNCHANGED <<bundle, role, revision, grants, job, api, faults, answers>>

StopRetrieval(c) ==
  /\ retrieval[c] # None
  /\ retrieval' = [retrieval EXCEPT ![c] = None]
  /\ UNCHANGED <<bundle, role, revision, grants, job, api, faults, answers>>

\* create_app(): bundle and address of the paired server; a name that does not
\* resolve or a bundle that does not verify ends the process.
StartApi(c, b) ==
  /\ c \in Serving
  /\ api[c] = None
  /\ Verified(b)
  /\ retrieval[c] # None
  /\ api' = [api EXCEPT ![c] = [phase |-> "starting", model |-> b,
                                peer |-> retrieval[c].address, private |-> FALSE]]
  /\ UNCHANGED <<bundle, role, revision, grants, job, retrieval, faults, answers>>

\* What reconcile() needs of the database: to log in and use the tables.
Usable == role /\ revision /\ grants >= 2

Lifespan_Unreconciled(c) ==
  /\ api[c] # None /\ api[c].phase = "starting"
  /\ api' = [api EXCEPT ![c] = [@ EXCEPT !.phase = "up", !.private = TRUE]]
  /\ UNCHANGED <<bundle, role, revision, grants, job, retrieval, faults, answers>>

\* lifespan(): nothing is served before the ledger has been replayed; if that
\* fails the process ends.
Lifespan(c) ==
  /\ api[c] # None /\ api[c].phase = "starting"
  /\ \/ Usable /\ api' = [api EXCEPT ![c] = [@ EXCEPT !.phase = "up", !.private = TRUE]]
     \/ api' = [api EXCEPT ![c] = None]
  /\ UNCHANGED <<bundle, role, revision, grants, job, retrieval, faults, answers>>

\* The replay of every minute.
Maintenance(c) ==
  /\ api[c] # None /\ api[c].phase = "up"
  /\ \E done \in BOOLEAN : api' = [api EXCEPT ![c].private = done]
  /\ UNCHANGED <<bundle, role, revision, grants, job, retrieval, faults, answers>>

StopApi(c) ==
  /\ api[c] # None
  /\ api' = [api EXCEPT ![c] = None]
  /\ UNCHANGED <<bundle, role, revision, grants, job, retrieval, faults, answers>>

\* The server that has the address the API resolved.
Peers(c) == {d \in Colours : retrieval[d] # None /\ retrieval[d].address = api[c].peer}

Accepted_Any(mine, theirs) == TRUE

\* The digest goes with the request and comes back with the answer.
Accepted(mine, theirs) == mine = theirs

\* readyz(): ledger, revision and a probe of retrieval.
Ready(c) ==
  /\ api[c] # None /\ api[c].phase = "up" /\ api[c].private
  /\ revision
  /\ \E d \in Peers(c) : Accepted(api[c].model, retrieval[d].model)

\* Candidates the API uses; without them the answer is degraded.
Recommend(c) ==
  /\ api[c] # None /\ api[c].phase = "up"
  /\ \E d \in Peers(c) :
       /\ Accepted(api[c].model, retrieval[d].model)
       /\ answers' = answers \cup {[api |-> api[c].model, from |-> retrieval[d].model]}
  /\ UNCHANGED <<bundle, role, revision, grants, job, retrieval, api, faults>>

Next ==
  \/ \E b \in Bundles : MakeDirectory(b) \/ WriteManifest(b) \/ Damage(b)
  \/ MigrateStart \/ CreateRole \/ Upgrade \/ Grant \/ MigrateFails
  \/ \E c \in Colours :
       \/ \E b \in Bundles, a \in Addresses : StartRetrieval(c, b, a)
       \/ \E b \in Bundles : StartApi(c, b)
       \/ StopRetrieval(c) \/ Lifespan(c) \/ Maintenance(c) \/ StopApi(c) \/ Recommend(c)

\* The operator runs the job again until it has completed once.
Migrate == CreateRole \/ Upgrade \/ Grant \/ (grants < 4 /\ MigrateStart)
Fairness == WF_vars(Migrate)

Spec == Init /\ [][Next]_vars /\ Fairness

-----------------------------------------------------------------------------
\* An API that serves, and all the more one that reports ready, has a migrated
\* database behind it, although nothing orders its start after the job, and
\* like a retrieval server a bundle that was completely written.
ServingIsGrounded ==
  /\ \A c \in Colours : api[c] # None /\ api[c].phase = "up" => Usable
  /\ \A p \in {retrieval[c] : c \in Colours} \cup {api[c] : c \in Colours} :
       p # None => bundle[p.model] \in {"whole", "damaged"}

\* Candidates of one bundle never reach an API of another, whichever server
\* has taken over an address that was resolved long ago; and an API that is
\* ready is paired.
NoMixing ==
  /\ \A x \in answers : x.api = x.from
  /\ \A c \in Colours : Ready(c) => \E d \in Peers(c) : retrieval[d].model = api[c].model

\* The migration gets done wherever it was interrupted before.
MigrationCompletes == <>(role /\ revision /\ grants = 4)
=============================================================================
