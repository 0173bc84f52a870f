-------------------------------- MODULE Drill --------------------------------
(***************************************************************************)
(* The drills over local containers: check_operations.py (with monitoring  *)
(* or without), check_recovery.py and check_production.py.  A drill is a   *)
(* plan of steps, each a command or an assertion that may fail; it writes  *)
(* its report as the last step, and on every way out removes what it made. *)
(*                                                                         *)
(* Docker's resources are external: they have a name and an owner, shown   *)
(* by a label.  A name may already be somebody else's, except in           *)
(* check_production, which trusts its random name and looks at no label.   *)
(* A command may fail after Docker has done its work (a timeout, an        *)
(* interrupt); one that removes something may fail silently.               *)
(***************************************************************************)
EXTENDS Naturals, Sequences, SequencesExt

CONSTANTS MaxFaults   \* failed commands

VARIABLES
  drill,     \* which one it is
  step,      \* the next step of its plan
  phase,     \* "running", "cleaning", "over" or "killed"
  docker,    \* name -> "none", "mine" or "foreign"
  tracked,   \* its lists of names to remove: [containers, volumes, networks]
  todo,      \* names still to be removed
  secrets,   \* the directory of keys and passwords exists
  report,
  broken,    \* a step has failed
  lost,      \* resources a failure left that the drill will not remove
  faulty     \* failed commands so far

vars == <<drill, step, phase, docker, tracked, todo, secrets, report, broken, lost, faulty>>

Drills == {"operations", "monitored", "recovery", "production"}

S(kind, name, uses) == [kind |-> kind, name |-> name, uses |-> uses]
Check == S("check", "", {})
\* A container run to its end and kept; an anonymous one is removed at its end.
Job(name) == S("job", name, {})

\* monitoring.verify_monitoring
Monitoring ==
  <<Check, S("container", "receiver", {}), S("container", "alertmanager", {}),
    S("container", "blackbox", {}), S("container", "prometheus", {}), Check, Check>>

OperationsPlan(monitoring) ==
  <<S("network", "network", {}), S("secrets", "", {}), S("container", "ledger", {}),
    S("volume", "data", {}), S("container", "postgres", {"data"}), Check, Job("migration"),
    S("container", "retrieval", {}), S("volume", "caddy", {}),
    S("container", "web", {"caddy"}), S("container", "api", {}), Check>>
  \o monitoring \o <<Check, Check>>

RecoveryPlan ==
  <<S("secrets", "", {}), S("volume", "data", {}), S("volume", "repository", {}),
    S("volume", "restored", {}), S("container", "primary", {"data", "repository"}),
    Check, Check, S("anonymous", "restore", {"restored", "repository"}),
    S("container", "copy", {"restored", "repository"}), Check>>

ProductionPlan == <<S("container", "test", {}), Check, Check>>

\* Each ends with its report.
Plan(d) == (CASE d = "operations" -> OperationsPlan(<<>>)
              [] d = "monitored"  -> OperationsPlan(Monitoring)
              [] d = "recovery"   -> RecoveryPlan
              [] d = "production" -> ProductionPlan) \o <<S("report", "", {})>>

Made == {"network", "volume", "container", "job", "anonymous"}
Steps == UNION {ToSet(Plan(d)) : d \in Drills}
Names == {s.name : s \in {s \in Steps : s.kind \in Made}}
NamesOf(d, kinds) == {s.name : s \in {s \in ToSet(Plan(d)) : s.kind \in kinds}}
\* Noted before the first step.
Noted(d) ==
  [containers |-> IF d = "production" THEN <<"test">> ELSE <<>>,
   volumes    |-> IF d = "recovery" THEN <<"data", "repository", "restored">> ELSE <<>>,
   networks   |-> IF d \in {"operations", "monitored"} THEN <<"network">> ELSE <<>>]

TypeOK ==
  LET N == Names IN
  /\ drill \in Drills /\ step \in 1 .. Len(Plan(drill)) + 1
  /\ phase \in {"running", "cleaning", "over", "killed"}
  /\ docker \in [N -> {"none", "mine", "foreign"}]
  /\ tracked \in [containers : Seq(N), volumes : Seq(N), networks : Seq(N)]
  /\ todo \in Seq(N) /\ lost \subseteq N
  /\ secrets \in BOOLEAN /\ report \in BOOLEAN /\ broken \in BOOLEAN
  /\ faulty \in 0 .. MaxFaults

Init ==
  /\ drill \in Drills
  /\ \E f \in {{}} \cup IF drill = "production" THEN {}
                        ELSE {{n} : n \in NamesOf(drill, Made \ {"anonymous"})} :
       docker = [n \in Names |-> IF n \in f THEN "foreign" ELSE "none"]
  /\ step = 1 /\ phase = "running" /\ tracked = Noted(drill) /\ todo = <<>>
  /\ secrets = FALSE /\ report = FALSE /\ broken = FALSE /\ lost = {} /\ faulty = 0

-----------------------------------------------------------------------------
Current == Plan(drill)[step]

With(names, name) == IF name \in ToSet(names) THEN names ELSE Append(names, name)

\* A container and a job are noted before the command, a volume after it.
Note(lists, s, done) ==
  CASE s.kind \in {"container", "job"} -> [lists EXCEPT !.containers = With(@, s.name)]
    [] s.kind = "volume" /\ done       -> [lists EXCEPT !.volumes = With(@, s.name)]
    [] OTHER                           -> lists

\* All that the lists name.
Known(lists) == ToSet(lists.containers) \cup ToSet(lists.volumes) \cup ToSet(lists.networks)

\* What a creation does to Docker: an existing volume is taken as it is, any
\* other existing name is a conflict.
Conflict(s) == s.kind \in Made \ {"volume"} /\ docker[s.name] = "foreign"
Created(s) == IF s.kind \in Made /\ docker[s.name] = "none"
              THEN [docker EXCEPT ![s.name] = "mine"] ELSE docker

Proceed ==
  /\ phase = "running" /\ step <= Len(Plan(drill)) /\ ~Conflict(Current)
  /\ step' = step + 1
  /\ tracked' = Note(tracked, Current, TRUE)
  /\ docker' = IF Current.kind = "anonymous" THEN docker ELSE Created(Current)
  /\ secrets' = (secrets \/ Current.kind = "secrets")
  /\ report' = (report \/ Current.kind = "report")
  /\ UNCHANGED <<drill, phase, todo, broken, lost, faulty>>

Order_VolumesFirst(lists) == lists.volumes \o lists.networks \o Reverse(lists.containers)

\* Containers, reversed in the operations drill, then volumes, then the network.
Order(lists) ==
  (IF drill = "recovery" THEN lists.containers ELSE Reverse(lists.containers))
    \o lists.volumes \o lists.networks

\* The finally block is entered.  In the operations drill the directory of
\* secrets is gone by then, in the recovery drill it goes at the end.
Leave ==
  /\ phase' = "cleaning" /\ todo' = Order(tracked')
  /\ secrets' = (secrets /\ drill = "recovery")

Failed_Swallowed ==
  /\ phase = "running" /\ step <= Len(Plan(drill))
  /\ faulty < MaxFaults /\ faulty' = faulty + 1
  /\ step' = step + 1 /\ broken' = TRUE
  /\ UNCHANGED <<phase, todo, tracked, docker, lost, drill, secrets, report>>

\* A step fails: without effect, or with it.
Failed ==
  /\ phase = "running" /\ step <= Len(Plan(drill))
  /\ \/ Conflict(Current) /\ UNCHANGED faulty
     \/ faulty < MaxFaults /\ faulty' = faulty + 1
  /\ broken' = TRUE
  /\ tracked' = Note(tracked, Current, FALSE)
  /\ Leave
  /\ \/ UNCHANGED <<docker, lost>>
     \/ /\ Current.kind \in Made /\ docker' = Created(Current)
        /\ lost' = IF docker' # docker /\ Current.name \notin Known(tracked')
                   THEN lost \cup {Current.name} ELSE lost
  /\ UNCHANGED <<drill, step, report>>

Finish ==
  /\ phase = "running" /\ step > Len(Plan(drill))
  /\ tracked' = tracked /\ Leave
  /\ UNCHANGED <<drill, step, docker, report, broken, lost, faulty>>

\* A volume or a network that a container uses cannot be removed.
InUse(n) ==
  \/ n = "network" /\ \E c \in NamesOf(drill, {"container", "job"}) : docker[c] = "mine"
  \/ \E s \in ToSet(Plan(drill)) : n \in s.uses /\ docker[s.name] = "mine"

Owned_Anyway(n) == docker[n] # "none"

Owned(n) == IF drill = "production" THEN docker[n] # "none" ELSE docker[n] = "mine"

Clean ==
  /\ phase = "cleaning" /\ todo # <<>>
  /\ todo' = Tail(todo)
  /\ docker' = IF Owned(Head(todo)) /\ ~InUse(Head(todo))
               THEN [docker EXCEPT ![Head(todo)] = "none"] ELSE docker
  /\ UNCHANGED <<drill, step, phase, tracked, secrets, report, broken, lost, faulty>>

\* A removal fails, and nobody looks.
CleanFails ==
  /\ phase = "cleaning" /\ todo # <<>> /\ Owned(Head(todo))
  /\ faulty < MaxFaults /\ faulty' = faulty + 1
  /\ todo' = Tail(todo) /\ lost' = lost \cup {Head(todo)}
  /\ UNCHANGED <<drill, step, phase, docker, tracked, secrets, report, broken>>

\* The finally block itself raises: at a volume of somebody else's that has no
\* labels at all, or where the log of a container cannot be written.  It goes no
\* further, and what it had not removed yet stays.
CleanRaises ==
  /\ phase = "cleaning" /\ drill # "production" /\ todo # <<>>
  /\ \/ Head(todo) \in ToSet(tracked.volumes) /\ docker[Head(todo)] = "foreign"
        /\ UNCHANGED faulty
     \/ Head(todo) \in ToSet(tracked.containers) /\ Owned(Head(todo))
        /\ faulty < MaxFaults /\ faulty' = faulty + 1
  /\ todo' = <<>> /\ lost' = lost \cup ToSet(todo)
  /\ UNCHANGED <<drill, step, phase, docker, tracked, secrets, report, broken>>

End ==
  /\ phase = "cleaning" /\ todo = <<>>
  /\ phase' = "over" /\ secrets' = FALSE
  /\ UNCHANGED <<drill, step, docker, tracked, todo, report, broken, lost, faulty>>

Kill ==
  /\ phase \in {"running", "cleaning"} /\ phase' = "killed"
  /\ UNCHANGED <<drill, step, docker, tracked, todo, secrets, report, broken, lost, faulty>>

Next == Proceed \/ Failed \/ Finish \/ Clean \/ CleanFails \/ CleanRaises \/ End \/ Kill

Spec == Init /\ [][Next]_vars

-----------------------------------------------------------------------------
\* A drill that is over has left nothing behind: no secret, and no resource
\* but those a failed command made or could not remove, those a clean-up that
\* raised had not come to, and what these hold.
LeavesNothing ==
  phase = "over" =>
    /\ ~secrets
    /\ \A n \in Names : docker[n] = "mine" => n \in lost \/ InUse(n)

\* What belongs to somebody else is never removed, whatever failed.
SparesForeign == [][\A n \in Names : docker[n] = "foreign" => docker'[n] = "foreign"]_vars

\* A report means that every command and every assertion of the drill succeeded.
ReportMeansPassed == report => ~broken
=============================================================================
