---------------------------- MODULE ServingProofs ----------------------------
(***************************************************************************)
(* Proofs about the components of Serving, for constants of any size: what *)
(* each promises holds in every behaviour.                                 *)
(***************************************************************************)
EXTENDS Serving, Integers, Sequences, SequenceTheorems, FiniteSetTheorems,
        WellFoundedInduction, TLAPS

-----------------------------------------------------------------------------
(* Admission *)

Away == {"client", "gone"}
Inside == {r \in Requests : at[r] \notin Away}
Admitted == {r \in Requests : at[r] \notin Away /\ status[r] # "busy"}
Left(s) == {r \in Requests : at[r] = "gone" /\ status[r] = s}
Failed == {r \in Requests : status[r] = "database"}

HttpShape ==
  /\ at \in [Requests -> Admission!Places]
  /\ status \in [Requests -> Admission!Statuses]
  /\ size \in [Requests -> 0 .. BodyLimit]
  /\ hop \in [Requests -> 1 .. 2]
  /\ counted \in [Admission!Statuses -> Nat]

\* Telemetry's status is 500 until a response starts, and the host check's answer
\* is not seen by it.
Started ==
  \A r \in Requests : /\ at[r] \notin {"send", "gone"} => status[r] = "500"
                      /\ status[r] = "host" => at[r] = "gone"

Counts ==
  /\ active = Cardinality(Admitted) /\ active <= Limit
  /\ gauge = Cardinality(Inside)
  /\ \A s \in Admission!Statuses \ {"host"} : counted[s] = Cardinality(Left(s))
  /\ counted["host"] = 0
  /\ failures = Cardinality(Failed)

HttpInv == HttpShape /\ Started /\ Counts

LEMMA HttpFinite ==
  ASSUME HttpInstances
  PROVE  /\ IsFiniteSet(Inside) /\ IsFiniteSet(Admitted) /\ IsFiniteSet(Failed)
         /\ \A s : IsFiniteSet(Left(s))
         /\ Cardinality(Inside) \in Nat /\ Cardinality(Inside) <= Cardinality(Requests)
         /\ Cardinality(Admitted) \in Nat
         /\ Cardinality(Failed) \in Nat /\ Cardinality(Failed) <= Cardinality(Requests)
         /\ \A s : Cardinality(Left(s)) \in Nat /\ Cardinality(Left(s)) <= Cardinality(Requests)
         /\ Cardinality(Requests) \in Nat
<1>1. IsFiniteSet(Requests)
  BY DEF HttpInstances
<1>2. \A S \in SUBSET Requests : /\ IsFiniteSet(S) /\ Cardinality(S) \in Nat
                                 /\ Cardinality(S) <= Cardinality(Requests)
  BY <1>1, FS_Subset, FS_CardinalityType
<1>3. /\ Inside \in SUBSET Requests /\ Admitted \in SUBSET Requests
      /\ Failed \in SUBSET Requests /\ \A s : Left(s) \in SUBSET Requests
  BY DEF Inside, Admitted, Failed, Left
<1> QED BY <1>1, <1>2, <1>3, FS_CardinalityType

LEMMA InitHttp == HttpInstances /\ Admission!Init => HttpInv
<1> SUFFICES ASSUME HttpInstances, Admission!Init PROVE HttpInv
  OBVIOUS
<1>1. HttpShape
  BY DEF HttpInstances, Admission!Init, HttpShape, Admission!Places, Admission!Statuses
<1>2. Started
  BY DEF Admission!Init, Started
<1>3. Admitted = {} /\ Inside = {} /\ Failed = {} /\ \A s : Left(s) = {}
  BY DEF Admission!Init, Inside, Admitted, Failed, Left, Away
<1>4. Counts
  BY <1>3, FS_EmptySet DEF Admission!Init, Counts, HttpInstances, Admission!Statuses
<1> QED BY <1>1, <1>2, <1>4 DEF HttpInv

\* A step of request r that keeps it inside, with status s.
LEMMA HttpMoves ==
  ASSUME HttpInstances, HttpInv, NEW r \in Requests, NEW p \in Admission!Places \ Away,
         NEW s \in Admission!Statuses \ {"host", "busy"},
         at[r] \notin {"client", "gone", "send"},
         at' = [at EXCEPT ![r] = p], status' = [status EXCEPT ![r] = s],
         s # "500" => p = "send",
         size' \in [Requests -> 0 .. BodyLimit], hop' \in [Requests -> 1 .. 2],
         failures' = IF s = "database" THEN failures + 1 ELSE failures,
         UNCHANGED <<active, gauge, counted>>
  PROVE  HttpInv'
<1>1. HttpShape /\ Started /\ Counts
  BY DEF HttpInv
<1>2. HttpShape'
  BY <1>1 DEF HttpShape
<1>3. /\ at'[r] = p /\ status'[r] = s
      /\ \A q \in Requests \ {r} : at'[q] = at[q] /\ status'[q] = status[q]
  BY <1>1 DEF HttpShape
<1>4. Started'
  BY <1>1, <1>3 DEF Started, Away
<1>5. status[r] = "500"
  BY <1>1 DEF Started
<1>6. Inside' = Inside
  BY <1>3 DEF Inside, Away
<1>7. Admitted' = Admitted
  BY <1>3, <1>5 DEF Admitted, Away
<1>8. \A u : Left(u)' = Left(u)
  BY <1>3 DEF Left, Away
<1>9. Failed' = IF s = "database" THEN Failed \cup {r} ELSE Failed
  BY <1>3, <1>5 DEF Failed
<1>10. r \notin Failed
  BY <1>5 DEF Failed
<1>11. failures' = Cardinality(Failed')
  BY <1>1, <1>9, <1>10, HttpFinite, FS_AddElement DEF Counts
<1>12. Counts'
  BY <1>1, <1>6, <1>7, <1>8, <1>11 DEF Counts
<1> QED BY <1>2, <1>4, <1>12 DEF HttpInv

\* The two finally blocks: the request leaves with the status it has.
LEMMA HttpLeaves ==
  ASSUME HttpInstances, HttpInv, NEW r \in Requests, at[r] \notin Away,
         at' = [at EXCEPT ![r] = "gone"], status' = [status EXCEPT ![r] = status[r]],
         active' = IF Admission!Admitted(r) THEN active - 1 ELSE active, gauge' = gauge - 1,
         counted' = [counted EXCEPT ![status[r]] = counted[status[r]] + 1],
         UNCHANGED <<size, hop, failures>>
  PROVE  HttpInv'
<1>1. HttpShape /\ Started /\ Counts
  BY DEF HttpInv
<1>2. status[r] \in Admission!Statuses \ {"host"} /\ status' = status
  BY <1>1 DEF HttpShape, Started, Away
<1>3. HttpShape'
  BY <1>1, <1>2 DEF HttpShape, Admission!Places
<1>4. at'[r] = "gone" /\ \A q \in Requests \ {r} : at'[q] = at[q]
  BY <1>1 DEF HttpShape
<1>5. Started'
  BY <1>1, <1>2, <1>4 DEF Started
<1>6. gauge' = Cardinality(Inside')
  <2>1. Inside' = Inside \ {r} /\ r \in Inside
    BY <1>4 DEF Inside, Away
  <2> QED BY <1>1, <2>1, HttpFinite, FS_RemoveElement DEF Counts
<1>7. Admission!Admitted(r) <=> status[r] # "busy"
  BY <1>1 DEF HttpShape, Admission!Admitted, Admission!Places, Away
<1>8. active' = Cardinality(Admitted') /\ active' <= Limit
  <2>0. active \in Nat /\ Limit \in Nat /\ active <= Limit
    BY <1>1, HttpFinite DEF Counts, HttpInstances
  <2>1. CASE status[r] # "busy"
    <3>1. Admitted' = Admitted \ {r} /\ r \in Admitted
      BY <1>2, <1>4, <2>1 DEF Admitted, Away
    <3>2. Cardinality(Admitted') = Cardinality(Admitted) - 1
      BY <3>1, HttpFinite, FS_RemoveElement
    <3> QED BY <1>1, <1>7, <2>0, <2>1, <3>2 DEF Counts
  <2>2. CASE status[r] = "busy"
    <3>1. Admitted' = Admitted
      BY <1>2, <1>4, <2>2 DEF Admitted, Away
    <3> QED BY <1>1, <1>7, <2>2, <3>1 DEF Counts
  <2> QED BY <2>1, <2>2
<1>9. \A s \in Admission!Statuses \ {"host"} : counted'[s] = Cardinality(Left(s)')
  <2> SUFFICES ASSUME NEW s \in Admission!Statuses \ {"host"}
               PROVE  counted'[s] = Cardinality(Left(s)')
    OBVIOUS
  <2>1. CASE s = status[r]
    <3>1. Left(s)' = Left(s) \cup {r} /\ r \notin Left(s)
      BY <1>2, <1>4, <2>1 DEF Left, Away
    <3>2. Cardinality(Left(s)') = Cardinality(Left(s)) + 1
      BY <3>1, HttpFinite, FS_AddElement
    <3>3. counted'[s] = counted[s] + 1
      BY <1>1, <2>1 DEF HttpShape
    <3> QED BY <1>1, <3>2, <3>3 DEF Counts
  <2>2. CASE s # status[r]
    <3>1. Left(s)' = Left(s)
      BY <1>2, <1>4, <2>2 DEF Left, Away
    <3>2. counted'[s] = counted[s]
      BY <1>1, <2>2 DEF HttpShape
    <3> QED BY <1>1, <3>1, <3>2 DEF Counts
  <2> QED BY <2>1, <2>2
<1>10. counted'["host"] = 0 /\ Failed' = Failed
  BY <1>1, <1>2 DEF Counts, HttpShape, Failed, Admission!Statuses
<1>11. Counts'
  BY <1>1, <1>6, <1>8, <1>9, <1>10 DEF Counts
<1> QED BY <1>3, <1>5, <1>11 DEF HttpInv

LEMMA NextHttp == HttpInstances /\ HttpInv /\ [Admission!Next]_Admission!vars => HttpInv'
<1> SUFFICES ASSUME HttpInstances, HttpInv, [Admission!Next]_Admission!vars PROVE HttpInv'
  OBVIOUS
<1>1. HttpShape /\ Started /\ Counts
  BY DEF HttpInv
<1>2. CASE UNCHANGED Admission!vars
  <2>1. HttpShape' /\ Started'
    BY <1>1, <1>2 DEF HttpShape, Started, Admission!vars
  <2>2. Counts'
    BY <1>1, <1>2 DEF Counts, Admission!vars, Admitted, Inside, Left, Failed
  <2> QED BY <2>1, <2>2 DEF HttpInv
<1>3. ASSUME NEW r \in Requests, Admission!WrongHost(r) PROVE HttpInv'
  <2>1. /\ at[r] = "client" /\ at' = [at EXCEPT ![r] = "gone"]
        /\ status' = [status EXCEPT ![r] = "host"]
        /\ UNCHANGED <<size, hop, active, gauge, counted, failures>>
    BY <1>3 DEF Admission!WrongHost
  <2>2. /\ at'[r] = "gone" /\ status'[r] = "host" /\ status[r] = "500"
        /\ \A q \in Requests \ {r} : at'[q] = at[q] /\ status'[q] = status[q]
    BY <1>1, <2>1 DEF HttpShape, Started
  <2>3. HttpShape'
    BY <1>1, <2>1 DEF HttpShape, Admission!Places, Admission!Statuses
  <2>4. Started'
    BY <1>1, <2>2 DEF Started
  <2>5. Admitted' = Admitted /\ Inside' = Inside /\ Failed' = Failed
        /\ \A s \in Admission!Statuses \ {"host"} : Left(s)' = Left(s)
    BY <2>1, <2>2 DEF Admitted, Inside, Failed, Left, Away
  <2>6. Counts'
    BY <1>1, <2>1, <2>5 DEF Counts
  <2> QED BY <2>3, <2>4, <2>6 DEF HttpInv
<1>4. ASSUME NEW r \in Requests, Admission!Arrive(r) PROVE HttpInv'
  <2>1. /\ at[r] = "client" /\ gauge' = gauge + 1 /\ UNCHANGED <<size, hop, counted, failures>>
        /\ \/ /\ ~(active >= Limit) /\ active' = active + 1
              /\ at' = [at EXCEPT ![r] = "body"] /\ UNCHANGED status
           \/ /\ at' = [at EXCEPT ![r] = "send"] /\ status' = [status EXCEPT ![r] = "busy"]
              /\ UNCHANGED active
    BY <1>4 DEF Admission!Arrive, Admission!Respond
  <2>2. /\ at'[r] \in {"body", "send"} /\ status[r] = "500"
        /\ \A q \in Requests \ {r} : at'[q] = at[q] /\ status'[q] = status[q]
    BY <1>1, <2>1 DEF HttpShape, Started
  <2>3. HttpShape'
    BY <1>1, <2>1 DEF HttpShape, Admission!Places, Admission!Statuses
  <2>4. Started'
    BY <1>1, <2>1, <2>2 DEF Started, HttpShape
  <2>5. gauge' = Cardinality(Inside')
    <3>1. Inside' = Inside \cup {r} /\ r \notin Inside
      BY <2>1, <2>2 DEF Inside, Away
    <3> QED BY <1>1, <2>1, <3>1, HttpFinite, FS_AddElement DEF Counts
  <2>6. active' = Cardinality(Admitted') /\ active' <= Limit
    <3>0. active \in Nat /\ Limit \in Nat /\ active <= Limit
      BY <1>1, HttpFinite DEF Counts, HttpInstances
    <3>1. CASE at'[r] = "body"
      <4>1. ~(active >= Limit) /\ active' = active + 1 /\ status' = status
        BY <1>1, <2>1, <3>1 DEF HttpShape
      <4>2. Admitted' = Admitted \cup {r} /\ r \notin Admitted
        BY <2>1, <2>2, <3>1, <4>1 DEF Admitted, Away
      <4>3. Cardinality(Admitted') = Cardinality(Admitted) + 1
        BY <4>2, HttpFinite, FS_AddElement
      <4> QED BY <1>1, <3>0, <4>1, <4>3 DEF Counts
    <3>2. CASE at'[r] = "send"
      <4>1. status'[r] = "busy" /\ active' = active
        BY <1>1, <2>1, <3>2 DEF HttpShape
      <4>2. Admitted' = Admitted
        BY <2>1, <2>2, <4>1 DEF Admitted, Away
      <4> QED BY <1>1, <4>1, <4>2 DEF Counts
    <3> QED BY <2>2, <3>1, <3>2
  <2>7. Failed' = Failed /\ \A s : Left(s)' = Left(s)
    <3>1. status'[r] \in {"500", "busy"}
      BY <1>1, <2>1, <2>2 DEF HttpShape
    <3> QED BY <2>1, <2>2, <3>1 DEF Failed, Left
  <2>8. Counts'
    BY <1>1, <2>1, <2>5, <2>6, <2>7 DEF Counts
  <2> QED BY <2>3, <2>4, <2>8 DEF HttpInv
<1>status. \A r \in Requests :
             at[r] \notin {"send", "gone"} =>
               status[r] = "500" /\ status = [status EXCEPT ![r] = "500"]
  BY <1>1 DEF Started, HttpShape
<1>at. \A r \in Requests : at = [at EXCEPT ![r] = at[r]] /\ at[r] \in Admission!Places
  BY <1>1 DEF HttpShape
\* A step that starts no response.
<1>quiet. ASSUME NEW r \in Requests, NEW p \in Admission!Places \ Away,
                 at[r] \notin {"client", "gone", "send"}, at' = [at EXCEPT ![r] = p],
                 size' \in [Requests -> 0 .. BodyLimit], hop' \in [Requests -> 1 .. 2],
                 UNCHANGED <<status, active, gauge, counted, failures>>
          PROVE  HttpInv'
  BY <1>quiet, <1>status, HttpMoves DEF Admission!Statuses
\* A step that starts one, other than 503 on arrival.
<1>responds. ASSUME NEW r \in Requests, NEW s \in {"408", "413", "database", "answer"},
                    at[r] \notin {"client", "gone", "send"}, Admission!Respond(r, s),
                    failures' = IF s = "database" THEN failures + 1 ELSE failures,
                    UNCHANGED <<size, hop, active, gauge, counted>>
             PROVE  HttpInv'
  <2>1. "send" \in Admission!Places \ Away /\ s \in Admission!Statuses \ {"host", "busy"}
    BY DEF Admission!Places, Away, Admission!Statuses
  <2>2. size' \in [Requests -> 0 .. BodyLimit] /\ hop' \in [Requests -> 1 .. 2]
    BY <1>1, <1>responds DEF HttpShape
  <2> QED BY <1>responds, <2>1, <2>2, HttpMoves DEF Admission!Respond
<1>5. ASSUME NEW r \in Requests, Admission!Chunk(r) PROVE HttpInv'
  <2>0. size[r] \in 0 .. BodyLimit /\ size \in [Requests -> 0 .. BodyLimit]
        /\ hop \in [Requests -> 1 .. 2] /\ BodyLimit \in Nat
    BY <1>1 DEF HttpShape, HttpInstances
  <2>1. /\ at[r] \in {"body", "late"} /\ UNCHANGED <<hop, active, gauge, counted, failures>>
        /\ at[r] \in Admission!Places \ Away /\ "queue" \in Admission!Places \ Away
    BY <1>5 DEF Admission!Chunk, Admission!Places, Away
  <2>2. CASE Admission!Respond(r, "413") /\ UNCHANGED size
    BY <2>1, <2>2, <1>responds
  <2>3. CASE size[r] < BodyLimit /\ size' = [size EXCEPT ![r] = @ + 1] /\ UNCHANGED <<at, status>>
    <3>1. size' \in [Requests -> 0 .. BodyLimit]
      BY <2>0, <2>3
    <3> QED BY <2>0, <2>1, <2>3, <3>1, <1>at, <1>quiet
  <2>4. CASE at' = [at EXCEPT ![r] = "queue"] /\ UNCHANGED <<size, status>>
    BY <2>0, <2>1, <2>4, <1>quiet
  <2> QED BY <1>5, <2>2, <2>3, <2>4 DEF Admission!Chunk
<1>6. ASSUME NEW r \in Requests,
             Admission!Deadline(r) \/ Admission!TakeThread(r) \/ Admission!Connect(r) \/ Admission!Pass(r)
      PROVE  HttpInv'
  <2>1. /\ at[r] \in {"body", "queue", "thread", "query"}
        /\ \E p \in {"late", "thread", "query", "queue"} : at' = [at EXCEPT ![r] = p]
        /\ UNCHANGED <<status, size, active, gauge, counted, failures>>
    BY <1>6 DEF Admission!Deadline, Admission!TakeThread, Admission!Connect, Admission!Pass
  <2>2. size' \in [Requests -> 0 .. BodyLimit] /\ hop' \in [Requests -> 1 .. 2]
    BY <1>6, <1>1, <2>1 DEF Admission!Deadline, Admission!TakeThread, Admission!Connect, Admission!Pass, HttpShape
  <2>3. {"late", "thread", "query", "queue"} \subseteq Admission!Places \ Away
    BY DEF Admission!Places, Away
  <2> QED BY <2>1, <2>2, <2>3, <1>quiet
<1>7. ASSUME NEW r \in Requests,
             Admission!Timeout(r) \/ Admission!AnswerEarly(r) \/ Admission!PoolTimeout(r)
               \/ Admission!QueryError(r) \/ Admission!Answer(r)
      PROVE  HttpInv'
  BY <1>7, <1>responds DEF Admission!Timeout, Admission!AnswerEarly, Admission!PoolTimeout, Admission!QueryError,
     Admission!Answer, Admission!DatabaseError
<1>8. ASSUME NEW r \in Requests,
             Admission!Disconnect(r) \/ Admission!Raise(r) \/ Admission!Sent(r) \/ Admission!Cancel(r)
      PROVE  HttpInv'
  <2>1. PICK places \in {{"body", "late"}, {"query"}, {"send"}, {"body", "late", "queue", "send"}},
             s \in {"500", status[r]} :
          Admission!Leave(r, places, s) /\ (s = "500" => s = status[r] \/ "send" \notin places)
    BY <1>8 DEF Admission!Disconnect, Admission!Raise, Admission!Sent, Admission!Cancel
  <2>2. at[r] \in places /\ at[r] \notin Away
    BY <2>1 DEF Admission!Leave, Away
  <2>3. s = status[r]
    BY <2>1, <2>2, <1>status
  <2> QED BY <2>1, <2>2, <2>3, HttpLeaves DEF Admission!Leave
<1> QED BY <1>2, <1>3, <1>4, <1>5, <1>6, <1>7, <1>8 DEF Admission!Next

LEMMA HttpIsExact == HttpInstances /\ HttpInv => Admission!TypeOK /\ Admission!AdmissionExact /\ Admission!Accounted
<1> SUFFICES ASSUME HttpInstances, HttpInv PROVE Admission!TypeOK /\ Admission!AdmissionExact /\ Admission!Accounted
  OBVIOUS
<1>1. HttpShape /\ Started /\ Counts
  BY DEF HttpInv
<1>2. /\ {r \in Requests : Admission!Admitted(r)} = Admitted
      /\ Admission!At(Admission!Places \ {"client", "gone"}) = Inside
      /\ \A s : {r \in Admission!At({"gone"}) : status[r] = s} = Left(s)
      /\ {r \in Requests : status[r] = "database"} = Failed
  BY <1>1 DEF HttpShape, Admission!Admitted, Admission!At, Admission!Places, Away, Admitted, Inside, Left,
     Failed
<1>card. \A S : Admission!Cardinality(S) = Cardinality(S)
  BY Zenon DEF Admission!Cardinality, Cardinality
<1>3. Admission!AdmissionExact /\ Admission!Accounted
  BY <1>1, <1>2, <1>card DEF Admission!AdmissionExact, Admission!Accounted, Counts
<1>4. /\ active \in 0 .. Limit /\ gauge \in 0 .. Cardinality(Requests)
      /\ failures \in 0 .. Cardinality(Requests)
  BY <1>1, HttpFinite DEF Counts, HttpInstances
<1>5. \A s \in Admission!Statuses : counted[s] \in 0 .. Cardinality(Requests)
  BY <1>1, HttpFinite DEF Counts
<1>6. counted \in [Admission!Statuses -> 0 .. Cardinality(Requests)]
  BY <1>1, <1>5 DEF HttpShape
<1> QED BY <1>1, <1>3, <1>4, <1>6, <1>card DEF Admission!TypeOK, HttpShape

-----------------------------------------------------------------------------
(* The connections of the pilot's server *)

\* Connections that hold a slot.
Holding == {c \in Clients : conn[c] \in {"admitted", "reading", "working", "replying", "ending"}}

\* A slot is lost only with a connection that is over.
PilotInv ==
  /\ PilotServer!TypeOK
  /\ free + Cardinality(Holding) + Cardinality(leaked) = ServerSlots
  /\ \A c \in leaked : conn[c] = "closed"

LEMMA PilotFinite ==
  ASSUME PilotInstances
  PROVE  /\ IsFiniteSet(Holding) /\ Cardinality(Holding) \in Nat
         /\ \A S \in SUBSET Clients : IsFiniteSet(S) /\ Cardinality(S) \in Nat
<1>1. \A S \in SUBSET Clients : IsFiniteSet(S) /\ Cardinality(S) \in Nat
  BY FS_Subset, FS_CardinalityType DEF PilotInstances
<1>2. Holding \in SUBSET Clients
  BY DEF Holding
<1> QED BY <1>1, <1>2

LEMMA InitPilot == PilotInstances /\ PilotServer!Init => PilotInv
<1> SUFFICES ASSUME PilotInstances, PilotServer!Init PROVE PilotInv
  OBVIOUS
<1>1. PilotServer!TypeOK
  BY DEF PilotInstances, PilotServer!Init, PilotServer!TypeOK, PilotServer!Places
<1>2. Holding = {} /\ leaked = {} /\ free = ServerSlots
  BY DEF PilotServer!Init, Holding
<1>3. free + Cardinality(Holding) + Cardinality(leaked) = ServerSlots
  BY <1>2, FS_EmptySet DEF PilotInstances
<1> QED BY <1>1, <1>2, <1>3 DEF PilotInv

LEMMA NextPilot == PilotInstances /\ PilotInv /\ [PilotServer!Next]_PilotServer!vars => PilotInv'
<1> SUFFICES ASSUME PilotInstances, PilotInv, [PilotServer!Next]_PilotServer!vars PROVE PilotInv'
  OBVIOUS
<1>t. PilotServer!TypeOK
  BY DEF PilotInv
<1>n. /\ free \in Nat /\ ServerSlots \in Nat /\ MaxFailures \in Nat /\ free <= ServerSlots
      /\ Cardinality(Holding) \in Nat /\ Cardinality(leaked) \in Nat
      /\ IsFiniteSet(Holding) /\ IsFiniteSet(leaked)
      /\ free + Cardinality(Holding) + Cardinality(leaked) = ServerSlots
      /\ \A c \in leaked : conn[c] = "closed"
  BY <1>t, PilotFinite DEF PilotInv, PilotInstances, PilotServer!TypeOK
<1>slots. ASSUME PilotServer!TypeOK', UNCHANGED leaked,
                 \A c \in Clients : conn[c] = "closed" => conn'[c] = "closed",
                 \/ Holding' = Holding /\ free' = free
                 \/ \E c \in Clients :
                      \/ c \notin Holding /\ Holding' = Holding \cup {c} /\ free' = free - 1
                      \/ c \in Holding /\ Holding' = Holding \ {c} /\ free' = free + 1
          PROVE  PilotInv'
  <2>1. free' + Cardinality(Holding') = free + Cardinality(Holding)
    <3>1. ASSUME NEW c \in Clients, c \notin Holding, Holding' = Holding \cup {c},
                 free' = free - 1
          PROVE  free' + Cardinality(Holding') = free + Cardinality(Holding)
      <4>1. Cardinality(Holding') = Cardinality(Holding) + 1
        BY <1>n, <3>1, FS_AddElement
      <4> QED BY <1>n, <3>1, <4>1
    <3>2. ASSUME NEW c \in Clients, c \in Holding, Holding' = Holding \ {c}, free' = free + 1
          PROVE  free' + Cardinality(Holding') = free + Cardinality(Holding)
      <4>1. Cardinality(Holding') = Cardinality(Holding) - 1
        BY <1>n, <3>2, FS_RemoveElement
      <4> QED BY <1>n, <3>2, <4>1
    <3> QED BY <1>slots, <3>1, <3>2
  <2>2. leaked \subseteq Clients
    BY <1>t DEF PilotServer!TypeOK
  <2> QED BY <1>n, <1>slots, <2>1, <2>2 DEF PilotInv
\* A connection moves between places with a slot, or between places without one.
<1>moves. ASSUME NEW c \in Clients, NEW p \in PilotServer!Places, conn' = [conn EXCEPT ![c] = p],
                 timer' \in [Clients -> {"off", "armed", "fired"}],
                 conn[c] # "closed",
                 UNCHANGED <<free, server, failed, leaked>>,
                 conn[c] \in {"admitted", "reading", "working", "replying", "ending"} <=>
                   p \in {"admitted", "reading", "working", "replying", "ending"}
          PROVE  PilotInv'
  <2>1. PilotServer!TypeOK'
    BY <1>moves, <1>t DEF PilotServer!TypeOK
  <2>2. conn'[c] = p /\ \A d \in Clients \ {c} : conn'[d] = conn[d]
    BY <1>moves, <1>t DEF PilotServer!TypeOK
  <2>3. Holding' = Holding
    BY <1>moves, <2>2 DEF Holding
  <2> QED BY <1>moves, <1>slots, <2>1, <2>2, <2>3
<1>1. CASE UNCHANGED PilotServer!vars
  <2>1. PilotServer!TypeOK' /\ Holding' = Holding
    BY <1>1, <1>t DEF PilotServer!vars, PilotServer!TypeOK, Holding
  <2> QED BY <1>1, <1>slots, <2>1 DEF PilotServer!vars
<1>2. CASE PilotServer!Interrupt
  <2>1. PilotServer!TypeOK' /\ Holding' = Holding
    BY <1>2, <1>t DEF PilotServer!Interrupt, PilotServer!TypeOK, Holding
  <2> QED BY <1>2, <1>slots, <2>1 DEF PilotServer!Interrupt
<1>3. CASE PilotServer!ServerClose
  <2>1. PilotServer!TypeOK'
    BY <1>3, <1>t DEF PilotServer!ServerClose, PilotServer!TypeOK, PilotServer!Places
  <2>2. Holding' = Holding
    BY <1>3 DEF PilotServer!ServerClose, Holding
  <2> QED BY <1>3, <1>slots, <2>1, <2>2 DEF PilotServer!ServerClose
<1>4. ASSUME NEW c \in Clients,
             PilotServer!Connect(c) \/ PilotServer!Spawn(c) \/ PilotServer!Request(c)
               \/ PilotServer!ReadEnds(c) \/ PilotServer!Worked(c) \/ PilotServer!Replied(c)
      PROVE  PilotInv'
  <2>1. timer' \in [Clients -> {"off", "armed", "fired"}]
    BY <1>4, <1>t DEF PilotServer!Connect, PilotServer!Spawn, PilotServer!Request, PilotServer!ReadEnds, PilotServer!Worked,
       PilotServer!Replied, PilotServer!TypeOK
  <2> QED BY <1>4, <1>moves, <2>1
          DEF PilotServer!Connect, PilotServer!Spawn, PilotServer!Request, PilotServer!ReadEnds, PilotServer!Worked,
              PilotServer!Replied, PilotServer!Move, PilotServer!Places
<1>5. ASSUME NEW c \in Clients, PilotServer!Fire(c) PROVE PilotInv'
  <2>1. PilotServer!TypeOK' /\ Holding' = Holding
    BY <1>5, <1>t DEF PilotServer!Fire, PilotServer!TypeOK, Holding
  <2> QED BY <1>5, <1>slots, <2>1 DEF PilotServer!Fire
<1>6. ASSUME NEW c \in Clients, PilotServer!Accept(c) PROVE PilotInv'
  <2>1. CASE free = 0
    <3>1. timer' \in [Clients -> {"off", "armed", "fired"}]
      BY <1>6, <1>t DEF PilotServer!Accept, PilotServer!TypeOK
    <3> QED BY <1>6, <1>moves, <2>1, <3>1 DEF PilotServer!Accept, PilotServer!Move, PilotServer!Places
  <2>2. CASE free # 0
    <3>1. /\ conn[c] = "backlog" /\ conn' = [conn EXCEPT ![c] = "admitted"]
          /\ free' = free - 1 /\ UNCHANGED <<timer, server, failed, leaked>>
      BY <1>6, <2>2 DEF PilotServer!Accept, PilotServer!Move
    <3>2. PilotServer!TypeOK'
      BY <1>t, <1>n, <2>2, <3>1 DEF PilotServer!TypeOK, PilotServer!Places
    <3>3. conn'[c] = "admitted" /\ \A d \in Clients \ {c} : conn'[d] = conn[d]
      BY <1>t, <3>1 DEF PilotServer!TypeOK
    <3>4. c \notin Holding /\ Holding' = Holding \cup {c}
      BY <3>1, <3>3 DEF Holding
    <3> QED BY <1>slots, <3>1, <3>2, <3>3, <3>4
  <2> QED BY <2>1, <2>2
<1>7. ASSUME NEW c \in Clients, PilotServer!SpawnFails(c) \/ PilotServer!End(c) PROVE PilotInv'
  <2>1. /\ conn[c] \in {"admitted", "ending"} /\ conn' = [conn EXCEPT ![c] = "closed"]
        /\ free' = free + 1 /\ UNCHANGED <<server, leaked>>
    BY <1>7 DEF PilotServer!SpawnFails, PilotServer!End, PilotServer!Move
  <2>2. conn'[c] = "closed" /\ \A d \in Clients \ {c} : conn'[d] = conn[d]
    BY <1>t, <2>1 DEF PilotServer!TypeOK
  <2>3. c \in Holding /\ Holding' = Holding \ {c}
    BY <2>1, <2>2 DEF Holding
  <2>4. Cardinality(Holding) >= 1
    BY <1>n, <2>3, FS_EmptySet
  <2>5. free' \in 0 .. ServerSlots
    BY <1>n, <2>1, <2>4
  <2>6. failed' \in 0 .. MaxFailures
    BY <1>7, <1>t, <1>n DEF PilotServer!SpawnFails, PilotServer!End, PilotServer!TypeOK
  <2>7. timer' \in [Clients -> {"off", "armed", "fired"}]
    BY <1>7, <1>t DEF PilotServer!SpawnFails, PilotServer!End, PilotServer!TypeOK
  <2>8. PilotServer!TypeOK'
    BY <1>t, <2>1, <2>5, <2>6, <2>7 DEF PilotServer!TypeOK, PilotServer!Places
  <2> QED BY <1>slots, <2>1, <2>2, <2>3, <2>8
<1>8. ASSUME NEW c \in Clients, PilotServer!TimerFails(c) PROVE PilotInv'
  <2>1. /\ conn[c] = "admitted" /\ conn' = [conn EXCEPT ![c] = "closed"]
        /\ failed < MaxFailures /\ failed' = failed + 1 /\ leaked' = leaked \cup {c}
        /\ UNCHANGED <<timer, free, server>>
    BY <1>8 DEF PilotServer!TimerFails, PilotServer!Move
  <2>2. conn'[c] = "closed" /\ \A d \in Clients \ {c} : conn'[d] = conn[d]
    BY <1>t, <2>1 DEF PilotServer!TypeOK
  <2>3. c \in Holding /\ Holding' = Holding \ {c} /\ c \notin leaked
    BY <1>n, <2>1, <2>2 DEF Holding
  <2>4. Cardinality(Holding') = Cardinality(Holding) - 1
    BY <1>n, <2>3, FS_RemoveElement
  <2>5. Cardinality(leaked') = Cardinality(leaked) + 1
    BY <1>n, <2>1, <2>3, FS_AddElement
  <2>6. PilotServer!TypeOK'
    BY <1>t, <1>n, <2>1 DEF PilotServer!TypeOK, PilotServer!Places
  <2>7. free' + Cardinality(Holding') + Cardinality(leaked') = ServerSlots
    BY <1>n, <2>1, <2>4, <2>5
  <2>8. \A d \in leaked' : conn'[d] = "closed"
    BY <1>n, <1>t, <2>1, <2>2 DEF PilotServer!TypeOK
  <2> QED BY <2>6, <2>7, <2>8 DEF PilotInv
<1> QED BY <1>1, <1>2, <1>3, <1>4, <1>5, <1>6, <1>7, <1>8 DEF PilotServer!Next

LEMMA SlotsAreExact == PilotInstances /\ PilotInv => PilotServer!TypeOK /\ PilotServer!SlotsExact
<1> SUFFICES ASSUME PilotInstances, PilotInv PROVE PilotServer!TypeOK /\ PilotServer!SlotsExact
  OBVIOUS
<1>1. \A S : PilotServer!Cardinality(S) = Cardinality(S)
  BY Zenon DEF PilotServer!Cardinality, Cardinality
<1>2. PilotServer!In(PilotServer!Threaded \cup {"admitted"}) = Holding
  BY DEF PilotServer!In, PilotServer!Threaded, Holding
<1> QED BY <1>1, <1>2 DEF PilotInv, PilotServer!SlotsExact

-----------------------------------------------------------------------------
(* The connections of the TCP server *)

Phases == {"accepting", "stopping", "notifying", "joining", "over"}
Spots == {"waking", "testing", "dozing", "asleep", "counting", "serving", "leaving", "exited"}
Busy == {"counting", "serving", "leaving"}
Tallies == [rejected : Nat, queued : Nat, active : Nat, requests : Nat, answered : Nat]

Occupied == {w \in Workers : worker[w] \in {"serving", "leaving"}}
Waits(c) == \E i \in 1 .. Len(queue) : queue[i] = c
Served(c) == \E w \in Workers : serves[w] = c

TcpShape ==
  /\ mutex \in Workers \cup {"main", None} /\ stopping \in BOOLEAN
  /\ queue \in Seq(Connections) /\ Len(queue) <= QueueLimit
  /\ main \in Phases /\ worker \in [Workers -> Spots]
  /\ serves \in [Workers -> Connections \cup {None}]
  /\ closed \in [Connections -> 0 .. 1] /\ arrived \subseteq Connections
  /\ counters \in Tallies

\* No connection is in two places, and a socket is open exactly while its
\* connection is in one.
Placed ==
  /\ \A i, j \in 1 .. Len(queue) : queue[i] = queue[j] => i = j
  /\ \A v, w \in Workers : serves[v] = serves[w] /\ serves[w] # None => v = w
  /\ \A c \in Connections : ~(Waits(c) /\ Served(c))
  /\ \A c \in Connections : Waits(c) \/ Served(c) => c \in arrived
  /\ \A c \in Connections : closed[c] = 0 <=> c \notin arrived \/ Waits(c) \/ Served(c)
  /\ \A w \in Workers : worker[w] \in {"counting", "serving"} <=> serves[w] # None

Tallied == counters.queued = Len(queue) /\ counters.active = Cardinality(Occupied)

TcpInv == TcpShape /\ Placed /\ Tallied

\* The counters that change together.
LEMMA Tally ==
  ASSUME NEW k \in Tallies, NEW m \in Nat, NEW n \in Nat
  PROVE  /\ [k EXCEPT !.rejected = m, !.queued = n] \in Tallies
         /\ [k EXCEPT !.requests = m, !.answered = n] \in Tallies
<1>1. [k EXCEPT !.rejected = m, !.queued = n] \in Tallies
  BY DEF Tallies
<1>2. [k EXCEPT !.requests = m, !.answered = n] \in Tallies
  BY DEF Tallies
<1> QED BY <1>1, <1>2

LEMMA TcpFinite ==
  ASSUME TcpInstances PROVE IsFiniteSet(Occupied) /\ Cardinality(Occupied) \in Nat
<1>1. Occupied \subseteq Workers
  BY DEF Occupied
<1> QED BY <1>1, FS_Subset, FS_CardinalityType DEF TcpInstances

\* How often a connection is in the queue.
LEMMA Once ==
  ASSUME TcpShape, Placed, NEW c \in Connections
  PROVE  Cardinality({i \in DOMAIN queue : queue[i] = c}) = IF Waits(c) THEN 1 ELSE 0
<1>1. DOMAIN queue = 1 .. Len(queue)
  BY DEF TcpShape
<1>2. CASE Waits(c)
  <2>1. PICK i \in 1 .. Len(queue) : queue[i] = c
    BY <1>2 DEF Waits
  <2>2. {j \in DOMAIN queue : queue[j] = c} = {i}
    BY <1>1, <2>1 DEF Placed
  <2> QED BY <1>2, <2>2, FS_Singleton
<1>3. CASE ~Waits(c)
  <2>1. {j \in DOMAIN queue : queue[j] = c} = {}
    BY <1>1, <1>3 DEF Waits
  <2> QED BY <1>3, <2>1, FS_EmptySet
<1> QED BY <1>2, <1>3

LEMMA InitTcp == TcpInstances /\ Server!Init => TcpInv
<1> SUFFICES ASSUME TcpInstances, Server!Init PROVE TcpInv
  OBVIOUS
<1>1. /\ mutex = None /\ queue = <<>> /\ Len(queue) = 0 /\ stopping = FALSE
      /\ main = "accepting" /\ worker = [w \in Workers |-> "waking"]
      /\ serves = [w \in Workers |-> None] /\ closed = [c \in Connections |-> 0]
      /\ arrived = {}
      /\ counters = [rejected |-> 0, queued |-> 0, active |-> 0, requests |-> 0,
                     answered |-> 0]
  BY DEF Server!Init
<1>2. TcpShape
  <2>1. counters \in Tallies
    BY <1>1 DEF Tallies
  <2>2. queue \in Seq(Connections) /\ Len(queue) <= QueueLimit
    BY <1>1 DEF TcpInstances
  <2>3. /\ worker \in [Workers -> Spots] /\ serves \in [Workers -> Connections \cup {None}]
        /\ closed \in [Connections -> 0 .. 1]
    BY <1>1 DEF Spots
  <2>4. /\ mutex \in Workers \cup {"main", None} /\ stopping \in BOOLEAN
        /\ main \in Phases /\ arrived \subseteq Connections
    BY <1>1, Zenon DEF Phases
  <2> QED BY <2>1, <2>2, <2>3, <2>4 DEF TcpShape
<1>3. /\ \A c \in Connections : ~Waits(c) /\ ~Served(c) /\ closed[c] = 0
      /\ \A w \in Workers : serves[w] = None /\ worker[w] = "waking"
  BY <1>1 DEF TcpInstances, Waits, Served
<1>4. Placed
  BY <1>1, <1>3 DEF Placed
<1>5. Occupied = {}
  BY <1>3 DEF Occupied
<1>6. Tallied
  BY <1>1, <1>5, FS_EmptySet DEF Tallied
<1> QED BY <1>2, <1>4, <1>6 DEF TcpInv

LEMMA NextTcp == TcpInstances /\ TcpInv /\ [Server!Next]_Server!vars => TcpInv'
<1> SUFFICES ASSUME TcpInstances, TcpInv, [Server!Next]_Server!vars PROVE TcpInv'
  OBVIOUS
<1>t. TcpShape /\ Placed /\ Tallied /\ None \notin Connections /\ QueueLimit \in Nat
  BY DEF TcpInv, TcpInstances
<1>k. counters \in Tallies
  BY <1>t DEF TcpShape
\* A step that moves no connection.
<1>still. ASSUME UNCHANGED <<queue, serves, closed, arrived>>,
                 mutex' \in Workers \cup {"main", None}, stopping' \in BOOLEAN,
                 main' \in Phases, worker' \in [Workers -> Spots],
                 \A w \in Workers : \/ worker'[w] = worker[w]
                                    \/ worker'[w] \notin Busy /\ worker[w] \notin Busy,
                 counters' \in Tallies, counters'.queued = counters.queued,
                 counters'.active = counters.active
          PROVE  TcpInv'
  <2>1. /\ \A c : (Waits(c)' <=> Waits(c)) /\ (Served(c)' <=> Served(c))
        /\ Occupied' = Occupied
    BY <1>still DEF Waits, Served, Occupied, Busy
  <2>2. TcpShape'
    BY <1>t, <1>still DEF TcpShape
  <2>3. Placed'
    BY <1>t, <1>still, <2>1 DEF Placed, Busy
  <2>4. Tallied'
    BY <1>t, <1>still, <2>1 DEF Tallied
  <2> QED BY <2>2, <2>3, <2>4 DEF TcpInv
<1>1. CASE UNCHANGED Server!vars
  BY <1>1, <1>still, <1>t DEF Server!vars, TcpShape
<1>2. ASSUME NEW c \in Connections, Server!Accept(c) PROVE TcpInv'
  <2>1. /\ c \notin arrived /\ arrived' = arrived \cup {c} /\ Len(queue) < QueueLimit
        /\ queue' = Append(queue, c) /\ counters' = [counters EXCEPT !.queued = @ + 1]
        /\ UNCHANGED <<mutex, stopping, main, serves, closed>>
    BY <1>2 DEF Server!Accept
  <2>2. /\ worker' \in [Workers -> Spots]
        /\ \A w \in Workers : \/ worker'[w] = worker[w]
                              \/ worker'[w] \notin Busy /\ worker[w] \notin Busy
    BY <1>2, <1>t DEF Server!Accept, TcpShape, Spots, Busy
  <2>3. /\ Len(queue) \in Nat /\ queue' \in Seq(Connections) /\ Len(queue') = Len(queue) + 1
        /\ \A i \in 1 .. Len(queue) : queue'[i] = queue[i]
        /\ queue'[Len(queue) + 1] = c
    BY <1>t, <2>1, AppendProperties DEF TcpShape
  <2>4. \A d : (Waits(d)' <=> Waits(d) \/ d = c) /\ (Served(d)' <=> Served(d))
    BY <2>1, <2>3 DEF Waits, Served
  <2>5. TcpShape'
    <3>1. counters' \in Tallies
      BY <1>k, <2>1 DEF Tallies
    <3> QED BY <1>t, <2>1, <2>2, <2>3, <3>1 DEF TcpShape
  <2>6. ~Waits(c) /\ ~Served(c)
    BY <1>t, <2>1 DEF Placed
  <2>7. \A i, j \in 1 .. Len(queue') : queue'[i] = queue'[j] => i = j
    BY <1>t, <2>3, <2>6 DEF Placed, Waits
  <2>8. Placed'
    BY <1>t, <2>1, <2>2, <2>4, <2>6, <2>7 DEF Placed, Busy
  <2>9. Occupied' = Occupied
    BY <2>2 DEF Occupied, Busy
  <2>10. Tallied'
    BY <1>t, <2>1, <2>3, <2>9 DEF Tallied, TcpShape, Tallies
  <2> QED BY <2>5, <2>8, <2>10 DEF TcpInv
<1>3. ASSUME NEW c \in Connections, Server!Reject(c) PROVE TcpInv'
  <2>1. /\ c \notin arrived /\ arrived' = arrived \cup {c}
        /\ closed' = [closed EXCEPT ![c] = @ + 1]
        /\ counters' = [counters EXCEPT !.rejected = @ + 1]
        /\ UNCHANGED <<mutex, queue, stopping, main, worker, serves>>
    BY <1>3 DEF Server!Reject, Server!Close
  <2>2. ~Waits(c) /\ ~Served(c) /\ closed[c] = 0
    BY <1>t, <2>1 DEF Placed
  <2>3. /\ closed' \in [Connections -> 0 .. 1] /\ closed'[c] = 1
        /\ \A d \in Connections \ {c} : closed'[d] = closed[d]
    BY <1>t, <2>1, <2>2 DEF TcpShape
  <2>4. /\ \A d : (Waits(d)' <=> Waits(d)) /\ (Served(d)' <=> Served(d))
        /\ Occupied' = Occupied
    BY <2>1 DEF Waits, Served, Occupied
  <2>5. /\ counters' \in Tallies /\ counters'.queued = counters.queued
        /\ counters'.active = counters.active
    BY <1>k, <2>1 DEF Tallies
  <2>6. TcpShape'
    BY <1>t, <2>1, <2>3, <2>5 DEF TcpShape
  <2>7. Placed'
    BY <1>t, <2>1, <2>2, <2>3, <2>4 DEF Placed
  <2>8. Tallied'
    BY <1>t, <2>1, <2>4, <2>5 DEF Tallied
  <2> QED BY <2>6, <2>7, <2>8 DEF TcpInv
<1>4. CASE Server!Interrupt \/ Server!NotifyAll \/ Server!Join
  BY <1>4, <1>still, <1>t DEF Server!Interrupt, Server!NotifyAll, Server!Join, TcpShape, Phases,
     Spots, Busy
<1>5. CASE Server!Drain
  <2>0. \A S : Server!Cardinality(S) = Cardinality(S)
    BY Zenon DEF Server!Cardinality, Cardinality
  <2>1. /\ main' = "notifying" /\ queue' = <<>>
        /\ UNCHANGED <<mutex, stopping, worker, serves, arrived>>
        /\ counters' = [counters EXCEPT !.rejected = @ + Len(queue), !.queued = 0]
        /\ closed' = [c \in Connections |->
                        closed[c] + Cardinality({i \in DOMAIN queue : queue[i] = c})]
    BY <1>5, <2>0 DEF Server!Drain
  <2>2. \A c \in Connections : closed'[c] = closed[c] + IF Waits(c) THEN 1 ELSE 0
    BY <1>t, <2>1, Once
  <2>3. \A c \in Connections : Waits(c) => closed[c] = 0
    BY <1>t DEF Placed
  <2>4. \A c \in Connections : closed[c] \in 0 .. 1 /\ closed'[c] \in 0 .. 1
    BY <1>t, <2>2, <2>3 DEF TcpShape
  <2>5. closed' \in [Connections -> 0 .. 1]
    BY <2>1, <2>4
  <2>6. Len(queue) \in Nat /\ Len(queue') = 0 /\ queue' \in Seq(Connections)
    BY <1>t, <2>1 DEF TcpShape
  <2>7. /\ \A d : ~Waits(d)' /\ (Served(d)' <=> Served(d))
        /\ Occupied' = Occupied
    BY <2>1, <2>6 DEF Waits, Served, Occupied
  <2>8. /\ counters' \in Tallies /\ counters'.queued = 0
        /\ counters'.active = counters.active
    <3>1. counters' \in Tallies
      <4>1. counters.rejected + Len(queue) \in Nat
        BY <1>k, <2>6 DEF Tallies
      <4> QED BY <1>k, <2>1, <4>1, Tally
    <3>2. counters'.queued = 0
      BY <1>k, <2>1 DEF Tallies
    <3>3. counters'.active = counters.active
      BY <1>k, <2>1 DEF Tallies
    <3> QED BY <3>1, <3>2, <3>3
  <2>9. TcpShape'
    BY <1>t, <2>1, <2>5, <2>6, <2>8 DEF TcpShape, Phases
  <2>10. \A c \in Connections : closed'[c] = 0 <=> c \notin arrived \/ Served(c)
    BY <1>t, <2>2, <2>4 DEF Placed
  <2>11. Placed'
    BY <1>t, <2>1, <2>6, <2>7, <2>10 DEF Placed
  <2>12. Tallied'
    BY <1>t, <2>6, <2>7, <2>8 DEF Tallied
  <2> QED BY <2>9, <2>11, <2>12 DEF TcpInv
<1>6. ASSUME NEW w \in Workers,
             Server!Lock(w) \/ Server!Exit(w) \/ Server!Doze(w) \/ Server!Sleep(w)
      PROVE  TcpInv'
  BY <1>6, <1>still, <1>t DEF Server!Lock, Server!Exit, Server!Doze, Server!Sleep, TcpShape,
     Spots, Busy
<1>7. ASSUME NEW w \in Workers, Server!Answer(w) PROVE TcpInv'
  <2>1. /\ counters' \in Tallies /\ counters'.queued = counters.queued
        /\ counters'.active = counters.active
    <3>1. counters' = [counters EXCEPT !.requests = @ + 1, !.answered = @ + 1]
      BY <1>7 DEF Server!Answer
    <3>2. counters' \in Tallies
      <4>1. counters.requests + 1 \in Nat /\ counters.answered + 1 \in Nat
        BY <1>k DEF Tallies
      <4> QED BY <1>k, <3>1, <4>1, Tally
    <3>3. counters'.queued = counters.queued
      BY <1>k, <3>1 DEF Tallies
    <3>4. counters'.active = counters.active
      BY <1>k, <3>1 DEF Tallies
    <3> QED BY <3>2, <3>3, <3>4
  <2> QED BY <1>7, <1>still, <1>t, <2>1 DEF Server!Answer, TcpShape
<1>8. ASSUME NEW w \in Workers, Server!Take(w) PROVE TcpInv'
  <2>1. /\ worker[w] = "testing" /\ queue # <<>>
        /\ mutex' = None /\ worker' = [worker EXCEPT ![w] = "counting"]
        /\ serves' = [serves EXCEPT ![w] = Head(queue)] /\ queue' = Tail(queue)
        /\ counters' = [counters EXCEPT !.queued = @ - 1]
        /\ UNCHANGED <<stopping, main, closed, arrived>>
    BY <1>8 DEF Server!Take
  <2>2. /\ Len(queue) \in Nat /\ Len(queue) > 0 /\ queue[1] \in Connections
        /\ Head(queue) = queue[1] /\ queue' \in Seq(Connections)
        /\ Len(queue') = Len(queue) - 1
        /\ \A i \in 1 .. Len(queue') : queue'[i] = queue[i + 1]
    BY <1>t, <2>1, HeadTailProperties DEF TcpShape
  <2>3. /\ serves[w] = None /\ serves'[w] = queue[1] /\ worker'[w] = "counting"
        /\ \A v \in Workers \ {w} : serves'[v] = serves[v] /\ worker'[v] = worker[v]
    BY <1>t, <2>1, <2>2 DEF TcpShape, Placed
  <2>h. PICK c \in Connections : c = queue[1]
    BY <2>2
  <2>4. \A d \in Connections : Waits(d) <=> Waits(d)' \/ d = c
    <3> SUFFICES ASSUME NEW d \in Connections PROVE Waits(d) <=> Waits(d)' \/ d = c
      OBVIOUS
    <3>1. ASSUME NEW i \in 1 .. Len(queue), queue[i] = d PROVE Waits(d)' \/ d = c
      <4>1. i = 1 \/ (i - 1 \in 1 .. Len(queue') /\ queue'[i - 1] = queue[i])
        BY <2>2
      <4> QED BY <2>h, <3>1, <4>1 DEF Waits
    <3>2. ASSUME NEW i \in 1 .. Len(queue'), queue'[i] = d PROVE Waits(d)
      <4>1. i + 1 \in 1 .. Len(queue) /\ queue'[i] = queue[i + 1]
        BY <2>2
      <4> QED BY <3>2, <4>1 DEF Waits
    <3>3. 1 \in 1 .. Len(queue)
      BY <2>2
    <3> QED BY <2>h, <3>1, <3>2, <3>3 DEF Waits
  <2>5. ~Waits(c)'
    BY <1>t, <2>2, <2>h DEF Waits, Placed
  <2>6. \A d \in Connections : Served(d)' <=> Served(d) \/ d = c
    BY <1>t, <2>2, <2>3, <2>h DEF Served
  <2>7. Waits(c) /\ ~Served(c)
    BY <1>t, <2>2, <2>h DEF Placed, Waits
  <2>8. \A i, j \in 1 .. Len(queue') : queue'[i] = queue'[j] => i = j
    BY <1>t, <2>2 DEF Placed
  <2>9. \A u, v \in Workers : serves'[u] = serves'[v] /\ serves'[v] # None => u = v
    BY <1>t, <2>2, <2>3, <2>7, <2>h DEF Placed, Served
  <2>10. \A v \in Workers : worker'[v] \in {"counting", "serving"} <=> serves'[v] # None
    BY <1>t, <2>2, <2>3 DEF Placed
  <2>11. \A d \in Connections : ~(Waits(d)' /\ Served(d)')
    BY <1>t, <2>4, <2>5, <2>6, <2>7 DEF Placed
  <2>12. Placed'
    BY <1>t, <2>1, <2>4, <2>6, <2>8, <2>9, <2>10, <2>11 DEF Placed
  <2>13. /\ counters' \in Tallies /\ counters'.queued = counters.queued - 1
         /\ counters'.active = counters.active
    <3>1. counters.queued - 1 \in Nat
      BY <1>t, <2>2 DEF Tallied
    <3> QED BY <1>k, <2>1, <3>1 DEF Tallies
  <2>14. TcpShape'
    BY <1>t, <2>1, <2>2, <2>13 DEF TcpShape, Spots
  <2>15. Occupied' = Occupied
    BY <2>1, <2>3 DEF Occupied
  <2>16. Tallied'
    BY <1>t, <2>2, <2>13, <2>15 DEF Tallied
  <2> QED BY <2>12, <2>14, <2>16 DEF TcpInv
<1>9. ASSUME NEW w \in Workers, Server!Hangup(w) PROVE TcpInv'
  <2>1. /\ worker[w] = "serving" /\ closed' = [closed EXCEPT ![serves[w]] = @ + 1]
        /\ serves' = [serves EXCEPT ![w] = None] /\ worker' = [worker EXCEPT ![w] = "leaving"]
        /\ UNCHANGED <<mutex, queue, stopping, main, arrived>>
    BY <1>9 DEF Server!Hangup, Server!Close
  <2>2. PICK n \in {0, 1} : counters' = [counters EXCEPT !.requests = @ + n]
    BY <1>9 DEF Server!Hangup
  <2>3. PICK c \in Connections : c = serves[w]
    BY <1>t, <2>1 DEF TcpShape, Placed
  <2>4. Served(c) /\ ~Waits(c) /\ closed[c] = 0 /\ c \in arrived
    BY <1>t, <2>3 DEF Served, Placed
  <2>5. /\ serves'[w] = None /\ worker'[w] = "leaving"
        /\ \A v \in Workers \ {w} : serves'[v] = serves[v] /\ worker'[v] = worker[v]
    BY <1>t, <2>1 DEF TcpShape
  <2>6. /\ closed' \in [Connections -> 0 .. 1] /\ closed'[c] = 1
        /\ \A d \in Connections \ {c} : closed'[d] = closed[d]
    BY <1>t, <2>1, <2>3, <2>4 DEF TcpShape
  <2>7. \A d \in Connections : /\ Waits(d)' <=> Waits(d)
                               /\ Served(d)' <=> Served(d) /\ d # c
    BY <1>t, <2>1, <2>3, <2>5 DEF Waits, Served, Placed
  <2>8. Placed'
    <3>1. /\ \A u, v \in Workers : serves'[u] = serves'[v] /\ serves'[v] # None => u = v
          /\ \A v \in Workers : worker'[v] \in {"counting", "serving"} <=> serves'[v] # None
      BY <1>t, <2>5 DEF Placed
    <3> QED BY <1>t, <2>1, <2>4, <2>6, <2>7, <3>1 DEF Placed
  <2>9. Occupied' = Occupied
    BY <2>1, <2>5 DEF Occupied
  <2>10. /\ counters' \in Tallies /\ counters'.queued = counters.queued
         /\ counters'.active = counters.active
    BY <1>k, <2>2 DEF Tallies
  <2>11. TcpShape'
    BY <1>t, <2>1, <2>6, <2>10 DEF TcpShape, Spots
  <2>12. Tallied'
    BY <1>t, <2>1, <2>9, <2>10 DEF Tallied
  <2> QED BY <2>8, <2>11, <2>12 DEF TcpInv
\* A step of a worker that counts its connection in or out.
<1>counts. ASSUME NEW w \in Workers, NEW spot \in Spots, NEW n \in Nat,
                  worker' = [worker EXCEPT ![w] = spot],
                  \/ spot = "serving" /\ worker[w] = "counting"
                  \/ spot = "waking" /\ worker[w] = "leaving",
                  counters' = [counters EXCEPT !.active = n], n = Cardinality(Occupied'),
                  UNCHANGED <<mutex, queue, stopping, main, serves, closed, arrived>>
           PROVE  TcpInv'
  <2>1. /\ worker'[w] = spot /\ \A v \in Workers \ {w} : worker'[v] = worker[v]
        /\ worker' \in [Workers -> Spots]
    BY <1>counts, <1>t DEF TcpShape
  <2>2. \A c : (Waits(c)' <=> Waits(c)) /\ (Served(c)' <=> Served(c))
    BY <1>counts DEF Waits, Served
  <2>3. /\ counters' \in Tallies /\ counters'.queued = counters.queued
        /\ counters'.active = n
    BY <1>k, <1>counts DEF Tallies
  <2>4. TcpShape'
    BY <1>t, <1>counts, <2>1, <2>3 DEF TcpShape
  <2>5. \A v \in Workers : worker'[v] \in {"counting", "serving"} <=> serves[v] # None
    BY <1>t, <1>counts, <2>1 DEF Placed
  <2>6. Placed'
    BY <1>t, <1>counts, <2>2, <2>5 DEF Placed
  <2>7. Tallied'
    BY <1>t, <1>counts, <2>3 DEF Tallied
  <2> QED BY <2>4, <2>6, <2>7 DEF TcpInv
<1>10. ASSUME NEW w \in Workers, Server!Count(w) PROVE TcpInv'
  <2>1. /\ worker[w] = "counting" /\ worker' = [worker EXCEPT ![w] = "serving"]
        /\ counters' = [counters EXCEPT !.active = @ + 1]
        /\ UNCHANGED <<mutex, queue, stopping, main, serves, closed, arrived>>
    BY <1>10 DEF Server!Count
  <2>2. Occupied' = Occupied \cup {w} /\ w \notin Occupied
    BY <1>t, <2>1 DEF Occupied, TcpShape
  <2>3. /\ Cardinality(Occupied') = Cardinality(Occupied) + 1
        /\ Cardinality(Occupied) \in Nat
    BY <2>2, TcpFinite, FS_AddElement
  <2>4. /\ counters.active + 1 = Cardinality(Occupied') /\ counters.active + 1 \in Nat
        /\ "serving" \in Spots
    BY <1>t, <2>3 DEF Tallied, Spots
  <2> QED BY <1>counts, <2>1, <2>4
<1>11. ASSUME NEW w \in Workers, Server!Uncount(w) PROVE TcpInv'
  <2>1. /\ worker[w] = "leaving" /\ worker' = [worker EXCEPT ![w] = "waking"]
        /\ counters' = [counters EXCEPT !.active = @ - 1]
        /\ UNCHANGED <<mutex, queue, stopping, main, serves, closed, arrived>>
    BY <1>11 DEF Server!Uncount
  <2>2. Occupied' = Occupied \ {w} /\ w \in Occupied
    BY <1>t, <2>1 DEF Occupied, TcpShape
  <2>3. Cardinality(Occupied') = Cardinality(Occupied) - 1
    BY <2>2, TcpFinite, FS_RemoveElement
  <2>4. Cardinality(Occupied) > 0 /\ Cardinality(Occupied) \in Nat
    BY <2>2, TcpFinite, FS_EmptySet
  <2>5. /\ counters.active - 1 = Cardinality(Occupied') /\ counters.active - 1 \in Nat
        /\ "waking" \in Spots
    BY <1>t, <2>3, <2>4 DEF Tallied, Spots
  <2> QED BY <1>counts, <2>1, <2>5
<1> QED BY <1>1, <1>2, <1>3, <1>4, <1>5, <1>6, <1>7, <1>8, <1>9, <1>10, <1>11
        DEF Server!Next, Server!MainStep, Server!Step

LEMMA TcpIsExact == TcpInstances /\ TcpInv => Server!TypeOK /\ Server!ConnectionsExact
<1> SUFFICES ASSUME TcpInstances, TcpInv PROVE Server!TypeOK /\ Server!ConnectionsExact
  OBVIOUS
<1>0. \A S : Server!Cardinality(S) = Cardinality(S)
  BY Zenon DEF Server!Cardinality, Cardinality
<1>1. TcpShape /\ Placed /\ Tallied
  BY DEF TcpInv
<1>2. Server!TypeOK
  BY <1>1 DEF TcpShape, Server!TypeOK, Phases, Spots, Tallies
<1>3. ASSUME NEW c \in arrived
      PROVE  closed[c] + Cardinality({i \in DOMAIN queue : queue[i] = c})
                       + Cardinality({w \in Workers : serves[w] = c}) = 1
  <2>1. c \in Connections /\ closed[c] \in 0 .. 1
    BY <1>1 DEF TcpShape
  <2>2. Cardinality({i \in DOMAIN queue : queue[i] = c}) = IF Waits(c) THEN 1 ELSE 0
    BY <1>1, <2>1, Once
  <2>3. Cardinality({w \in Workers : serves[w] = c}) = IF Served(c) THEN 1 ELSE 0
    <3>1. CASE Served(c)
      <4>1. PICK w \in Workers : serves[w] = c
        BY <3>1 DEF Served
      <4>2. {v \in Workers : serves[v] = c} = {w}
        BY <1>1, <2>1, <4>1 DEF Placed, TcpInstances
      <4> QED BY <3>1, <4>2, FS_Singleton
    <3>2. CASE ~Served(c)
      <4>1. {v \in Workers : serves[v] = c} = {}
        BY <3>2 DEF Served
      <4> QED BY <3>2, <4>1, FS_EmptySet
    <3> QED BY <3>1, <3>2
  <2>4. ~(Waits(c) /\ Served(c)) /\ (closed[c] = 0 <=> Waits(c) \/ Served(c))
    BY <1>1, <2>1 DEF Placed
  <2> HIDE DEF Waits, Served
  <2> QED BY <2>1, <2>2, <2>3, <2>4
<1>4. Occupied = {w \in Workers : worker[w] \in {"serving", "leaving"}}
  BY DEF Occupied
<1> QED BY <1>0, <1>1, <1>2, <1>3, <1>4 DEF Server!ConnectionsExact, Tallied

-----------------------------------------------------------------------------
(* The shard fan-out *)

\* Shards that have not finished the current generation.
Open == {s \in Shards : seen[s] # generation \/ thread[s] \in {"run", "finish"}}

\* While run() is on, job_ is the closure of the current generation, and pending_
\* counts the shards that have not finished it; otherwise every shard has.
Calling == {"notify", "lock", "test", "asleep"}
Ending == {"stopping", "joining", "over"}
Runs ==
  /\ pending = Cardinality(Open)
  /\ task # None => task = generation
  /\ task = None => Open = {}
  /\ task # None <=> caller \in Calling
  /\ halt => caller \in Ending

\* A shard is at the current generation or one behind, and has run the job of
\* every generation up to the one it has seen.
Caught ==
  \A s \in Shards :
    /\ seen[s] = generation \/ seen[s] + 1 = generation
    /\ thread[s] \in {"run", "finish"} =>
         seen[s] = generation /\ doing[s] = generation /\ generation # 0
    /\ \A g \in ShardPool!Gens :
         ran[s][g] = IF g < seen[s] \/ (g = seen[s] /\ thread[s] # "run") THEN 1 ELSE 0

PoolInv == ShardPool!TypeOK /\ Runs /\ Caught

LEMMA InitPool == ShardInstances /\ ShardPool!Init => PoolInv
<1> SUFFICES ASSUME ShardInstances, ShardPool!Init PROVE PoolInv
  OBVIOUS
<1>card. ShardPool!Cardinality(Shards) = Cardinality(Shards)
  BY Zenon DEF ShardPool!Cardinality, Cardinality
<1>1. Cardinality(Shards) \in Nat
  BY FS_CardinalityType DEF ShardInstances
<1>2. ShardPool!TypeOK
  <2>1. 0 \in 0 .. MaxRuns /\ 0 \in 0 .. Cardinality(Shards)
    BY <1>1 DEF ShardInstances
  <2>2. ran \in [Shards -> [ShardPool!Gens -> 0 .. 2]]
    BY DEF ShardPool!Init
  <2>3. /\ thread \in [Shards -> {"lock", "test", "asleep", "run", "finish", "exited"}]
        /\ seen \in [Shards -> 0 .. MaxRuns] /\ doing \in [Shards -> ShardPool!Gens \cup {None}]
    BY <2>1 DEF ShardPool!Init
  <2> QED BY <2>1, <2>2, <2>3, <1>card DEF ShardPool!Init, ShardPool!TypeOK
<1>3. Open = {}
  BY DEF ShardPool!Init, Open
<1>4. Runs
  BY <1>3, FS_EmptySet DEF ShardPool!Init, Runs, Calling
<1>5. Caught
  BY DEF ShardPool!Init, Caught, ShardPool!Gens
<1> QED BY <1>2, <1>4, <1>5 DEF PoolInv

LEMMA NextPool == ShardInstances /\ PoolInv /\ [ShardPool!Next]_ShardPool!vars => PoolInv'
<1> SUFFICES ASSUME ShardInstances, PoolInv, [ShardPool!Next]_ShardPool!vars PROVE PoolInv'
  OBVIOUS
<1>card. ShardPool!Cardinality(Shards) = Cardinality(Shards)
  BY Zenon DEF ShardPool!Cardinality, Cardinality
<1>t. ShardPool!TypeOK
  BY DEF PoolInv
<1>r. Runs
  BY DEF PoolInv
<1>c. Caught
  BY DEF PoolInv
<1>n. /\ IsFiniteSet(Shards) /\ Cardinality(Shards) \in Nat /\ MaxRuns \in Nat
      /\ None \notin Shards /\ None \notin ShardPool!Gens
      /\ ShardPool!Gens = 1 .. MaxRuns /\ generation \in 0 .. MaxRuns
      /\ \A s \in Shards : seen[s] \in 0 .. MaxRuns
  BY <1>t, FS_CardinalityType DEF ShardInstances, ShardPool!Gens, ShardPool!TypeOK
<1>fin. IsFiniteSet(Open)
  BY <1>n, FS_Subset DEF Open
\* Steps that change neither generation, job nor what the shards have seen or run.
<1>quiet. ASSUME UNCHANGED <<generation, pending, task, seen, doing, ran>>,
                 ShardPool!TypeOK',
                 \A s \in Shards : \/ thread'[s] = thread[s]
                                   \/ thread[s] \notin {"run", "finish"}
                                        /\ thread'[s] \notin {"run", "finish"},
                 caller' \in Calling <=> caller \in Calling, halt' => caller' \in Ending
          PROVE  PoolInv'
  <2>1. Open' = Open
    BY <1>quiet DEF Open
  <2>2. Runs'
    BY <1>r, <1>quiet, <2>1 DEF Runs
  <2>3. Caught'
    BY <1>c, <1>quiet DEF Caught
  <2> QED BY <1>quiet, <2>2, <2>3 DEF PoolInv
<1>1. CASE ShardPool!Publish
  <2>1. /\ caller = "idle" /\ generation < MaxRuns
        /\ generation' = generation + 1 /\ task' = generation + 1
        /\ pending' = Cardinality(Shards) /\ caller' = "notify"
        /\ UNCHANGED <<mu, halt, thread, seen, doing, ran>>
    BY <1>1, <1>card DEF ShardPool!Publish
  <2>2. task = None /\ Open = {}
    BY <1>r, <2>1 DEF Runs, Calling
  <2>3. \A s \in Shards : seen[s] = generation /\ thread[s] \notin {"run", "finish"}
    BY <2>2 DEF Open
  <2>4. generation + 1 \in ShardPool!Gens /\ generation + 1 # None
    BY <1>n, <2>1
  <2>5. ShardPool!TypeOK'
    BY <1>t, <1>n, <1>card, <2>1, <2>4 DEF ShardPool!TypeOK
  <2>6. Open' = Shards
    BY <1>n, <2>1, <2>3 DEF Open
  <2>7. ~halt
    BY <1>r, <2>1 DEF Runs, Ending
  <2>8. Runs'
    BY <2>1, <2>4, <2>6, <2>7 DEF Runs, Calling
  <2>9. Caught'
    BY <1>c, <1>n, <2>1, <2>3 DEF Caught
  <2> QED BY <2>5, <2>8, <2>9 DEF PoolInv
<1>2. CASE ShardPool!Notify
  <2>1. ShardPool!TypeOK'
    BY <1>2, <1>t DEF ShardPool!Notify, ShardPool!TypeOK
  <2> QED BY <1>2, <1>r, <1>quiet, <2>1 DEF ShardPool!Notify, Runs, Calling, Ending
<1>3. CASE ShardPool!CallerLock \/ ShardPool!CallerSleep \/ ShardPool!JoinAll
  <2>1. ShardPool!TypeOK'
    BY <1>3, <1>t DEF ShardPool!CallerLock, ShardPool!CallerSleep, ShardPool!JoinAll, ShardPool!TypeOK
  <2> QED BY <1>3, <1>r, <1>quiet, <2>1
          DEF ShardPool!CallerLock, ShardPool!CallerSleep, ShardPool!JoinAll, Runs, Calling, Ending
<1>4. CASE ShardPool!Return
  <2>1. /\ caller = "test" /\ pending = 0 /\ task' = None /\ mu' = None /\ caller' = "idle"
        /\ UNCHANGED <<generation, pending, halt, thread, seen, doing, ran>>
    BY <1>4 DEF ShardPool!Return
  <2>2. ShardPool!TypeOK'
    BY <1>t, <2>1 DEF ShardPool!TypeOK
  <2>3. Open = {} /\ Open' = Open
    BY <1>r, <1>fin, <2>1, FS_EmptySet DEF Runs, Open
  <2>4. Runs'
    BY <1>r, <2>1, <2>3 DEF Runs, Calling, Ending
  <2>5. Caught'
    BY <1>c, <2>1 DEF Caught
  <2> QED BY <2>2, <2>4, <2>5 DEF PoolInv
<1>5. CASE ShardPool!Stop
  <2>1. ShardPool!TypeOK'
    BY <1>5, <1>t DEF ShardPool!Stop, ShardPool!TypeOK
  <2> QED BY <1>5, <1>r, <1>quiet, <2>1 DEF ShardPool!Stop, Runs, Calling, Ending
<1>6. ASSUME NEW s \in Shards, ShardPool!Lock(s) \/ ShardPool!Sleep(s) \/ ShardPool!Exit(s) PROVE PoolInv'
  <2>1. ShardPool!TypeOK'
    BY <1>6, <1>t DEF ShardPool!Lock, ShardPool!Sleep, ShardPool!Exit, ShardPool!TypeOK
  <2>2. /\ UNCHANGED <<generation, pending, task, seen, doing, ran, caller, halt>>
        /\ thread[s] \in {"lock", "test"}
        /\ \E p \in {"test", "asleep", "exited"} : thread' = [thread EXCEPT ![s] = p]
    BY <1>6 DEF ShardPool!Lock, ShardPool!Sleep, ShardPool!Exit
  <2>3. \A u \in Shards : \/ thread'[u] = thread[u]
                          \/ thread[u] \notin {"run", "finish"}
                               /\ thread'[u] \notin {"run", "finish"}
    BY <1>t, <2>2 DEF ShardPool!TypeOK
  <2> QED BY <1>r, <1>quiet, <2>1, <2>2, <2>3 DEF Runs
<1>7. ASSUME NEW s \in Shards, ShardPool!Take(s) PROVE PoolInv'
  <2>1. /\ thread[s] = "test" /\ generation # seen[s]
        /\ seen' = [seen EXCEPT ![s] = generation] /\ doing' = [doing EXCEPT ![s] = task]
        /\ mu' = None /\ thread' = [thread EXCEPT ![s] = "run"]
        /\ UNCHANGED <<generation, pending, task, halt, caller, ran>>
    BY <1>7 DEF ShardPool!Take
  <2>2. /\ seen'[s] = generation /\ doing'[s] = task /\ thread'[s] = "run"
        /\ \A u \in Shards \ {s} :
             seen'[u] = seen[u] /\ doing'[u] = doing[u] /\ thread'[u] = thread[u]
    BY <1>t, <2>1 DEF ShardPool!TypeOK
  <2>3. s \in Open /\ Open' = Open
    BY <2>1, <2>2 DEF Open
  <2>4. task # None /\ task = generation
    BY <1>r, <2>3 DEF Runs
  <2>5. ShardPool!TypeOK'
    BY <1>t, <1>n, <2>1, <2>4 DEF ShardPool!TypeOK
  <2>6. Runs'
    BY <1>r, <2>1, <2>3 DEF Runs
  <2>7. seen[s] + 1 = generation /\ generation # 0
    BY <1>c, <1>n, <2>1 DEF Caught
  <2>8. \A g \in ShardPool!Gens : ran[s][g] = IF g < generation THEN 1 ELSE 0
    BY <1>c, <1>n, <2>1, <2>7 DEF Caught
  <2>9. Caught'
    BY <1>c, <1>n, <2>1, <2>2, <2>4, <2>7, <2>8 DEF Caught
  <2> QED BY <2>5, <2>6, <2>9 DEF PoolInv
<1>8. ASSUME NEW s \in Shards, ShardPool!Run(s) PROVE PoolInv'
  <2>1. /\ thread[s] = "run" /\ thread' = [thread EXCEPT ![s] = "finish"]
        /\ ran' = IF doing[s] = None THEN ran ELSE [ran EXCEPT ![s][doing[s]] = @ + 1]
        /\ UNCHANGED <<mu, generation, pending, task, halt, caller, seen, doing>>
    BY <1>8 DEF ShardPool!Run
  <2>2. seen[s] = generation /\ doing[s] = generation /\ generation \in ShardPool!Gens
    BY <1>c, <1>n, <2>1 DEF Caught
  <2>3. thread'[s] = "finish" /\ \A u \in Shards \ {s} : thread'[u] = thread[u]
    BY <1>t, <2>1 DEF ShardPool!TypeOK
  <2>4. /\ ran'[s] = [ran[s] EXCEPT ![generation] = ran[s][generation] + 1]
        /\ \A u \in Shards \ {s} : ran'[u] = ran[u]
        /\ DOMAIN ran' = Shards
    BY <1>t, <1>n, <2>1, <2>2 DEF ShardPool!TypeOK
  <2>5. /\ ran[s][generation] = 0 /\ ran[s] \in [ShardPool!Gens -> 0 .. 2]
    BY <1>t, <1>c, <1>n, <2>1, <2>2 DEF Caught, ShardPool!TypeOK
  <2>6. ran'[s][generation] = 1 /\ ran'[s] \in [ShardPool!Gens -> 0 .. 2]
        /\ \A g \in ShardPool!Gens : g # generation => ran'[s][g] = ran[s][g]
    BY <2>2, <2>4, <2>5
  <2>7. ran' \in [Shards -> [ShardPool!Gens -> 0 .. 2]]
    <3>1. \A u \in Shards : ran'[u] \in [ShardPool!Gens -> 0 .. 2]
      BY <1>t, <2>4, <2>6 DEF ShardPool!TypeOK
    <3>2. ran' = [u \in Shards |-> ran'[u]]
      BY <1>t, <2>1 DEF ShardPool!TypeOK
    <3> QED BY <3>1, <3>2
  <2>8. ShardPool!TypeOK'
    BY <1>t, <2>1, <2>7 DEF ShardPool!TypeOK
  <2>9. Open' = Open
    BY <2>1, <2>3 DEF Open
  <2>10. Runs'
    BY <1>r, <2>1, <2>9 DEF Runs
  <2>11. Caught'
    <3> SUFFICES ASSUME NEW u \in Shards
                 PROVE  /\ seen[u] = generation \/ seen[u] + 1 = generation
                        /\ thread'[u] \in {"run", "finish"} =>
                             seen[u] = generation /\ doing[u] = generation /\ generation # 0
                        /\ \A g \in ShardPool!Gens : ran'[u][g] =
                             IF g < seen[u] \/ (g = seen[u] /\ thread'[u] # "run") THEN 1 ELSE 0
      BY <2>1 DEF Caught
    <3>1. CASE u # s
      BY <1>c, <2>3, <2>4, <3>1 DEF Caught
    <3>2. CASE u = s
      <4>1. \A g \in ShardPool!Gens : g # generation => ran[s][g] = IF g < generation THEN 1 ELSE 0
        BY <1>c, <2>1, <2>2 DEF Caught
      <4>2. ~(generation < generation) /\ generation # 0
        BY <1>n, <2>2
      <4> QED BY <2>2, <2>3, <2>6, <3>2, <4>1, <4>2
    <3> QED BY <3>1, <3>2
  <2> QED BY <2>8, <2>10, <2>11 DEF PoolInv
<1>9. ASSUME NEW s \in Shards, ShardPool!Finish(s) PROVE PoolInv'
  <2>1. /\ thread[s] = "finish" /\ pending' = pending - 1
        /\ caller' = IF pending' = 0 /\ caller = "asleep" THEN "lock" ELSE caller
        /\ doing' = [doing EXCEPT ![s] = None] /\ thread' = [thread EXCEPT ![s] = "lock"]
        /\ UNCHANGED <<mu, generation, task, halt, seen, ran>>
    BY <1>9 DEF ShardPool!Finish
  <2>2. /\ doing'[s] = None /\ thread'[s] = "lock"
        /\ \A u \in Shards \ {s} : doing'[u] = doing[u] /\ thread'[u] = thread[u]
    BY <1>t, <2>1 DEF ShardPool!TypeOK
  <2>3. s \in Open /\ seen[s] = generation
    BY <1>c, <2>1 DEF Open, Caught
  <2>4. Open' = Open \ {s}
    BY <2>1, <2>2, <2>3 DEF Open
  <2>5. Cardinality(Open') = Cardinality(Open) - 1 /\ Cardinality(Open') \in Nat
    BY <1>fin, <2>3, <2>4, FS_RemoveElement, FS_CardinalityType
  <2>6. pending' = Cardinality(Open') /\ pending' \in Nat
    BY <1>r, <2>1, <2>5 DEF Runs
  <2>7. ShardPool!TypeOK'
    BY <1>t, <1>n, <1>card, <2>1, <2>6 DEF ShardPool!TypeOK
  <2>8. Runs'
    BY <1>r, <2>1, <2>3, <2>4, <2>6 DEF Runs, Calling, Ending
  <2>9. Caught'
    BY <1>c, <2>1, <2>2 DEF Caught
  <2> QED BY <2>7, <2>8, <2>9 DEF PoolInv
<1>10. CASE UNCHANGED ShardPool!vars
  <2>1. ShardPool!TypeOK' /\ Open' = Open
    BY <1>10, <1>t DEF ShardPool!vars, ShardPool!TypeOK, Open
  <2>2. Runs' /\ Caught'
    BY <1>10, <1>r, <1>c, <2>1 DEF ShardPool!vars, Runs, Caught
  <2> QED BY <2>1, <2>2 DEF PoolInv
<1> QED BY <1>1, <1>2, <1>3, <1>4, <1>5, <1>6, <1>7, <1>8, <1>9, <1>10
        DEF ShardPool!Next, ShardPool!CallerSteps, ShardPool!ThreadSteps

LEMMA PoolIsExact == ShardInstances /\ PoolInv => ShardPool!TypeOK /\ ShardPool!EachShardOnce
<1> SUFFICES ASSUME ShardInstances, PoolInv PROVE ShardPool!TypeOK /\ ShardPool!EachShardOnce
  OBVIOUS
<1>1. ShardPool!TypeOK /\ Runs /\ Caught
  BY DEF PoolInv
<1>2. ASSUME NEW s \in Shards, thread[s] = "run" PROVE doing[s] # None /\ doing[s] = task
  <2>1. s \in Open /\ doing[s] = generation
    BY <1>1, <1>2 DEF Open, Caught
  <2>2. task # None /\ task = generation
    BY <1>1, <2>1 DEF Runs
  <2> QED BY <2>1, <2>2
<1>3. ASSUME NEW s \in Shards, NEW g \in ShardPool!Gens
      PROVE  /\ ran[s][g] <= 1
             /\ g < generation \/ (g = generation /\ task = None) => ran[s][g] = 1
  <2>1. ran[s][g] = IF g < seen[s] \/ (g = seen[s] /\ thread[s] # "run") THEN 1 ELSE 0
    BY <1>1 DEF Caught
  <2>2. /\ g \in Nat /\ generation \in Nat /\ seen[s] \in Nat
        /\ seen[s] = generation \/ seen[s] + 1 = generation
        /\ thread[s] = "run" => seen[s] = generation
    BY <1>1 DEF Caught, ShardPool!TypeOK, ShardPool!Gens, ShardInstances
  <2>3. task = None => seen[s] = generation /\ thread[s] # "run"
    BY <1>1 DEF Runs, Open
  <2> QED BY <2>1, <2>2, <2>3
<1> QED BY <1>1, <1>2, <1>3 DEF ShardPool!EachShardOnce

-----------------------------------------------------------------------------
(* The deployment of the colours *)

\* A bundle is never taken back to partial or absent once it is written, and the
\* role, the revision and the grants are never taken away.
Written == {b \in Bundles : bundle[b] \in {"whole", "damaged"}}
Grounded ==
  /\ \A c \in Colours : /\ retrieval[c] # None => retrieval[c].model \in Written
                        /\ api[c] # None => api[c].model \in Written
  /\ \A c \in Colours : api[c] # None /\ api[c].phase = "up" => Deploy!Usable
Unmixed == \A x \in answers : x.api = x.from

DeployInv == Deploy!TypeOK /\ Grounded /\ Unmixed

LEMMA InitDeploy == DeployInstances /\ Deploy!Init => DeployInv
<1> SUFFICES ASSUME DeployInstances, Deploy!Init PROVE DeployInv
  OBVIOUS
<1>1. Deploy!TypeOK
  <2>1. /\ bundle \in [Bundles -> {"absent", "partial", "whole", "damaged"}]
        /\ retrieval \in [Colours -> Deploy!Servers \cup {None}]
        /\ api \in [Colours -> Deploy!Apis \cup {None}]
    BY DEF Deploy!Init
  <2>2. grants \in 0 .. 4 /\ faults \in 0 .. MaxFaults
    BY DEF Deploy!Init, DeployInstances
  <2>3. role \in BOOLEAN /\ revision \in BOOLEAN
    BY DEF Deploy!Init
  <2> QED BY <2>1, <2>2, <2>3 DEF Deploy!Init, Deploy!TypeOK
<1>2. Grounded /\ Unmixed
  BY DEF Deploy!Init, Grounded, Unmixed
<1> QED BY <1>1, <1>2 DEF DeployInv

LEMMA NextDeploy == DeployInstances /\ DeployInv /\ [Deploy!Next]_Deploy!vars => DeployInv'
<1> SUFFICES ASSUME DeployInstances, DeployInv, [Deploy!Next]_Deploy!vars PROVE DeployInv'
  OBVIOUS
<1>t. Deploy!TypeOK
  BY DEF DeployInv
<1>g. Grounded /\ Unmixed
  BY DEF DeployInv
<1>n. None \notin Deploy!Servers /\ None \notin Deploy!Apis /\ MaxFaults \in Nat
  BY DEF DeployInstances
<1>s. \A c \in Colours : retrieval[c] # None =>
        retrieval[c] \in Deploy!Servers /\ retrieval[c].model \in Bundles
  BY <1>t DEF Deploy!TypeOK, Deploy!Servers
<1>a. \A c \in Colours : api[c] # None =>
        /\ api[c] \in Deploy!Apis /\ api[c].model \in Bundles /\ api[c].peer \in Addresses
        /\ api[c].phase \in {"starting", "up"} /\ api[c].private \in BOOLEAN
  BY <1>t DEF Deploy!TypeOK, Deploy!Apis
\* Steps of the bundles: what is written stays so.
<1>1. ASSUME NEW b \in Bundles,
             Deploy!MakeDirectory(b) \/ Deploy!WriteManifest(b) \/ Deploy!Damage(b)
      PROVE  DeployInv'
  <2>1. \E s \in {"partial", "whole", "damaged"} :
          /\ bundle' = [bundle EXCEPT ![b] = s]
          /\ bundle[b] \in {"whole", "damaged"} => s = "damaged"
    BY <1>1 DEF Deploy!MakeDirectory, Deploy!WriteManifest, Deploy!Damage
  <2>2. /\ faults' = faults \/ (faults < MaxFaults /\ faults' = faults + 1)
        /\ UNCHANGED <<role, revision, grants, job, retrieval, api, answers>>
    BY <1>1 DEF Deploy!MakeDirectory, Deploy!WriteManifest, Deploy!Damage, Deploy!Fault
  <2>3. bundle' \in [Bundles -> {"absent", "partial", "whole", "damaged"}]
    BY <1>t, <2>1 DEF Deploy!TypeOK
  <2>4. faults' \in 0 .. MaxFaults
    BY <1>t, <1>n, <2>2 DEF Deploy!TypeOK
  <2>5. Deploy!TypeOK'
    BY <1>t, <2>2, <2>3, <2>4 DEF Deploy!TypeOK
  <2>6. \A d \in Written : d \in Written'
    BY <1>t, <2>1 DEF Deploy!TypeOK, Written
  <2>7. Grounded' /\ Unmixed'
    BY <1>g, <2>2, <2>6 DEF Grounded, Unmixed, Deploy!Usable
  <2> QED BY <2>5, <2>7 DEF DeployInv
\* Steps of migrate(): it only adds.
<1>2. CASE Deploy!MigrateStart \/ Deploy!CreateRole \/ Deploy!Upgrade \/ Deploy!Grant
             \/ Deploy!MigrateFails
  <2>1. UNCHANGED <<bundle, retrieval, api, answers>>
    BY <1>2 DEF Deploy!MigrateStart, Deploy!CreateRole, Deploy!Upgrade, Deploy!Grant,
       Deploy!MigrateFails
  <2>2. /\ job' \in {"down", "role", "upgrade", "grant", "complete"}
        /\ role' = role \/ role' = TRUE
        /\ revision' = revision \/ revision' = TRUE
        /\ grants' = grants \/ grants' = IF grants < 4 THEN grants + 1 ELSE grants
        /\ faults' = faults \/ (faults < MaxFaults /\ faults' = faults + 1)
    BY <1>2, <1>t DEF Deploy!MigrateStart, Deploy!CreateRole, Deploy!Upgrade, Deploy!Grant,
       Deploy!MigrateFails, Deploy!Step, Deploy!Fault, Deploy!TypeOK
  <2>3. /\ grants' \in 0 .. 4 /\ grants' >= grants /\ faults' \in 0 .. MaxFaults
    BY <1>t, <1>n, <2>2 DEF Deploy!TypeOK
  <2>4. Deploy!TypeOK'
    BY <1>t, <2>1, <2>2, <2>3 DEF Deploy!TypeOK
  <2>5. Deploy!Usable => Deploy!Usable'
    <3>1. role /\ revision => role' /\ revision'
      BY <2>2
    <3>2. grants >= 2 => grants' >= 2
      BY <1>t, <2>3 DEF Deploy!TypeOK
    <3> QED BY <3>1, <3>2 DEF Deploy!Usable
  <2>6. Grounded' /\ Unmixed'
    BY <1>g, <2>1, <2>5 DEF Grounded, Unmixed, Written
  <2> QED BY <2>4, <2>6 DEF DeployInv
\* Steps of a retrieval server.
<1>3. ASSUME NEW c \in Colours, NEW v \in Deploy!Servers \cup {None},
             v # None => v.model \in Written,
             retrieval' = [retrieval EXCEPT ![c] = v],
             UNCHANGED <<bundle, role, revision, grants, job, api, faults, answers>>
      PROVE  DeployInv'
  <2>1. Deploy!TypeOK'
    BY <1>t, <1>3 DEF Deploy!TypeOK
  <2>2. \A d \in Colours : retrieval'[d] = IF d = c THEN v ELSE retrieval[d]
    BY <1>t, <1>3 DEF Deploy!TypeOK
  <2>3. Grounded' /\ Unmixed'
    BY <1>g, <1>3, <2>2 DEF Grounded, Unmixed, Written, Deploy!Usable
  <2> QED BY <2>1, <2>3 DEF DeployInv
<1>4. ASSUME NEW c \in Colours, NEW b \in Bundles, NEW x \in Addresses,
             Deploy!StartRetrieval(c, b, x)
      PROVE  DeployInv'
  <2>1. /\ b \in Written
        /\ retrieval' = [retrieval EXCEPT ![c] = [model |-> b, address |-> x]]
        /\ UNCHANGED <<bundle, role, revision, grants, job, api, faults, answers>>
    BY <1>4 DEF Deploy!StartRetrieval, Deploy!Verified, Written
  <2>2. [model |-> b, address |-> x] \in Deploy!Servers
    BY DEF Deploy!Servers
  <2> QED BY <1>3, <2>1, <2>2
<1>5. ASSUME NEW c \in Colours, Deploy!StopRetrieval(c) PROVE DeployInv'
  BY <1>3, <1>5 DEF Deploy!StopRetrieval
\* Steps of an API.
<1>6. ASSUME NEW c \in Colours, NEW v \in Deploy!Apis \cup {None},
             v # None => v.model \in Written /\ (v.phase = "up" => Deploy!Usable),
             api' = [api EXCEPT ![c] = v],
             UNCHANGED <<bundle, role, revision, grants, job, retrieval, faults, answers>>
      PROVE  DeployInv'
  <2>1. Deploy!TypeOK'
    BY <1>t, <1>6 DEF Deploy!TypeOK
  <2>2. \A d \in Colours : api'[d] = IF d = c THEN v ELSE api[d]
    BY <1>t, <1>6 DEF Deploy!TypeOK
  <2>3. Grounded' /\ Unmixed'
    BY <1>g, <1>6, <2>2 DEF Grounded, Unmixed, Written, Deploy!Usable
  <2> QED BY <2>1, <2>3 DEF DeployInv
<1>7. ASSUME NEW c \in Colours, NEW b \in Bundles, Deploy!StartApi(c, b) PROVE DeployInv'
  <2> DEFINE v == [phase |-> "starting", model |-> b, peer |-> retrieval[c].address,
                   private |-> FALSE]
  <2>1. /\ b \in Written /\ retrieval[c] # None /\ api' = [api EXCEPT ![c] = v]
        /\ UNCHANGED <<bundle, role, revision, grants, job, retrieval, faults, answers>>
    BY <1>7 DEF Deploy!StartApi, Deploy!Verified, Written
  <2>2. retrieval[c].address \in Addresses
    BY <1>s, <2>1 DEF Deploy!Servers
  <2>3. v \in Deploy!Apis /\ v.model = b /\ v.phase = "starting"
    BY <2>2 DEF Deploy!Apis
  <2> HIDE DEF v
  <2> QED BY <1>6, <2>1, <2>3
<1>8. ASSUME NEW c \in Colours, Deploy!Lifespan(c) PROVE DeployInv'
  <2>1. /\ api[c] # None
        /\ UNCHANGED <<bundle, role, revision, grants, job, retrieval, faults, answers>>
    BY <1>8 DEF Deploy!Lifespan
  <2>2. CASE api' = [api EXCEPT ![c] = None]
    BY <1>6, <2>1, <2>2
  <2>3. CASE Deploy!Usable
             /\ api' = [api EXCEPT ![c] = [@ EXCEPT !.phase = "up", !.private = TRUE]]
    <3> DEFINE v == [api[c] EXCEPT !.phase = "up", !.private = TRUE]
    <3>1. api' = [api EXCEPT ![c] = v]
      BY <2>3
    <3>2. v \in Deploy!Apis /\ v.model = api[c].model
      BY <1>a, <2>1 DEF Deploy!Apis
    <3>3. v.model \in Written
      BY <1>g, <2>1, <3>2 DEF Grounded
    <3> HIDE DEF v
    <3> QED BY <1>6, <2>1, <2>3, <3>1, <3>2, <3>3
  <2> QED BY <1>8, <2>2, <2>3 DEF Deploy!Lifespan
<1>9. ASSUME NEW c \in Colours, Deploy!Maintenance(c) PROVE DeployInv'
  <2>1. /\ api[c] # None /\ api[c].phase = "up"
        /\ UNCHANGED <<bundle, role, revision, grants, job, retrieval, faults, answers>>
    BY <1>9 DEF Deploy!Maintenance
  <2>2. PICK done \in BOOLEAN : api' = [api EXCEPT ![c].private = done]
    BY <1>9 DEF Deploy!Maintenance
  <2> DEFINE v == [api[c] EXCEPT !.private = done]
  <2>3. api' = [api EXCEPT ![c] = v]
    BY <2>2
  <2>4. v \in Deploy!Apis /\ v.model = api[c].model
    BY <1>a, <2>1 DEF Deploy!Apis
  <2>5. v.model \in Written /\ Deploy!Usable
    BY <1>g, <2>1, <2>4 DEF Grounded
  <2> HIDE DEF v
  <2> QED BY <1>6, <2>1, <2>3, <2>4, <2>5
<1>10. ASSUME NEW c \in Colours, Deploy!StopApi(c) PROVE DeployInv'
  BY <1>6, <1>10 DEF Deploy!StopApi
<1>11. ASSUME NEW c \in Colours, Deploy!Recommend(c) PROVE DeployInv'
  <2>1. PICK d \in Deploy!Peers(c) :
          /\ api[c].model = retrieval[d].model
          /\ answers' = answers \cup {[api |-> api[c].model, from |-> retrieval[d].model]}
    BY <1>11 DEF Deploy!Recommend, Deploy!Accepted
  <2>2. /\ api[c] # None /\ d \in Colours /\ retrieval[d] # None
        /\ UNCHANGED <<bundle, role, revision, grants, job, retrieval, api, faults>>
    BY <1>11 DEF Deploy!Recommend, Deploy!Peers
  <2>3. Deploy!TypeOK'
    BY <1>t, <1>a, <1>s, <2>1, <2>2 DEF Deploy!TypeOK
  <2>4. Unmixed'
    BY <1>g, <2>1 DEF Unmixed
  <2>5. Grounded'
    BY <1>g, <2>2 DEF Grounded, Written, Deploy!Usable
  <2> QED BY <2>3, <2>4, <2>5 DEF DeployInv
<1>12. CASE UNCHANGED Deploy!vars
  BY <1>12, <1>t, <1>g DEF Deploy!vars, Deploy!TypeOK, Grounded, Unmixed, Written, Deploy!Usable,
     DeployInv
<1> QED BY <1>1, <1>2, <1>4, <1>5, <1>7, <1>8, <1>9, <1>10, <1>11, <1>12 DEF Deploy!Next

LEMMA DeployIsGrounded ==
  DeployInstances /\ DeployInv => Deploy!TypeOK /\ Deploy!ServingIsGrounded /\ Deploy!NoMixing
<1> SUFFICES ASSUME DeployInv
             PROVE  Deploy!TypeOK /\ Deploy!ServingIsGrounded /\ Deploy!NoMixing
  OBVIOUS
<1>1. Deploy!ServingIsGrounded
  BY DEF DeployInv, Deploy!ServingIsGrounded, Grounded, Written
<1>2. ASSUME NEW c \in Colours, Deploy!Ready(c)
      PROVE  \E d \in Deploy!Peers(c) : retrieval[d].model = api[c].model
  BY <1>2 DEF Deploy!Ready, Deploy!Accepted
<1> QED BY <1>1, <1>2 DEF DeployInv, Deploy!NoMixing, Unmixed

-----------------------------------------------------------------------------
(* The retrieval client *)

Waiting == {"connecting", "sending", "header", "body"}
Tried == IF client = "app" THEN Resolved ELSE 1

\* What the first q queries may take: each its own timeout and that of its send.
Span(q) == 2 * q * QueryTimeout

\* The application's deadline is that of recommend().  The pilot's is at most a
\* timeout ahead, and each query has begun within the time of those before it.
Clocks ==
  /\ now \in Nat /\ deadline \in Nat /\ until \in Nat
  /\ deadline <= now + QueryTimeout
  /\ client = "app" => deadline = QueryTimeout /\ until <= deadline /\ now <= deadline
  /\ client = "pilot" => /\ until <= deadline + QueryTimeout /\ now <= deadline + QueryTimeout
                         /\ deadline <= Span(query - 1) + QueryTimeout
                         /\ phase = "query" => now <= Span(query - 1)
  /\ phase \in Waiting => now <= until /\ deadline <= until
  /\ phase \in Waiting \ {"sending"} => until = deadline

Frames ==
  /\ client \in {"app", "pilot"}
  /\ phase \in {"query", "dial", "over"} \cup Waiting
  /\ address \in 1 .. Resolved + 1 /\ (phase = "connecting" => address <= Tried)
  /\ got \in Nat /\ got < Parts /\ query \in 1 .. MaxQueries
  /\ flaw \in Retrieval!HeaderFlaws \cup Retrieval!BodyFlaws \cup {Retrieval!RowFlaw, "none"}
  /\ phase = "body" => flaw \notin Retrieval!HeaderFlaws

Labels ==
  /\ error \in {"none", "connection", "timeout"} /\ outcome \in Retrieval!Outcomes
  /\ error = "timeout" => Retrieval!Expired
  /\ phase # "over" => outcome \in {"none", "success"} /\ ~degraded
  /\ degraded \in BOOLEAN /\ kept \subseteq 1 .. MaxQueries
  /\ client = "app" => kept = {} \/ \E q \in 1 .. MaxQueries : kept = {q}
  /\ Retrieval!OutcomeHonest
  /\ phase = "over" =>
       /\ degraded <=> (outcome # "success" \/ flaw = Retrieval!RowFlaw)
       /\ IF degraded THEN kept = {} ELSE query \in kept

RetrievalInv == Clocks /\ Frames /\ Labels

LEMMA Spans ==
  ASSUME RetrievalInstances, NEW q \in 1 .. MaxQueries
  PROVE  /\ Span(q) \in Nat /\ Span(q - 1) \in Nat
         /\ Span(q) = Span(q - 1) + 2 * QueryTimeout
         /\ Span(q) <= Span(MaxQueries)
<1>1. QueryTimeout \in Nat /\ MaxQueries \in Nat /\ q \in Nat /\ q - 1 \in Nat /\ q <= MaxQueries
  BY DEF RetrievalInstances
<1>2. q * QueryTimeout \in Nat /\ (q - 1) * QueryTimeout \in Nat /\ MaxQueries * QueryTimeout \in Nat
  BY <1>1
<1>3. q * QueryTimeout = (q - 1) * QueryTimeout + QueryTimeout
  BY <1>1
<1>4. MaxQueries * QueryTimeout = q * QueryTimeout + (MaxQueries - q) * QueryTimeout
  BY <1>1
<1>5. (MaxQueries - q) * QueryTimeout \in Nat
  BY <1>1
<1>6. /\ Span(q) = 2 * (q * QueryTimeout) /\ Span(q - 1) = 2 * ((q - 1) * QueryTimeout)
      /\ Span(MaxQueries) = 2 * (MaxQueries * QueryTimeout)
  BY <1>1 DEF Span
<1> QED BY <1>1, <1>2, <1>3, <1>4, <1>5, <1>6

LEMMA InitRetrieval == RetrievalInstances /\ Retrieval!Init => RetrievalInv
<1> SUFFICES ASSUME RetrievalInstances, Retrieval!Init PROVE RetrievalInv
  OBVIOUS
<1>1. 1 \in 1 .. MaxQueries
  BY DEF RetrievalInstances
<1>2. Span(1 - 1) \in Nat
  BY <1>1, Spans
<1>3. Clocks
  BY <1>2 DEF Retrieval!Init, Clocks, Waiting, RetrievalInstances
<1>4. Frames
  BY <1>1 DEF Retrieval!Init, Frames, Waiting, RetrievalInstances
<1>5. Labels
  BY DEF Retrieval!Init, Labels, Retrieval!OutcomeHonest, Retrieval!Outcomes
<1> QED BY <1>3, <1>4, <1>5 DEF RetrievalInv

\* A query raises with a label that is true of it.
LEMMA Raised ==
  ASSUME RetrievalInstances, RetrievalInv,
         NEW label \in {"timeout", "connection", "protocol", "success"}, Retrieval!Raise(label),
         label = "timeout" => Retrieval!Expired,
         label = "protocol" => flaw # "none",
         label = "success" => flaw = Retrieval!RowFlaw /\ client = "app" /\ got + 1 = Parts
  PROVE  RetrievalInv'
<1>1. /\ phase' = "over" /\ outcome' = label /\ kept' = {} /\ degraded' = TRUE
      /\ UNCHANGED <<client, now, deadline, until, address, error, got, flaw, query>>
  BY DEF Retrieval!Raise
<1>2. Clocks /\ Frames /\ Labels
  BY DEF RetrievalInv
<1>3. Clocks'
  BY <1>1, <1>2 DEF Clocks, Waiting
<1>4. Frames'
  BY <1>1, <1>2 DEF Frames, Waiting, Tried
<1>5. Retrieval!OutcomeHonest'
  BY <1>1 DEF Retrieval!OutcomeHonest, Retrieval!Expired
<1>6. Labels'
  BY <1>1, <1>2, <1>5 DEF Labels, Retrieval!Expired, Retrieval!Outcomes
<1> QED BY <1>3, <1>4, <1>6 DEF RetrievalInv

\* The steps on the way, which decide nothing.
LEMMA OnTheWay ==
  ASSUME RetrievalInstances, RetrievalInv, phase # "over", phase' # "over", Clocks', Frames',
         UNCHANGED <<client, query, outcome, kept, degraded>>,
         error' \in {"none", "connection", "timeout"},
         error' = "timeout" => Retrieval!Expired'
  PROVE  RetrievalInv'
<1>1. Labels
  BY DEF RetrievalInv
<1>2. Retrieval!OutcomeHonest'
  BY <1>1 DEF Labels, Retrieval!OutcomeHonest
<1>3. Labels'
  BY <1>1, <1>2 DEF Labels
<1> QED BY <1>3 DEF RetrievalInv

LEMMA NextRetrieval ==
  RetrievalInstances /\ RetrievalInv /\ [Retrieval!Next]_Retrieval!vars => RetrievalInv'
<1> SUFFICES ASSUME RetrievalInstances, RetrievalInv, [Retrieval!Next]_Retrieval!vars
             PROVE  RetrievalInv'
  OBVIOUS
<1>c. Clocks
  BY DEF RetrievalInv
<1>f. Frames
  BY DEF RetrievalInv
<1>l. Labels
  BY DEF RetrievalInv
<1>n. /\ QueryTimeout \in Nat /\ Resolved \in Nat /\ Resolved >= 1 /\ Parts \in Nat /\ Parts >= 1
      /\ query \in 1 .. MaxQueries /\ Span(query) \in Nat /\ Span(query - 1) \in Nat
      /\ Span(query) = Span(query - 1) + 2 * QueryTimeout
  BY <1>f, Spans DEF RetrievalInstances, Frames
<1> HIDE DEF Span
\* A raise for the reasons there are.
<1>expired. ASSUME Retrieval!Expired, Retrieval!Raise("timeout") PROVE RetrievalInv'
  BY <1>expired, Raised
<1>1. CASE Retrieval!Tick
  <2>1. /\ phase \in Waiting /\ now < until /\ now' = now + 1
        /\ UNCHANGED <<client, deadline, until, phase, address, error, got, flaw, query,
                       outcome, kept, degraded>>
    BY <1>1 DEF Retrieval!Tick, Waiting
  <2>2. Clocks'
    BY <1>c, <1>f, <1>n, <2>1 DEF Clocks, Frames, Waiting
  <2>3. Frames'
    BY <1>f, <2>1 DEF Frames, Tried
  <2>4. error' = "timeout" => Retrieval!Expired'
    BY <1>l, <1>c, <2>1 DEF Labels, Clocks, Retrieval!Expired
  <2>5. phase # "over" /\ phase' # "over"
    BY <2>1 DEF Waiting
  <2> QED BY <1>l, <2>1, <2>2, <2>3, <2>4, <2>5, OnTheWay DEF Labels
<1>2. CASE Retrieval!Begin
  <2>1. CASE client = "app" /\ Retrieval!Expired /\ Retrieval!Raise("timeout")
    BY <1>expired, <2>1
  <2>2. CASE /\ phase = "query" /\ phase' = "dial" /\ address' = 1 /\ error' = "connection"
             /\ deadline' = IF client = "app" THEN deadline ELSE now + QueryTimeout
             /\ UNCHANGED <<client, now, until, got, flaw, query, outcome, kept, degraded>>
    <3>1. Clocks'
      BY <1>c, <1>f, <1>n, <2>2 DEF Clocks, Frames, Waiting
    <3>2. Frames'
      BY <1>f, <1>n, <2>2 DEF Frames, Waiting
    <3> QED BY <2>2, <3>1, <3>2, OnTheWay
  <2> QED BY <1>2, <2>1, <2>2 DEF Retrieval!Begin
<1>3. CASE Retrieval!Dial
  <2>1. phase = "dial" /\ Retrieval!Dial
    BY <1>3 DEF Retrieval!Dial
  <2>2. CASE Retrieval!Raise(error)
    <3>1. CASE error = "none"
      \* error is set before the first address is tried.
      <4>1. /\ phase' = "over" /\ outcome' = "none" /\ kept' = {} /\ degraded' = TRUE
            /\ UNCHANGED <<client, now, deadline, until, address, error, got, flaw, query>>
        BY <2>2, <3>1 DEF Retrieval!Raise
      <4>2. Clocks' /\ Frames'
        BY <1>c, <1>f, <4>1 DEF Clocks, Frames, Waiting, Tried
      <4>3. Labels'
        BY <1>l, <4>1 DEF Labels, Retrieval!OutcomeHonest, Retrieval!Outcomes, Retrieval!Expired
      <4> QED BY <4>2, <4>3 DEF RetrievalInv
    <3>2. CASE error # "none"
      BY <1>l, <2>2, <3>2, Raised DEF Labels
    <3> QED BY <3>1, <3>2
  <2>3. CASE Retrieval!Expired /\ Retrieval!Raise("timeout")
    BY <1>expired, <2>3
  <2>4. CASE /\ address <= Tried /\ ~Retrieval!Expired
             /\ Retrieval!Await("connecting") /\ UNCHANGED <<address, error, got, flaw>>
    <3>1. /\ phase' = "connecting" /\ until' = deadline
          /\ UNCHANGED <<client, now, deadline, query, outcome, kept, degraded, address, error,
                         got, flaw>>
      BY <2>4 DEF Retrieval!Await
    <3>2. Clocks'
      BY <1>c, <1>n, <2>1, <2>4, <3>1 DEF Clocks, Waiting, Retrieval!Expired
    <3>3. Frames'
      BY <1>f, <2>4, <3>1 DEF Frames, Waiting, Tried
    <3> QED BY <1>l, <2>1, <3>1, <3>2, <3>3, OnTheWay DEF Labels, Retrieval!Expired
  <2>5. address \in Nat /\ Tried \in Nat
    BY <1>f, <1>n DEF Frames, Tried
  <2>6. \/ Retrieval!Raise(error) \/ (Retrieval!Expired /\ Retrieval!Raise("timeout"))
        \/ /\ address <= Tried /\ ~Retrieval!Expired
           /\ Retrieval!Await("connecting") /\ UNCHANGED <<address, error, got, flaw>>
    <3>0. IF address > Tried THEN Retrieval!Raise(error)
          ELSE IF Retrieval!Expired THEN Retrieval!Raise("timeout")
          ELSE Retrieval!Await("connecting") /\ UNCHANGED <<address, error, got, flaw>>
      BY <2>1, Zenon DEF Retrieval!Dial, Tried
    <3>1. CASE address > Tried
      BY <3>0, <3>1, Zenon
    <3>2. CASE address <= Tried
      BY <2>5, <3>0, <3>2
    <3> QED BY <2>5, <3>1, <3>2
  <2> QED BY <2>2, <2>3, <2>4, <2>6
<1>4. CASE Retrieval!Refused
  <2>1. /\ phase = "connecting" /\ error' \in {"connection", "timeout"}
        /\ error' = "timeout" => now = until
        /\ phase' = "dial" /\ address' = address + 1
        /\ UNCHANGED <<client, now, deadline, until, got, flaw, query, outcome, kept, degraded>>
    BY <1>4 DEF Retrieval!Refused, Retrieval!TimedOut
  <2>2. Clocks'
    BY <1>c, <2>1 DEF Clocks, Waiting
  <2>3. address \in Nat /\ address >= 1 /\ address <= Resolved
    BY <1>f, <1>n, <2>1 DEF Frames, Tried
  <2>4. Frames'
    BY <1>f, <1>n, <2>1, <2>3 DEF Frames, Waiting
  <2>5. error' = "timeout" => Retrieval!Expired'
    BY <1>c, <2>1 DEF Clocks, Waiting, Retrieval!Expired
  <2> QED BY <2>1, <2>2, <2>4, <2>5, OnTheWay
<1>5. CASE Retrieval!Connected
  <2>1. CASE Retrieval!Expired /\ Retrieval!Raise("timeout")
    BY <1>expired, <2>1
  <2>2. CASE /\ phase = "connecting" /\ phase' = "sending"
             /\ until' = (IF client = "app" THEN deadline ELSE now + QueryTimeout)
             /\ client = "app" => ~Retrieval!Expired
             /\ UNCHANGED <<client, now, deadline, address, error, got, flaw, query, outcome,
                            kept, degraded>>
    <3>1. Clocks'
      BY <1>c, <1>f, <1>n, <2>2 DEF Clocks, Frames, Waiting, Retrieval!Expired
    <3>2. Frames'
      BY <1>f, <2>2 DEF Frames, Waiting, Tried
    <3> QED BY <1>l, <2>2, <3>1, <3>2, OnTheWay DEF Labels, Retrieval!Expired
  <2> QED BY <1>5, <1>f, <2>1, <2>2 DEF Retrieval!Connected, Retrieval!Await, Frames
\* A receive: the deadline has been looked at.
<1>receive. ASSUME NEW p \in {"header", "body"}, NEW k \in Nat, k < Parts, phase \in Waiting,
                   ~Retrieval!Expired, Retrieval!Receive(p, k),
                   flaw' \in Retrieval!HeaderFlaws \cup Retrieval!BodyFlaws
                             \cup {Retrieval!RowFlaw, "none"},
                   p = "body" => flaw' \notin Retrieval!HeaderFlaws
            PROVE  RetrievalInv'
  <2>1. /\ phase' = p /\ until' = deadline /\ got' = k
        /\ UNCHANGED <<client, now, deadline, query, outcome, kept, degraded, address, error>>
    BY <1>receive DEF Retrieval!Receive, Retrieval!Await
  <2>2. Clocks'
    BY <1>c, <1>n, <1>receive, <2>1 DEF Clocks, Waiting, Retrieval!Expired
  <2>3. Frames'
    BY <1>f, <1>n, <1>receive, <2>1 DEF Frames, Waiting
  <2>4. phase # "over" /\ phase' # "over"
    BY <1>receive, <2>1 DEF Waiting
  <2> QED BY <1>l, <2>1, <2>2, <2>3, <2>4, OnTheWay DEF Labels, Retrieval!Expired
<1>6. CASE Retrieval!Sent
  <2>1. CASE Retrieval!Expired /\ Retrieval!Raise("timeout")
    BY <1>expired, <2>1
  <2>2. CASE /\ phase = "sending" /\ ~Retrieval!Expired /\ Retrieval!Receive("header", 0)
             /\ flaw' \in {Retrieval!RowFlaw, "none"} \cup Retrieval!HeaderFlaws
                          \cup Retrieval!BodyFlaws
    BY <1>n, <1>receive, <2>2 DEF Waiting
  <2> QED BY <1>6, <2>1, <2>2 DEF Retrieval!Sent
<1>7. CASE Retrieval!Broken
  <2>1. phase \in Waiting
    BY <1>7 DEF Retrieval!Broken, Waiting
  <2>2. PICK label \in {"connection"} \cup Retrieval!TimedOut : Retrieval!Raise(label)
    BY <1>7 DEF Retrieval!Broken
  <2>3. label \in {"connection", "timeout"} /\ (label = "timeout" => now = until)
    BY <2>2 DEF Retrieval!TimedOut
  <2>4. label = "timeout" => Retrieval!Expired
    BY <1>c, <2>1, <2>3 DEF Clocks, Retrieval!Expired
  <2> QED BY <2>2, <2>3, <2>4, Raised
<1>8. CASE Retrieval!Part
  <2>1. CASE Retrieval!Expired /\ Retrieval!Raise("timeout")
    BY <1>expired, <2>1
  <2>2. CASE /\ phase \in {"header", "body"} /\ got + 1 < Parts /\ ~Retrieval!Expired
             /\ Retrieval!Receive(phase, got + 1) /\ UNCHANGED flaw
    <3>1. got + 1 \in Nat
      BY <1>f DEF Frames
    <3>2. phase \in Waiting /\ flaw' = flaw
      BY <2>2 DEF Waiting
    <3> QED BY <1>f, <1>receive, <2>2, <3>1, <3>2 DEF Frames
  <2> QED BY <1>8, <2>1, <2>2 DEF Retrieval!Part
<1>9. CASE Retrieval!Header
  <2>1. CASE Retrieval!Expired /\ Retrieval!Raise("timeout")
    BY <1>expired, <2>1
  <2>2. CASE flaw \in Retrieval!HeaderFlaws /\ Retrieval!Raise("protocol")
    BY <2>2, Raised DEF Retrieval!HeaderFlaws
  <2>3. CASE /\ phase = "header" /\ flaw \notin Retrieval!HeaderFlaws /\ ~Retrieval!Expired
             /\ Retrieval!Receive("body", 0) /\ UNCHANGED flaw
    BY <1>f, <1>n, <1>receive, <2>3 DEF Frames, Waiting
  <2> QED BY <1>9, <2>1, <2>2, <2>3 DEF Retrieval!Header
<1>10. CASE Retrieval!Body
  <2>1. phase = "body" /\ got + 1 = Parts
    BY <1>10 DEF Retrieval!Body
  <2>2. flaw \in Retrieval!BodyFlaws \cup {Retrieval!RowFlaw, "none"}
    BY <1>f, <2>1 DEF Frames
  <2>3. CASE /\ Retrieval!Rejected(flaw) \/ (flaw = Retrieval!RowFlaw /\ client = "pilot")
             /\ Retrieval!Raise("protocol")
    <3>1. flaw # "none"
      BY <2>3 DEF Retrieval!Rejected, Retrieval!BodyFlaws, Retrieval!RowFlaw
    <3> QED BY <2>3, <3>1, Raised
  <2>4. CASE flaw = Retrieval!RowFlaw /\ client = "app" /\ Retrieval!Raise("success")
    BY <2>1, <2>4, Raised
  <2>5. CASE /\ flaw = "none" /\ outcome' = "success"
             /\ kept' = (IF client = "app" THEN {} ELSE kept) \cup {query}
             /\ \/ phase' = "over" /\ UNCHANGED <<query, flaw>>
                \/ query < MaxQueries /\ phase' = "query" /\ query' = query + 1
                   /\ flaw' = "none"
             /\ UNCHANGED <<client, now, deadline, until, address, error, got, degraded>>
    <3>1. query \in kept' /\ kept' \subseteq 1 .. MaxQueries /\ flaw' = "none"
          /\ (client = "app" => kept' = {query})
      BY <1>n, <1>l, <2>5 DEF Labels
    <3>2. degraded = FALSE /\ degraded' = FALSE
      BY <1>l, <2>1, <2>5 DEF Labels
    <3>3. Retrieval!OutcomeHonest'
      BY <2>1, <2>5, <3>1 DEF Retrieval!OutcomeHonest, Retrieval!RowFlaw
    <3>4. Labels'
      <4>1. /\ error' = error /\ (error' = "timeout" => Retrieval!Expired')
            /\ outcome' \in Retrieval!Outcomes /\ client' = client
        BY <1>l, <2>5 DEF Labels, Retrieval!Expired, Retrieval!Outcomes
      <4>2. phase' = "over" => query' \in kept' /\ flaw' # Retrieval!RowFlaw
        BY <2>5, <3>1 DEF Retrieval!RowFlaw
      <4> QED BY <1>l, <1>n, <2>5, <3>1, <3>2, <3>3, <4>1, <4>2 DEF Labels
    <3>5. CASE phase' = "over" /\ UNCHANGED <<query, flaw>>
      <4>1. Clocks' /\ Frames'
        BY <1>c, <1>f, <2>5, <3>5 DEF Clocks, Frames, Waiting, Tried
      <4> QED BY <3>4, <4>1 DEF RetrievalInv
    <3>6. CASE query < MaxQueries /\ phase' = "query" /\ query' = query + 1 /\ flaw' = "none"
      <4>1. query' \in 1 .. MaxQueries /\ Span(query' - 1) = Span(query)
        BY <1>n, <3>6 DEF RetrievalInstances
      <4>2. Clocks'
        BY <1>c, <1>f, <1>n, <2>5, <3>6, <4>1 DEF Clocks, Frames, Waiting
      <4>3. Frames'
        BY <1>f, <2>5, <3>6, <4>1 DEF Frames, Waiting, Tried
      <4> QED BY <3>4, <4>2, <4>3 DEF RetrievalInv
    <3> QED BY <2>5, <3>5, <3>6
  <2> QED BY <1>10, <1>f, <2>2, <2>3, <2>4, <2>5
          DEF Retrieval!Body, Retrieval!Rejected, Retrieval!RowFlaw, Frames
<1>11. CASE UNCHANGED Retrieval!vars
  <2>1. UNCHANGED <<client, now, deadline, until, phase, address, error, got, flaw, query,
                    outcome, kept, degraded>>
    BY <1>11 DEF Retrieval!vars
  <2>2. Clocks' /\ Frames'
    BY <1>c, <1>f, <2>1 DEF Clocks, Frames, Waiting, Tried
  <2>3. Retrieval!OutcomeHonest'
    BY <1>l, <2>1 DEF Labels, Retrieval!OutcomeHonest, Retrieval!Expired
  <2>4. Labels'
    BY <1>l, <2>1, <2>3 DEF Labels, Retrieval!Expired
  <2> QED BY <2>2, <2>4 DEF RetrievalInv
<1> QED BY <1>1, <1>2, <1>3, <1>4, <1>5, <1>6, <1>7, <1>8, <1>9, <1>10, <1>11 DEF Retrieval!Next

LEMMA RetrievalIsHonest ==
  RetrievalInstances /\ RetrievalInv =>
    /\ Retrieval!TypeOK /\ Retrieval!DeadlineKept
    /\ Retrieval!OutcomeHonest /\ Retrieval!SelectionWhole
<1> SUFFICES ASSUME RetrievalInstances, RetrievalInv
             PROVE  /\ Retrieval!TypeOK /\ Retrieval!DeadlineKept
                    /\ Retrieval!OutcomeHonest /\ Retrieval!SelectionWhole
  OBVIOUS
<1>1. Clocks /\ Frames /\ Labels
  BY DEF RetrievalInv
<1>2. /\ QueryTimeout \in Nat /\ query \in 1 .. MaxQueries /\ Span(query) \in Nat
      /\ Span(query) = Span(query - 1) + 2 * QueryTimeout /\ Span(query - 1) \in Nat
      /\ Span(query) <= Span(MaxQueries) /\ Span(MaxQueries) \in Nat
      /\ Retrieval!Horizon = Span(MaxQueries)
  <2>1. MaxQueries \in 1 .. MaxQueries
    BY DEF RetrievalInstances
  <2> QED BY <1>1, <2>1, Spans DEF Frames, RetrievalInstances, Span, Retrieval!Horizon
<1> HIDE DEF Span
<1>3. Retrieval!DeadlineKept
  BY <1>1 DEF Clocks, Frames, Retrieval!DeadlineKept
<1>4. /\ now \in 0 .. Retrieval!Horizon /\ deadline \in 0 .. Retrieval!Horizon
      /\ until \in 0 .. Retrieval!Horizon
  BY <1>1, <1>2 DEF Clocks, Frames
<1>5. Retrieval!TypeOK
  BY <1>1, <1>4 DEF Frames, Labels, Waiting, Retrieval!TypeOK, Retrieval!Outcomes,
     RetrievalInstances
<1>6. client = "app" => Retrieval!Cardinality(kept) <= 1
  <2>1. \A S : Retrieval!Cardinality(S) = Cardinality(S)
    BY Zenon DEF Retrieval!Cardinality, Cardinality
  <2>2. ASSUME client = "app" PROVE Cardinality(kept) \in {0, 1}
    <3>1. CASE kept = {}
      BY <3>1, FS_EmptySet
    <3>2. CASE \E q \in 1 .. MaxQueries : kept = {q}
      BY <3>2, FS_Singleton
    <3> QED BY <1>1, <2>2, <3>1, <3>2 DEF Labels
  <2> QED BY <2>1, <2>2
<1>7. Retrieval!SelectionWhole
  BY <1>1, <1>6 DEF Labels, Retrieval!SelectionWhole
<1> QED BY <1>1, <1>3, <1>5, <1>7 DEF Labels

-----------------------------------------------------------------------------
(* The map of the mutex feature store *)

\* The naturals are well founded.
LEMMA LeastNatural == ASSUME NEW M \in SUBSET Nat, M # {} PROVE \E i \in M : \A j \in M : i <= j
<1> DEFINE Less == OpToRel(<, Nat)
<1>1. IsWellFoundedOn(Less, Nat)
  BY NatLessThanWellFounded, Zenon
<1>2. \A i, j \in Nat : i < j => <<i, j>> \in Less
  BY DEF OpToRel
<1> HIDE DEF Less
<1>3. PICK i \in M : \A j \in M : ~(<<j, i>> \in Less)
  BY <1>1, WFMin, Zenon
<1>4. \A j \in M : ~(j < i)
  BY <1>2, <1>3
<1>5. \A j \in M : i <= j
  BY <1>4
<1> QED BY <1>5

\* A probe passes through every slot.
LEMMA ProbesEverySlot ==
  ASSUME NEW h \in Nat, NEW n \in Nat \ {0}, NEW s \in 0 .. n - 1
  PROVE  \E p \in 0 .. n - 1 : (h + p) % n = s
<1> DEFINE r == h % n
           q == h \div n
<1>1. r \in 0 .. n - 1 /\ q \in Nat /\ h = q * n + r
  OBVIOUS
<1> HIDE DEF r, q
<1>2. CASE s >= r
  <2>1. s - r \in 0 .. n - 1 /\ h + (s - r) = q * n + s
    BY <1>1, <1>2
  <2>2. (q * n + s) % n = s
    BY <1>1
  <2> QED BY <2>1, <2>2
<1>3. CASE s < r
  <2>1. s - r + n \in 0 .. n - 1 /\ h + (s - r + n) = (q + 1) * n + s
    BY <1>1, <1>3
  <2>2. ((q + 1) * n + s) % n = s
    BY <1>1
  <2> QED BY <2>1, <2>2
<1> QED BY <1>1, <1>2, <1>3

Slots(n) == 0 .. n - 1
Free(k) == \E i \in DOMAIN k : k[i] = Empty

\* Every user in a table is where a probe ends.
Reachable(k) == \A i \in FlatMap!Held(k) : FlatMap!Probe(k, k[i]) = i

LEMMA MapCounts == \A S : FlatMap!Cardinality(S) = Cardinality(S)
  BY Zenon DEF FlatMap!Cardinality, Cardinality

LEMMA SlotsFinite ==
  ASSUME NEW n \in Nat \ {0}, NEW k \in [Slots(n) -> Users]
  PROVE  /\ IsFiniteSet(Slots(n)) /\ Cardinality(Slots(n)) = n
         /\ FlatMap!Capacity(k) = n /\ FlatMap!Slots(n) = Slots(n)
         /\ FlatMap!Held(k) \subseteq Slots(n) /\ IsFiniteSet(FlatMap!Held(k))
         /\ Cardinality(FlatMap!Held(k)) \in Nat
<1>1. IsFiniteSet(Slots(n)) /\ Cardinality(Slots(n)) = n
  <2>1. 0 \in Int /\ n - 1 \in Int /\ ~(0 > n - 1)
    OBVIOUS
  <2> QED BY <2>1, FS_Interval DEF Slots
<1>2. DOMAIN k = Slots(n)
  OBVIOUS
<1>3. FlatMap!Capacity(k) = n
  BY <1>1, <1>2, MapCounts DEF FlatMap!Capacity
<1>4. FlatMap!Held(k) \subseteq Slots(n)
  BY <1>2 DEF FlatMap!Held
<1>5. IsFiniteSet(FlatMap!Held(k)) /\ Cardinality(FlatMap!Held(k)) \in Nat
  BY <1>1, <1>4, FS_Subset, FS_CardinalityType
<1> QED BY <1>1, <1>3, <1>4, <1>5 DEF FlatMap!Slots, Slots

\* A table with fewer users than slots has a free one.
LEMMA RoomLeft ==
  ASSUME NEW n \in Nat \ {0}, NEW k \in [Slots(n) -> Users], Cardinality(FlatMap!Held(k)) < n
  PROVE  Free(k)
<1>1. FlatMap!Held(k) # Slots(n)
  BY SlotsFinite
<1> QED BY <1>1, SlotsFinite DEF FlatMap!Held, Free

\* Where a probe ends.
Stops(k, u, n) == {p \in Slots(n) : k[(Hash[u] + p) % n] \in {Empty, u}}

LEMMA ProbeEnds ==
  ASSUME MapInstances, NEW n \in Nat \ {0}, NEW k \in [Slots(n) -> Users], Free(k),
         NEW u \in Users
  PROVE  \E m \in Stops(k, u, n) :
           /\ \A p \in Stops(k, u, n) : m <= p
           /\ FlatMap!Probe(k, u) = (Hash[u] + m) % n
           /\ FlatMap!Probe(k, u) \in Slots(n) /\ k[FlatMap!Probe(k, u)] \in {Empty, u}
<1> DEFINE P == Stops(k, u, n)
<1>1. Hash[u] \in Nat
  BY DEF MapInstances
<1>2. PICK e \in Slots(n) : k[e] = Empty
  BY DEF Free
<1>3. PICK q \in 0 .. n - 1 : (Hash[u] + q) % n = e
  BY <1>1, <1>2, ProbesEverySlot DEF Slots
<1>4. q \in P
  BY <1>2, <1>3 DEF Stops, Slots
<1>5. P \subseteq Nat /\ P # {}
  BY <1>4 DEF Stops, Slots
<1>6. \E m \in P : \A p \in P : m <= p
  BY <1>5, LeastNatural, Zenon
<1> DEFINE m == CHOOSE m \in P : \A p \in P : m <= p
<1>7. m \in P /\ \A p \in P : m <= p
  BY <1>6
<1>8. FlatMap!Probe(k, u) = (Hash[u] + m) % n
  <2>1. FlatMap!Capacity(k) = n /\ FlatMap!Slots(n) = Slots(n)
    BY SlotsFinite
  <2>2. FlatMap!Min(P) = m
    BY DEF FlatMap!Min
  <2> QED BY <2>1, <2>2 DEF FlatMap!Probe, Stops
<1>9. (Hash[u] + m) % n \in Slots(n)
  <2>1. m \in Nat
    BY <1>5, <1>7
  <2>2. Hash[u] + m \in Nat
    BY <1>1, <2>1
  <2>3. \A a \in Nat : a % n \in 0 .. n - 1
    OBVIOUS
  <2> QED BY <2>2, <2>3 DEF Slots
<1>10. k[(Hash[u] + m) % n] \in {Empty, u}
  BY <1>7 DEF Stops
<1> HIDE DEF m
<1> QED BY <1>7, <1>8, <1>9, <1>10

\* A user that is put where its probe ends is found there, and all the others
\* are found where they were.
LEMMA InsertReaches ==
  ASSUME MapInstances, NEW n \in Nat \ {0}, NEW k \in [Slots(n) -> Users], Free(k),
         Reachable(k), NEW u \in Users \ {Empty}, NEW i, i = FlatMap!Probe(k, u), k[i] = Empty,
         NEW l, l = [k EXCEPT ![i] = u]
  PROVE  /\ i \in Slots(n) /\ i \notin FlatMap!Held(k) /\ l \in [Slots(n) -> Users]
         /\ FlatMap!Held(l) = FlatMap!Held(k) \cup {i}
         /\ Free(l) => Reachable(l)
<1>1. i \in Slots(n)
  BY ProbeEnds
<1>2. /\ l \in [Slots(n) -> Users] /\ l[i] = u /\ u # Empty
      /\ \A j \in Slots(n) : j # i => l[j] = k[j]
  BY <1>1
<1>3. FlatMap!Held(l) = FlatMap!Held(k) \cup {i} /\ i \notin FlatMap!Held(k)
  BY <1>1, <1>2 DEF FlatMap!Held
<1>4. ASSUME Free(l), NEW j \in FlatMap!Held(l) PROVE FlatMap!Probe(l, l[j]) = j
  <2> DEFINE v == l[j]
  <2>1. j \in Slots(n) /\ v \in Users /\ v # Empty
    BY <1>1, <1>2, <1>3, <1>4 DEF FlatMap!Held
  <2>2. PICK new \in Stops(l, v, n) : /\ \A p \in Stops(l, v, n) : new <= p
                                      /\ FlatMap!Probe(l, v) = (Hash[v] + new) % n
    <3>1. \E m \in Stops(l, v, n) :
            /\ \A p \in Stops(l, v, n) : m <= p
            /\ FlatMap!Probe(l, v) = (Hash[v] + m) % n
            /\ FlatMap!Probe(l, v) \in Slots(n) /\ l[FlatMap!Probe(l, v)] \in {Empty, v}
      BY <1>2, <1>4, <2>1, ProbeEnds, Zenon
    <3> QED BY <3>1, Zenon
  <2>3. PICK old \in Stops(k, v, n) : /\ \A p \in Stops(k, v, n) : old <= p
                                      /\ FlatMap!Probe(k, v) = (Hash[v] + old) % n
    <3>1. \E m \in Stops(k, v, n) :
            /\ \A p \in Stops(k, v, n) : m <= p
            /\ FlatMap!Probe(k, v) = (Hash[v] + m) % n
            /\ FlatMap!Probe(k, v) \in Slots(n) /\ k[FlatMap!Probe(k, v)] \in {Empty, v}
      BY <2>1, ProbeEnds, Zenon
    <3> QED BY <3>1, Zenon
  <2>4. new \in Nat /\ old \in Nat
    BY <2>2, <2>3, SMTT(30) DEF Stops, Slots
  <2>5. \A p \in Slots(n) : (Hash[v] + p) % n \in Slots(n)
    <3>1. Hash[v] \in Nat
      BY <2>1 DEF MapInstances
    <3> QED BY <3>1 DEF Slots
  <2>6. Stops(l, v, n) \subseteq Stops(k, v, n)
    BY <1>2, <2>5 DEF Stops
  <2>7. FlatMap!Probe(k, v) = j
    <3>1. CASE j = i
      BY <1>2, <3>1
    <3>2. CASE j # i
      <4>1. j \in FlatMap!Held(k) /\ v = k[j]
        BY <1>2, <1>3, <2>1, <3>2
      <4> QED BY <4>1 DEF Reachable
    <3> QED BY <3>1, <3>2
  <2>8. old \in Stops(l, v, n)
    BY <2>3, <2>7 DEF Stops
  <2> HIDE DEF v
  <2>9. new = old
    <3>1. new <= old /\ old <= new
      BY <2>2, <2>3, <2>6, <2>8, Zenon
    <3> QED BY <2>4, <3>1
  <2> QED BY <2>2, <2>3, <2>7, <2>9 DEF v
<1> QED BY <1>1, <1>2, <1>3, <1>4 DEF Reachable

\* A user in a table is where its probe ends, and only there; of the others the
\* probe ends in a free slot.
LEMMA ProbeFinds ==
  ASSUME MapInstances, NEW n \in Nat \ {0}, NEW k \in [Slots(n) -> Users], Free(k), Reachable(k),
         NEW u \in Users \ {Empty}
  PROVE  /\ \A i \in FlatMap!Held(k) : k[i] = u => i = FlatMap!Probe(k, u)
         /\ (\A i \in FlatMap!Held(k) : k[i] # u) => k[FlatMap!Probe(k, u)] = Empty
<1>1. FlatMap!Probe(k, u) \in Slots(n) /\ k[FlatMap!Probe(k, u)] \in {Empty, u}
  BY ProbeEnds
<1> QED BY <1>1 DEF Reachable, FlatMap!Held

\* A table of n slots that counts up to c.
Whole(t, n, c) ==
  /\ t.keys \in [Slots(n) -> Users] /\ t.vals \in [Slots(n) -> 0 .. c]
  /\ t.size \in Nat /\ Cardinality(FlatMap!Held(t.keys)) <= t.size
  /\ Reachable(t.keys)

\* One table has the users of another's slots before j, and what is counted for them.
SameAs(new, i, t, s) == new.keys[i] = t.keys[s] /\ new.vals[i] = t.vals[s]
Refilled(new, t, n, j, c) ==
  /\ Whole(new, 2 * n, c) /\ new.size <= j
  /\ \A i \in FlatMap!Held(new.keys) :
       \E s \in FlatMap!Held(t.keys) : s < j /\ SameAs(new, i, t, s)
  /\ \A s \in FlatMap!Held(t.keys) : s < j =>
       \E i \in FlatMap!Held(new.keys) : SameAs(new, i, t, s)

LEMMA RefillExists ==
  ASSUME NEW t, NEW b, NEW n \in Nat
  PROVE  \E f : f = [j \in 0 .. n |-> IF j = 0 THEN b ELSE FlatMap!Reinsert(t, f[j - 1], j - 1)]
<1> DEFINE Exists(m) ==
      \E f : f = [j \in 0 .. m |-> IF j = 0 THEN b ELSE FlatMap!Reinsert(t, f[j - 1], j - 1)]
           Bad == {m \in Nat : ~Exists(m)}
<1> SUFFICES ASSUME ~Exists(n) PROVE FALSE
  OBVIOUS
<1>1. Bad \in SUBSET Nat /\ Bad # {}
  OBVIOUS
<1>2. PICK m \in Bad : \A j \in Bad : m <= j
  BY <1>1, LeastNatural, Zenon
<1>3. m \in Nat /\ ~Exists(m)
  BY <1>2
<1>4. CASE m = 0
  <2>1. [j \in 0 .. 0 |-> b] = [j \in 0 .. 0 |-> IF j = 0 THEN b
                                ELSE FlatMap!Reinsert(t, [q \in 0 .. 0 |-> b][j - 1], j - 1)]
    OBVIOUS
  <2>2. Exists(0)
    BY <2>1
  <2> QED BY <1>3, <1>4, <2>2
<1>5. CASE m # 0
  <2>1. m - 1 \in Nat /\ m - 1 \notin Bad
    <3>1. m - 1 \in Nat /\ ~(m <= m - 1)
      BY <1>3, <1>5
    <3>2. m - 1 \in Bad => m <= m - 1
      BY <1>2, Zenon
    <3> QED BY <3>1, <3>2
  <2>2. PICK f : f = [j \in 0 .. m - 1 |->
                        IF j = 0 THEN b ELSE FlatMap!Reinsert(t, f[j - 1], j - 1)]
    BY <2>1
  <2> DEFINE g == [j \in 0 .. m |-> IF j = m THEN FlatMap!Reinsert(t, f[m - 1], m - 1) ELSE f[j]]
  <2>3. \A j \in 0 .. m : g[j] = IF j = 0 THEN b ELSE FlatMap!Reinsert(t, g[j - 1], j - 1)
    <3> SUFFICES ASSUME NEW j \in 0 .. m
                 PROVE  g[j] = IF j = 0 THEN b ELSE FlatMap!Reinsert(t, g[j - 1], j - 1)
      OBVIOUS
    <3>1. CASE j = m
      <4>1. j - 1 \in 0 .. m /\ j - 1 # m /\ j # 0
        BY <1>3, <1>5, <3>1
      <4>2. g[j - 1] = f[m - 1]
        BY <3>1, <4>1
      <4> QED BY <3>1, <4>1, <4>2
    <3>2. CASE j # m /\ j # 0
      <4>1. j \in 0 .. m - 1 /\ j - 1 \in 0 .. m /\ j - 1 # m
        BY <1>3, <3>2
      <4>2. g[j - 1] = f[j - 1] /\ g[j] = f[j]
        BY <3>2, <4>1
      <4>3. f[j] = FlatMap!Reinsert(t, f[j - 1], j - 1)
        BY <2>2, <3>2, <4>1
      <4> QED BY <3>2, <4>2, <4>3
    <3>3. CASE j = 0
      <4>1. 0 \in 0 .. m - 1 /\ j # m
        BY <1>3, <1>5, <3>3
      <4>2. f[0] = b
        BY <2>2, <4>1
      <4> QED BY <3>3, <4>1, <4>2
    <3> QED BY <3>1, <3>2, <3>3
  <2>4. g = [j \in 0 .. m |-> g[j]]
    OBVIOUS
  <2> HIDE DEF g
  <2>5. g = [j \in 0 .. m |-> IF j = 0 THEN b ELSE FlatMap!Reinsert(t, g[j - 1], j - 1)]
    BY <2>3, <2>4
  <2> QED BY <1>3, <2>5
<1> QED BY <1>4, <1>5

LEMMA GrowRefills ==
  ASSUME NEW t, NEW n \in Nat \ {0}, t.keys \in [Slots(n) -> Users]
  PROVE  \E f : /\ f[0] = FlatMap!Blank(2 * n) /\ FlatMap!Grow(t) = f[n]
                /\ \A j \in 1 .. n : f[j] = FlatMap!Reinsert(t, f[j - 1], j - 1)
<1> DEFINE b == FlatMap!Blank(2 * n)
           f == CHOOSE f : f = [j \in 0 .. n |-> IF j = 0 THEN b
                                                 ELSE FlatMap!Reinsert(t, f[j - 1], j - 1)]
<1>1. f = [j \in 0 .. n |-> IF j = 0 THEN b ELSE FlatMap!Reinsert(t, f[j - 1], j - 1)]
  BY RefillExists, SMTT(30)
<1>2. FlatMap!Capacity(t.keys) = n
  BY SlotsFinite
<1>3. FlatMap!Grow(t) = f[n]
  BY <1>2 DEF FlatMap!Grow
<1> HIDE DEF f
<1>4. f[0] = b /\ \A j \in 1 .. n : f[j] = FlatMap!Reinsert(t, f[j - 1], j - 1)
  BY <1>1
<1> QED BY <1>3, <1>4

LEMMA BlankIsRefilled ==
  ASSUME MapInstances, NEW c \in Nat, NEW t, NEW n \in Nat \ {0}, Whole(t, n, c)
  PROVE  Refilled(FlatMap!Blank(2 * n), t, n, 0, c)
<1> DEFINE b == FlatMap!Blank(2 * n)
<1>1. /\ b.keys = [i \in Slots(2 * n) |-> Empty] /\ b.vals = [i \in Slots(2 * n) |-> 0] /\ b.size = 0
  BY DEF FlatMap!Blank, FlatMap!Slots, Slots
<1> HIDE DEF b
<1>2. FlatMap!Held(b.keys) = {} /\ Cardinality({}) = 0
  BY <1>1, FS_EmptySet DEF FlatMap!Held
<1>3. b.keys \in [Slots(2 * n) -> Users] /\ b.vals \in [Slots(2 * n) -> 0 .. c]
  BY <1>1 DEF MapInstances
<1>4. Whole(b, 2 * n, c)
  <2>1. Reachable(b.keys)
    BY <1>2, Zenon DEF Reachable
  <2>2. b.size \in Nat /\ Cardinality(FlatMap!Held(b.keys)) <= b.size
    BY <1>1, <1>2
  <2> QED BY <1>3, <2>1, <2>2 DEF Whole
<1>5. \A s \in FlatMap!Held(t.keys) : ~(s < 0)
  <2>1. FlatMap!Held(t.keys) \subseteq Slots(n)
    BY SlotsFinite DEF Whole
  <2> QED BY <2>1 DEF Slots
<1> QED BY <1>1, <1>2, <1>4, <1>5 DEF Refilled, b

LEMMA ReinsertRefills ==
  ASSUME MapInstances, NEW c \in Nat, NEW t, NEW n \in Nat \ {0}, Whole(t, n, c),
         NEW j \in Slots(n), NEW new, Refilled(new, t, n, j, c)
  PROVE  Refilled(FlatMap!Reinsert(t, new, j), t, n, j + 1, c)
<1>1. /\ FlatMap!Held(t.keys) \subseteq Slots(n) /\ t.keys \in [Slots(n) -> Users] /\ j \in Nat
      /\ n \in Nat \ {0} /\ 2 * n \in Nat \ {0} /\ j < n /\ \A s \in FlatMap!Held(t.keys) : s \in Nat
  BY SlotsFinite DEF Whole, Slots
<1>2. /\ Whole(new, 2 * n, c) /\ new.size <= j
      /\ \A i \in FlatMap!Held(new.keys) :
           \E s \in FlatMap!Held(t.keys) : s < j /\ SameAs(new, i, t, s)
      /\ \A s \in FlatMap!Held(t.keys) : s < j =>
           \E i \in FlatMap!Held(new.keys) : SameAs(new, i, t, s)
  BY DEF Refilled
<1>3. CASE t.keys[j] = Empty
  <2>1. FlatMap!Reinsert(t, new, j) = new
    BY <1>3 DEF FlatMap!Reinsert
  <2>2. \A s \in FlatMap!Held(t.keys) : s < j + 1 => s < j
    BY <1>1, <1>3 DEF FlatMap!Held
  <2>3. \A s \in FlatMap!Held(t.keys) : s < j => s < j + 1
    BY <1>1
  <2>4. new.size <= j + 1
    BY <1>1, <1>2 DEF Whole
  <2> QED BY <1>2, <2>1, <2>2, <2>3, <2>4 DEF Refilled
<1>4. CASE t.keys[j] # Empty
  <2> DEFINE u == t.keys[j]
             i == FlatMap!Probe(new.keys, u)
             l == [new.keys EXCEPT ![i] = u]
             w == [new.vals EXCEPT ![i] = t.vals[j]]
             r == [keys |-> l, vals |-> w, size |-> new.size + 1]
  <2>1. FlatMap!Reinsert(t, new, j) = r
    BY <1>4 DEF FlatMap!Reinsert
  <2>2. u \in Users \ {Empty} /\ j \in FlatMap!Held(t.keys)
    BY <1>1, <1>4 DEF FlatMap!Held
  <2>3. /\ new.keys \in [Slots(2 * n) -> Users] /\ new.vals \in [Slots(2 * n) -> 0 .. c]
        /\ new.size \in Nat /\ Cardinality(FlatMap!Held(new.keys)) <= new.size
        /\ Reachable(new.keys)
    BY <1>2 DEF Whole
  <2>4. Free(new.keys)
    <3>1. Cardinality(FlatMap!Held(new.keys)) \in Nat
      BY <1>1, <2>3, SlotsFinite
    <3>2. Cardinality(FlatMap!Held(new.keys)) < 2 * n
      BY <1>1, <1>2, <2>3, <3>1
    <3> QED BY <1>1, <2>3, <3>2, RoomLeft
  \* The user is in no slot before j, so not in the new table.
  <2>5. \A q \in FlatMap!Held(new.keys) : new.keys[q] # u
    <3> SUFFICES ASSUME NEW q \in FlatMap!Held(new.keys), new.keys[q] = u PROVE FALSE
      OBVIOUS
    <3>1. PICK s \in FlatMap!Held(t.keys) : s < j /\ t.keys[s] = u
      BY <1>2 DEF SameAs
    <3>2. s = FlatMap!Probe(t.keys, u) /\ j = FlatMap!Probe(t.keys, u)
      BY <2>2, <3>1 DEF Whole, Reachable
    <3> QED BY <1>1, <3>1, <3>2
  <2>6. new.keys[i] = Empty
    BY <1>1, <2>2, <2>3, <2>4, <2>5, ProbeFinds
  <2> HIDE DEF u, i
  <2>7. /\ i \in Slots(2 * n) /\ i \notin FlatMap!Held(new.keys) /\ l \in [Slots(2 * n) -> Users]
        /\ FlatMap!Held(l) = FlatMap!Held(new.keys) \cup {i}
        /\ Free(l) => Reachable(l)
    BY <1>1, <2>2, <2>3, <2>4, <2>6, InsertReaches DEF i
  <2>8. Cardinality(FlatMap!Held(l)) <= new.size + 1
    <3>1. /\ IsFiniteSet(FlatMap!Held(new.keys)) /\ Cardinality(FlatMap!Held(new.keys)) \in Nat
      BY <1>1, <2>3, SlotsFinite
    <3>2. Cardinality(FlatMap!Held(l)) = Cardinality(FlatMap!Held(new.keys)) + 1
      BY <2>7, <3>1, FS_AddElement
    <3> QED BY <2>3, <3>1, <3>2
  <2>9. Free(l)
    <3>1. Cardinality(FlatMap!Held(l)) \in Nat
      BY <1>1, <2>7, SlotsFinite
    <3>2. Cardinality(FlatMap!Held(l)) < 2 * n
      BY <1>1, <1>2, <2>3, <2>8, <3>1
    <3> QED BY <1>1, <2>7, <3>2, RoomLeft
  <2>10. w \in [Slots(2 * n) -> 0 .. c]
    <3>1. t.vals[j] \in 0 .. c
      BY DEF Whole
    <3> QED BY <2>3, <3>1
  <2>11. /\ \A q \in FlatMap!Held(new.keys) : l[q] = new.keys[q] /\ w[q] = new.vals[q]
         /\ l[i] = u /\ w[i] = t.vals[j]
    <3>1. FlatMap!Held(new.keys) \subseteq Slots(2 * n)
      BY <1>1, <2>3, SlotsFinite
    <3> QED BY <2>3, <2>7, <3>1
  <2>12. r.keys = l /\ r.vals = w /\ r.size = new.size + 1
    OBVIOUS
  <2> HIDE DEF l, w, r
  <2>13. Whole(r, 2 * n, c) /\ r.size <= j + 1
    <3>1. Whole(r, 2 * n, c)
      <4>1. r.size \in Nat /\ Cardinality(FlatMap!Held(r.keys)) <= r.size
        BY <2>3, <2>8, <2>12
      <4>2. Reachable(r.keys) /\ r.keys \in [Slots(2 * n) -> Users]
        BY <2>7, <2>9, <2>12, Zenon
      <4>3. r.vals \in [Slots(2 * n) -> 0 .. c]
        BY <2>10, <2>12
      <4> QED BY <4>1, <4>2, <4>3 DEF Whole
    <3> QED BY <1>1, <1>2, <2>3, <2>12, <3>1
  <2>14. \A q \in FlatMap!Held(l) : \E s \in FlatMap!Held(t.keys) : s < j + 1 /\ SameAs(r, q, t, s)
    <3> SUFFICES ASSUME NEW q \in FlatMap!Held(l)
                 PROVE  \E s \in FlatMap!Held(t.keys) : s < j + 1 /\ SameAs(r, q, t, s)
      OBVIOUS
    <3>1. CASE q = i
      <4>1. SameAs(r, q, t, j) /\ j < j + 1
        BY <1>1, <2>11, <2>12, <3>1 DEF SameAs, u
      <4> QED BY <2>2, <4>1
    <3>2. CASE q \in FlatMap!Held(new.keys)
      <4>1. PICK s \in FlatMap!Held(t.keys) : s < j /\ SameAs(new, q, t, s)
        BY <1>2, <3>2
      <4>2. s < j + 1
        BY <1>1, <4>1
      <4>3. SameAs(r, q, t, s)
        BY <2>11, <2>12, <3>2, <4>1 DEF SameAs
      <4> QED BY <4>2, <4>3
    <3> QED BY <2>7, <3>1, <3>2
  <2>15. \A s \in FlatMap!Held(t.keys) : s < j + 1 => \E q \in FlatMap!Held(l) : SameAs(r, q, t, s)
    <3> SUFFICES ASSUME NEW s \in FlatMap!Held(t.keys), s < j + 1
                 PROVE  \E q \in FlatMap!Held(l) : SameAs(r, q, t, s)
      OBVIOUS
    <3>1. CASE s = j
      <4>1. SameAs(r, i, t, s) /\ i \in FlatMap!Held(l)
        BY <2>7, <2>11, <2>12, <3>1 DEF SameAs, u
      <4> QED BY <4>1
    <3>2. CASE s # j
      <4>1. s < j
        BY <1>1, <3>2
      <4>2. PICK q \in FlatMap!Held(new.keys) : SameAs(new, q, t, s)
        BY <1>2, <4>1
      <4>3. SameAs(r, q, t, s) /\ q \in FlatMap!Held(l)
        BY <2>7, <2>11, <2>12, <4>2 DEF SameAs
      <4> QED BY <4>3
    <3> QED BY <3>1, <3>2
  <2>16. Refilled(r, t, n, j + 1, c)
    BY <2>12, <2>13, <2>14, <2>15 DEF Refilled
  <2> QED BY <2>1, <2>16
<1> QED BY <1>3, <1>4

\* Growing keeps what is counted for every user of the table.
LEMMA GrowKeeps ==
  ASSUME MapInstances, NEW c \in Nat, NEW t, NEW n \in Nat \ {0}, Whole(t, n, c)
  PROVE  Refilled(FlatMap!Grow(t), t, n, n, c)
<1>0. t.keys \in [Slots(n) -> Users]
  BY DEF Whole
<1>1. PICK f : /\ f[0] = FlatMap!Blank(2 * n) /\ FlatMap!Grow(t) = f[n]
               /\ \A j \in 1 .. n : f[j] = FlatMap!Reinsert(t, f[j - 1], j - 1)
  BY <1>0, GrowRefills
<1> DEFINE Bad == {j \in 0 .. n : ~Refilled(f[j], t, n, j, c)}
<1> SUFFICES ASSUME ~Refilled(f[n], t, n, n, c) PROVE FALSE
  BY <1>1
<1>2. Bad \in SUBSET Nat /\ n \in Bad
  OBVIOUS
<1>3. PICK j \in Bad : \A q \in Bad : j <= q
  BY <1>2, LeastNatural, Zenon
<1>4. j \in 0 .. n /\ ~Refilled(f[j], t, n, j, c)
  BY <1>3
<1>5. j # 0
  BY <1>1, <1>4, BlankIsRefilled
<1>6. j - 1 \in Slots(n) /\ j \in 1 .. n /\ j - 1 \in 0 .. n /\ j - 1 + 1 = j
  BY <1>4, <1>5 DEF Slots
<1>7. Refilled(f[j - 1], t, n, j - 1, c)
  BY <1>3, <1>6
<1>8. f[j] = FlatMap!Reinsert(t, f[j - 1], j - 1)
  BY <1>1, <1>6
<1>9. Refilled(FlatMap!Reinsert(t, f[j - 1], j - 1), t, n, j - 1 + 1, c)
  BY <1>6, <1>7, ReinsertRefills
<1> QED BY <1>4, <1>6, <1>8, <1>9

\* A table counts for every user but Empty what is given.
Tells(t, given) ==
  /\ \A i \in FlatMap!Held(t.keys) : t.vals[i] = given[t.keys[i]]
  /\ \A u \in Users \ {Empty} : (\A i \in FlatMap!Held(t.keys) : t.keys[i] # u) => given[u] = 0

MapInv ==
  /\ calls \in 0 .. MaxCalls /\ applied \in [Users -> 0 .. calls]
  /\ \E n \in Nat : n >= 4 /\ Whole(FlatMap!Table, n, calls) /\ held < n
  /\ Tells(FlatMap!Table, applied)

\* A table that is not full has room for one user after growing.
LEMMA GrownHasRoom ==
  ASSUME MapInstances, NEW c \in Nat, NEW t, NEW n \in Nat, n >= 4, Whole(t, n, c),
         t.size < n, NEW given,
         Tells(t, given)
  PROVE  \E m \in Nat : /\ m >= 4 /\ Whole(FlatMap!Grown(t), m, c)
                        /\ FlatMap!Grown(t).size + 1 < m
                        /\ Tells(FlatMap!Grown(t), given)
<1> DEFINE g == FlatMap!Grow(t)
<1>1. /\ n \in Nat \ {0} /\ t.keys \in [Slots(n) -> Users] /\ t.size \in Nat
  BY DEF Whole
<1>2. FlatMap!Capacity(t.keys) = n
  BY <1>1, SlotsFinite
<1>3. CASE t.size * 4 >= n * 3
  <2>1. FlatMap!Grown(t) = g
    BY <1>2, <1>3 DEF FlatMap!Grown
  <2>2. Refilled(g, t, n, n, c)
    BY <1>1, GrowKeeps
  <2> HIDE DEF g
  <2>3. Whole(g, 2 * n, c) /\ g.size \in Nat /\ g.size <= n
    BY <2>2 DEF Refilled, Whole
  <2>4. 2 * n \in Nat /\ 2 * n >= 4 /\ g.size + 1 < 2 * n
    BY <1>1, <2>3
  <2>5. Tells(g, given)
    <3>1. ASSUME NEW i \in FlatMap!Held(g.keys) PROVE g.vals[i] = given[g.keys[i]]
      BY <2>2 DEF Refilled, SameAs, Tells
    <3>2. ASSUME NEW u \in Users \ {Empty}, \A i \in FlatMap!Held(g.keys) : g.keys[i] # u
          PROVE  given[u] = 0
      <4>1. \A s \in FlatMap!Held(t.keys) : s < n
        <5>1. FlatMap!Held(t.keys) \subseteq Slots(n)
          BY <1>1, SlotsFinite
        <5> QED BY <1>1, <5>1 DEF Slots
      <4>2. \A s \in FlatMap!Held(t.keys) : t.keys[s] # u
        BY <2>2, <3>2, <4>1 DEF Refilled, SameAs
      <4> QED BY <4>2 DEF Tells
    <3> QED BY <3>1, <3>2 DEF Tells
  <2> QED BY <2>1, <2>3, <2>4, <2>5
<1>4. CASE ~(t.size * 4 >= n * 3)
  <2>1. FlatMap!Grown(t) = t
    BY <1>2, <1>4 DEF FlatMap!Grown
  <2>2. t.size + 1 < n
    BY <1>1, <1>4
  <2> QED BY <2>1, <2>2
<1> QED BY <1>3, <1>4

\* get leaves every user as it was, and the one it was asked for in the table.
LEMMA GetKeeps ==
  ASSUME MapInstances, NEW c \in Nat, NEW t, NEW n \in Nat, n >= 4, Whole(t, n, c),
         t.size < n, NEW given, Tells(t, given), NEW u \in Users
  PROVE  \E m \in Nat :
           /\ m >= 4 /\ Whole(FlatMap!Get(t, u), m, c) /\ FlatMap!Get(t, u).size < m
           /\ Tells(FlatMap!Get(t, u), given)
           /\ FlatMap!Probe(FlatMap!Get(t, u).keys, u) \in Slots(m)
           /\ FlatMap!Get(t, u).keys[FlatMap!Probe(FlatMap!Get(t, u).keys, u)] = u
<1> DEFINE g == FlatMap!Grown(t)
           i == FlatMap!Probe(g.keys, u)
           l == [g.keys EXCEPT ![i] = u]
           w == [g.vals EXCEPT ![i] = 0]
           r == [keys |-> l, vals |-> w, size |-> g.size + 1]
<1>1. PICK m \in Nat : m >= 4 /\ Whole(g, m, c) /\ g.size + 1 < m /\ Tells(g, given)
  BY GrownHasRoom
<1>2. FlatMap!Get(t, u) = IF g.keys[i] = Empty THEN r ELSE g
  BY DEF FlatMap!Get
<1> HIDE DEF g
<1>3. /\ m \in Nat \ {0} /\ g.keys \in [Slots(m) -> Users] /\ g.vals \in [Slots(m) -> 0 .. c]
      /\ g.size \in Nat /\ Cardinality(FlatMap!Held(g.keys)) <= g.size /\ Reachable(g.keys)
      /\ FlatMap!Held(g.keys) \subseteq Slots(m) /\ Cardinality(FlatMap!Held(g.keys)) \in Nat
      /\ IsFiniteSet(FlatMap!Held(g.keys))
  <2>1. m \in Nat \ {0}
    BY <1>1
  <2> QED BY <1>1, <2>1, SlotsFinite DEF Whole
<1>4. Free(g.keys)
  <2>1. Cardinality(FlatMap!Held(g.keys)) < m
    BY <1>1, <1>3
  <2> QED BY <1>3, <2>1, RoomLeft
<1>5. i \in Slots(m) /\ g.keys[i] \in {Empty, u}
  BY <1>3, <1>4, ProbeEnds
<1>6. r.keys = l /\ r.vals = w /\ r.size = g.size + 1
  OBVIOUS
<1>7. CASE g.keys[i] # Empty
  <2>1. FlatMap!Get(t, u) = g /\ g.keys[i] = u
    BY <1>2, <1>5, <1>7
  <2>2. g.size < m
    BY <1>1, <1>3
  <2> HIDE DEF i
  <2>3. g.keys[FlatMap!Probe(g.keys, u)] = u /\ FlatMap!Probe(g.keys, u) \in Slots(m)
    BY <1>5, <2>1 DEF i
  <2> QED BY <1>1, <2>1, <2>2, <2>3
<1>8. CASE g.keys[i] = Empty /\ u = Empty
  <2>1. FlatMap!Get(t, u) = r /\ l = g.keys
    BY <1>2, <1>3, <1>8
  <2>2. w \in [Slots(m) -> 0 .. c] /\ \A q \in FlatMap!Held(g.keys) : w[q] = g.vals[q]
    <3>1. i \notin FlatMap!Held(g.keys)
      BY <1>8 DEF FlatMap!Held
    <3> QED BY <1>3, <1>5, <3>1
  <2>3. g.keys[FlatMap!Probe(g.keys, u)] = u /\ FlatMap!Probe(g.keys, u) \in Slots(m)
    BY <1>5, <1>8
  <2> HIDE DEF l, w, r, i
  <2>4. r.keys = g.keys /\ r.size = g.size + 1 /\ r.vals = w
    BY <1>6, <2>1
  <2>5. Whole(r, m, c) /\ r.size < m
    <3>1. r.size \in Nat /\ Cardinality(FlatMap!Held(r.keys)) <= r.size /\ r.size < m
      BY <1>1, <1>3, <2>4
    <3>2. r.keys \in [Slots(m) -> Users] /\ Reachable(r.keys)
      BY <1>3, <2>4
    <3>3. r.vals \in [Slots(m) -> 0 .. c]
      BY <2>2, <2>4
    <3> QED BY <3>1, <3>2, <3>3 DEF Whole
  <2>6. Tells(r, given)
    BY <1>1, <2>2, <2>4 DEF Tells
  <2> QED BY <1>1, <2>1, <2>3, <2>4, <2>5, <2>6
<1>9. CASE g.keys[i] = Empty /\ u # Empty
  <2>1. FlatMap!Get(t, u) = r /\ u \in Users \ {Empty}
    BY <1>2, <1>9
  <2>2. \A q \in FlatMap!Held(g.keys) : g.keys[q] # u
    <3> SUFFICES ASSUME NEW q \in FlatMap!Held(g.keys), g.keys[q] = u PROVE FALSE
      OBVIOUS
    <3>1. q = i
      BY <1>3 DEF Reachable
    <3>2. g.keys[q] # Empty
      BY DEF FlatMap!Held
    <3> HIDE DEF i
    <3> QED BY <1>9, <3>1, <3>2
  <2> HIDE DEF i
  <2>3. /\ i \notin FlatMap!Held(g.keys) /\ l \in [Slots(m) -> Users]
        /\ FlatMap!Held(l) = FlatMap!Held(g.keys) \cup {i}
        /\ Free(l) => Reachable(l)
    BY <1>3, <1>4, <1>9, <2>1, InsertReaches DEF i
  <2>4. Cardinality(FlatMap!Held(l)) <= g.size + 1 /\ Cardinality(FlatMap!Held(l)) < m
    <3>1. Cardinality(FlatMap!Held(l)) = Cardinality(FlatMap!Held(g.keys)) + 1
      BY <1>3, <2>3, FS_AddElement
    <3> QED BY <1>1, <1>3, <3>1
  <2>5. Reachable(l)
    BY <1>3, <2>3, <2>4, RoomLeft
  <2>6. /\ w \in [Slots(m) -> 0 .. c] /\ l[i] = u /\ w[i] = 0
        /\ \A q \in FlatMap!Held(g.keys) : w[q] = g.vals[q] /\ l[q] = g.keys[q]
    BY <1>3, <1>5, <2>3
  <2> HIDE DEF l, w, r
  <2>7. Whole(r, m, c) /\ r.size < m
    <3>1. r.size \in Nat /\ Cardinality(FlatMap!Held(r.keys)) <= r.size /\ r.size < m
      BY <1>1, <1>3, <1>6, <2>4
    <3>2. r.keys \in [Slots(m) -> Users] /\ Reachable(r.keys)
      BY <1>6, <2>3, <2>5
    <3>3. r.vals \in [Slots(m) -> 0 .. c]
      BY <1>6, <2>6
    <3> QED BY <3>1, <3>2, <3>3 DEF Whole
  <2>8. given[u] = 0
    BY <1>1, <2>1, <2>2 DEF Tells
  <2>9. Tells(r, given)
    <3>1. ASSUME NEW q \in FlatMap!Held(l) PROVE w[q] = given[l[q]]
      BY <1>1, <2>3, <2>6, <2>8 DEF Tells
    <3>2. ASSUME NEW v \in Users \ {Empty}, \A q \in FlatMap!Held(l) : l[q] # v
          PROVE  given[v] = 0
      <4>1. \A q \in FlatMap!Held(g.keys) : g.keys[q] # v
        BY <2>3, <2>6, <3>2
      <4> QED BY <1>1, <4>1 DEF Tells
    <3> QED BY <1>6, <3>1, <3>2 DEF Tells
  <2>10. FlatMap!Probe(l, u) = i
    <3>1. i \in FlatMap!Held(l)
      BY <2>3
    <3> QED BY <2>5, <2>6, <3>1 DEF Reachable
  <2>11. /\ FlatMap!Probe(r.keys, u) \in Slots(m) /\ r.keys[FlatMap!Probe(r.keys, u)] = u
    BY <1>5, <1>6, <2>6, <2>10
  <2> QED BY <1>1, <2>1, <2>7, <2>9, <2>11
<1> QED BY <1>7, <1>8, <1>9

LEMMA InitMap == MapInstances /\ FlatMap!Init => MapInv
<1> SUFFICES ASSUME MapInstances, FlatMap!Init PROVE MapInv
  OBVIOUS
<1> DEFINE n == MinCapacity
<1>1. /\ keys = [i \in Slots(n) |-> Empty] /\ vals = [i \in Slots(n) |-> 0] /\ held = 0
      /\ applied = [u \in Users |-> 0] /\ calls = 0
  BY DEF FlatMap!Init, FlatMap!Slots, Slots
<1>2. FlatMap!Held(keys) = {} /\ Cardinality({}) = 0
  BY <1>1, FS_EmptySet DEF FlatMap!Held
<1>3. /\ FlatMap!Table.keys = keys /\ FlatMap!Table.vals = vals /\ FlatMap!Table.size = held
  BY DEF FlatMap!Table
<1>4. Whole(FlatMap!Table, n, calls)
  <2>1. keys \in [Slots(n) -> Users] /\ vals \in [Slots(n) -> 0 .. calls]
    BY <1>1 DEF MapInstances
  <2>2. Reachable(keys)
    BY <1>2, Zenon DEF Reachable
  <2>3. held \in Nat /\ Cardinality(FlatMap!Held(keys)) <= held
    BY <1>1, <1>2
  <2> QED BY <1>3, <2>1, <2>2, <2>3 DEF Whole
<1>5. Tells(FlatMap!Table, applied)
  BY <1>1, <1>2, <1>3 DEF Tells
<1>6. n \in Nat /\ n >= 4 /\ held < n
  BY <1>1 DEF MapInstances
<1>7. applied \in [Users -> 0 .. calls] /\ calls \in 0 .. MaxCalls
  BY <1>1 DEF MapInstances
<1> QED BY <1>4, <1>5, <1>6, <1>7 DEF MapInv

LEMMA NextMap == MapInstances /\ MapInv /\ [FlatMap!Next]_FlatMap!vars => MapInv'
<1> SUFFICES ASSUME MapInstances, MapInv, [FlatMap!Next]_FlatMap!vars PROVE MapInv'
  OBVIOUS
<1>1. /\ calls \in 0 .. MaxCalls /\ applied \in [Users -> 0 .. calls] /\ MaxCalls \in Nat
      /\ Tells(FlatMap!Table, applied)
  BY DEF MapInv, MapInstances
<1>2. PICK n \in Nat : n >= 4 /\ Whole(FlatMap!Table, n, calls) /\ held < n
  BY DEF MapInv
<1>3. /\ FlatMap!Table.keys = keys /\ FlatMap!Table.vals = vals /\ FlatMap!Table.size = held
      /\ FlatMap!Table' = [keys |-> keys', vals |-> vals', size |-> held']
  BY DEF FlatMap!Table
<1>4. ASSUME NEW u \in Users
      PROVE  \E m \in Nat :
               /\ m >= 4 /\ Whole(FlatMap!Get(FlatMap!Table, u), m, calls)
               /\ FlatMap!Get(FlatMap!Table, u).size < m
               /\ Tells(FlatMap!Get(FlatMap!Table, u), applied)
               /\ FlatMap!Probe(FlatMap!Get(FlatMap!Table, u).keys, u) \in Slots(m)
               /\ FlatMap!Get(FlatMap!Table, u).keys[
                    FlatMap!Probe(FlatMap!Get(FlatMap!Table, u).keys, u)] = u
  <2>1. calls \in Nat
    BY <1>1
  <2>2. FlatMap!Table.size < n
    BY <1>2, <1>3
  <2> QED BY <1>1, <1>2, <2>1, <2>2, GetKeeps, Zenon
\* What is left to show of a table.
<1>5. ASSUME NEW t, NEW m \in Nat, m >= 4, Whole(t, m, calls'), t.size < m, Tells(t, applied'),
             keys' = t.keys, vals' = t.vals, held' = t.size,
             calls' \in 0 .. MaxCalls, applied' \in [Users -> 0 .. calls']
      PROVE  MapInv'
  <2>1. /\ FlatMap!Table'.keys = t.keys /\ FlatMap!Table'.vals = t.vals
        /\ FlatMap!Table'.size = t.size
    BY <1>3, <1>5
  <2>2. Whole(FlatMap!Table', m, calls') /\ held' < m
    BY <1>5, <2>1 DEF Whole
  <2>3. Tells(FlatMap!Table', applied')
    BY <1>5, <2>1 DEF Tells
  <2> QED BY <1>5, <2>2, <2>3 DEF MapInv
<1>6. ASSUME NEW u \in Users, FlatMap!User(u) PROVE MapInv'
  <2> DEFINE t == FlatMap!Get(FlatMap!Table, u)
  <2>1. /\ calls < MaxCalls /\ calls' = calls + 1 /\ applied' = applied
        /\ keys' = t.keys /\ vals' = t.vals /\ held' = t.size
    BY <1>6 DEF FlatMap!User
  <2>2. PICK m \in Nat : m >= 4 /\ Whole(t, m, calls) /\ t.size < m /\ Tells(t, applied)
    BY <1>4
  <2> HIDE DEF t
  <2>3. calls' \in 0 .. MaxCalls /\ 0 .. calls \subseteq 0 .. calls'
    BY <1>1, <2>1
  <2>4. applied' \in [Users -> 0 .. calls'] /\ Whole(t, m, calls')
    <3>1. t.vals \in [Slots(m) -> 0 .. calls']
      BY <2>2, <2>3 DEF Whole
    <3>2. applied' \in [Users -> 0 .. calls']
      BY <1>1, <2>1, <2>3
    <3> QED BY <2>2, <3>1, <3>2 DEF Whole
  <2> QED BY <1>5, <2>1, <2>2, <2>3, <2>4
<1>7. ASSUME NEW u \in Users, FlatMap!ApplyEvent(u) PROVE MapInv'
  <2> DEFINE t == FlatMap!Get(FlatMap!Table, u)
             s == FlatMap!Probe(t.keys, u)
             w == [t.vals EXCEPT ![s] = @ + 1]
             r == [keys |-> t.keys, vals |-> w, size |-> t.size]
  <2>1. /\ calls < MaxCalls /\ calls' = calls + 1 /\ applied' = [applied EXCEPT ![u] = @ + 1]
        /\ keys' = t.keys /\ vals' = w /\ held' = t.size
    BY <1>7 DEF FlatMap!ApplyEvent
  <2>2. PICK m \in Nat : /\ m >= 4 /\ Whole(t, m, calls) /\ t.size < m /\ Tells(t, applied)
                         /\ s \in Slots(m) /\ t.keys[s] = u
    BY <1>4
  <2>3. r.keys = t.keys /\ r.vals = w /\ r.size = t.size
    OBVIOUS
  <2> HIDE DEF t
  <2>4. calls' \in 0 .. MaxCalls /\ 0 .. calls \subseteq 0 .. calls'
        /\ \A v \in 0 .. calls : v + 1 \in 0 .. calls'
    BY <1>1, <2>1
  <2>5. applied' \in [Users -> 0 .. calls']
    BY <1>1, <2>1, <2>4
  <2>6. /\ t.vals \in [Slots(m) -> 0 .. calls] /\ t.keys \in [Slots(m) -> Users]
        /\ Reachable(t.keys) /\ t.size \in Nat /\ Cardinality(FlatMap!Held(t.keys)) <= t.size
        /\ FlatMap!Held(t.keys) \subseteq Slots(m)
    <3>1. m \in Nat \ {0}
      BY <2>2
    <3> QED BY <2>2, <3>1, SlotsFinite DEF Whole
  <2>7. \A q \in FlatMap!Held(t.keys) : t.keys[q] = u => q = s
    BY <2>6 DEF Reachable
  <2> HIDE DEF s
  <2>8. /\ w \in [Slots(m) -> 0 .. calls'] /\ w[s] = t.vals[s] + 1
        /\ \A q \in Slots(m) : q # s => w[q] = t.vals[q]
    BY <2>2, <2>4, <2>6
  <2> HIDE DEF w, r
  <2>9. Whole(r, m, calls') /\ r.size < m
    <3>1. r.vals \in [Slots(m) -> 0 .. calls']
      BY <2>3, <2>8
    <3>2. /\ r.keys \in [Slots(m) -> Users] /\ Reachable(r.keys) /\ r.size \in Nat
          /\ Cardinality(FlatMap!Held(r.keys)) <= r.size /\ r.size < m
      BY <2>2, <2>3, <2>6
    <3> QED BY <3>1, <3>2 DEF Whole
  <2>10. Tells(r, applied')
    <3>1. ASSUME NEW q \in FlatMap!Held(t.keys) PROVE w[q] = applied'[t.keys[q]]
      <4>1. t.vals[q] = applied[t.keys[q]] /\ q \in Slots(m) /\ t.keys[q] \in Users
        BY <2>2, <2>6 DEF Tells
      <4>2. CASE q = s
        BY <1>1, <2>1, <2>2, <2>8, <4>1, <4>2
      <4>3. CASE q # s
        BY <1>1, <2>1, <2>7, <2>8, <4>1, <4>3
      <4> QED BY <4>2, <4>3
    <3>2. ASSUME NEW v \in Users \ {Empty}, \A q \in FlatMap!Held(t.keys) : t.keys[q] # v
          PROVE  applied'[v] = 0
      <4>1. applied[v] = 0
        BY <2>2, <3>2 DEF Tells
      <4>2. v # u
        BY <2>2, <2>6, <3>2 DEF FlatMap!Held
      <4> QED BY <1>1, <2>1, <4>1, <4>2
    <3> QED BY <2>3, <3>1, <3>2 DEF Tells
  <2> QED BY <1>5, <2>1, <2>2, <2>3, <2>4, <2>5, <2>9, <2>10
<1>8. CASE UNCHANGED FlatMap!vars
  <2>1. UNCHANGED <<keys, vals, held, applied, calls>>
    BY <1>8 DEF FlatMap!vars
  <2> QED BY <1>1, <1>2, <1>3, <1>5, <2>1
<1> QED BY <1>6, <1>7, <1>8 DEF FlatMap!Next

LEMMA MapIsFaithful == MapInstances /\ MapInv => MapFaithful
<1> SUFFICES ASSUME MapInstances, MapInv PROVE MapFaithful
  OBVIOUS
<1>1. /\ calls \in 0 .. MaxCalls /\ applied \in [Users -> 0 .. calls] /\ MaxCalls \in Nat
      /\ Tells(FlatMap!Table, applied)
  BY DEF MapInv, MapInstances
<1>2. PICK n \in Nat : n >= 4 /\ Whole(FlatMap!Table, n, calls) /\ held < n
  BY DEF MapInv
<1>3. /\ FlatMap!Table.keys = keys /\ FlatMap!Table.vals = vals /\ FlatMap!Table.size = held
  BY DEF FlatMap!Table
<1>4. /\ keys \in [Slots(n) -> Users] /\ vals \in [Slots(n) -> 0 .. calls] /\ n \in Nat \ {0}
      /\ held \in Nat /\ Cardinality(FlatMap!Held(keys)) <= held /\ Reachable(keys)
  BY <1>2, <1>3 DEF Whole
<1>5. FlatMap!Capacity(keys) = n /\ Cardinality(FlatMap!Held(keys)) \in Nat
  BY <1>4, SlotsFinite
<1>6. Free(keys)
  <2>1. Cardinality(FlatMap!Held(keys)) < n
    BY <1>2, <1>4, <1>5
  <2> QED BY <1>4, <2>1, RoomLeft
<1>7. FlatMap!TypeOK
  <2>1. 0 .. calls \subseteq 0 .. MaxCalls
    BY <1>1
  <2>2. \A i \in DOMAIN vals : vals[i] \in 0 .. MaxCalls
    BY <1>4, <2>1
  <2>3. applied \in [Users -> 0 .. MaxCalls]
    BY <1>1, <2>1
  <2>4. held <= FlatMap!Capacity(keys)
    BY <1>2, <1>4, <1>5
  <2>5. keys \in [DOMAIN keys -> Users] /\ DOMAIN vals = DOMAIN keys
    BY <1>4
  <2> QED BY <1>1, <2>2, <2>3, <2>4, <2>5 DEF FlatMap!TypeOK
<1>8. ASSUME NEW u \in Users \ {Empty} PROVE FlatMap!Find(u) = applied[u]
  <2> DEFINE i == FlatMap!Probe(keys, u)
  <2>1. i \in Slots(n) /\ keys[i] \in {Empty, u}
    BY <1>4, <1>6, ProbeEnds
  <2>2. CASE keys[i] = u
    <3>1. i \in FlatMap!Held(keys)
      BY <1>4, <2>1, <2>2 DEF FlatMap!Held
    <3>2. vals[i] = applied[u]
      BY <1>1, <1>3, <2>2, <3>1 DEF Tells
    <3> QED BY <2>2, <3>2 DEF FlatMap!Find
  <2>3. CASE keys[i] # u
    <3>1. \A q \in FlatMap!Held(keys) : keys[q] # u
      BY <1>4, <2>3 DEF Reachable
    <3>2. applied[u] = 0
      BY <1>1, <1>3, <3>1 DEF Tells
    <3> QED BY <2>3, <3>2 DEF FlatMap!Find
  <2> QED BY <2>2, <2>3
<1>9. \A i, j \in FlatMap!Held(keys) : keys[i] = keys[j] => i = j
  BY <1>4 DEF Reachable
<1>10. FlatMap!MapFaithful
  BY <1>6, <1>8, <1>9 DEF FlatMap!MapFaithful, Free
<1> QED BY <1>7, <1>10 DEF MapFaithful

-----------------------------------------------------------------------------
(* What holds of the whole *)

\* A step of Serving is, to each component, a step of its own or none.
LEMMA OneComponent ==
  ASSUME [Next]_vars
  PROVE  /\ [Admission!Next]_Admission!vars /\ [PilotServer!Next]_PilotServer!vars
         /\ [Server!Next]_Server!vars /\ [ShardPool!Next]_ShardPool!vars
         /\ [Deploy!Next]_Deploy!vars /\ [Retrieval!Next]_Retrieval!vars
         /\ [FlatMap!Next]_FlatMap!vars
<1>1. [Admission!Next]_Admission!vars
  BY DEF Next, vars, admissionVars, Admission!vars, AdmissionOnly, RetrievalOnly, PilotOnly,
     DeployOnly, ServerOnly, ShardsOnly, MapOnly
<1>2. [PilotServer!Next]_PilotServer!vars
  BY DEF Next, vars, pilotServerVars, PilotServer!vars, AdmissionOnly, RetrievalOnly, PilotOnly,
     DeployOnly, ServerOnly, ShardsOnly, MapOnly
<1>3. [Server!Next]_Server!vars
  BY DEF Next, vars, serverVars, Server!vars, AdmissionOnly, RetrievalOnly, PilotOnly,
     DeployOnly, ServerOnly, ShardsOnly, MapOnly
<1>4. [ShardPool!Next]_ShardPool!vars
  BY DEF Next, vars, shardPoolVars, ShardPool!vars, AdmissionOnly, RetrievalOnly, PilotOnly,
     DeployOnly, ServerOnly, ShardsOnly, MapOnly
<1>5. [Deploy!Next]_Deploy!vars
  BY DEF Next, vars, deployVars, Deploy!vars, AdmissionOnly, RetrievalOnly, PilotOnly,
     DeployOnly, ServerOnly, ShardsOnly, MapOnly
<1>6. [Retrieval!Next]_Retrieval!vars
  BY DEF Next, vars, retrievalVars, Retrieval!vars, AdmissionOnly, RetrievalOnly, PilotOnly,
     DeployOnly, ServerOnly, ShardsOnly, MapOnly
<1>7. [FlatMap!Next]_FlatMap!vars
  BY DEF Next, vars, flatMapVars, FlatMap!vars, AdmissionOnly, RetrievalOnly, PilotOnly,
     DeployOnly, ServerOnly, ShardsOnly, MapOnly
<1> QED BY <1>1, <1>2, <1>3, <1>4, <1>5, <1>6, <1>7

\* Every request is counted in, admitted, counted out and let go exactly once,
\* whichever way it leaves the middlewares, and 503 depends on exact numbers.
THEOREM AdmissionTheorem == Spec => []RequestsAccounted
<1>0. HttpInstances
  BY ServingAssumption
<1>1. Init => HttpInv
  BY <1>0, InitHttp DEF Init
<1>2. HttpInv /\ [Next]_vars => HttpInv'
  BY <1>0, OneComponent, NextHttp
<1>3. HttpInv => RequestsAccounted
  BY <1>0, HttpIsExact DEF RequestsAccounted
<1> QED BY <1>1, <1>2, <1>3, PTL DEF Spec

\* The pilot's semaphore is exact, the only slots lost being those of connections
\* whose timer could not be started; every connection the TCP server accepts is
\* in the queue, or served by one worker, or closed once, and its counters say
\* so, also when it is interrupted while workers take connections.
THEOREM ConnectionsTheorem == Spec => []ConnectionsExact
<1>0. PilotInstances /\ TcpInstances
  BY ServingAssumption
<1>1. Init => PilotInv /\ TcpInv
  BY <1>0, InitPilot, InitTcp DEF Init
<1>2. PilotInv /\ TcpInv /\ [Next]_vars => PilotInv' /\ TcpInv'
  BY <1>0, OneComponent, NextPilot, NextTcp
<1>3. PilotInv /\ TcpInv => ConnectionsExact
  BY <1>0, SlotsAreExact, TcpIsExact DEF ConnectionsExact
<1> QED BY <1>1, <1>2, <1>3, PTL DEF Spec

\* When run() returns, every shard has run the closure exactly once and none will
\* run it later; a thread that runs has the closure of the run() under way.
THEOREM EachShardOnceTheorem == Spec => []EachShardOnce
<1>0. ShardInstances
  BY ServingAssumption
<1>1. Init => PoolInv
  BY <1>0, InitPool DEF Init
<1>2. PoolInv /\ [Next]_vars => PoolInv'
  BY <1>0, OneComponent, NextPool
<1>3. PoolInv => EachShardOnce
  BY <1>0, PoolIsExact DEF EachShardOnce
<1> QED BY <1>1, <1>2, <1>3, PTL DEF Spec

\* An API that serves has a migrated database and a written bundle behind it,
\* however the job was interrupted, and candidates of another bundle are never
\* used, whichever server has taken over the address it resolved.
THEOREM DeploymentTheorem == Spec => []DeploymentGrounded
<1>0. DeployInstances
  BY ServingAssumption
<1>1. Init => DeployInv
  BY <1>0, InitDeploy DEF Init
<1>2. DeployInv /\ [Next]_vars => DeployInv'
  BY <1>0, OneComponent, NextDeploy
<1>3. DeployInv => DeploymentGrounded
  BY <1>0, DeployIsGrounded DEF DeploymentGrounded
<1> QED BY <1>1, <1>2, <1>3, PTL DEF Spec

\* A retrieval is over by its deadline, over however many addresses, parts and
\* queries, its label says what happened, and what a failed query leaves behind is
\* nothing of an earlier answer.
THEOREM RetrievalTheorem == Spec => []RetrievalHonest
<1>0. RetrievalInstances
  BY ServingAssumption
<1>1. Init => RetrievalInv
  BY <1>0, InitRetrieval DEF Init
<1>2. RetrievalInv /\ [Next]_vars => RetrievalInv'
  BY <1>0, OneComponent, NextRetrieval
<1>3. RetrievalInv => RetrievalHonest
  BY <1>0, RetrievalIsHonest DEF RetrievalHonest
<1> QED BY <1>1, <1>2, <1>3, PTL DEF Spec

\* A probe finds what was counted for a user and nothing else, whatever the hashes
\* and however often the table grew, and always meets a free slot.
THEOREM MapTheorem == Spec => []MapFaithful
<1>0. MapInstances
  BY ServingAssumption
<1>1. Init => MapInv
  BY <1>0, InitMap DEF Init
<1>2. MapInv /\ [Next]_vars => MapInv'
  BY <1>0, OneComponent, NextMap
<1>3. MapInv => MapFaithful
  BY <1>0, MapIsFaithful
<1> QED BY <1>1, <1>2, <1>3, PTL DEF Spec

=============================================================================
