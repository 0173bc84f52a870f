------------------------ MODULE FeatureSnapshotProofs ------------------------
(***************************************************************************)
(* Proofs about FeatureSnapshot for any number of request threads, hazard  *)
(* slots and deltas.                                                       *)
(***************************************************************************)
EXTENDS FeatureSnapshot, SequenceTheorems, FiniteSetTheorems, TLAPS

\* What applying a delta to one table does to the pair of tables.
LEMMA SetLog ==
  ASSUME NEW T \in [TableIds -> Table], NEW t \in TableIds,
         NEW s \in Seq(Deltas)
  PROVE  LET U == [T EXCEPT ![t].log = s]
         IN  /\ U \in [TableIds -> Table]
             /\ U[t].log = s
             /\ U[t].generation = T[t].generation
             /\ \A u \in TableIds : u # t => U[u] = T[u]
<1> DEFINE U == [T EXCEPT ![t].log = s]
<1>1. U = [u \in TableIds |-> IF u = t THEN [T[t] EXCEPT !.log = s] ELSE T[u]]
  OBVIOUS
<1>2. [T[t] EXCEPT !.log = s] = [log |-> s, generation |-> T[t].generation]
  BY DEF Table
<1> HIDE DEF U
<1>3. U \in [TableIds -> Table]
  BY <1>1, <1>2 DEF Table
<1> QED BY <1>1, <1>2, <1>3 DEF U

\* What stamping the generation of one table does to the pair of tables.
LEMMA SetGeneration ==
  ASSUME NEW T \in [TableIds -> Table], NEW t \in TableIds, NEW g \in Nat
  PROVE  LET U == [T EXCEPT ![t].generation = g]
         IN  /\ U \in [TableIds -> Table]
             /\ U[t].generation = g
             /\ U[t].log = T[t].log
             /\ \A u \in TableIds : u # t => U[u] = T[u]
<1> DEFINE U == [T EXCEPT ![t].generation = g]
<1>1. U = [u \in TableIds |->
             IF u = t THEN [T[t] EXCEPT !.generation = g] ELSE T[u]]
  OBVIOUS
<1>2. [T[t] EXCEPT !.generation = g] = [log |-> T[t].log, generation |-> g]
  BY DEF Table
<1> HIDE DEF U
<1>3. U \in [TableIds -> Table]
  BY <1>1, <1>2 DEF Table
<1> QED BY <1>1, <1>2, <1>3 DEF U

\* Type correctness, inductive on its own.
LEMMA InitType == Init => TypeOK
  BY MaxReadersAssumption DEF Init, TypeOK, TableIds, SlotIds, Table

LEMMA NextType == TypeOK /\ [Next]_vars => TypeOK'
<1> SUFFICES ASSUME TypeOK, [Next]_vars PROVE TypeOK'
  OBVIOUS
<1> USE MaxReadersAssumption DEF TypeOK, TableIds, SlotIds, Table,
        storeVars, writerVars, slotVars, readerVars
<1>1. ASSUME NEW d \in Deltas, Stage(d) PROVE TypeOK'
  BY <1>1 DEF Stage
<1>2. CASE PublishBegin
  BY <1>2 DEF PublishBegin
<1>3. CASE ApplyBack
  <2>1. pending[wi] \in Deltas
    BY <1>3, ElementOfSeq DEF ApplyBack
  <2>2. Append(tables[back].log, pending[wi]) \in Seq(Deltas)
    BY <2>1, AppendProperties
  <2>3. tables' \in [TableIds -> Table]
    BY <1>3, <2>2, SetLog DEF ApplyBack
  <2>4. /\ wi' = wi + 1
        /\ UNCHANGED <<live, back, gen, pending, publishes, wpc, front>>
        /\ UNCHANGED <<slotVars, readerVars>>
    BY <1>3 DEF ApplyBack
  <2> HIDE DEF Table
  <2> QED BY <2>3, <2>4
<1>4. CASE StampBack
  <2>1. tables[front].generation + 1 \in Nat
    OBVIOUS
  <2>2. tables' \in [TableIds -> Table]
    BY <1>4, <2>1, SetGeneration DEF StampBack
  <2> QED BY <1>4, <2>2 DEF StampBack
<1>5. CASE StoreGen
  BY <1>5 DEF StoreGen
<1>6. CASE StoreLive
  BY <1>6 DEF StoreLive
<1>7. CASE ScanSlot
  BY <1>7 DEF ScanSlot
<1>8. CASE Quiescent
  BY <1>8 DEF Quiescent
<1>9. CASE ReplayFront
  <2>1. pending[wi] \in Deltas
    BY <1>9, ElementOfSeq DEF ReplayFront
  <2>2. Append(tables[front].log, pending[wi]) \in Seq(Deltas)
    BY <2>1, AppendProperties
  <2>3. tables' \in [TableIds -> Table]
    BY <1>9, <2>2, SetLog DEF ReplayFront
  <2>4. /\ wi' = wi + 1
        /\ UNCHANGED <<live, back, gen, pending, publishes, wpc, front>>
        /\ UNCHANGED <<slotVars, readerVars>>
    BY <1>9 DEF ReplayFront
  <2> HIDE DEF Table
  <2> QED BY <2>3, <2>4
<1>10. CASE PublishEnd
  <2>1. tables[live].generation \in Nat
    OBVIOUS
  <2>2. tables' \in [TableIds -> Table]
    BY <1>10, <2>1, SetGeneration DEF PublishEnd
  <2> HIDE DEF Table
  <2> QED BY <1>10, <2>2 DEF PublishEnd
<1>11. ASSUME NEW r \in Readers, Reader(r) PROVE TypeOK'
  <2>1. CASE BeginRead(r)    BY <2>1 DEF BeginRead
  <2>2. CASE ClaimSlot(r)    BY <2>2 DEF ClaimSlot
  <2>3. CASE SkipSlot(r)
    <3>1. ri' \in [Readers -> 1..(MaxReaders + 1)]
      BY <2>3 DEF SkipSlot
    <3> HIDE DEF Table
    <3> QED BY <2>3, <3>1 DEF SkipSlot
  <2>4. CASE ReaderLimit(r)  BY <2>4 DEF ReaderLimit
  <2>5. CASE AnswerLimit(r)  BY <2>5 DEF AnswerLimit
  <2>6. CASE LoadLive(r)     BY <2>6 DEF LoadLive
  <2>7. CASE Enter(r)        BY <2>7 DEF Enter
  <2>8. CASE Validate(r)     BY <2>8 DEF Validate
  <2>9. CASE Retry(r)        BY <2>9 DEF Retry
  <2>10. CASE ClearHazard(r) BY <2>10 DEF ClearHazard
  <2>11. CASE ReleaseSlot(r) BY <2>11 DEF ReleaseSlot
  <2> QED BY <1>11, <2>1, <2>2, <2>3, <2>4, <2>5, <2>6, <2>7, <2>8, <2>9,
             <2>10, <2>11 DEF Reader
<1>12. CASE UNCHANGED vars
  BY <1>12 DEF vars
<1> QED BY <1>1, <1>2, <1>3, <1>4, <1>5, <1>6, <1>7, <1>8, <1>9, <1>10, <1>11,
           <1>12 DEF Next, Writer

\* Every variable of the store, the ingest thread and the readers keeps its type.
THEOREM TypeCorrect == Spec => []TypeOK
  BY InitType, NextType, PTL DEF Spec

-----------------------------------------------------------------------------
(* Safety of the hazard protocol *)

Owning == {"load", "enter", "check", "hold", "unclaim"}

\* Which table plays which part at each point of publish().
Roles ==
  /\ wpc = "idle" => live # back
  /\ wpc \in {"apply", "gen", "swap"} => live # back /\ front = live
  /\ wpc \in {"wait", "replay"} => live = back /\ front # live

\* A thread past acquire_slot owns its slot alone, and from enter() on the slot
\* announces the table it is about to validate or has validated.
Hazards ==
  /\ \A r \in Readers : rpc[r] \in Owning => claimed[slot[r]]
  /\ \A p, q \in Readers :
       p # q /\ rpc[p] \in Owning /\ rpc[q] \in Owning => slot[p] # slot[q]
  /\ \A r \in Readers :
       rpc[r] \in {"check", "hold"} => announced[slot[r]] = table[r]

\* A validated table is the live one, or the old one at a slot the scan of the
\* grace period has yet to visit.
Protected ==
  \A r \in Readers :
    rpc[r] = "hold" =>
      \/ table[r] = live
      \/ wpc = "wait" /\ table[r] = front /\ wi <= slot[r]

HazardInv == TypeOK /\ Roles /\ Hazards /\ Protected /\ NoTornRead

LEMMA InitHazard == Init => HazardInv
  BY InitType DEF Init, HazardInv, Roles, Hazards, Protected, NoTornRead, Owning

LEMMA WriterHazard ==
  ASSUME HazardInv, TypeOK', Writer
  PROVE  Roles' /\ Hazards' /\ Protected' /\ NoTornRead'
<1> USE MaxReadersAssumption DEF HazardInv, storeVars, writerVars, slotVars, readerVars
<1>1. Hazards'
  <2>1. UNCHANGED <<slotVars, readerVars>>
    BY DEF Writer, Stage, PublishBegin, ApplyBack, StampBack, StoreGen,
           StoreLive, ScanSlot, Quiescent, ReplayFront, PublishEnd
  <2> QED BY <2>1 DEF Hazards
<1> SUFFICES Roles' /\ Protected' /\ NoTornRead'
  BY <1>1
<1>2. ASSUME NEW d \in Deltas, Stage(d) PROVE Roles' /\ Protected' /\ NoTornRead'
  BY <1>2 DEF Stage, Roles, Protected, NoTornRead
<1>3. CASE PublishBegin
  BY <1>3 DEF PublishBegin, Roles, Protected, NoTornRead
<1>4. CASE ApplyBack
  <2>1. Roles' /\ Protected'
    BY <1>4 DEF ApplyBack, Roles, Protected
  <2>2. NoTornRead'
    BY <1>4 DEF ApplyBack, Roles, Protected, NoTornRead, TypeOK
  <2> QED BY <2>1, <2>2
<1>5. CASE StampBack
  <2>1. Roles' /\ Protected'
    BY <1>5 DEF StampBack, Roles, Protected
  <2>2. NoTornRead'
    BY <1>5 DEF StampBack, Roles, Protected, NoTornRead, TypeOK
  <2> QED BY <2>1, <2>2
<1>6. CASE StoreGen
  BY <1>6 DEF StoreGen, Roles, Protected, NoTornRead
<1>7. CASE StoreLive
  BY <1>7 DEF StoreLive, Roles, Protected, NoTornRead, TypeOK, SlotIds, TableIds
<1>8. CASE ScanSlot
  BY <1>8 DEF ScanSlot, Roles, Protected, NoTornRead, Hazards, TypeOK, SlotIds
<1>9. CASE Quiescent
  BY <1>9 DEF Quiescent, Roles, Protected, NoTornRead, TypeOK, SlotIds
<1>10. CASE ReplayFront
  <2>1. Roles' /\ Protected'
    BY <1>10 DEF ReplayFront, Roles, Protected
  <2>2. NoTornRead'
    BY <1>10 DEF ReplayFront, Roles, Protected, NoTornRead, TypeOK
  <2> QED BY <2>1, <2>2
<1>11. CASE PublishEnd
  <2>1. Roles' /\ Protected'
    BY <1>11 DEF PublishEnd, Roles, Protected
  <2>2. NoTornRead'
    BY <1>11 DEF PublishEnd, Roles, Protected, NoTornRead, TypeOK
  <2> QED BY <2>1, <2>2
<1> QED BY <1>2, <1>3, <1>4, <1>5, <1>6, <1>7, <1>8, <1>9, <1>10, <1>11 DEF Writer

LEMMA ReaderHazard ==
  ASSUME HazardInv, TypeOK', NEW r \in Readers, Reader(r)
  PROVE  Roles' /\ Hazards' /\ Protected' /\ NoTornRead'
<1> USE DEF HazardInv, storeVars, writerVars, slotVars, readerVars
<1>1. UNCHANGED <<storeVars, writerVars>>
  BY DEF Reader, BeginRead, ClaimSlot, SkipSlot, ReaderLimit, AnswerLimit,
         LoadLive, Enter, Validate, Retry, ClearHazard, ReleaseSlot
<1>2. Roles'
  BY <1>1 DEF Roles
<1> USE DEF Hazards, Protected, NoTornRead, Owning, TypeOK
<1>3. CASE BeginRead(r)    BY <1>1, <1>2, <1>3 DEF BeginRead
<1>4. CASE ClaimSlot(r)    BY <1>1, <1>2, <1>4 DEF ClaimSlot
<1>5. CASE SkipSlot(r)     BY <1>1, <1>2, <1>5 DEF SkipSlot
<1>6. CASE ReaderLimit(r)  BY <1>1, <1>2, <1>6 DEF ReaderLimit
<1>7. CASE AnswerLimit(r)  BY <1>1, <1>2, <1>7 DEF AnswerLimit
<1>8. CASE LoadLive(r)     BY <1>1, <1>2, <1>8 DEF LoadLive
<1>9. CASE Enter(r)        BY <1>1, <1>2, <1>9 DEF Enter
<1>10. CASE Validate(r)    BY <1>1, <1>2, <1>10 DEF Validate
<1>11. CASE Retry(r)       BY <1>1, <1>2, <1>11 DEF Retry
<1>12. CASE ClearHazard(r) BY <1>1, <1>2, <1>12 DEF ClearHazard
<1>13. CASE ReleaseSlot(r) BY <1>1, <1>2, <1>13 DEF ReleaseSlot
<1> QED BY <1>3, <1>4, <1>5, <1>6, <1>7, <1>8, <1>9, <1>10, <1>11, <1>12, <1>13
        DEF Reader

LEMMA NextHazard == HazardInv /\ [Next]_vars => HazardInv'
<1> SUFFICES ASSUME HazardInv, [Next]_vars PROVE HazardInv'
  OBVIOUS
<1>1. TypeOK'
  BY NextType DEF HazardInv
<1>2. CASE Writer
  BY <1>1, <1>2, WriterHazard DEF HazardInv
<1>3. CASE \E r \in Readers : Reader(r)
  BY <1>1, <1>3, ReaderHazard DEF HazardInv
<1>4. CASE UNCHANGED vars
  BY <1>1, <1>4 DEF vars, storeVars, writerVars, slotVars, readerVars, HazardInv,
     Roles, Hazards, Protected, NoTornRead
<1> QED BY <1>2, <1>3, <1>4 DEF Next

LEMMA HazardInvariant == Spec => []HazardInv
  BY InitHazard, NextHazard, PTL DEF Spec

LEMMA HazardNoRace == HazardInv => NoRace
  BY DEF HazardInv, Roles, Protected, NoRace, Mutating

\* However many request threads and slots there are, the ingest thread never
\* writes a table a validated guard points at.
THEOREM NoRaceTheorem == Spec => []NoRace
  BY HazardInvariant, HazardNoRace, PTL

\* What a validated guard dereferences never changes while the guard lives.
THEOREM NoTornReadTheorem == Spec => []NoTornRead
<1>1. HazardInv => NoTornRead
  BY DEF HazardInv
<1> QED BY <1>1, HazardInvariant, PTL
-----------------------------------------------------------------------------
(* Ownership of the hazard slots *)

LEMMA InitSlots == Init => SlotsExact
  BY DEF Init, SlotsExact, Owns

LEMMA NextSlots == TypeOK /\ SlotsExact /\ [Next]_vars => SlotsExact'
<1> SUFFICES ASSUME TypeOK, SlotsExact, [Next]_vars PROVE SlotsExact'
  OBVIOUS
<1> USE DEF storeVars, writerVars, slotVars, readerVars
<1>1. CASE UNCHANGED <<slotVars, readerVars>>
  BY <1>1 DEF SlotsExact, Owns
<1>2. ASSUME NEW r \in Readers, Reader(r) PROVE SlotsExact'
  <2>1. CASE ClaimSlot(r)
    <3>1. \A q \in Readers, s \in SlotIds :
            Owns(q, s)' <=> IF q = r THEN s = ri[r] ELSE Owns(q, s)
      BY <2>1 DEF ClaimSlot, Owns, TypeOK
    <3>2. \A s \in SlotIds : claimed'[s] <=> (s = ri[r] \/ claimed[s])
      BY <2>1 DEF ClaimSlot, TypeOK
    <3>3. ~claimed[ri[r]] /\ ri[r] \in SlotIds
      BY <2>1 DEF ClaimSlot
    <3>4. \A s \in SlotIds : ~Owns(r, s)
      BY <2>1 DEF ClaimSlot, Owns
    <3> QED BY <3>1, <3>2, <3>3, <3>4 DEF SlotsExact
  <2>2. CASE ReleaseSlot(r)
    <3>1. \A q \in Readers, s \in SlotIds :
            Owns(q, s)' <=> (q # r /\ Owns(q, s))
      BY <2>2 DEF ReleaseSlot, Owns, TypeOK
    <3>2. \A s \in SlotIds : claimed'[s] <=> (s # slot[r] /\ claimed[s])
      BY <2>2 DEF ReleaseSlot, TypeOK
    <3>3. slot[r] \in SlotIds /\ \A s \in SlotIds : Owns(r, s) <=> s = slot[r]
      BY <2>2 DEF ReleaseSlot, Owns, TypeOK
    <3> QED BY <3>1, <3>2, <3>3 DEF SlotsExact
  <2>3. ASSUME UNCHANGED <<claimed, slot>>,
               \A q \in Readers : rpc'[q] \in Owning <=> rpc[q] \in Owning
        PROVE  SlotsExact'
    BY <2>3 DEF SlotsExact, Owns, Owning
  <2>4. CASE BeginRead(r) \/ SkipSlot(r) \/ ReaderLimit(r) \/ AnswerLimit(r)
             \/ LoadLive(r) \/ Enter(r) \/ Validate(r) \/ Retry(r) \/ ClearHazard(r)
    BY <2>3, <2>4 DEF BeginRead, SkipSlot, ReaderLimit, AnswerLimit, LoadLive,
       Enter, Validate, Retry, ClearHazard, Owning, TypeOK
  <2> QED BY <1>2, <2>1, <2>2, <2>4 DEF Reader
<1>3. Writer => UNCHANGED <<slotVars, readerVars>>
  BY DEF Writer, Stage, PublishBegin, ApplyBack, StampBack, StoreGen,
         StoreLive, ScanSlot, Quiescent, ReplayFront, PublishEnd
<1> QED BY <1>1, <1>2, <1>3 DEF Next, vars

LEMMA SlotsInvariant == Spec => [](TypeOK /\ SlotsExact)
  BY InitType, InitSlots, NextType, NextSlots, PTL DEF Spec

\* However many request threads compete for however many slots, a slot is claimed
\* exactly while one of them owns it: none leaks and none is shared.
THEOREM SlotsExactTheorem == Spec => []SlotsExact
  BY SlotsInvariant, PTL

-----------------------------------------------------------------------------
(* One history in both tables *)

\* The old log with the whole batch, and either log with what publish() still
\* has to apply or to replay of it.
Rest == SubSeq(pending, wi, Len(pending))
FrontAll == tables[front].log \o pending
BackRest == tables[back].log \o Rest
FrontRest == tables[front].log \o Rest

\* At each point of publish() the two logs differ by exactly what is left of
\* the batch, and the generations by the one being published.
History ==
  /\ wpc = "idle" => tables[live].log = tables[back].log
  /\ wpc # "idle" => pending # <<>>
  /\ wpc = "apply" => wi <= Len(pending) + 1 /\ FrontAll = BackRest
  /\ wpc \in {"gen", "swap"} =>
       /\ tables[back].log = FrontAll
       /\ tables[back].generation = tables[front].generation + 1
  /\ wpc = "wait" =>
       /\ tables[live].log = FrontAll
       /\ tables[live].generation = tables[front].generation + 1
  /\ wpc = "replay" => wi <= Len(pending) + 1 /\ tables[live].log = FrontRest
  /\ gen = tables[live].generation + (IF wpc = "swap" THEN 1 ELSE 0)

\* No request thread has seen a generation beyond the live one.
LastSeen == \A r \in Readers : last[r] <= tables[live].generation

HistoryInv == HazardInv /\ History /\ LastSeen

\* Moving the next delta of the batch to the end of a log moves it from one side
\* of the concatenation to the other.
LEMMA AppendNext ==
  ASSUME NEW S, NEW s \in Seq(S), NEW p \in Seq(S), NEW i \in 1..Len(p)
  PROVE  /\ p[i] \in S
         /\ Append(s, p[i]) \in Seq(S)
         /\ SubSeq(p, i, Len(p)) \in Seq(S)
         /\ Append(s, p[i]) \o SubSeq(p, i + 1, Len(p)) = s \o SubSeq(p, i, Len(p))
<1>1. p[i] \in S
  BY ElementOfSeq
<1>2. Append(s, p[i]) \in Seq(S) /\ Append(s, p[i]) = s \o <<p[i]>>
  BY <1>1, AppendProperties, AppendIsConcat
<1>3. Len(p) \in Nat
  BY LenProperties
<1>4. /\ SubSeq(p, i, Len(p)) \in Seq(S)
      /\ SubSeq(p, i + 1, Len(p)) \in Seq(S)
  <2>1. \A j \in i..Len(p) : p[j] \in S
    BY <1>3, ElementOfSeq
  <2>2. \A j \in (i + 1)..Len(p) : p[j] \in S
    BY <1>3, ElementOfSeq
  <2>3. i \in Int /\ i + 1 \in Int /\ Len(p) \in Int
    BY <1>3
  <2> QED BY <2>1, <2>2, <2>3, SubSeqProperties
<1>5. SubSeq(p, i, Len(p)) = <<p[i]>> \o SubSeq(p, i + 1, Len(p))
  <2>1. i \in 1..Len(p) /\ Len(p) \in i..Len(p)
    BY <1>3
  <2> QED BY <2>1, SubSeqRecursiveFirst
<1>6. <<p[i]>> \in Seq(S)
  BY <1>1
<1>7. (s \o <<p[i]>>) \o SubSeq(p, i + 1, Len(p)) =
        s \o (<<p[i]>> \o SubSeq(p, i + 1, Len(p)))
  <2>1. \A t, u \in Seq(S) : (s \o t) \o u = s \o (t \o u)
    <3> SUFFICES ASSUME NEW t \in Seq(S), NEW u \in Seq(S)
                 PROVE  (s \o t) \o u = s \o (t \o u)
      OBVIOUS
    <3> QED BY ConcatAssociative, SMTT(60)
  <2> QED BY <1>4, <1>6, <2>1, Zenon
<1> QED BY <1>1, <1>2, <1>4, <1>5, <1>7

\* Nothing is left of the batch past its end, and all of it at its beginning.
LEMMA RestEnds ==
  ASSUME NEW S, NEW s \in Seq(S), NEW p \in Seq(S), NEW i \in Nat
  PROVE  /\ i > Len(p) => s \o SubSeq(p, i, Len(p)) = s
         /\ s \o SubSeq(p, 1, Len(p)) = s \o p
<1>1. Len(p) \in Nat
  BY LenProperties
<1>2. ASSUME i > Len(p) PROVE s \o SubSeq(p, i, Len(p)) = s
  <2>1. SubSeq(p, i, Len(p)) = <<>>
    BY <1>1, <1>2, SubSeqEmpty
  <2> QED BY <2>1, ConcatEmptySeq
<1>3. SubSeq(p, 1, Len(p)) = p
  BY SubSeqFull
<1> QED BY <1>2, <1>3

LEMMA InitHistory == Init => HistoryInv
<1> SUFFICES ASSUME Init PROVE HistoryInv
  OBVIOUS
<1>1. HazardInv
  BY InitHazard
<1>2. tables[0] = [log |-> <<>>, generation |-> 1] /\ tables[1].log = <<>>
  BY DEF Init, TableIds
<1>3. live = 0 /\ back = 1 /\ gen = 1 /\ wpc = "idle" /\ last = [r \in Readers |-> 0]
  BY DEF Init
<1> QED BY <1>1, <1>2, <1>3 DEF HistoryInv, History, LastSeen

LEMMA WriterHistory ==
  ASSUME HistoryInv, TypeOK', Writer
  PROVE  History' /\ LastSeen'
<1> USE DEF storeVars, writerVars, slotVars, readerVars
<1>h. History /\ LastSeen /\ Roles
  BY DEF HistoryInv, HazardInv
<1>t. /\ tables \in [TableIds -> Table] /\ pending \in Seq(Deltas)
      /\ live \in TableIds /\ back \in TableIds /\ front \in TableIds
      /\ wi \in Nat \ {0} /\ gen \in Nat /\ last \in [Readers -> Nat]
  BY DEF HistoryInv, HazardInv, TypeOK
<1>l. \A t \in TableIds : tables[t].log \in Seq(Deltas) /\ tables[t].generation \in Nat
  BY <1>t DEF Table
<1>n. Len(pending) \in Nat
  BY <1>t, LenProperties
<1>1. ASSUME NEW d \in Deltas, Stage(d) PROVE History' /\ LastSeen'
  BY <1>1, <1>t, <1>h DEF Stage, History, LastSeen
<1>2. CASE PublishBegin
  <2>1. /\ wpc' = "apply" /\ wi' = 1 /\ front' = live
        /\ UNCHANGED <<tables, live, back, gen, pending, last>>
        /\ pending # <<>> /\ wpc = "idle"
    BY <1>2 DEF PublishBegin
  <2>2. /\ BackRest' = tables[back].log \o SubSeq(pending, 1, Len(pending))
        /\ FrontAll' = tables[live].log \o pending
    BY <2>1, Zenon DEF BackRest, FrontAll, Rest
  <2>3. tables[back].log \o SubSeq(pending, 1, Len(pending)) = tables[back].log \o pending
    BY <1>t, <1>l, RestEnds
  <2>4. tables[live].log = tables[back].log
    BY <1>h, <2>1 DEF History
  <2>5. BackRest' = FrontAll'
    BY <2>2, <2>3, <2>4, Zenon
  <2> QED BY <1>h, <1>t, <1>n, <2>1, <2>5 DEF History, LastSeen
<1>3. CASE ApplyBack
  <2>1. /\ wpc = "apply" /\ wpc' = "apply" /\ wi' = wi + 1 /\ wi \in 1..Len(pending)
        /\ tables' = [tables EXCEPT ![back].log = Append(@, pending[wi])]
        /\ UNCHANGED <<live, back, front, gen, pending, last>>
    BY <1>3, <1>t, <1>n DEF ApplyBack
  <2>2. tables[back].log \in Seq(Deltas)
    BY <1>t, <1>l
  <2>3. /\ Append(tables[back].log, pending[wi]) \in Seq(Deltas)
        /\ Append(tables[back].log, pending[wi]) \o SubSeq(pending, wi + 1, Len(pending))
             = BackRest
    <3>1. pending \in Seq(Deltas) /\ wi \in 1..Len(pending)
      BY <1>t, <2>1
    <3>2. /\ Append(tables[back].log, pending[wi]) \in Seq(Deltas)
          /\ Append(tables[back].log, pending[wi]) \o SubSeq(pending, wi + 1, Len(pending))
               = tables[back].log \o SubSeq(pending, wi, Len(pending))
      BY <3>1, <2>2, AppendNext, Zenon
    <3> QED BY <3>2, Zenon DEF BackRest, Rest
  <2>4. live # back /\ front = live
    BY <1>h, <2>1 DEF Roles
  <2>5. /\ tables'[back].log = Append(tables[back].log, pending[wi])
        /\ tables'[live] = tables[live]
    BY <1>t, <2>1, <2>3, <2>4, SetLog
  <2>6. BackRest' = BackRest
    BY <2>1, <2>3, <2>5, Zenon DEF BackRest, Rest
  <2>7. FrontAll' = FrontAll
    BY <2>1, <2>4, <2>5, Zenon DEF FrontAll
  <2> QED BY <1>h, <1>t, <1>n, <2>1, <2>5, <2>6, <2>7 DEF History, LastSeen
<1>4. CASE StampBack
  <2>1. /\ wpc = "apply" /\ wpc' = "gen" /\ wi > Len(pending)
        /\ tables' = [tables EXCEPT ![back].generation = tables[front].generation + 1]
        /\ UNCHANGED <<live, back, front, gen, pending, last, wi>>
    BY <1>4 DEF StampBack
  <2>2. live # back /\ front = live
    BY <1>h, <2>1 DEF Roles
  <2>3. /\ tables'[back].log = tables[back].log
        /\ tables'[back].generation = tables[front].generation + 1
        /\ tables'[live] = tables[live]
    BY <1>t, <1>l, <2>1, <2>2, SetGeneration
  <2>4. BackRest = tables[back].log
    BY <1>t, <1>l, <2>1, RestEnds DEF BackRest, Rest
  <2>5. FrontAll' = FrontAll
    BY <2>1, <2>2, <2>3, Zenon DEF FrontAll
  <2> QED BY <1>h, <1>t, <1>l, <2>1, <2>2, <2>3, <2>4, <2>5 DEF History, LastSeen
<1>5. CASE StoreGen
  <2>1. FrontAll' = FrontAll
    BY <1>5, Zenon DEF StoreGen, FrontAll
  <2> QED BY <1>5, <1>h, <1>t, <1>l, <2>1 DEF StoreGen, History, LastSeen, Roles
<1>6. CASE StoreLive
  <2>1. /\ wpc = "swap" /\ wpc' = "wait" /\ live' = back
        /\ UNCHANGED <<tables, back, front, gen, pending, last>>
    BY <1>6 DEF StoreLive
  <2>2. front = live
    BY <1>h, <2>1 DEF Roles
  <2>3. FrontAll' = FrontAll
    BY <2>1, Zenon DEF FrontAll
  <2> QED BY <1>h, <1>t, <1>l, <2>1, <2>2, <2>3 DEF History, LastSeen
<1>7. CASE ScanSlot
  <2>1. FrontAll' = FrontAll
    BY <1>7, Zenon DEF ScanSlot, FrontAll
  <2> QED BY <1>7, <1>h, <1>t, <2>1 DEF ScanSlot, History, LastSeen
<1>8. CASE Quiescent
  <2>1. /\ wpc = "wait" /\ wpc' = "replay" /\ wi' = 1
        /\ UNCHANGED <<tables, live, back, front, gen, pending, last>>
    BY <1>8 DEF Quiescent
  <2>2. FrontRest' = tables[front].log \o SubSeq(pending, 1, Len(pending))
    BY <2>1, Zenon DEF FrontRest, Rest
  <2>3. FrontRest' = FrontAll
    BY <1>t, <1>l, <2>2, RestEnds DEF FrontAll
  <2> QED BY <1>h, <1>t, <1>n, <2>1, <2>3 DEF History, LastSeen
<1>9. CASE ReplayFront
  <2>1. /\ wpc = "replay" /\ wpc' = "replay" /\ wi' = wi + 1 /\ wi \in 1..Len(pending)
        /\ tables' = [tables EXCEPT ![front].log = Append(@, pending[wi])]
        /\ UNCHANGED <<live, back, front, gen, pending, last>>
    BY <1>9, <1>t, <1>n DEF ReplayFront
  <2>2. tables[front].log \in Seq(Deltas)
    BY <1>t, <1>l
  <2>3. /\ Append(tables[front].log, pending[wi]) \in Seq(Deltas)
        /\ Append(tables[front].log, pending[wi]) \o SubSeq(pending, wi + 1, Len(pending))
             = FrontRest
    <3>1. pending \in Seq(Deltas) /\ wi \in 1..Len(pending)
      BY <1>t, <2>1
    <3>2. /\ Append(tables[front].log, pending[wi]) \in Seq(Deltas)
          /\ Append(tables[front].log, pending[wi]) \o SubSeq(pending, wi + 1, Len(pending))
               = tables[front].log \o SubSeq(pending, wi, Len(pending))
      BY <3>1, <2>2, AppendNext, Zenon
    <3> QED BY <3>2, Zenon DEF FrontRest, Rest
  <2>4. front # live
    BY <1>h, <2>1 DEF Roles
  <2>5. /\ tables'[front].log = Append(tables[front].log, pending[wi])
        /\ tables'[live] = tables[live]
    BY <1>t, <2>1, <2>3, <2>4, SetLog
  <2>6. FrontRest' = FrontRest
    BY <2>1, <2>3, <2>5, Zenon DEF FrontRest, Rest
  <2>7. tables[live].log = FrontRest /\ pending # <<>> /\ gen = tables[live].generation
    BY <1>h, <1>t, <1>l, <2>1 DEF History
  <2>8. /\ wpc' = "replay" /\ wi' <= Len(pending') + 1 /\ pending' # <<>>
        /\ tables'[live'] = tables[live] /\ gen' = gen /\ last' = last
    BY <1>n, <2>1, <2>5, <2>7
  <2>9. gen' = tables'[live'].generation + 0
    BY <1>t, <1>l, <2>7, <2>8
  <2>10. History'
    BY <2>6, <2>7, <2>8, <2>9 DEF History
  <2> QED BY <1>h, <2>8, <2>10 DEF LastSeen
<1>10. CASE PublishEnd
  <2>1. /\ wpc = "replay" /\ wpc' = "idle" /\ wi > Len(pending) /\ back' = front
        /\ tables' = [tables EXCEPT ![front].generation = tables[live].generation]
        /\ UNCHANGED <<live, gen, last>>
    BY <1>10 DEF PublishEnd
  <2>2. front # live
    BY <1>h, <2>1 DEF Roles
  <2>3. tables'[front].log = tables[front].log /\ tables'[live] = tables[live]
    BY <1>t, <1>l, <2>1, <2>2, SetGeneration
  <2>4. FrontRest = tables[front].log
    BY <1>t, <1>l, <2>1, RestEnds DEF FrontRest, Rest
  <2> QED BY <1>h, <2>1, <2>3, <2>4, <1>t DEF History, LastSeen
<1> QED BY <1>1, <1>2, <1>3, <1>4, <1>5, <1>6, <1>7, <1>8, <1>9, <1>10 DEF Writer

LEMMA NextHistory == HistoryInv /\ [Next]_vars => HistoryInv'
<1> SUFFICES ASSUME HistoryInv, [Next]_vars PROVE HistoryInv'
  OBVIOUS
<1>h. HazardInv' /\ TypeOK'
  BY NextHazard DEF HistoryInv, HazardInv
<1> SUFFICES History' /\ LastSeen'
  BY <1>h DEF HistoryInv
<1>1. CASE Writer
  BY <1>1, <1>h, WriterHistory
<1> USE DEF storeVars, writerVars, slotVars, readerVars
<1>2. ASSUME UNCHANGED <<storeVars, writerVars>> PROVE History'
  BY <1>2 DEF HistoryInv, History, FrontAll, BackRest, FrontRest, Rest
<1>3. ASSUME NEW r \in Readers, Reader(r) PROVE History' /\ LastSeen'
  <2>1. UNCHANGED <<storeVars, writerVars>>
    BY <1>3 DEF Reader, BeginRead, ClaimSlot, SkipSlot, ReaderLimit, AnswerLimit,
           LoadLive, Enter, Validate, Retry, ClearHazard, ReleaseSlot
  <2>2. CASE UNCHANGED last
    BY <1>2, <2>1, <2>2 DEF HistoryInv, LastSeen
  <2>3. CASE Validate(r)
    <3>1. tables[live].generation \in Nat /\ last \in [Readers -> Nat]
      BY DEF HistoryInv, HazardInv, TypeOK, Table
    <3>2. LastSeen'
      BY <2>1, <2>3, <3>1 DEF Validate, HistoryInv, LastSeen
    <3> QED BY <1>2, <2>1, <3>2
  <2> QED BY <1>3, <2>2, <2>3 DEF Reader, BeginRead, ClaimSlot, SkipSlot, ReaderLimit,
             AnswerLimit, LoadLive, Enter, Retry, ClearHazard, ReleaseSlot
<1>4. CASE UNCHANGED vars
  BY <1>2, <1>4 DEF vars, HistoryInv, LastSeen
<1> QED BY <1>1, <1>3, <1>4 DEF Next

LEMMA HistoryInvariant == Spec => []HistoryInv
  BY InitHistory, NextHistory, PTL DEF Spec
\* The history gives what publish() leaves to its readers.
LEMMA HistoryPublication == HistoryInv => TablesAgree /\ GenerationBound
<1> SUFFICES ASSUME HistoryInv PROVE TablesAgree /\ GenerationBound
  OBVIOUS
<1>h. History /\ Roles /\ Protected /\ NoTornRead
  BY DEF HistoryInv, HazardInv
<1>t. /\ live \in TableIds /\ back \in TableIds /\ front \in TableIds /\ gen \in Nat
      /\ table \in [Readers -> TableIds]
      /\ \A t \in TableIds : tables[t].generation \in Nat
      /\ wpc \in {"idle", "apply", "gen", "swap", "wait", "replay"}
  BY DEF HistoryInv, HazardInv, TypeOK, Table
<1>1. TablesAgree
  BY <1>h, <1>t DEF History, Roles, TablesAgree, TableIds
<1>2. gen \in {tables[live].generation, tables[live].generation + 1}
  BY <1>h, <1>t DEF History
<1>3. ASSUME NEW r \in Readers, rpc[r] = "hold" PROVE seen[r].generation <= gen
  <2>1. seen[r] = tables[table[r]]
    BY <1>3, <1>h DEF NoTornRead
  <2>2. CASE table[r] = live
    BY <1>2, <1>t, <2>1, <2>2
  <2>3. CASE wpc = "wait" /\ table[r] = front
    <3>1. /\ tables[live].generation = tables[front].generation + 1
          /\ gen = tables[live].generation + 0
      BY <1>h, <2>3 DEF History
    <3> QED BY <1>t, <2>1, <2>3, <3>1
  <2> QED BY <1>3, <1>h, <2>2, <2>3 DEF Protected
<1> QED BY <1>1, <1>2, <1>3 DEF GenerationBound

\* Successive snapshots of a request thread never go back: the next one is the
\* live table, and no thread has seen beyond it.
THEOREM MonotoneReadsTheorem == Spec => MonotoneReads
<1>1. HistoryInv /\ [Next]_vars => [\A r \in Readers : last'[r] >= last[r]]_vars
  <2> SUFFICES ASSUME HistoryInv, [Next]_vars
               PROVE  \A r \in Readers : last'[r] >= last[r]
    OBVIOUS
  <2>t. last \in [Readers -> Nat] /\ tables[live].generation \in Nat
    BY DEF HistoryInv, HazardInv, TypeOK, Table
  <2>1. CASE UNCHANGED last
    BY <2>1, <2>t
  <2>2. ASSUME NEW r \in Readers, Validate(r)
        PROVE  \A q \in Readers : last'[q] >= last[q]
    BY <2>2, <2>t DEF Validate, HistoryInv, LastSeen
  <2> QED BY <2>1, <2>2 DEF Next, Writer, Stage, PublishBegin, ApplyBack, StampBack,
             StoreGen, StoreLive, ScanSlot, Quiescent, ReplayFront, PublishEnd, Reader,
             BeginRead, ClaimSlot, SkipSlot, ReaderLimit, AnswerLimit, LoadLive, Enter,
             Retry, ClearHazard, ReleaseSlot, vars, readerVars
<1> QED BY <1>1, HistoryInvariant, PTL DEF Spec, MonotoneReads

-----------------------------------------------------------------------------
(* A slot for every request thread *)

\* No more request threads than slots.
Enough == IsFiniteSet(Readers) /\ Cardinality(Readers) <= MaxReaders

\* How far a thread has come in the registry: the slot it looks at, the slot it
\* owns, or none.
Place(r) ==
  IF rpc[r] \in {"scan", "limit"} THEN ri[r]
  ELSE IF rpc[r] \in Owning THEN slot[r]
  ELSE 0

Beyond(i) == {r \in Readers : Place(r) >= i}

\* The threads at slot i or beyond leave one thread for each slot before i: the
\* first of them found those slots taken, and whoever left one since has left
\* the crowd or stands behind.
Crowd ==
  \A i \in 1..(MaxReaders + 1) :
    Beyond(i) # {} => Cardinality(Beyond(i)) + i <= Cardinality(Readers) + 1

CrowdInv == TypeOK /\ SlotsExact /\ (Enough => Crowd)

LEMMA BeyondFinite ==
  ASSUME Enough, NEW i
  PROVE  IsFiniteSet(Beyond(i)) /\ Cardinality(Beyond(i)) \in Nat
<1>1. Beyond(i) \in SUBSET Readers
  BY DEF Beyond
<1> QED BY <1>1, FS_Subset, FS_CardinalityType DEF Enough

\* A crowd that does not grow anywhere stays within its bound.
LEMMA CrowdShrinks ==
  ASSUME Enough, Crowd, \A r \in Readers : Place(r)' = Place(r) \/ Place(r)' = 0
  PROVE  Crowd'
<1> SUFFICES ASSUME NEW i \in 1..(MaxReaders + 1), Beyond(i)' # {}
             PROVE  Cardinality(Beyond(i)') + i <= Cardinality(Readers) + 1
  BY DEF Crowd
<1>1. Beyond(i)' \in SUBSET Beyond(i)
  BY MaxReadersAssumption DEF Beyond
<1>2. IsFiniteSet(Beyond(i)) /\ Cardinality(Beyond(i)) \in Nat
  BY BeyondFinite
<1>3. /\ Cardinality(Beyond(i)') <= Cardinality(Beyond(i))
      /\ Cardinality(Beyond(i)') \in Nat
  BY <1>1, <1>2, FS_Subset, FS_CardinalityType
<1>4. Cardinality(Readers) \in Nat
  BY FS_CardinalityType DEF Enough
<1>5. Cardinality(Beyond(i)) + i <= Cardinality(Readers) + 1
  BY <1>1 DEF Crowd
<1> QED BY <1>2, <1>3, <1>4, <1>5, MaxReadersAssumption

LEMMA NextCrowd == CrowdInv /\ [Next]_vars => CrowdInv'
<1> SUFFICES ASSUME CrowdInv, [Next]_vars, Enough PROVE Crowd'
  BY NextType, NextSlots DEF CrowdInv
<1> USE DEF storeVars, writerVars, slotVars, readerVars
<1>t. /\ rpc \in [Readers -> {"idle", "scan", "limit", "load", "enter", "check",
                              "hold", "unclaim"}]
      /\ ri \in [Readers -> 1..(MaxReaders + 1)] /\ slot \in [Readers -> SlotIds]
      /\ claimed \in [SlotIds -> BOOLEAN]
  BY DEF CrowdInv, TypeOK
<1>c. Crowd /\ SlotsExact
  BY DEF CrowdInv
<1>m. MaxReaders \in Nat /\ Cardinality(Readers) \in Nat
  BY MaxReadersAssumption, FS_CardinalityType DEF Enough
<1>1. CASE UNCHANGED readerVars
  BY <1>1, <1>c, CrowdShrinks DEF Place
<1>2. ASSUME NEW r \in Readers, Reader(r) PROVE Crowd'
  <2>1. CASE BeginRead(r)
    <3> SUFFICES ASSUME NEW i \in 1..(MaxReaders + 1), Beyond(i)' # {}
                 PROVE  Cardinality(Beyond(i)') + i <= Cardinality(Readers) + 1
      BY DEF Crowd
    <3>1. /\ Place(r)' = 1 /\ Place(r) = 0
          /\ \A q \in Readers \ {r} : Place(q)' = Place(q)
      BY <2>1, <1>t DEF BeginRead, Place, Owning
    <3>2. CASE i = 1
      <4>1. Beyond(i)' \in SUBSET Readers
        BY DEF Beyond
      <4>2. /\ Cardinality(Beyond(i)') <= Cardinality(Readers)
            /\ Cardinality(Beyond(i)') \in Nat
        BY <4>1, FS_Subset, FS_CardinalityType DEF Enough
      <4> QED BY <1>m, <3>2, <4>2
    <3>3. CASE i # 1
      <4>1. Beyond(i)' = Beyond(i)
        BY <1>m, <3>1, <3>3 DEF Beyond
      <4> QED BY <1>c, <4>1 DEF Crowd
    <3> QED BY <3>2, <3>3
  <2>2. CASE SkipSlot(r)
    <3> SUFFICES ASSUME NEW i \in 1..(MaxReaders + 1), Beyond(i)' # {}
                 PROVE  Cardinality(Beyond(i)') + i <= Cardinality(Readers) + 1
      BY DEF Crowd
    <3>1. /\ Place(r)' = ri[r] + 1 /\ Place(r) = ri[r] /\ ri[r] \in SlotIds
          /\ \A q \in Readers \ {r} : Place(q)' = Place(q)
      BY <2>2, <1>t DEF SkipSlot, Place, Owning
    <3>2. CASE i = ri[r] + 1
      <4>1. claimed[ri[r]]
        BY <2>2 DEF SkipSlot
      <4>2. PICK p \in Readers : Owns(p, ri[r])
        BY <1>c, <3>1, <4>1 DEF SlotsExact
      <4>3. p # r /\ Place(p) = ri[r] /\ Place(p)' = ri[r]
        BY <2>2, <1>t, <4>2, <3>1 DEF SkipSlot, Owns, Place, Owning
      <4>4. ri[r] \in 1..(MaxReaders + 1) /\ ri[r] \in Nat
        BY <1>t, <1>m
      <4>5. \A q \in Readers : Place(q) \in Nat
        BY <1>t, <1>m DEF Place, SlotIds
      <4>6. p \in Beyond(ri[r]) /\ Beyond(i)' \in SUBSET (Beyond(ri[r]) \ {p})
        BY <3>1, <3>2, <4>3, <4>4, <4>5 DEF Beyond
      <4>7. IsFiniteSet(Beyond(ri[r])) /\ Cardinality(Beyond(ri[r])) \in Nat
        BY BeyondFinite
      <4>8. /\ IsFiniteSet(Beyond(ri[r]) \ {p})
            /\ Cardinality(Beyond(ri[r]) \ {p}) = Cardinality(Beyond(ri[r])) - 1
        BY <4>6, <4>7, FS_RemoveElement
      <4>9. /\ Cardinality(Beyond(i)') <= Cardinality(Beyond(ri[r]) \ {p})
            /\ Cardinality(Beyond(i)') \in Nat
        BY <4>6, <4>8, FS_Subset, FS_CardinalityType
      <4>10. Cardinality(Beyond(ri[r])) + ri[r] <= Cardinality(Readers) + 1
        BY <1>c, <4>4, <4>6 DEF Crowd
      <4> QED BY <1>m, <3>2, <4>4, <4>7, <4>8, <4>9, <4>10
    <3>3. CASE i # ri[r] + 1
      <4>1. Beyond(i)' = Beyond(i)
        BY <1>t, <1>m, <3>1, <3>3 DEF Beyond
      <4> QED BY <1>c, <4>1 DEF Crowd
    <3> QED BY <3>2, <3>3
  <2>3. CASE ClaimSlot(r)
    <3>1. \A q \in Readers : Place(q)' = Place(q)
      BY <2>3, <1>t DEF ClaimSlot, Place, Owning
    <3> QED BY <1>c, <3>1, CrowdShrinks
  <2>4. CASE ReleaseSlot(r) \/ AnswerLimit(r)
    <3>1. \A q \in Readers : Place(q)' = Place(q) \/ Place(q)' = 0
      BY <2>4, <1>t DEF ReleaseSlot, AnswerLimit, Place, Owning
    <3> QED BY <1>c, <3>1, CrowdShrinks
  <2>5. CASE ReaderLimit(r) \/ LoadLive(r) \/ Enter(r) \/ Validate(r) \/ Retry(r)
             \/ ClearHazard(r)
    <3>1. \A q \in Readers : Place(q)' = Place(q)
      BY <2>5, <1>t DEF ReaderLimit, LoadLive, Enter, Validate, Retry, ClearHazard,
         Place, Owning
    <3> QED BY <1>c, <3>1, CrowdShrinks
  <2> QED BY <1>2, <2>1, <2>2, <2>3, <2>4, <2>5 DEF Reader
<1>3. Writer => UNCHANGED readerVars
  BY DEF Writer, Stage, PublishBegin, ApplyBack, StampBack, StoreGen,
         StoreLive, ScanSlot, Quiescent, ReplayFront, PublishEnd
<1> QED BY <1>1, <1>2, <1>3 DEF Next, vars

LEMMA CrowdLimit == CrowdInv /\ Enough => \A r \in Readers : ~ReaderLimit(r)
<1> SUFFICES ASSUME CrowdInv, Enough, NEW r \in Readers, ReaderLimit(r) PROVE FALSE
  OBVIOUS
<1>m. MaxReaders \in Nat /\ Cardinality(Readers) \in Nat /\ Cardinality(Readers) <= MaxReaders
  BY MaxReadersAssumption, FS_CardinalityType DEF Enough
<1>1. ri[r] = MaxReaders + 1 /\ rpc[r] = "scan"
  BY <1>m DEF CrowdInv, TypeOK, ReaderLimit
<1>2. r \in Beyond(MaxReaders + 1)
  BY <1>1, <1>m DEF Beyond, Place
<1>3. IsFiniteSet(Beyond(MaxReaders + 1)) /\ Cardinality(Beyond(MaxReaders + 1)) \in Nat
  BY BeyondFinite
<1>4. Cardinality(Beyond(MaxReaders + 1)) # 0
  BY <1>2, <1>3, FS_EmptySet
<1>5. Cardinality(Beyond(MaxReaders + 1)) + (MaxReaders + 1) <= Cardinality(Readers) + 1
  BY <1>2, <1>m DEF CrowdInv, Crowd
<1> QED BY <1>m, <1>3, <1>4, <1>5

LimitInv == CrowdInv /\ (Enough => NoSpuriousLimit)

LEMMA LimitInvariant == Spec => []LimitInv
<1>1. Init => LimitInv
  <2> SUFFICES ASSUME Init PROVE LimitInv
    OBVIOUS
  <2>1. TypeOK /\ SlotsExact
    BY InitType, InitSlots
  <2>2. \A i \in 1..(MaxReaders + 1) : Beyond(i) = {}
    BY MaxReadersAssumption DEF Init, Beyond, Place, Owning
  <2>3. NoSpuriousLimit
    BY DEF Init, NoSpuriousLimit
  <2> QED BY <2>1, <2>2, <2>3 DEF LimitInv, CrowdInv, Crowd
<1>2. LimitInv /\ [Next]_vars => LimitInv'
  <2> SUFFICES ASSUME LimitInv, [Next]_vars, Enough PROVE NoSpuriousLimit'
    BY NextCrowd DEF LimitInv
  <2>1. \A r \in Readers : ~ReaderLimit(r)
    BY CrowdLimit DEF LimitInv
  <2>2. NoSpuriousLimit
    BY DEF LimitInv
  <2>3. rpc \in [Readers -> {"idle", "scan", "limit", "load", "enter", "check",
                             "hold", "unclaim"}]
    BY DEF LimitInv, CrowdInv, TypeOK
  <2>4. ASSUME NEW r \in Readers, Reader(r) PROVE NoSpuriousLimit'
    BY <2>1, <2>2, <2>3, <2>4 DEF NoSpuriousLimit, Reader, BeginRead, ClaimSlot,
       SkipSlot, AnswerLimit, LoadLive, Enter, Validate, Retry, ClearHazard, ReleaseSlot
  <2>5. CASE UNCHANGED rpc
    BY <2>2, <2>5 DEF NoSpuriousLimit
  <2> QED BY <2>4, <2>5 DEF Next, Writer, Stage, PublishBegin, ApplyBack, StampBack,
             StoreGen, StoreLive, ScanSlot, Quiescent, ReplayFront, PublishEnd, vars,
             readerVars
<1> QED BY <1>1, <1>2, PTL DEF Spec

\* publish() leaves one history in both tables and a generation no reader is
\* ahead of; with no more request threads than slots, acquire_slot always finds one.
THEOREM PublicationTheorem ==
  Spec => [](TablesAgree /\ GenerationBound /\ (Enough => PublicationExact))
<1>1. HistoryInv /\ LimitInv =>
        TablesAgree /\ GenerationBound /\ (Enough => PublicationExact)
  BY HistoryPublication DEF LimitInv, PublicationExact
<1> QED BY <1>1, HistoryInvariant, LimitInvariant, PTL

-----------------------------------------------------------------------------
(* The store implements a register of immutable snapshots *)

Staged == IF wpc \in {"wait", "replay"} THEN <<>> ELSE pending
Held == [r \in Readers |-> IF rpc[r] = "hold" THEN tables[table[r]] ELSE None]

LEMMA HeldIsSeen ==
  ASSUME NoTornRead
  PROVE  Held = [r \in Readers |-> IF rpc[r] = "hold" THEN seen[r] ELSE None]
  BY DEF NoTornRead, Held

LEMMA RegisterStep ==
  ASSUME HistoryInv, HistoryInv', [Next]_vars
  PROVE  [Register!Next]_(Register!vars)
<1> USE DEF storeVars, writerVars, slotVars, readerVars
<1>h. History /\ Roles /\ NoTornRead /\ NoTornRead'
  BY DEF HistoryInv, HazardInv
<1>t. /\ tables \in [TableIds -> Table] /\ pending \in Seq(Deltas)
      /\ live \in TableIds /\ back \in TableIds /\ front \in TableIds
      /\ rpc \in [Readers -> {"idle", "scan", "limit", "load", "enter", "check",
                              "hold", "unclaim"}]
      /\ seen \in [Readers -> Table \cup {None}] /\ table \in [Readers -> TableIds]
  BY DEF HistoryInv, HazardInv, TypeOK
<1>s. /\ Held = [r \in Readers |-> IF rpc[r] = "hold" THEN seen[r] ELSE None]
      /\ Held' = [r \in Readers |-> IF rpc'[r] = "hold" THEN seen'[r] ELSE None]
  BY <1>h, HeldIsSeen DEF NoTornRead, Held
<1>1. ASSUME UNCHANGED <<tables[live], Staged, Held>> PROVE UNCHANGED Register!vars
  BY <1>1, Zenon DEF Register!vars, Staged, Held
<1>2. ASSUME UNCHANGED readerVars PROVE Held' = Held
  BY <1>2, <1>s
<1>3. ASSUME NEW d \in Deltas, Stage(d) PROVE Register!Stage(d)
  <2>1. /\ Staged' = Append(Staged, d) /\ UNCHANGED tables[live] /\ Held' = Held
    BY <1>2, <1>3 DEF Stage, Staged
  <2> QED BY <2>1, Zenon DEF Register!Stage, Staged, Held
<1>4. CASE StoreLive
  <2>1. /\ wpc = "swap" /\ wpc' = "wait" /\ live' = back /\ tables' = tables
        /\ UNCHANGED <<pending, readerVars>>
    BY <1>4 DEF StoreLive
  <2>2. /\ front = live /\ pending # <<>> /\ tables[back].log = FrontAll
        /\ tables[back].generation = tables[front].generation + 1
    BY <1>h, <2>1 DEF History, Roles
  <2>3. Staged = pending /\ Staged' = <<>> /\ Held' = Held
    BY <1>2, <2>1 DEF Staged
  <2>4. tables[back] = [log |-> tables[back].log, generation |-> tables[back].generation]
    BY <1>t DEF Table
  <2>5. tables'[live'] = [log |-> tables[live].log \o Staged,
                          generation |-> tables[live].generation + 1]
    BY <2>1, <2>2, <2>3, <2>4, Zenon DEF FrontAll
  <2>6. Staged # <<>>
    BY <2>2, <2>3
  <2>7. Register!Publish
    BY <2>3, <2>5, <2>6, Zenon DEF Register!Publish, Staged, Held
  <2> QED BY <2>7 DEF Register!Next
<1>5. ASSUME UNCHANGED readerVars, tables'[live'] = tables[live], Staged' = Staged
      PROVE  UNCHANGED Register!vars
  BY <1>1, <1>2, <1>5
<1>6. CASE PublishBegin \/ StoreGen \/ ScanSlot \/ Quiescent \/ UNCHANGED vars
  <2>1. UNCHANGED readerVars /\ tables'[live'] = tables[live] /\ Staged' = Staged
    BY <1>6 DEF PublishBegin, StoreGen, ScanSlot, Quiescent, vars, Staged
  <2> QED BY <1>5, <2>1
<1>7. CASE ApplyBack \/ StampBack
  <2>1. UNCHANGED <<readerVars, live, pending>> /\ wpc = "apply" /\ wpc' \in {"apply", "gen"}
    BY <1>7 DEF ApplyBack, StampBack
  <2>2. live # back
    BY <1>h, <2>1 DEF Roles
  <2>3. tables'[live] = tables[live]
    BY <1>7, <1>t, <2>2 DEF ApplyBack, StampBack
  <2>4. Staged' = Staged
    BY <2>1 DEF Staged
  <2> QED BY <1>5, <2>1, <2>3, <2>4
<1>8. CASE ReplayFront \/ PublishEnd
  <2>1. /\ UNCHANGED <<readerVars, live>> /\ wpc = "replay"
        /\ wpc' = "replay" \/ (wpc' = "idle" /\ pending' = <<>>)
    BY <1>8 DEF ReplayFront, PublishEnd
  <2>2. live # front
    BY <1>h, <2>1 DEF Roles
  <2>3. tables'[live] = tables[live]
    BY <1>8, <1>t, <2>2 DEF ReplayFront, PublishEnd
  <2>4. Staged' = Staged
    BY <2>1 DEF Staged
  <2> QED BY <1>5, <2>1, <2>3, <2>4
<1>9. ASSUME NEW r \in Readers, Reader(r) PROVE [Register!Next]_(Register!vars)
  <2>1. UNCHANGED <<storeVars, writerVars>>
    BY <1>9 DEF Reader, BeginRead, ClaimSlot, SkipSlot, ReaderLimit, AnswerLimit,
           LoadLive, Enter, Validate, Retry, ClearHazard, ReleaseSlot
  <2>2. UNCHANGED <<tables[live], Staged>>
    BY <2>1 DEF Staged
  <2>3. CASE Validate(r)
    <3>1. Held[r] = None
      BY <2>3, <1>s DEF Validate
    <3>2. Held' = [Held EXCEPT ![r] = tables[live]]
      BY <2>3, <1>s, <1>t DEF Validate
    <3>3. Register!Take(r)
      BY <2>2, <3>1, <3>2, Zenon DEF Register!Take, Staged, Held
    <3> QED BY <3>3 DEF Register!Next
  <2>4. CASE ClearHazard(r)
    <3>1. Held[r] # None
      <4>1. Held[r] = tables[table[r]] /\ tables[table[r]] \in Table
        BY <2>4, <1>t DEF ClearHazard, Held
      <4> QED BY <4>1, NoneAssumption
    <3>2. Held' = [Held EXCEPT ![r] = None]
      BY <2>4, <1>s, <1>t DEF ClearHazard
    <3>3. Register!Drop(r)
      BY <2>2, <3>1, <3>2, Zenon DEF Register!Drop, Staged, Held
    <3> QED BY <3>3 DEF Register!Next
  <2>5. CASE BeginRead(r) \/ ClaimSlot(r) \/ SkipSlot(r) \/ ReaderLimit(r)
             \/ AnswerLimit(r) \/ LoadLive(r) \/ Enter(r) \/ Retry(r) \/ ReleaseSlot(r)
    <3>1. /\ seen' = seen
          /\ \A q \in Readers : rpc'[q] = "hold" <=> rpc[q] = "hold"
      BY <2>5, <1>t DEF BeginRead, ClaimSlot, SkipSlot, ReaderLimit, AnswerLimit,
         LoadLive, Enter, Retry, ReleaseSlot
    <3>2. Held' = Held
      BY <1>s, <3>1
    <3> QED BY <1>1, <2>2, <3>2
  <2> QED BY <1>9, <2>3, <2>4, <2>5 DEF Reader
<1> QED BY <1>3, <1>4, <1>6, <1>7, <1>8, <1>9 DEF Next, Writer, Register!Next

\* Every behaviour of the store is one of an atomic register of immutable
\* snapshots: publish() takes effect at the store of live_ and a read at the
\* load of live_ that validates its guard.
THEOREM RegisterTheorem == Spec => ImplementsRegister
<1>1. Init => Register!Init
  BY DEF Init, Register!Init, TableIds
<1>2. HistoryInv /\ HistoryInv' /\ [Next]_vars => [Register!Next]_(Register!vars)
  BY RegisterStep
<1> QED BY <1>1, <1>2, HistoryInvariant, PTL DEF Spec, ImplementsRegister, Register!Spec
=============================================================================
