--------------------------- MODULE FeatureSnapshot ---------------------------
(***************************************************************************)
(* FeatureSnapshotStore (include/recserve/feature_snapshot.hpp): two       *)
(* feature tables, one of them live, a registry of hazard slots in which   *)
(* request threads announce the table they read, and one ingest thread     *)
(* that updates the other table, swaps, waits until nobody announces the   *)
(* old one and then replays the same deltas into it.                       *)
(*                                                                         *)
(* Every atomic operation of the code on shared memory is one action (the  *)
(* operations the argument depends on are sequentially consistent in the   *)
(* source), and so is every FeatureTable::apply, because a table half way  *)
(* through a batch is exactly what a reader must never see.  The content   *)
(* of a table is the sequence of deltas applied to it: apply is a function *)
(* of the content and the delta, so equal logs are equal tables.           *)
(***************************************************************************)
EXTENDS Naturals, Sequences

CONSTANTS Readers,     \* request threads
          MaxReaders,  \* kMaxReaders, the number of hazard slots
          Deltas,      \* feature deltas
          MaxStaged,   \* bound: deltas staged over a whole behaviour
          None         \* nullptr

ASSUME MaxReadersAssumption == MaxReaders \in Nat \ {0}
ASSUME MaxStagedAssumption == MaxStaged \in Nat

\* A FeatureTable: the deltas applied to it, and its generation.
Table == [log : Seq(Deltas), generation : Nat]

ASSUME NoneAssumption == None \notin {0, 1} /\ None \notin Nat /\ None \notin Table

TableIds == {0, 1}
SlotIds == 1..MaxReaders

VARIABLES
  tables,     \* tables_: [log, generation] of either table
  live,       \* live_
  back,       \* back_
  gen,        \* gen_
  claimed,    \* Slot::claimed
  announced,  \* Slot::table
  pending,    \* pending_
  publishes,  \* publishes_
  wpc,        \* where the ingest thread is in publish()
  wi,         \* its loop index, over pending_ or over the slots
  front,      \* publish()'s local front
  rpc,        \* where each request thread is
  ri,         \* its scan index in acquire_slot
  slot,       \* Guard::slot_
  table,      \* Guard::table_
  seen,       \* history: the table's content when the guard was validated
  last        \* history: generation of the last guard this thread validated

storeVars == <<tables, live, back, gen, pending, publishes>>
writerVars == <<wpc, wi, front>>
slotVars == <<claimed, announced>>
readerVars == <<rpc, ri, slot, table, seen, last>>
vars == <<storeVars, writerVars, slotVars, readerVars>>

Init ==
  /\ tables = [t \in TableIds |->
                 [log |-> <<>>, generation |-> IF t = 0 THEN 1 ELSE 0]]
  /\ live = 0
  /\ back = 1
  /\ gen = 1
  /\ pending = <<>>
  /\ publishes = 0
  /\ wpc = "idle" /\ wi = 1 /\ front = 0
  /\ claimed = [s \in SlotIds |-> FALSE]
  /\ announced = [s \in SlotIds |-> None]
  /\ rpc = [r \in Readers |-> "idle"]
  /\ ri = [r \in Readers |-> 1]
  /\ slot = [r \in Readers |-> 1]
  /\ table = [r \in Readers |-> 0]
  /\ seen = [r \in Readers |-> None]
  /\ last = [r \in Readers |-> 0]

-----------------------------------------------------------------------------
(* The ingest thread *)

\* stage(): the single ingest thread stages only between publishes.
Stage(d) ==
  /\ wpc = "idle"
  /\ Len(tables[live].log) + Len(pending) < MaxStaged
  /\ pending' = Append(pending, d)
  /\ UNCHANGED <<tables, live, back, gen, publishes>>
  /\ UNCHANGED <<writerVars, slotVars, readerVars>>

\* publish(): an empty batch returns at once and changes nothing.
PublishBegin ==
  /\ wpc = "idle"
  /\ pending # <<>>
  /\ front' = live
  /\ wpc' = "apply" /\ wi' = 1
  /\ UNCHANGED <<storeVars, slotVars, readerVars>>

ApplyBack ==
  /\ wpc = "apply"
  /\ wi <= Len(pending)
  /\ tables' = [tables EXCEPT ![back].log = Append(@, pending[wi])]
  /\ wi' = wi + 1
  /\ UNCHANGED <<live, back, gen, pending, publishes, wpc, front>>
  /\ UNCHANGED <<slotVars, readerVars>>

\* Mutant: the publish counter serves as the generation.
StampBack_Counter ==
  /\ wpc = "apply"
  /\ wi > Len(pending)
  /\ tables' = [tables EXCEPT ![back].generation = publishes]
  /\ wpc' = "gen"
  /\ UNCHANGED <<live, back, gen, pending, publishes, wi, front>>
  /\ UNCHANGED <<slotVars, readerVars>>

StampBack ==
  /\ wpc = "apply"
  /\ wi > Len(pending)
  /\ tables' = [tables EXCEPT ![back].generation = tables[front].generation + 1]
  /\ wpc' = "gen"
  /\ UNCHANGED <<live, back, gen, pending, publishes, wi, front>>
  /\ UNCHANGED <<slotVars, readerVars>>

\* Mutant: the generation of the old table is announced.
StoreGen_Old ==
  /\ wpc = "gen"
  /\ gen' = tables[front].generation
  /\ wpc' = "swap"
  /\ UNCHANGED <<tables, live, back, pending, publishes, wi, front>>
  /\ UNCHANGED <<slotVars, readerVars>>

StoreGen ==
  /\ wpc = "gen"
  /\ gen' = tables[back].generation
  /\ wpc' = "swap"
  /\ UNCHANGED <<tables, live, back, pending, publishes, wi, front>>
  /\ UNCHANGED <<slotVars, readerVars>>

StoreLive ==
  /\ wpc = "swap"
  /\ live' = back
  /\ wpc' = "wait" /\ wi' = 1
  /\ UNCHANGED <<tables, back, gen, pending, publishes, front>>
  /\ UNCHANGED <<slotVars, readerVars>>

\* Mutant: a busy slot is passed over instead of restarting the scan.
ScanSlot_NoRestart ==
  /\ wpc = "wait"
  /\ wi \in SlotIds
  /\ wi' = wi + 1
  /\ UNCHANGED <<storeVars, wpc, front, slotVars, readerVars>>

\* wait_for_quiescence(front): one load per slot; a busy slot restarts the scan.
ScanSlot ==
  /\ wpc = "wait"
  /\ wi \in SlotIds
  /\ wi' = IF announced[wi] = front THEN 1 ELSE wi + 1
  /\ UNCHANGED <<storeVars, wpc, front, slotVars, readerVars>>

Quiescent ==
  /\ wpc = "wait"
  /\ wi > MaxReaders
  /\ wpc' = "replay" /\ wi' = 1
  /\ UNCHANGED <<storeVars, front, slotVars, readerVars>>

ReplayFront ==
  /\ wpc = "replay"
  /\ wi <= Len(pending)
  /\ tables' = [tables EXCEPT ![front].log = Append(@, pending[wi])]
  /\ wi' = wi + 1
  /\ UNCHANGED <<live, back, gen, pending, publishes, wpc, front>>
  /\ UNCHANGED <<slotVars, readerVars>>

\* Mutant: the replay stops one delta early.
PublishEnd_Early ==
  /\ wpc = "replay"
  /\ wi >= Len(pending)
  /\ tables' = [tables EXCEPT ![front].generation = tables[live].generation]
  /\ back' = front
  /\ pending' = <<>>
  /\ publishes' = publishes + 1
  /\ wpc' = "idle"
  /\ UNCHANGED <<live, gen, wi, front, slotVars, readerVars>>

\* Mutant: back_ keeps pointing at the table that is now live.
PublishEnd_KeepBack ==
  /\ wpc = "replay"
  /\ wi > Len(pending)
  /\ tables' = [tables EXCEPT ![front].generation = tables[live].generation]
  /\ pending' = <<>>
  /\ publishes' = publishes + 1
  /\ wpc' = "idle"
  /\ UNCHANGED <<live, back, gen, wi, front, slotVars, readerVars>>

PublishEnd ==
  /\ wpc = "replay"
  /\ wi > Len(pending)
  /\ tables' = [tables EXCEPT ![front].generation = tables[live].generation]
  /\ back' = front
  /\ pending' = <<>>
  /\ publishes' = publishes + 1
  /\ wpc' = "idle"
  /\ UNCHANGED <<live, gen, wi, front, slotVars, readerVars>>

Writer ==
  \/ \E d \in Deltas : Stage(d)
  \/ PublishBegin \/ ApplyBack \/ StampBack \/ StoreGen \/ StoreLive
  \/ ScanSlot \/ Quiescent \/ ReplayFront \/ PublishEnd

-----------------------------------------------------------------------------
(* A request thread: read(), then ~Guard() *)

\* Mutant: the scan starts one slot before the first.
BeginRead_OffByOne(r) ==
  /\ rpc[r] = "idle"
  /\ rpc' = [rpc EXCEPT ![r] = "scan"]
  /\ ri' = [ri EXCEPT ![r] = 0]
  /\ UNCHANGED <<storeVars, writerVars, slotVars, slot, table, seen, last>>

BeginRead(r) ==
  /\ rpc[r] = "idle"
  /\ rpc' = [rpc EXCEPT ![r] = "scan"]
  /\ ri' = [ri EXCEPT ![r] = 1]
  /\ UNCHANGED <<storeVars, writerVars, slotVars, slot, table, seen, last>>

\* Mutant: a plain store instead of the compare-and-exchange.
ClaimSlot_NoCas(r) ==
  /\ rpc[r] = "scan"
  /\ ri[r] \in SlotIds
  /\ claimed' = [claimed EXCEPT ![ri[r]] = TRUE]
  /\ slot' = [slot EXCEPT ![r] = ri[r]]
  /\ rpc' = [rpc EXCEPT ![r] = "load"]
  /\ UNCHANGED <<storeVars, writerVars, announced, ri, table, seen, last>>

\* One compare_exchange of acquire_slot.
ClaimSlot(r) ==
  /\ rpc[r] = "scan"
  /\ ri[r] \in SlotIds
  /\ ~claimed[ri[r]]
  /\ claimed' = [claimed EXCEPT ![ri[r]] = TRUE]
  /\ slot' = [slot EXCEPT ![r] = ri[r]]
  /\ rpc' = [rpc EXCEPT ![r] = "load"]
  /\ UNCHANGED <<storeVars, writerVars, announced, ri, table, seen, last>>

SkipSlot(r) ==
  /\ rpc[r] = "scan"
  /\ ri[r] \in SlotIds
  /\ claimed[ri[r]]
  /\ ri' = [ri EXCEPT ![r] = @ + 1]
  /\ UNCHANGED <<storeVars, writerVars, slotVars, rpc, slot, table, seen, last>>

\* acquire_slot throws: the request fails with no slot.
ReaderLimit(r) ==
  /\ rpc[r] = "scan"
  /\ ri[r] > MaxReaders
  /\ rpc' = [rpc EXCEPT ![r] = "limit"]
  /\ UNCHANGED <<storeVars, writerVars, slotVars, ri, slot, table, seen, last>>

\* The caller answers the failed request and the thread takes another.
AnswerLimit(r) ==
  /\ rpc[r] = "limit"
  /\ rpc' = [rpc EXCEPT ![r] = "idle"]
  /\ UNCHANGED <<storeVars, writerVars, slotVars, ri, slot, table, seen, last>>

LoadLive(r) ==
  /\ rpc[r] = "load"
  /\ table' = [table EXCEPT ![r] = live]
  /\ rpc' = [rpc EXCEPT ![r] = "enter"]
  /\ UNCHANGED <<storeVars, writerVars, slotVars, ri, slot, seen, last>>

Enter(r) ==
  /\ rpc[r] = "enter"
  /\ announced' = [announced EXCEPT ![slot[r]] = table[r]]
  /\ rpc' = [rpc EXCEPT ![r] = "check"]
  /\ UNCHANGED <<storeVars, writerVars, claimed, ri, slot, table, seen, last>>

\* Mutant: the guard does not load live_ a second time.
Validate_NoRecheck(r) ==
  /\ rpc[r] = "check"
  /\ rpc' = [rpc EXCEPT ![r] = "hold"]
  /\ seen' = [seen EXCEPT ![r] = tables[table[r]]]
  /\ last' = [last EXCEPT ![r] = tables[table[r]].generation]
  /\ UNCHANGED <<storeVars, writerVars, slotVars, ri, slot, table>>

Validate(r) ==
  /\ rpc[r] = "check"
  /\ table[r] = live
  /\ rpc' = [rpc EXCEPT ![r] = "hold"]
  /\ seen' = [seen EXCEPT ![r] = tables[table[r]]]
  /\ last' = [last EXCEPT ![r] = tables[table[r]].generation]
  /\ UNCHANGED <<storeVars, writerVars, slotVars, ri, slot, table>>

Retry(r) ==
  /\ rpc[r] = "check"
  /\ table[r] # live
  /\ rpc' = [rpc EXCEPT ![r] = "load"]
  /\ UNCHANGED <<storeVars, writerVars, slotVars, ri, slot, table, seen, last>>

\* Mutant: leave() forgets the hazard.
ClearHazard_Leak(r) ==
  /\ rpc[r] = "hold"
  /\ seen' = [seen EXCEPT ![r] = None]
  /\ rpc' = [rpc EXCEPT ![r] = "unclaim"]
  /\ UNCHANGED <<storeVars, writerVars, slotVars, ri, slot, table, last>>

\* leave(): first the hazard, then the claim.
ClearHazard(r) ==
  /\ rpc[r] = "hold"
  /\ announced' = [announced EXCEPT ![slot[r]] = None]
  /\ seen' = [seen EXCEPT ![r] = None]
  /\ rpc' = [rpc EXCEPT ![r] = "unclaim"]
  /\ UNCHANGED <<storeVars, writerVars, claimed, ri, slot, table, last>>

\* Mutant: leave() forgets the claim.
ReleaseSlot_Leak(r) ==
  /\ rpc[r] = "unclaim"
  /\ rpc' = [rpc EXCEPT ![r] = "idle"]
  /\ UNCHANGED <<storeVars, writerVars, slotVars, ri, slot, table, seen, last>>

ReleaseSlot(r) ==
  /\ rpc[r] = "unclaim"
  /\ claimed' = [claimed EXCEPT ![slot[r]] = FALSE]
  /\ rpc' = [rpc EXCEPT ![r] = "idle"]
  /\ UNCHANGED <<storeVars, writerVars, announced, ri, slot, table, seen, last>>

Reader(r) ==
  \/ BeginRead(r) \/ ClaimSlot(r) \/ SkipSlot(r) \/ ReaderLimit(r)
  \/ AnswerLimit(r) \/ LoadLive(r) \/ Enter(r) \/ Validate(r) \/ Retry(r)
  \/ ClearHazard(r) \/ ReleaseSlot(r)

Next == Writer \/ \E r \in Readers : Reader(r)

Spec == Init /\ [][Next]_vars

\* The ingest thread and every request thread keep being scheduled; nothing
\* obliges the ingest source to deliver another delta or a client to come back.
Fairness ==
  /\ WF_vars(Writer /\ wpc # "idle")
  /\ \A r \in Readers : WF_vars(Reader(r) /\ rpc[r] # "idle")

FairSpec == Spec /\ Fairness

-----------------------------------------------------------------------------
(* Properties *)

\* Every variable keeps its declared shape; in particular the loop indices
\* stay within one past the range they scan.
TypeOK ==
  /\ tables \in [TableIds -> Table]
  /\ live \in TableIds /\ back \in TableIds /\ front \in TableIds
  /\ gen \in Nat /\ publishes \in Nat
  /\ pending \in Seq(Deltas)
  /\ wpc \in {"idle", "apply", "gen", "swap", "wait", "replay"}
  /\ wi \in Nat \ {0}
  /\ claimed \in [SlotIds -> BOOLEAN]
  /\ announced \in [SlotIds -> TableIds \cup {None}]
  /\ rpc \in [Readers -> {"idle", "scan", "limit", "load", "enter", "check",
                          "hold", "unclaim"}]
  /\ ri \in [Readers -> 1..(MaxReaders + 1)]
  /\ slot \in [Readers -> SlotIds]
  /\ table \in [Readers -> TableIds]
  /\ seen \in [Readers -> Table \cup {None}]
  /\ last \in [Readers -> Nat]

\* The states in which the next store of publish() goes to table t.
Mutating(t) ==
  \/ wpc = "apply" /\ t = back
  \/ wpc = "replay" /\ t = front

\* The ingest thread never writes the table a validated guard points at: the
\* hazard slot and the second load of live_ close every window, ABA included.
NoRace == \A r \in Readers : rpc[r] = "hold" => ~Mutating(table[r])

\* A request computes every feature from one generation: what a validated
\* guard dereferences is, at every later moment, what it was on validation.
NoTornRead ==
  \A r \in Readers : rpc[r] = "hold" => tables[table[r]] = seen[r]

\* Between publishes the two tables hold the same deltas in the same order, so
\* the next batch applied to the other one yields the history without a gap.
TablesAgree == wpc = "idle" => tables[0].log = tables[1].log

\* generation() is never behind a snapshot some request holds and at most one
\* ahead of the live table.
GenerationBound ==
  /\ \A r \in Readers : rpc[r] = "hold" => seen[r].generation <= gen
  /\ gen \in {tables[live].generation, tables[live].generation + 1}

\* A slot is claimed exactly while one request thread owns it: no slot leaks
\* and no two readers overwrite each other's hazard.
Owns(r, s) == slot[r] = s /\ rpc[r] \in {"load", "enter", "check", "hold", "unclaim"}

SlotsExact ==
  \A s \in SlotIds :
    /\ claimed[s] <=> \E r \in Readers : Owns(r, s)
    /\ \A p, q \in Readers : Owns(p, s) /\ Owns(q, s) => p = q

\* With no more request threads than slots, acquire_slot never throws, although
\* its scan is not atomic and slots are released and taken behind it.
NoSpuriousLimit == \A r \in Readers : rpc[r] # "limit"

\* What publish() leaves, and what acquire_slot finds: one history in both
\* tables, an announced generation that is never behind a reader, and a free
\* slot for everyone when there are as many as threads.
PublicationExact == TablesAgree /\ GenerationBound /\ NoSpuriousLimit

\* Successive snapshots of one request thread never go back in time.
MonotoneReads ==
  [][\A r \in Readers : last'[r] >= last[r]]_vars

\* A publish that has begun completes: the grace period ends once the requests
\* that were inside the old table leave it.
PublishCompletes == wpc # "idle" ~> wpc = "idle"

\* The store implements an atomic register of immutable snapshots.
Register == INSTANCE SnapshotRegister WITH
  current <- tables[live],
  staged <- IF wpc \in {"wait", "replay"} THEN <<>> ELSE pending,
  held <- [r \in Readers |-> IF rpc[r] = "hold" THEN tables[table[r]] ELSE None]

ImplementsRegister == Register!Spec
=============================================================================
