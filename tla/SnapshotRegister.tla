-------------------------- MODULE SnapshotRegister --------------------------
(***************************************************************************)
(* What FeatureSnapshotStore promises its users: an atomic register of     *)
(* immutable snapshots.  A publish replaces the current snapshot by the    *)
(* one that also contains everything staged, in one step; a request that   *)
(* takes a snapshot keeps exactly that one until it lets go of it.         *)
(***************************************************************************)
EXTENDS Naturals, Sequences

CONSTANTS Readers,  \* request threads
          Deltas,   \* feature deltas the ingest thread stages
          None      \* no snapshot held

VARIABLES current,  \* the published snapshot: deltas it contains, generation
          staged,   \* deltas staged and not yet published
          held      \* the snapshot each reader holds, or None

vars == <<current, staged, held>>

Init ==
  /\ current = [log |-> <<>>, generation |-> 1]
  /\ staged = <<>>
  /\ held = [r \in Readers |-> None]

Stage(d) ==
  /\ staged' = Append(staged, d)
  /\ UNCHANGED <<current, held>>

Publish ==
  /\ staged # <<>>
  /\ current' = [log |-> current.log \o staged,
                 generation |-> current.generation + 1]
  /\ staged' = <<>>
  /\ UNCHANGED held

Take(r) ==
  /\ held[r] = None
  /\ held' = [held EXCEPT ![r] = current]
  /\ UNCHANGED <<current, staged>>

Drop(r) ==
  /\ held[r] # None
  /\ held' = [held EXCEPT ![r] = None]
  /\ UNCHANGED <<current, staged>>

Next ==
  \/ \E d \in Deltas : Stage(d)
  \/ Publish
  \/ \E r \in Readers : Take(r) \/ Drop(r)

Spec == Init /\ [][Next]_vars
=============================================================================
