------------------------------- MODULE MCPilot -------------------------------
(* Instances of Pilot for TLC. *)
EXTENDS Pilot, TLC

\* One user has seen one of the items in training.
HalfSeen ==
  [u \in Users |-> IF u = CHOOSE v \in Users : v \notin Guests
                   THEN {CHOOSE i \in Items : TRUE} ELSE {}]

Symmetry ==
  Permutations(Threads) \cup Permutations(EventIds) \cup Permutations(Requests)
  \cup Permutations(Models)
=============================================================================
