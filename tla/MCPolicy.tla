------------------------------ MODULE MCPolicy ------------------------------
(* Instances of Policy for TLC. *)
EXTENDS Policy, TLC

\* Dislike one item or clear its rating, or like all movies, or the
\* available ones, at once.
MCChanges ==
  LET i == CHOOSE j \in Items : TRUE
  IN  {[j \in {i} |-> v] : v \in {-1, 0}} \cup {[j \in S |-> 1] : S \in {Items, Available}}

Symmetry == Permutations(Threads) \cup Permutations(Mutations) \cup Permutations(EventIds)
=============================================================================
