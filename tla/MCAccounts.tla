----------------------------- MODULE MCAccounts -----------------------------
(* Instances of Accounts for TLC. *)
EXTENDS Accounts, TLC

\* Uids are drawn afresh for every account: enough for every request.
ASSUME UidsSuffice == Cardinality(Uids) >= MaxRequests

Symmetry == Permutations(Threads) \cup Permutations(Uids) \cup Permutations(Emails)
=============================================================================
