---------------------------- MODULE MCThreadPool ----------------------------
(* Instances of ThreadPool for TLC. *)
EXTENDS ThreadPool, FiniteSets

\* All requests but one go to one worker, so that its queue can fill up.
MCTarget ==
  LET w == CHOOSE v \in Workers : TRUE
      q == CHOOSE r \in Requests : TRUE
  IN  [r \in Requests |-> IF r = q /\ Workers # {w}
                          THEN CHOOSE v \in Workers \ {w} : TRUE ELSE w]
=============================================================================
