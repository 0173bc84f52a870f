---------------------------- MODULE MCOperations ----------------------------
(***************************************************************************)
(* Operations on small instances.                                          *)
(***************************************************************************)
EXTENDS Operations

E(t, i, l) == [time |-> t, item |-> i, like |-> l]

MCSpace == [ef |-> 2, retrieve_k |-> 2, kernel |-> 2, pin |-> 2]
MCBudgets == [heuristic |-> 3, grid |-> 9, random |-> 2, llm |-> 2]

\* Positions in ACTION_SPACE; 0 is a value outside it.
MCStarts == {[ef |-> 0, retrieve_k |-> 2, kernel |-> 2, pin |-> 1],
             [ef |-> 2, retrieve_k |-> 2, kernel |-> 1, pin |-> 1]}

MCOrder == <<"tests", "skew">>
MCStreamEvents == {E(1, 1, TRUE), E(2, 1, FALSE), E(3, 2, FALSE)}
\* Item 3 is in the file and not in the catalogue.
MCLogEvents == {E(1, 1, TRUE), E(2, 2, FALSE), E(3, 1, FALSE), E(4, 3, TRUE)}

\* A component that does not run is in one of its initial states.  Of the
\* initial states of access, those that are the same up to the names of the
\* browsers and of the requests that are over are there once: a session is of
\* request 1, and request 1 is from b1.  Only the rules step from a value that is
\* outside the space.
MCInit ==
  /\ Init
  /\ call[1].browser = "b1" /\ \A s \in sessions : s.id = 1
  /\ mode # "access" => sessions = {}
  /\ mode # "agent" => planner = "grid"
  /\ planner \in {"grid", "random"} => start.ef = 2
  /\ mode # "campaign" => here = "h1"
  /\ mode # "drill" => drill = "production"

MCSpec == MCInit /\ [][Next]_vars
=============================================================================
