------------------------------- MODULE FlatMap -------------------------------
(***************************************************************************)
(* FlatUserMap, the open-addressing map of the mutex feature store         *)
(* (include/recserve/features.hpp), and the events FeatureStore applies to *)
(* it.  A slot without a user holds the key Empty, which is also the       *)
(* largest identifier a user may have.                                     *)
(*                                                                         *)
(* A value is the number of events applied to the user.  The smallest      *)
(* capacity is a parameter, 16 in the code, and Hash stands for the        *)
(* multiplicative hash, of which the low bits are used.                    *)
(***************************************************************************)
EXTENDS Naturals, FiniteSetsExt

CONSTANTS Users,        \* identifiers, Empty among them
          Empty,
          Hash,         \* identifier -> hash
          MinCapacity,  \* a power of two, at least 4
          MaxCalls

VARIABLES
  keys, vals,   \* slot -> key, value; capacity is the number of slots
  size,
  applied,      \* user -> events applied, the map as it is meant
  calls

vars == <<keys, vals, size, applied, calls>>

Capacity(k) == Cardinality(DOMAIN k)
Slots(n) == 0 .. n - 1
Held(k) == {i \in DOMAIN k : k[i] # Empty}

TypeOK ==
  /\ keys \in [DOMAIN keys -> Users] /\ DOMAIN vals = DOMAIN keys
  /\ \A i \in DOMAIN vals : vals[i] \in 0 .. MaxCalls
  /\ size <= Capacity(keys)
  /\ applied \in [Users -> 0 .. MaxCalls] /\ calls \in 0 .. MaxCalls

Init ==
  /\ keys = [i \in Slots(MinCapacity) |-> Empty] /\ vals = [i \in Slots(MinCapacity) |-> 0]
  /\ size = 0 /\ applied = [u \in Users |-> 0] /\ calls = 0

-----------------------------------------------------------------------------
\* The first slot of the probe sequence of u that is empty or holds u.
Probe(k, u) ==
  LET n == Capacity(k)
      at(p) == (Hash[u] + p) % n
  IN at(Min({p \in Slots(n) : k[at(p)] \in {Empty, u}}))

Grow_InPlace(t) ==
  LET n == 2 * Capacity(t.keys) IN
  [keys |-> [i \in Slots(n) |-> IF i \in DOMAIN t.keys THEN t.keys[i] ELSE Empty],
   vals |-> [i \in Slots(n) |-> IF i \in DOMAIN t.keys THEN t.vals[i] ELSE 0],
   size |-> Cardinality(Held(t.keys))]

Blank(n) == [keys |-> [i \in Slots(n) |-> Empty], vals |-> [i \in Slots(n) |-> 0], size |-> 0]

\* Slot j of a table is inserted into a new one, if a user is in it.
Reinsert(t, new, j) ==
  LET i == Probe(new.keys, t.keys[j]) IN
  IF t.keys[j] = Empty THEN new
  ELSE [keys |-> [new.keys EXCEPT ![i] = t.keys[j]],
        vals |-> [new.vals EXCEPT ![i] = t.vals[j]], size |-> new.size + 1]

\* Every slot is inserted again, in order, into a table of twice the size.
Grow(t) ==
  LET n == Capacity(t.keys)
      refilled[j \in 0 .. n] ==
        IF j = 0 THEN Blank(2 * n) ELSE Reinsert(t, refilled[j - 1], j - 1)
  IN refilled[n]

Grown(t) == IF t.size * 4 >= Capacity(t.keys) * 3 THEN Grow(t) ELSE t

\* get: the slot of u, which is filled if it was empty.  The key Empty is never
\* found, so it is inserted each time.
Get(t, u) ==
  LET g == Grown(t)
      i == Probe(g.keys, u)
  IN IF g.keys[i] = Empty
     THEN [keys |-> [g.keys EXCEPT ![i] = u], vals |-> [g.vals EXCEPT ![i] = 0],
           size |-> g.size + 1]
     ELSE g

Table == [keys |-> keys, vals |-> vals, size |-> size]

\* FeatureStore.user: a read inserts too.
User(u) ==
  /\ calls < MaxCalls /\ calls' = calls + 1
  /\ LET t == Get(Table, u) IN keys' = t.keys /\ vals' = t.vals /\ size' = t.size
  /\ UNCHANGED applied

\* FeatureStore.apply_event
ApplyEvent(u) ==
  /\ calls < MaxCalls /\ calls' = calls + 1
  /\ LET t == Get(Table, u) IN
       /\ keys' = t.keys /\ size' = t.size
       /\ vals' = [t.vals EXCEPT ![Probe(t.keys, u)] = @ + 1]
  /\ applied' = [applied EXCEPT ![u] = @ + 1]

Next == \E u \in Users : User(u) \/ ApplyEvent(u)

Spec == Init /\ [][Next]_vars

-----------------------------------------------------------------------------
\* find, as a value; 0 if the user is not there.
Find(u) == LET i == Probe(keys, u) IN IF keys[i] = u THEN vals[i] ELSE 0

\* Whatever was inserted and however often the table has grown, a user other
\* than Empty is in one slot, where a probe finds all the events applied to it,
\* and there is always an empty slot to end a probe.  Events of the user Empty
\* are not kept.
MapFaithful ==
  /\ \E i \in DOMAIN keys : keys[i] = Empty
  /\ \A u \in Users \ {Empty} : Find(u) = applied[u]
  /\ \A i, j \in Held(keys) : keys[i] = keys[j] => i = j
=============================================================================
