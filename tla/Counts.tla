-------------------------------- MODULE Counts --------------------------------
(***************************************************************************)
(* Views and likes by item, as scripts/offline_ctr.py counts them and as   *)
(* they are defined; shared by Streaming and Nearline.  An event has a     *)
(* time, an item and like, whether its type is 1.                          *)
(***************************************************************************)
EXTENDS Naturals, Sequences, FiniteSets

\* The positions of the events of an item, and those of its likes.
Of(log, item) == {i \in DOMAIN log : log[i].item = item}
Liked(log, positions) == {i \in positions : log[i].like}

\* The counts of an item in a log, by definition.
Counts(log, item) ==
  [views |-> Cardinality(Of(log, item)), likes |-> Cardinality(Liked(log, Of(log, item)))]

\* Tables have a row only for an item with events.
NoCounts == [views |-> 0, likes |-> 0]
NoRows == [item \in {} |-> NoCounts]
Row(table, item) == IF item \in DOMAIN table THEN table[item] ELSE NoCounts
Add(c, like) == [views |-> c.views + 1, likes |-> c.likes + IF like THEN 1 ELSE 0]
Put(table, item, c) == [i \in DOMAIN table \cup {item} |-> IF i = item THEN c ELSE table[i]]

\* The events of a log are added to a table, one after the other.
Tally(table, e) == Put(table, e.item, Add(Row(table, e.item), e.like))
Tallied(table, log) ==
  LET after[n \in 0 .. Len(log)] == IF n = 0 THEN table ELSE Tally(after[n - 1], log[n])
  IN after[Len(log)]

\* offline_ctr.aggregate, without a cut-off.
Aggregate(log) == Tallied(NoRows, log)

\* The sum of the values of a function into Nat: what they count, set side by side.
Total(f) == Cardinality(UNION {{i} \X (1 .. f[i]) : i \in DOMAIN f})
=============================================================================
