------------------------------ MODULE Nearline ------------------------------
(***************************************************************************)
(* The nearline pipeline (apps/nearline.cpp, include/recserve/             *)
(* nearline.hpp): events are staged and become visible to queries when the *)
(* publish interval has passed.  A replay runs over a file on event time   *)
(* and does not publish at its end; a live run works on the wall clock and *)
(* does.  scripts/skew.py compares what a replay leaves visible with the   *)
(* offline aggregate of the same file.                                     *)
(*                                                                         *)
(* Event times may go back, and do when a replay of more events than the   *)
(* file holds begins it again.  A live poll that finds no event does not   *)
(* look at the interval, so what is staged then waits for the next event.  *)
(* The feature tables are those of FeatureSnapshot; here they are maps,    *)
(* with a row for an item only when it has events.  A table has room for   *)
(* the items of the catalogue, as many as --items says, and nothing looks  *)
(* whether the file holds others.                                          *)
(***************************************************************************)
EXTENDS Naturals, Sequences, FiniteSets, Counts

CONSTANTS Events,      \* [time, item, like]; time is at least 1
          Catalogue,   \* items below --items
          MaxLog,      \* events in the file
          Wanted,      \* events a replay is told to consume
          Interval,    \* publish interval
          MaxClock,    \* wall clock of a live run
          Buckets      \* of the window counter, each of one time unit

VARIABLES
  log,         \* the file of events
  pipeline,    \* "recording", "replay", "live" or "stopped"
  from,        \* what the stopped run was
  clock,
  consumed,    \* events in the order they were staged
  staged,      \* of these, not yet visible
  online,      \* the visible table
  last,        \* last_publish_ms_
  published    \* NearlineStats.published

vars == <<log, pipeline, from, clock, consumed, staged, online, last, published>>

TypeOK ==
  /\ {log, consumed, staged} \subseteq Seq(Events) /\ Len(log) <= MaxLog
  /\ pipeline \in {"recording", "replay", "live", "stopped"} /\ from \in {"replay", "live"}
  /\ clock \in 1 .. MaxClock
  /\ Len(consumed) <= Wanted
  /\ DOMAIN online \subseteq Catalogue
  /\ \A i \in DOMAIN online : online[i].likes <= online[i].views
  /\ last \in 0 .. MaxClock /\ published \in 0 .. Wanted

Init ==
  /\ log = <<>> /\ pipeline = "recording" /\ from = "replay" /\ clock = 1
  /\ consumed = <<>> /\ staged = <<>> /\ online = NoRows /\ last = 0 /\ published = 0

\* synth_events and the producer's dump.
Record(e) ==
  /\ pipeline = "recording" /\ Len(log) < MaxLog
  /\ log' = Append(log, e)
  /\ UNCHANGED <<pipeline, from, clock, consumed, staged, online, last, published>>

Begin(mode) ==
  /\ pipeline = "recording" /\ log # <<>>
  /\ pipeline' = mode /\ from' = mode
  /\ UNCHANGED <<log, clock, consumed, staged, online, last, published>>

\* FileEventSource, opened to loop.
Following == log[(Len(consumed) % Len(log)) + 1]

\* publish_if_due: the difference of the clocks is unsigned, so a clock that has
\* gone back is due.
Due(since, now) == now < since \/ now - since >= Interval

\* FeatureTable::apply: an event of an item outside the table leaves it alone.
Apply_Wrapped(table, e) ==
  Tally(table, IF e.item \in Catalogue THEN e
               ELSE [e EXCEPT !.item = CHOOSE i \in Catalogue : TRUE])

Apply(table, e) == IF e.item \in Catalogue THEN Tally(table, e) ELSE table

Applied(table, stage) ==
  LET after[n \in 0 .. Len(stage)] == IF n = 0 THEN table ELSE Apply(after[n - 1], stage[n])
  IN after[Len(stage)]

DoPublish_Last(stage, now) ==
  /\ online' = Applied(NoRows, stage)
  /\ published' = published + Len(stage) /\ last' = now /\ staged' = <<>>

\* Every event counts as published, whether or not the table has a row for it.
DoPublish(stage, now) ==
  /\ online' = Applied(online, stage)
  /\ published' = published + Len(stage) /\ last' = now /\ staged' = <<>>

PublishIfDue(stage, now) ==
  LET since == IF last = 0 THEN now ELSE last IN
  IF stage # <<>> /\ Due(since, now) THEN DoPublish(stage, now)
  ELSE last' = since /\ staged' = stage /\ UNCHANGED <<online, published>>

\* A replay takes one event.
Replay ==
  /\ pipeline = "replay" /\ Len(consumed) < Wanted
  /\ consumed' = Append(consumed, Following)
  /\ PublishIfDue(Append(staged, Following), Following.time)
  /\ UNCHANGED <<log, pipeline, from, clock>>

\* A live run polls n events.
Poll(n) ==
  /\ pipeline = "live" /\ Len(consumed) + n <= Wanted
  /\ LET got == [i \in 1 .. n |-> log[((Len(consumed) + i - 1) % Len(log)) + 1]] IN
     /\ consumed' = consumed \o got
     /\ PublishIfDue(staged \o got, clock)
  /\ UNCHANGED <<log, pipeline, from, clock>>

Tick ==
  /\ pipeline = "live" /\ clock < MaxClock /\ clock' = clock + 1
  /\ UNCHANGED <<log, pipeline, from, consumed, staged, online, last, published>>

\* A live run ends with a flush, a replay without one.
Stop ==
  /\ \/ /\ pipeline = "live" /\ staged # <<>>
        /\ DoPublish(staged, clock)
     \/ /\ \/ pipeline = "live" /\ staged = <<>>
           \/ pipeline = "replay" /\ Len(consumed) = Wanted
        /\ UNCHANGED <<staged, online, last, published>>
  /\ pipeline' = "stopped"
  /\ UNCHANGED <<log, from, clock, consumed>>

Next ==
  \/ \E e \in Events : Record(e)
  \/ \E mode \in {"replay", "live"} : Begin(mode)
  \/ Replay \/ Tick \/ Stop
  \/ \E n \in 1 .. 2 : Poll(n)

Spec == Init /\ [][Next]_vars

-----------------------------------------------------------------------------
\* skew.main: the views the online table lacks, over the items of the offline one.
ViewsMissing_Common(table, offline) ==
  LET both == DOMAIN offline \cap DOMAIN table IN
  Total([i \in both |-> offline[i].views]) - Total([i \in both |-> table[i].views])

ViewsMissing(table, offline) ==
  Total([i \in DOMAIN offline |-> offline[i].views])
    - Total([i \in DOMAIN offline |-> Row(table, i).views])

(* SlidingWindowCounter: a ring of buckets read as a sliding window.       *)
RingAdd_NoReset(ring, e) ==
  LET i == e.time % Buckets IN
  [ring EXCEPT ![i] = [stamp |-> e.time, counts |-> Add(ring[i].counts, e.like)]]

RingAdd(ring, e) ==
  LET i == e.time % Buckets
      old == IF ring[i].stamp = e.time THEN ring[i].counts ELSE NoCounts
  IN [ring EXCEPT ![i] = [stamp |-> e.time, counts |-> Add(old, e.like)]]

Ring(events) ==
  LET empty == [i \in 0 .. Buckets - 1 |-> [stamp |-> 0, counts |-> NoCounts]]
      after[n \in 0 .. Len(events)] ==
        IF n = 0 THEN empty ELSE RingAdd(after[n - 1], events[n])
  IN after[Len(events)]

\* The views ctr() counts at a time, over a window.
Window(ring, now, span) ==
  LET oldest == IF span >= now THEN 0 ELSE now - span
      Inside == {i \in DOMAIN ring : ring[i].stamp >= oldest /\ ring[i].stamp <= now}
  IN Total([i \in Inside |-> ring[i].counts.views])

-----------------------------------------------------------------------------
\* The rows of a table that the catalogue has room for.
Within(table) == [i \in DOMAIN table \cap Catalogue |-> table[i]]

\* At every moment queries see the counts of a prefix of the consumed events,
\* the ones counted as published, less those of items outside the catalogue; the
\* others are staged, and after a live run none is.
VisibleIsPrefix ==
  /\ online = Within(Aggregate(SubSeq(consumed, 1, published)))
  /\ staged = SubSeq(consumed, published + 1, Len(consumed))
  /\ pipeline = "stopped" /\ from = "live" => staged = <<>>

\* The views skew.py finds missing after a replay are the events the replay
\* reports as unpublished, and the published ones of items outside the
\* catalogue, which no report shows; if the file holds as many as were wanted.
SkewIsInvisible ==
  LET Dropped == {i \in 1 .. published : consumed[i].item \notin Catalogue} IN
  pipeline = "stopped" /\ from = "replay" /\ Wanted <= Len(log) =>
    ViewsMissing(online, Aggregate(SubSeq(log, 1, Wanted)))
      = (Len(consumed) - published) + Cardinality(Dropped)

\* The window counter never counts an event outside the window, nor one event
\* twice, and misses none as long as no event arrives Buckets or more behind
\* an earlier one: such a late event takes the bucket of a newer interval.  The
\* counter is read at the time of the newest event.
WindowExact ==
  LET timely == \A i \in DOMAIN log : \A j \in 1 .. i : log[j].time < log[i].time + Buckets
      newest == {i \in DOMAIN log : \A j \in DOMAIN log : log[j].time <= log[i].time}
  IN \A i \in newest, span \in 0 .. Buckets - 1 :
       LET now == log[i].time
           exact == Cardinality({j \in DOMAIN log : log[j].time + span >= now})
       IN /\ Window(Ring(log), now, span) <= exact
          /\ timely => Window(Ring(log), now, span) = exact
=============================================================================
