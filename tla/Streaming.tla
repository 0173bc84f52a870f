------------------------------ MODULE Streaming ------------------------------
(***************************************************************************)
(* Click-through features counted twice from the same events: by the Flink *)
(* job over the topic (flink/ctr_aggregate.py) and by the reference over   *)
(* the producer's dump (scripts/offline_ctr.py); scripts/compare_flink.py  *)
(* holds one against the other.                                            *)
(*                                                                         *)
(* The producer looks at no result of a send: what the broker does with a  *)
(* record is known to nobody, so it may be missing from the topic or be    *)
(* there twice.                                                            *)
(***************************************************************************)
EXTENDS Naturals, Sequences, FiniteSets, Counts

CONSTANTS Events,      \* [time, item, like]; time is at least 1
          MaxEvents,   \* events one call of the producer sends
          MaxFaults,   \* records lost or repeated
          Width,       \* of a window of the job
          None

VARIABLES
  dump,        \* events of the last call, as sent
  flight,      \* sent and not yet settled
  topic,
  faults,
  job,         \* the last offset the running job reads, or None
  rows,        \* output of the job, or None
  read,        \* the records it was made from
  reference,   \* [table, log] of the offline aggregate, or None
  verdict      \* [pass, equal] of the comparison, or None

vars == <<dump, flight, topic, faults, job, rows, read, reference, verdict>>

Items == {e.item : e \in Events}

\* The job's query: one row for each item and tumbling window.
Windowed(log) ==
  LET Key(e) == <<e.item, e.time \div Width>>
      In(k) == {i \in DOMAIN log : Key(log[i]) = k}
  IN {[item |-> k[1], window |-> k[2], views |-> Cardinality(In(k)),
       likes |-> Cardinality(Liked(log, In(k)))] : k \in {Key(log[i]) : i \in DOMAIN log}}

\* compare_flink.read_flink: the sum over the windows of an item.
ReadFlink(out) ==
  LET Rows(i) == {r \in out : r.item = i} IN
  [i \in {r.item : r \in out} |-> [views |-> Total([r \in Rows(i) |-> r.views]),
                                   likes |-> Total([r \in Rows(i) |-> r.likes])]]

-----------------------------------------------------------------------------
TypeOK ==
  /\ {dump, flight, topic, read} \subseteq Seq(Events)
  /\ faults \in 0 .. MaxFaults
  /\ job \in {None} \cup 0 .. Len(topic)
  /\ rows = None \/ \A r \in rows : r.item \in Items /\ r.views >= r.likes
  /\ reference = None \/ DOMAIN reference.table \subseteq Items
  /\ verdict \in {None} \cup [pass : BOOLEAN, equal : BOOLEAN]

Init ==
  /\ dump = <<>> /\ flight = <<>> /\ topic = <<>> /\ faults = 0
  /\ job = None /\ rows = None /\ read = <<>> /\ reference = None /\ verdict = None

\* kafka_produce: a record is sent and dumped ...
Send(e) ==
  /\ Len(dump) < MaxEvents
  /\ dump' = Append(dump, e) /\ flight' = Append(flight, e)
  /\ UNCHANGED <<topic, faults, job, rows, read, reference, verdict>>

\* ... and reaches the topic,
Deliver ==
  /\ flight # <<>>
  /\ flight' = Tail(flight) /\ topic' = Append(topic, Head(flight))
  /\ UNCHANGED <<dump, faults, job, rows, read, reference, verdict>>

\* or it does not, or a retry repeats it.
Misdeliver ==
  /\ flight # <<>> /\ faults < MaxFaults /\ faults' = faults + 1
  /\ \/ flight' = Tail(flight) /\ UNCHANGED topic
     \/ UNCHANGED flight /\ topic' = Append(topic, Head(flight))
  /\ UNCHANGED <<dump, job, rows, read, reference, verdict>>

\* The producer is called again: a new dump, the same topic.
Again ==
  /\ flight = <<>> /\ dump # <<>> /\ Len(topic) < MaxEvents
  /\ dump' = <<>>
  /\ UNCHANGED <<flight, topic, faults, job, rows, read, reference, verdict>>

\* The job removes the old output and reads up to the latest offset ...
JobStart ==
  /\ job = None /\ job' = Len(topic)
  /\ rows' = None
  /\ UNCHANGED <<dump, flight, topic, faults, read, reference, verdict>>

\* ... and commits its output on completion; no rows means no files.
JobDone ==
  /\ job # None /\ job' = None
  /\ rows' = IF job = 0 THEN None ELSE Windowed(SubSeq(topic, 1, job))
  /\ read' = SubSeq(topic, 1, job)
  /\ UNCHANGED <<dump, flight, topic, faults, reference, verdict>>

JobFails ==
  /\ job # None /\ job' = None
  /\ UNCHANGED <<dump, flight, topic, faults, rows, read, reference, verdict>>

\* offline_ctr.main
Offline ==
  /\ dump # <<>>
  /\ reference' = [table |-> Aggregate(dump), log |-> dump]
  /\ UNCHANGED <<dump, flight, topic, faults, job, rows, read, verdict>>

\* compare_flink.main; a missing output ends it.
Agree_Common(flink, ref) ==
  \A i \in DOMAIN flink \cap DOMAIN ref : flink[i] = ref[i]

Agree(flink, ref) ==
  /\ DOMAIN flink = DOMAIN ref
  /\ \A i \in DOMAIN ref : flink[i] = ref[i]

Compare ==
  /\ rows # None /\ reference # None
  /\ verdict' = [pass |-> Agree(ReadFlink(rows), reference.table),
                 equal |-> \A i \in Items : Counts(read, i) = Counts(reference.log, i)]
  /\ UNCHANGED <<dump, flight, topic, faults, job, rows, read, reference>>

Next ==
  \/ \E e \in Events : Send(e)
  \/ Deliver \/ Misdeliver \/ Again
  \/ JobStart \/ JobDone \/ JobFails \/ Offline \/ Compare

Spec == Init /\ [][Next]_vars

-----------------------------------------------------------------------------
\* The comparison passes exactly when the job has found, for every item, as
\* many views and likes as the producer dumped, whatever the broker lost or
\* repeated, whatever older records the topic holds and wherever the windows
\* begin and end.
ComparisonSound ==
  verdict # None => (verdict.pass <=> verdict.equal)
=============================================================================
