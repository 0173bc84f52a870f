-------------------------------- MODULE Probes --------------------------------
(***************************************************************************)
(* A restart under observation (restart_during_probes in                   *)
(* scripts/check_operations.py): one thread asks /readyz again and again   *)
(* while the main thread kills a component, starts it again and waits for  *)
(* three events the probing thread sets.                                   *)
(*                                                                         *)
(* The component and its readiness are external.  An answer of 200 means   *)
(* that the component was up at some time while the probe was under way; a *)
(* probe may fail at any time, and one that was under way when the         *)
(* component was killed may be answered much later.                        *)
(***************************************************************************)
EXTENDS Naturals

CONSTANTS MaxProbes,
          MaxNoise    \* probes that fail although the component is up

VARIABLES
  component,   \* "up", "down" or "starting"
  noise,
  main,        \* where the main thread is
  restarting,  \* restart_started has been set
  probe,       \* "idle", "asking", "setting" or "ended"
  sent,        \* [after, seen]: begun after restart_started; component states since
  status,      \* of the last answer
  samples,     \* [first, last, failures, number]
  events,      \* set of "healthy", "failed" and "recovered"
  stop,
  revived,     \* the component has come up after the kill
  result       \* "none", "passed" or "failed"

vars == <<component, noise, main, restarting, probe, sent, status, samples, events, stop,
          revived, result>>

NoSamples == [first |-> "none", last |-> "none", failures |-> 0, number |-> 0]
Mains == {"healthy?", "kill", "failed?", "note", "start", "recovered?", "stop", "join", "assert",
          "over"}

TypeOK ==
  /\ component \in {"up", "down", "starting"} /\ noise \in 0 .. MaxNoise
  /\ main \in Mains /\ restarting \in BOOLEAN /\ stop \in BOOLEAN /\ revived \in BOOLEAN
  /\ probe \in {"idle", "asking", "setting", "ended"}
  /\ sent \in [after : BOOLEAN, seen : SUBSET {"up", "down", "starting"}]
  /\ status \in {"none", "ok", "bad"}
  /\ samples \in [first : {"none", "ok", "bad"}, last : {"none", "ok", "bad"},
                  failures : 0 .. MaxProbes, number : 0 .. MaxProbes]
  /\ events \subseteq {"healthy", "failed", "recovered"}
  /\ result \in {"none", "passed", "failed"}

Init ==
  /\ component = "up" /\ noise = 0 /\ main = "healthy?" /\ restarting = FALSE
  /\ probe = "idle" /\ sent = [after |-> FALSE, seen |-> {}] /\ status = "none"
  /\ samples = NoSamples /\ events = {} /\ stop = FALSE /\ revived = FALSE
  /\ result = "none"

-----------------------------------------------------------------------------
(* The component.                                                          *)
Becomes(c) ==
  /\ component' = c
  /\ sent' = [sent EXCEPT !.seen = IF probe = "asking" THEN @ \cup {c} ELSE @]

ComesUp ==
  /\ component = "starting" /\ Becomes("up") /\ revived' = TRUE
  /\ UNCHANGED <<noise, main, restarting, probe, status, samples, events, stop, result>>

(* The probing thread.                                                     *)
Ask ==
  /\ probe = "idle" /\ ~stop /\ samples.number < MaxProbes
  /\ probe' = "asking" /\ sent' = [after |-> restarting, seen |-> {component}]
  /\ UNCHANGED <<component, noise, main, restarting, status, samples, events, stop, revived,
                 result>>

Answer(st) ==
  /\ probe = "asking"
  /\ \/ st = "ok" /\ "up" \in sent.seen /\ UNCHANGED noise
     \/ st = "bad" /\ sent.seen # {"up"} /\ UNCHANGED noise
     \/ st = "bad" /\ sent.seen = {"up"} /\ noise < MaxNoise /\ noise' = noise + 1
  /\ status' = st /\ probe' = "setting"
  /\ samples' = [first |-> IF samples.number = 0 THEN st ELSE samples.first, last |-> st,
                 failures |-> samples.failures + (IF st = "bad" THEN 1 ELSE 0),
                 number |-> samples.number + 1]
  /\ UNCHANGED <<component, main, restarting, sent, events, stop, revived, result>>

\* The events an answer sets.  restart_started is read after the answer came.
Sets_AnyProbe ==
  IF status = "ok" THEN {"healthy"} \cup (IF restarting THEN {"recovered"} ELSE {})
  ELSE IF "healthy" \in events THEN {"failed"} ELSE {}

Sets ==
  IF status = "ok"
  THEN {"healthy"} \cup (IF restarting /\ sent.after THEN {"recovered"} ELSE {})
  ELSE IF "healthy" \in events THEN {"failed"} ELSE {}

Set ==
  /\ probe = "setting" /\ probe' = "idle"
  /\ events' = events \cup Sets
  /\ UNCHANGED <<component, noise, main, restarting, sent, status, samples, stop, revived,
                 result>>

Ends ==
  /\ probe = "idle" /\ stop /\ probe' = "ended"
  /\ UNCHANGED <<component, noise, main, restarting, sent, status, samples, events, stop,
                 revived, result>>

(* The main thread.                                                        *)
Waits(at, event, then) ==
  /\ main = at /\ event \in events /\ main' = then
  /\ UNCHANGED <<component, noise, restarting, probe, sent, status, samples, events, stop,
                 revived, result>>

\* A wait times out, or a command or what is done while the component is down fails.
Fails ==
  /\ \/ main = "healthy?" /\ "healthy" \notin events
     \/ main = "failed?" /\ "failed" \notin events
     \/ main = "recovered?" /\ "recovered" \notin events
     \/ main \in {"kill", "note", "start"}
  /\ main' = "stop" /\ result' = "failed"
  /\ UNCHANGED <<component, noise, restarting, probe, sent, status, samples, events, stop,
                 revived>>

KillIt ==
  /\ main = "kill" /\ main' = "failed?" /\ Becomes("down")
  /\ UNCHANGED <<noise, restarting, probe, status, samples, events, stop, revived, result>>

NoteRestart ==
  /\ main = "note" /\ main' = "start" /\ restarting' = TRUE
  /\ UNCHANGED <<component, noise, probe, sent, status, samples, events, stop, revived, result>>

StartIt ==
  /\ main = "start" /\ main' = "recovered?" /\ Becomes("starting")
  /\ UNCHANGED <<noise, restarting, probe, status, samples, events, stop, revived, result>>

StopProbes ==
  /\ main = "stop" /\ main' = "join" /\ stop' = TRUE
  /\ UNCHANGED <<component, noise, restarting, probe, sent, status, samples, events, revived,
                 result>>

Join_Trusting ==
  /\ main = "join" /\ main' = "assert" /\ UNCHANGED result
  /\ UNCHANGED <<component, noise, restarting, probe, sent, status, samples, events, stop,
                 revived>>

\* The join has a time limit: a thread that still runs fails the drill.
Join ==
  /\ main = "join" /\ main' = "assert"
  /\ result' = IF probe = "ended" THEN result ELSE "failed"
  /\ UNCHANGED <<component, noise, restarting, probe, sent, status, samples, events, stop,
                 revived>>

Assert ==
  /\ main = "assert" /\ main' = "over"
  /\ result' = IF /\ result = "none" /\ samples.failures > 0
                  /\ samples.first = "ok" /\ samples.last = "ok"
               THEN "passed" ELSE "failed"
  /\ UNCHANGED <<component, noise, restarting, probe, sent, status, samples, events, stop,
                 revived>>

Main ==
  \/ Waits("healthy?", "healthy", "kill") \/ Waits("failed?", "failed", "note")
  \/ Waits("recovered?", "recovered", "stop")
  \/ Fails \/ KillIt \/ NoteRestart \/ StartIt \/ StopProbes \/ Join \/ Assert

Next ==
  \/ ComesUp \/ Ask \/ Set \/ Ends \/ Main
  \/ \E st \in {"ok", "bad"} : Answer(st)

Spec == Init /\ [][Next]_vars

-----------------------------------------------------------------------------
\* Recovery is only reported once the component has really come up after the
\* restart, however late an answer to an earlier probe arrives.
RecoveryIsReal == "recovered" \in events => revived

\* The samples a passed drill reports are complete: they end with a success and
\* no probe is under way that could add to them or contradict it.
SamplesFinal == result = "passed" => probe = "ended" /\ samples.last = "ok" /\ revived
=============================================================================
