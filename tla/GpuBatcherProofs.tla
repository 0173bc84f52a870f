-------------------------- MODULE GpuBatcherProofs --------------------------
(***************************************************************************)
(* Proofs about GpuBatcher for any set of requests, every timeout, batch   *)
(* size, window and capacity: no promise is set twice and none is dropped, *)
(* the scheduler never sleeps on work, stop() strands nobody, and a failed *)
(* GPU is not used again.                                                  *)
(***************************************************************************)
EXTENDS GpuBatcher, SequenceTheorems, FiniteSetTheorems, TLAPS

\* What the program counters of the two threads say of the queue, the batch and
\* the flag.
Control ==
  /\ pc \in {"warmup", "failed", "test", "waiting", "exited"} => batch = <<>>
  /\ pc = "reply" => next \in 1..Len(batch) /\ result \in Statuses
  /\ pc = "waiting" => jobs = <<>> /\ (stopping => spc = "notify")
  /\ pc = "exited" => jobs = <<>> /\ stopping
  /\ spc = "before" <=> ~stopping
  /\ spc = "after" => pc = "exited"

\* Nobody is in two places.
Apart ==
  /\ \A i, j \in 1..Len(jobs) : jobs[i] = jobs[j] => i = j
  /\ \A i, j \in Unanswered : batch[i] = batch[j] => i = j
  /\ \A i \in 1..Len(jobs), j \in Unanswered : jobs[i] # batch[j]
  /\ \A i \in 1..Len(jobs) : reply[jobs[i]] = None /\ submitted[jobs[i]] # None
  /\ \A i \in Unanswered : reply[batch[i]] = None /\ submitted[batch[i]] # None
  /\ \A q \in Requests : submitted[q] = None => reply[q] = None

\* Everybody is somewhere.
Held ==
  \A q \in Requests :
    submitted[q] # None => \/ reply[q] # None
                           \/ \E i \in 1..Len(jobs) : jobs[i] = q
                           \/ \E i \in Unanswered : batch[i] = q

BatcherInv == TypeOK /\ Control /\ Apart /\ Held

\* Steps that move no request.
LEMMA Still ==
  ASSUME Apart, Held, UNCHANGED <<jobs, batch, submitted, reply>>, Unanswered' = Unanswered
  PROVE  Apart' /\ Held'
  BY DEF Apart, Held

\* The first unanswered entry of the batch gets its answer.
LEMMA AnswersNext ==
  ASSUME TypeOK, Apart, Held, UNCHANGED <<jobs, batch, submitted>>, next \in 1..Len(batch),
         NEW s \in Statuses, Answer(batch[next], s), next \in Unanswered,
         Unanswered' = Unanswered \ {next}
  PROVE  Apart' /\ Held'
<1>1. /\ reply' = [reply EXCEPT ![batch[next]] = s] /\ s # None
      /\ reply \in [Requests -> Statuses \cup {None}]
      /\ batch[next] \in Requests
  BY NoneAssumption, ElementOfSeq DEF Answer, TypeOK
<1>2. /\ reply'[batch[next]] = s
      /\ \A q \in Requests : q # batch[next] => reply'[q] = reply[q]
  BY <1>1
<1>3. /\ \A i \in 1..Len(jobs) : jobs[i] \in Requests /\ jobs[i] # batch[next]
      /\ \A i \in Unanswered' : batch[i] \in Requests /\ batch[i] # batch[next]
  <2>1. \A i \in Unanswered : i \in 1..Len(batch)
    BY LenProperties DEF Unanswered, TypeOK
  <2> QED BY <2>1, ElementOfSeq DEF TypeOK, Apart
<1>4. Apart'
  BY <1>1, <1>2, <1>3 DEF Apart
<1>5. Held'
  BY <1>1, <1>2 DEF Held
<1> QED BY <1>4, <1>5

LEMMA InitBatcher == Init => BatcherInv
<1> SUFFICES ASSUME Init PROVE BatcherInv
  OBVIOUS
<1>1. jobs = <<>> /\ batch = <<>> /\ Len(jobs) = 0 /\ Len(batch) = 0
      /\ jobs \in Seq(Requests) /\ batch \in Seq(Requests)
  BY DEF Init
<1>2. TypeOK
  <2>1. Len(jobs) <= Capacity /\ Len(batch) <= MaxBatch
    BY <1>1, BatchAssumption
  <2>2. now \in 0..MaxTime /\ until \in Nat /\ next \in 1..(MaxBatch + 1)
    BY BatchAssumption, TimeAssumption DEF Init
  <2>3. /\ stopping \in BOOLEAN /\ healthy \in BOOLEAN /\ usedGpu \in BOOLEAN
        /\ pc = "warmup" /\ spc = "before" /\ result = None
    BY DEF Init
  <2>4. /\ submitted \in [Requests -> 0..MaxTime \cup {None}]
        /\ reply \in [Requests -> Statuses \cup {None}]
    BY DEF Init
  <2> QED BY <1>1, <2>1, <2>2, <2>3, <2>4 DEF TypeOK
<1>3. Control
  BY DEF Init, Control
<1>4. Unanswered = {}
  BY DEF Init, Unanswered
<1>5. Apart
  BY <1>1, <1>4 DEF Init, Apart
<1>6. Held
  BY DEF Init, Held
<1> QED BY <1>2, <1>3, <1>5, <1>6 DEF BatcherInv

LEMMA NextBatcher == BatcherInv /\ [Next]_vars => BatcherInv'
<1> SUFFICES ASSUME BatcherInv, [Next]_vars PROVE BatcherInv'
  OBVIOUS
<1>t. TypeOK
  BY DEF BatcherInv
<1>c. Control
  BY DEF BatcherInv
<1>a. Apart /\ Held
  BY DEF BatcherInv
<1>seq. /\ jobs \in Seq(Requests) /\ batch \in Seq(Requests)
        /\ Len(jobs) \in Nat /\ Len(batch) \in Nat
        /\ DOMAIN jobs = 1..Len(jobs) /\ DOMAIN batch = 1..Len(batch)
        /\ Unanswered \subseteq 1..Len(batch)
  BY <1>t, LenProperties DEF TypeOK, Unanswered
<1>still. ASSUME UNCHANGED <<jobs, batch, submitted, reply>>, Unanswered' = Unanswered,
                 TypeOK', Control'
          PROVE  BatcherInv'
  BY <1>a, <1>still, Still DEF BatcherInv
<1>1. CASE Tick
  <2>1. TypeOK'
    BY <1>1, <1>t, TimeAssumption
       DEF Tick, TypeOK, queueVars, loopVars
  <2>2. Control'
    BY <1>1, <1>c DEF Tick, Control, queueVars, loopVars
  <2> QED BY <1>1, <2>1, <2>2, <1>still DEF Tick, queueVars, loopVars, Unanswered
<1>2. CASE WarmedUp \/ Sleep
  <2>1. UNCHANGED <<now, queueVars, reply, loopVars, healthy, spc>>
        /\ pc' \in {"test", "failed", "waiting"} /\ pc \in {"warmup", "test"}
    BY <1>2 DEF WarmedUp, Sleep
  <2>2. TypeOK'
    BY <1>t, <2>1 DEF TypeOK, queueVars, loopVars
  <2>3. Control'
    BY <1>2, <1>c, <2>1 DEF WarmedUp, Sleep, Control, queueVars, loopVars
  <2>4. Unanswered' = Unanswered
    BY <2>1 DEF Unanswered, loopVars
  <2> QED BY <2>1, <2>2, <2>3, <2>4, <1>still DEF queueVars, loopVars
<1>3. ASSUME NEW q \in Requests, Submit(q) PROVE BatcherInv'
  <2>1. /\ Constructed /\ pc # "form" /\ submitted[q] = None
        /\ submitted' = [submitted EXCEPT ![q] = now]
        /\ UNCHANGED <<now, stopping, loopVars, healthy, spc>>
    BY <1>3 DEF Submit
  <2>2. /\ now \in 0..MaxTime /\ now # None
        /\ submitted' \in [Requests -> 0..MaxTime \cup {None}]
        /\ submitted'[q] # None
        /\ \A p \in Requests : p # q => submitted'[p] = submitted[p]
    BY <1>t, <2>1, NoneAssumption DEF TypeOK
  <2>3. /\ \A i \in 1..Len(jobs) : jobs[i] \in Requests /\ jobs[i] # q
        /\ \A i \in Unanswered : batch[i] \in Requests /\ batch[i] # q
        /\ reply[q] = None
    BY <1>a, <1>seq, <2>1, ElementOfSeq DEF Apart
  <2>4. ASSUME NEW s \in Statuses, Answer(q, s), UNCHANGED <<jobs, pc>> PROVE BatcherInv'
    <3>1. /\ reply' \in [Requests -> Statuses \cup {None}]
          /\ reply'[q] = s /\ s # None
          /\ \A p \in Requests : p # q => reply'[p] = reply[p]
      BY <1>t, <2>4, NoneAssumption DEF Answer, TypeOK
    <3>2. TypeOK'
      BY <1>t, <2>1, <2>2, <2>4, <3>1 DEF TypeOK, loopVars
    <3>3. Control'
      BY <1>c, <2>1, <2>4 DEF Control, loopVars
    <3>4. Unanswered' = Unanswered /\ batch' = batch
      BY <2>1, <2>4 DEF Unanswered, loopVars
    <3>5. Apart'
      BY <1>a, <2>2, <2>3, <2>4, <3>1, <3>4 DEF Apart
    <3>6. Held'
      BY <1>a, <2>2, <2>4, <3>1, <3>4 DEF Held
    <3> QED BY <3>2, <3>3, <3>5, <3>6 DEF BatcherInv
  <2>5. ASSUME ~stopping, Len(jobs) < Capacity, jobs' = Append(jobs, q),
               pc' = IF pc = "waiting" THEN "test" ELSE pc, UNCHANGED reply
        PROVE  BatcherInv'
    <3> DEFINE n == Len(jobs)
    <3>1. /\ jobs' \in Seq(Requests) /\ Len(jobs') = n + 1
          /\ \A i \in 1..n : jobs'[i] = jobs[i]
          /\ jobs'[n + 1] = q
      BY <1>seq, <2>5, AppendProperties
    <3>2. TypeOK'
      BY <1>t, <1>seq, <2>1, <2>2, <2>5, <3>1, BatchAssumption DEF TypeOK, loopVars
    <3>3. Control'
      BY <1>c, <2>1, <2>5 DEF Control, loopVars
    <3>4. Unanswered' = Unanswered /\ batch' = batch
      BY <2>1, <2>5 DEF Unanswered, loopVars
    <3>5. \A i \in 1..Len(jobs') : \/ i = n + 1 /\ jobs'[i] = q
                                   \/ i \in 1..n /\ jobs'[i] = jobs[i]
      BY <1>seq, <3>1
    <3>6. Apart'
      BY <1>a, <2>2, <2>3, <2>5, <3>4, <3>5 DEF Apart
    <3>7. n \in Nat /\ n + 1 \in 1..Len(jobs') /\ \A i \in 1..n : i \in 1..Len(jobs')
      BY <1>seq, <3>1
    <3>8. Held'
      BY <1>a, <2>2, <2>5, <3>1, <3>4, <3>7 DEF Held
    <3> QED BY <3>2, <3>3, <3>6, <3>8 DEF BatcherInv
  <2> QED BY <1>3, <2>4, <2>5 DEF Submit, Statuses
<1>4. CASE Exit
  <2>1. /\ pc = "test" /\ stopping /\ jobs' = <<>> /\ pc' = "exited"
        /\ reply' = [q \in Requests |->
                       IF \E i \in DOMAIN jobs : jobs[i] = q THEN "Unavailable" ELSE reply[q]]
        /\ UNCHANGED <<now, stopping, submitted, loopVars, healthy, spc>>
    BY <1>4 DEF Exit
  <2>2. batch = <<>> /\ Unanswered = {} /\ Unanswered' = {} /\ Len(jobs') = 0
        /\ batch' = batch
    BY <1>c, <2>1 DEF Control, Unanswered, loopVars
  <2>3. reply' \in [Requests -> Statuses \cup {None}]
    BY <1>t, <2>1 DEF TypeOK, Statuses
  <2>4. TypeOK'
    BY <1>t, <2>1, <2>2, <2>3, BatchAssumption DEF TypeOK, loopVars
  <2>5. Control'
    BY <1>c, <2>1, <2>2 DEF Control, loopVars
  <2>6. Apart'
    <3>1. \A q \in Requests : submitted[q] = None => \A i \in DOMAIN jobs : jobs[i] # q
      BY <1>a, <1>seq DEF Apart
    <3>2. \A q \in Requests : submitted'[q] = None => reply'[q] = None
      BY <1>a, <2>1, <3>1 DEF Apart
    <3> QED BY <2>2, <3>2 DEF Apart
  <2>7. Held'
    <3>1. \A q \in Requests : submitted[q] # None =>
            reply[q] # None \/ \E i \in DOMAIN jobs : jobs[i] = q
      BY <1>a, <1>seq, <2>2 DEF Held
    <3>2. \A q \in Requests : submitted'[q] # None => reply'[q] # None
      BY <2>1, <3>1, NoneAssumption DEF Statuses
    <3> QED BY <3>2 DEF Held
  <2> QED BY <2>4, <2>5, <2>6, <2>7 DEF BatcherInv
<1>5. CASE FormBegin
  <2>1. /\ pc = "test" /\ jobs # <<>> /\ pc' = "form"
        /\ until' = submitted[Head(jobs)] + WaitUs
        /\ UNCHANGED <<now, queueVars, reply, batch, next, result, usedGpu, healthy, spc>>
    BY <1>5 DEF FormBegin
  <2>2. Head(jobs) = jobs[1] /\ 1 \in 1..Len(jobs)
    BY <1>seq, <2>1, HeadTailProperties, EmptySeq
  <2>3. submitted[Head(jobs)] \in Nat
    BY <1>t, <1>a, <1>seq, <2>2, ElementOfSeq, TimeAssumption DEF Apart, TypeOK
  <2>4. TypeOK'
    BY <1>t, <2>1, <2>3, TimeAssumption DEF TypeOK, queueVars
  <2>5. Control'
    BY <1>c, <2>1 DEF Control, queueVars
  <2>6. Unanswered' = Unanswered
    BY <1>c, <2>1 DEF Control, Unanswered
  <2> QED BY <2>1, <2>4, <2>5, <2>6, <1>still DEF queueVars
<1>6. CASE FormPop
  <2> DEFINE q == jobs[1]
             n == Len(jobs)
  <2>1. /\ pc = "form" /\ jobs # <<>> /\ Len(batch) < MaxBatch /\ jobs' = Tail(jobs)
        /\ UNCHANGED <<now, stopping, submitted, pc, next, result, usedGpu, healthy, spc>>
    BY <1>6 DEF FormPop
  <2>2. /\ n \in Nat /\ n >= 1 /\ Head(jobs) = q /\ q \in Requests /\ 1 \in 1..n
        /\ jobs' \in Seq(Requests) /\ Len(jobs') = n - 1
        /\ \A i \in 1..(n - 1) : jobs'[i] = jobs[i + 1]
    BY <1>seq, <2>1, HeadTailProperties, EmptySeq, ElementOfSeq
  <2>3. \A i \in 1..Len(jobs') : i + 1 \in 1..n /\ i + 1 # 1 /\ jobs'[i] = jobs[i + 1]
                                 /\ i \in Int
    BY <2>2
  <2>4. /\ reply[q] = None /\ submitted[q] # None /\ q = jobs[1]
        /\ \A i \in Unanswered : batch[i] # q
    BY <1>a, <2>2 DEF Apart
  <2>5. Len(jobs') <= Capacity
    BY <1>t, <2>2, BatchAssumption DEF TypeOK
  <2>6. \A i \in 1..n : i = 1 \/ (i - 1 \in 1..Len(jobs') /\ jobs'[i - 1] = jobs[i])
    BY <2>2
  <2>u. Unanswered = 1..Len(batch)
    BY <1>seq, <2>1 DEF Unanswered
  <2> HIDE DEF q, n
  <2>7. \A i \in 1..Len(jobs') :
          /\ jobs'[i] # q /\ jobs'[i] \in Requests /\ reply[jobs'[i]] = None
          /\ submitted[jobs'[i]] # None
          /\ \A j \in Unanswered : jobs'[i] # batch[j]
    <3> SUFFICES ASSUME NEW i \in 1..Len(jobs')
                 PROVE  /\ jobs'[i] # q /\ jobs'[i] \in Requests /\ reply[jobs'[i]] = None
                        /\ submitted[jobs'[i]] # None
                        /\ \A j \in Unanswered : jobs'[i] # batch[j]
      OBVIOUS
    <3>1. i + 1 \in 1..Len(jobs) /\ i + 1 # 1 /\ jobs'[i] = jobs[i + 1]
      BY <2>3 DEF n
    <3>2. 1 \in 1..Len(jobs) /\ jobs[1] = q
      BY <2>2 DEF n, q
    <3>3. jobs[i + 1] \in Requests
      BY <1>seq, <3>1, ElementOfSeq
    <3> QED BY <1>a, <3>1, <3>2, <3>3 DEF Apart
  <2>8. \A i, j \in 1..Len(jobs') : jobs'[i] = jobs'[j] => i = j
    <3> SUFFICES ASSUME NEW i \in 1..Len(jobs'), NEW j \in 1..Len(jobs'), jobs'[i] = jobs'[j]
                 PROVE  i = j
      OBVIOUS
    <3>1. i + 1 \in 1..Len(jobs) /\ j + 1 \in 1..Len(jobs) /\ jobs[i + 1] = jobs[j + 1]
      BY <2>3 DEF n
    <3>2. i + 1 = j + 1
      BY <1>a, <3>1 DEF Apart
    <3> QED BY <2>3, <3>2
  <2>9. CASE Expired(q)
    <3>1. Answer(q, "Timeout") /\ UNCHANGED <<batch, until>>
      BY <1>6, <2>2, <2>9 DEF FormPop
    <3>2. /\ reply' \in [Requests -> Statuses \cup {None}] /\ reply'[q] # None
          /\ \A p \in Requests : p # q => reply'[p] = reply[p]
      BY <1>t, <2>2, <3>1, NoneAssumption DEF Answer, TypeOK, Statuses
    <3>3. TypeOK'
      BY <1>t, <2>1, <2>2, <2>5, <3>1, <3>2 DEF TypeOK
    <3>4. Control'
      BY <1>c, <2>1, <3>1 DEF Control
    <3>5. Unanswered' = Unanswered
      BY <2>1, <3>1 DEF Unanswered
    <3>6. \A i \in Unanswered : batch[i] \in Requests
      BY <1>seq, ElementOfSeq
    <3>7. Apart'
      BY <1>a, <2>1, <2>4, <2>7, <2>8, <3>1, <3>2, <3>5, <3>6 DEF Apart
    <3>8. Held'
      <4> SUFFICES ASSUME NEW p \in Requests, submitted[p] # None, reply'[p] = None
                   PROVE  \/ \E i \in 1..Len(jobs') : jobs'[i] = p
                          \/ \E i \in Unanswered : batch[i] = p
        BY <2>1, <3>1, <3>5 DEF Held
      <4>1. reply[p] = None /\ p # q
        BY <3>2
      <4>2. \/ \E i \in 1..Len(jobs) : jobs[i] = p
            \/ \E i \in Unanswered : batch[i] = p
        BY <1>a, <4>1 DEF Held
      <4> QED BY <2>4, <2>6, <4>1, <4>2 DEF n
    <3> QED BY <3>3, <3>4, <3>7, <3>8 DEF BatcherInv
  <2>10. CASE ~Expired(q)
    <3> DEFINE m == Len(batch)
    <3>1. /\ batch' = Append(batch, q) /\ UNCHANGED reply
          /\ until' = Minimum(until, submitted[q] + Timeout[q])
      BY <1>6, <2>2, <2>10 DEF FormPop
    <3>2. /\ batch' \in Seq(Requests) /\ Len(batch') = m + 1
          /\ \A i \in 1..m : batch'[i] = batch[i]
          /\ batch'[m + 1] = q
      BY <1>seq, <2>2, <3>1, AppendProperties
    <3>3. until' \in Nat
      <4>1. submitted[q] \in Nat /\ Timeout[q] \in Nat /\ until \in Nat
        BY <1>t, <2>2, <2>4, TimeoutAssumption, TimeAssumption DEF TypeOK
      <4> QED BY <3>1, <4>1 DEF Minimum
    <3>4. TypeOK'
      BY <1>t, <1>seq, <2>1, <2>2, <2>5, <3>1, <3>2, <3>3, BatchAssumption DEF TypeOK
    <3>5. Control'
      BY <1>c, <2>1 DEF Control
    <3>6. Unanswered' = 1..(m + 1) /\ m \in Nat
      BY <1>seq, <2>1, <3>2, LenProperties DEF Unanswered
    <3>7. \A i \in Unanswered' : \/ i = m + 1 /\ batch'[i] = q
                                 \/ i \in Unanswered /\ batch'[i] = batch[i]
      BY <2>u, <3>2, <3>6
    <3>8. /\ m + 1 \in Unanswered' /\ batch'[m + 1] = q
          /\ \A i \in Unanswered : i \in Unanswered' /\ batch'[i] = batch[i]
      BY <2>u, <3>2, <3>6
    <3> HIDE DEF m
    <3>9. Apart'
      <4>1. \A i, j \in Unanswered' : batch'[i] = batch'[j] => i = j
        BY <1>a, <2>4, <3>7 DEF Apart
      <4>2. \A i \in 1..Len(jobs'), j \in Unanswered' : jobs'[i] # batch'[j]
        BY <2>7, <3>7
      <4>3. \A i \in Unanswered' : reply[batch'[i]] = None /\ submitted[batch'[i]] # None
        BY <1>a, <2>4, <3>7 DEF Apart
      <4>4. \A p \in Requests : submitted[p] = None => reply[p] = None
        BY <1>a DEF Apart
      <4>5. UNCHANGED <<reply, submitted>>
        BY <2>1, <3>1
      <4> QED BY <2>7, <2>8, <4>1, <4>2, <4>3, <4>4, <4>5 DEF Apart
    <3>10. Held'
      <4> SUFFICES ASSUME NEW p \in Requests, submitted[p] # None, reply[p] = None
                   PROVE  \/ \E i \in 1..Len(jobs') : jobs'[i] = p
                          \/ \E i \in Unanswered' : batch'[i] = p
        BY <2>1, <3>1 DEF Held
      <4>1. \/ \E i \in 1..Len(jobs) : jobs[i] = p
            \/ \E i \in Unanswered : batch[i] = p
        BY <1>a DEF Held
      <4> QED BY <2>4, <2>6, <3>8, <4>1 DEF n
    <3> QED BY <3>4, <3>5, <3>9, <3>10 DEF BatcherInv
  <2> QED BY <2>9, <2>10
<1>7. CASE FormEnd \/ FormWait \/ FormResume
  <2>1. /\ UNCHANGED <<now, queueVars, reply, loopVars, healthy, spc>>
        /\ pc \in {"form", "formwait"}
        /\ pc' \in {"form", "formwait", "gpu"} \/ (pc' = "test" /\ batch = <<>>)
    BY <1>7 DEF FormEnd, FormWait, FormResume
  <2>2. TypeOK'
    BY <1>t, <2>1 DEF TypeOK, queueVars, loopVars
  <2>3. Control'
    BY <1>c, <2>1 DEF Control, queueVars, loopVars
  <2>4. Unanswered' = Unanswered
    <3>1. CASE pc' \in {"form", "formwait", "gpu"}
      BY <2>1, <3>1 DEF Unanswered, loopVars
    <3>2. CASE batch = <<>>
      BY <2>1, <3>2 DEF Unanswered, loopVars
    <3> QED BY <2>1, <3>1, <3>2
  <2> QED BY <2>1, <2>2, <2>3, <2>4, <1>still DEF queueVars, loopVars
<1>8. CASE Score
  <2>1. /\ pc = "gpu" /\ pc' = "answer" /\ next' = 1
        /\ usedGpu' \in BOOLEAN /\ healthy' \in BOOLEAN
        /\ UNCHANGED <<now, queueVars, reply, batch, until, result, spc>>
    BY <1>8 DEF Score
  <2>2. TypeOK'
    BY <1>t, <2>1, BatchAssumption DEF TypeOK, queueVars
  <2>3. Control'
    BY <1>c, <2>1 DEF Control, queueVars
  <2>4. Unanswered' = Unanswered
    BY <1>seq, <2>1 DEF Unanswered
  <2> QED BY <2>1, <2>2, <2>3, <2>4, <1>still DEF queueVars
<1>9. ASSUME NEW s \in Statuses, Answer(batch[next], s), pc \in {"answer", "reply"},
             next \in 1..Len(batch), next' = next + 1, pc' = "answer",
             result' \in {result, None},
             UNCHANGED <<now, queueVars, batch, until, usedGpu, healthy, spc>>
      PROVE  BatcherInv'
  <2>1. batch[next] \in Requests
    BY <1>9, <1>seq, ElementOfSeq
  <2>2. TypeOK'
    BY <1>9, <1>t, <1>seq, <2>1, BatchAssumption DEF TypeOK, Answer, queueVars
  <2>3. Control'
    BY <1>9, <1>c DEF Control, queueVars
  <2>4. next \in Unanswered /\ Unanswered' = Unanswered \ {next}
    BY <1>9, <1>seq DEF Unanswered
  <2>5. Apart' /\ Held'
    BY <1>9, <1>t, <1>a, <2>4, AnswersNext DEF queueVars
  <2> QED BY <2>2, <2>3, <2>5 DEF BatcherInv
<1>10. CASE AnswerExpired
  <2>1. next \in 1..Len(batch)
    BY <1>10, <1>t, <1>seq, BatchAssumption DEF AnswerExpired, TypeOK
  <2> QED BY <1>10, <2>1, <1>9 DEF AnswerExpired, Statuses
<1>11. CASE AnswerRank
  <2>1. /\ pc = "answer" /\ next \in 1..Len(batch)
        /\ UNCHANGED <<now, queueVars, batch, until, usedGpu, healthy, spc>>
    BY <1>11, <1>t, <1>seq, BatchAssumption DEF AnswerRank, TypeOK
  <2>2. CASE result' \in {"Ok", "Timeout", "Unavailable"} /\ pc' = "reply"
             /\ UNCHANGED <<reply, next>>
    <3>1. TypeOK'
      BY <1>t, <2>1, <2>2 DEF TypeOK, queueVars, Statuses
    <3>2. Control'
      BY <1>c, <2>1, <2>2 DEF Control, queueVars, Statuses
    <3>3. Unanswered' = Unanswered
      BY <2>1, <2>2 DEF Unanswered
    <3> QED BY <2>1, <2>2, <3>1, <3>2, <3>3, <1>still DEF queueVars
  <2>3. CASE Answer(batch[next], "Unavailable") /\ next' = next + 1 /\ UNCHANGED <<result, pc>>
    BY <2>1, <2>3, <1>9 DEF Statuses
  <2> QED BY <1>11, <2>2, <2>3 DEF AnswerRank
<1>12. CASE AnswerReply
  <2>1. pc = "reply" /\ next \in 1..Len(batch) /\ result \in Statuses
    BY <1>12, <1>c DEF AnswerReply, Control
  <2>2. PICK s \in Statuses : Answer(batch[next], s)
    BY <1>12, <2>1 DEF AnswerReply, Statuses
  <2> QED BY <1>12, <2>1, <2>2, <1>9 DEF AnswerReply
<1>13. CASE BatchDone
  <2>1. /\ pc = "answer" /\ next > Len(batch) /\ batch' = <<>> /\ pc' = "test"
        /\ UNCHANGED <<now, queueVars, reply, until, next, result, usedGpu, healthy, spc>>
    BY <1>13 DEF BatchDone
  <2>2. batch' \in Seq(Requests) /\ Len(batch') = 0
    BY <2>1
  <2>3. TypeOK'
    BY <1>t, <2>1, <2>2, BatchAssumption DEF TypeOK, queueVars
  <2>4. Control'
    BY <1>c, <2>1 DEF Control, queueVars
  <2>5. Unanswered = {}
    BY <1>t, <1>seq, <2>1, BatchAssumption DEF Unanswered, TypeOK
  <2>6. Unanswered' = {}
    BY <2>1 DEF Unanswered
  <2>7. Apart'
    BY <1>a, <2>1, <2>6 DEF Apart, queueVars
  <2>8. Held'
    BY <1>a, <2>1, <2>5, <2>6 DEF Held, queueVars
  <2> QED BY <2>3, <2>4, <2>7, <2>8 DEF BatcherInv
<1>14. CASE StopStore \/ StopNotify \/ StopJoin
  <2>1. /\ UNCHANGED <<now, jobs, submitted, reply, loopVars, healthy>>
        /\ stopping' \in BOOLEAN /\ spc' \in {"notify", "join", "after"}
        /\ pc' = pc \/ (pc = "waiting" /\ pc' = "test")
    BY <1>14, <1>t DEF StopStore, StopNotify, StopJoin, queueVars, TypeOK
  <2>2. TypeOK'
    BY <1>t, <2>1 DEF TypeOK, loopVars
  <2>3. Control'
    BY <1>14, <1>c, <1>t
       DEF StopStore, StopNotify, StopJoin, Control, queueVars, loopVars, TypeOK
  <2>4. Unanswered' = Unanswered
    BY <2>1 DEF Unanswered, loopVars
  <2> QED BY <2>1, <2>2, <2>3, <2>4, <1>still DEF loopVars
<1>15. CASE UNCHANGED vars
  <2>1. TypeOK' /\ Control' /\ Unanswered' = Unanswered
    BY <1>15, <1>t, <1>c DEF vars, queueVars, loopVars, TypeOK, Control, Unanswered
  <2> QED BY <1>15, <2>1, <1>still DEF vars, queueVars, loopVars
<1> QED BY <1>1, <1>2, <1>3, <1>4, <1>5, <1>6, <1>7, <1>8, <1>10, <1>11, <1>12, <1>13, <1>14,
           <1>15 DEF Next, Scheduler

LEMMA BatcherInvariant == Spec => []BatcherInv
  BY InitBatcher, NextBatcher, PTL DEF Spec

-----------------------------------------------------------------------------
(* The results *)

\* The places of a request: one of the queue, one of the batch, its answer.
LEMMA OnePlace ==
  ASSUME BatcherInv, NEW q \in Requests, submitted[q] # None
  PROVE  Cardinality({<<"jobs", i>> : i \in {j \in DOMAIN jobs : jobs[j] = q}}
                     \cup {<<"batch", i>> : i \in {j \in Unanswered : batch[j] = q}}
                     \cup (IF reply[q] # None THEN {<<"reply", 0>>} ELSE {})) = 1
<1> DEFINE J == {j \in DOMAIN jobs : jobs[j] = q}
           B == {j \in Unanswered : batch[j] = q}
           P == {<<"jobs", i>> : i \in J}
           R == {<<"batch", i>> : i \in B}
           A == IF reply[q] # None THEN {<<"reply", 0>>} ELSE {}
<1>1. DOMAIN jobs = 1..Len(jobs)
  BY LenProperties DEF BatcherInv, TypeOK
<1>2. Apart /\ Held
  BY DEF BatcherInv
<1>3. ASSUME NEW x, P \cup R \cup A = {x} PROVE Cardinality(P \cup R \cup A) = 1
  BY <1>3, FS_Singleton
<1>4. CASE reply[q] # None
  <2>1. J = {} /\ B = {}
    BY <1>1, <1>2, <1>4 DEF Apart
  <2>2. P \cup R \cup A = {<<"reply", 0>>}
    BY <1>4, <2>1
  <2> QED BY <1>3, <2>2
<1>5. ASSUME NEW i \in 1..Len(jobs), jobs[i] = q PROVE Cardinality(P \cup R \cup A) = 1
  <2>1. J = {i} /\ B = {} /\ reply[q] = None
    BY <1>1, <1>2, <1>5 DEF Apart
  <2>2. P \cup R \cup A = {<<"jobs", i>>}
    BY <2>1
  <2> QED BY <1>3, <2>2
<1>6. ASSUME NEW i \in Unanswered, batch[i] = q PROVE Cardinality(P \cup R \cup A) = 1
  <2>1. J = {} /\ B = {i} /\ reply[q] = None
    BY <1>1, <1>2, <1>6 DEF Apart
  <2>2. P \cup R \cup A = {<<"batch", i>>}
    BY <2>1
  <2> QED BY <1>3, <2>2
<1>7. Cardinality(P \cup R \cup A) = 1
  BY <1>2, <1>4, <1>5, <1>6 DEF Held
<1> QED BY <1>7

\* The queue and the batch keep their bounds, a submitted request is queued,
\* batched or answered, exactly one of them, the scheduler sleeps on no work, and
\* when stop() has returned everybody has an answer.
THEOREM RequestsExactTheorem == Spec => []RequestsExact
<1>1. BatcherInv => RequestsExact
  <2> SUFFICES ASSUME BatcherInv PROVE RequestsExact
    OBVIOUS
  <2>1. InOnePlace
    BY OnePlace DEF InOnePlace
  <2>2. NoSleepOnWork
    BY DEF BatcherInv, Control, NoSleepOnWork
  <2>3. NoneStranded
    <3> SUFFICES ASSUME spc = "after", NEW q \in Requests, submitted[q] # None
                 PROVE  reply[q] # None
      BY DEF NoneStranded
    <3>1. jobs = <<>> /\ batch = <<>>
      BY DEF BatcherInv, Control
    <3>2. Len(jobs) = 0 /\ Unanswered = {}
      BY <3>1 DEF Unanswered
    <3>3. ~\E i \in 1..Len(jobs) : jobs[i] = q
      BY <3>2
    <3> QED BY <3>2, <3>3 DEF BatcherInv, Held
  <2> QED BY <2>1, <2>2, <2>3 DEF BatcherInv, RequestsExact
<1> QED BY <1>1, BatcherInvariant, PTL

\* A step never uses the GPU again once it has failed, and never takes the
\* failure back.
Tripped == ~healthy => ~healthy' /\ gpuQueries' = gpuQueries

\* An exception of the scorer opens the circuit for good: later batches are ranked
\* on the CPU.
THEOREM CircuitTheorem == Spec => CircuitStaysOpen
<1>1. [Next]_vars => [Tripped]_vars
  <2> SUFFICES ASSUME Next PROVE Tripped
    BY DEF vars
  <2>1. CASE Score
    BY <2>1 DEF Score, Tripped
  <2>2. Score \/ UNCHANGED <<healthy, gpuQueries>>
    BY DEF Next, Scheduler, Tick, WarmedUp, Sleep, Exit, FormBegin, FormPop, FormEnd, FormWait,
       FormResume, AnswerExpired, AnswerRank, AnswerReply, BatchDone, Submit, StopStore,
       StopNotify, StopJoin, counters
  <2> QED BY <2>1, <2>2 DEF Tripped
<1>2. Spec => [][Tripped]_vars
  BY <1>1, PTL DEF Spec
<1> QED BY <1>2 DEF CircuitStaysOpen, Tripped
=============================================================================
