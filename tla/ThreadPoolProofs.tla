-------------------------- MODULE ThreadPoolProofs --------------------------
(***************************************************************************)
(* Proofs about ThreadPool for any number of workers and requests and      *)
(* every capacity of the queues: the bookkeeping of the pool is exact, so  *)
(* no promise can be set twice and no worker sleeps on work.               *)
(***************************************************************************)
EXTENDS ThreadPool, SequenceTheorems, TLAPS

\* The types of TypeOK, with the domains of the functions.
Shape ==
  /\ stop \in BOOLEAN
  /\ queue \in [Workers -> Seq(Requests)]
  /\ mutex \in [Workers -> BOOLEAN]
  /\ wpc \in [Workers -> {"lock", "test", "block", "waiting", "run", "exited"}]
  /\ job \in [Workers -> Requests \cup {None}]
  /\ spc \in {"before", "notifying", "joining", "after"}
  /\ notified \subseteq Workers
  /\ reply \in [Requests -> Statuses \cup {None}]

\* What a worker's program counter says of its mutex, its job and its queue.
Worked ==
  \A w \in Workers :
    /\ Len(queue[w]) <= MaxQueue
    /\ mutex[w] <=> wpc[w] \in {"test", "block"}
    /\ job[w] # None <=> wpc[w] = "run"
    /\ wpc[w] \in {"block", "waiting"} => queue[w] = <<>>

\* A request is in one place of one queue, or on one worker, or answered.
Apart ==
  /\ \A v, w \in Workers : \A i \in 1..Len(queue[v]), j \in 1..Len(queue[w]) :
       queue[v][i] = queue[w][j] => v = w /\ i = j
  /\ \A v, w \in Workers : job[v] # None /\ job[v] = job[w] => v = w
  /\ \A v, w \in Workers : \A i \in 1..Len(queue[v]) : queue[v][i] # job[w]
  /\ \A v \in Workers : \A i \in 1..Len(queue[v]) : reply[queue[v][i]] = None
  /\ \A w \in Workers : job[w] # None => reply[job[w]] = None

PoolInv == Shape /\ Worked /\ Apart

\* A request is queued where Places looks: no queue is longer than its bound.
LEMMA QueuedMeans ==
  ASSUME Shape, Worked, NEW q
  PROVE  Queued(q) <=> \E w \in Workers : \E i \in 1..Len(queue[w]) : queue[w][i] = q
<1>1. \A w \in Workers : /\ DOMAIN queue[w] = 1..Len(queue[w]) /\ Len(queue[w]) \in Nat
                         /\ Len(queue[w]) <= MaxQueue
  BY LenProperties DEF Shape, Worked
<1>2. ASSUME NEW w \in Workers, NEW i \in 1..Len(queue[w]), queue[w][i] = q
      PROVE  <<w, i>> \in Places(q)
  <2>1. i \in 1..(MaxQueue + 1) /\ i \in DOMAIN queue[w]
    BY <1>1, MaxQueueAssumption
  <2> QED BY <1>2, <2>1 DEF Places
<1>3. ASSUME NEW p \in Places(q)
      PROVE  \E w \in Workers : \E i \in 1..Len(queue[w]) : queue[w][i] = q
  BY <1>1 DEF Places
<1> QED BY <1>2, <1>3 DEF Queued

LEMMA InitPool == Init => PoolInv
<1> SUFFICES ASSUME Init PROVE PoolInv
  OBVIOUS
<1>0. mutex \in [Workers -> BOOLEAN] /\ \A w \in Workers : ~mutex[w]
  BY Zenon DEF Init
<1>1. Shape
  <2>1. queue \in [Workers -> Seq(Requests)]
    BY DEF Init
  <2>2. stop \in BOOLEAN /\ spc \in {"before", "notifying", "joining", "after"}
        /\ notified \subseteq Workers
    BY DEF Init
  <2>3. /\ wpc \in [Workers -> {"lock", "test", "block", "waiting", "run", "exited"}]
        /\ job \in [Workers -> Requests \cup {None}]
        /\ reply \in [Requests -> Statuses \cup {None}]
    BY DEF Init
  <2> QED BY <1>0, <2>1, <2>2, <2>3 DEF Shape
<1>2. \A w \in Workers : queue[w] = <<>> /\ Len(queue[w]) = 0
  BY DEF Init
<1>3. \A w \in Workers : wpc[w] = "lock" /\ job[w] = None
  BY DEF Init
<1>4. Worked
  <2>1. \A w \in Workers : Len(queue[w]) = 0
    BY <1>2
  <2>2. 0 <= MaxQueue
    BY MaxQueueAssumption
  <2>3. \A w \in Workers : Len(queue[w]) <= MaxQueue
    BY <2>1, <2>2, Zenon
  <2> QED BY <1>0, <1>3, <2>3, Zenon DEF Worked
<1>5. Apart
  BY <1>2, <1>3 DEF Apart
<1> QED BY <1>1, <1>4, <1>5 DEF PoolInv

\* Steps that move no request.
LEMMA StillApart ==
  ASSUME Apart, UNCHANGED <<queue, job, reply>>
  PROVE  Apart'
  BY DEF Apart

LEMMA NextPool == PoolInv /\ [Next]_vars => PoolInv'
<1> SUFFICES ASSUME PoolInv, [Next]_vars PROVE PoolInv'
  OBVIOUS
<1>s. Shape
  BY DEF PoolInv
<1>w. Worked
  BY DEF PoolInv
<1>a. Apart
  BY DEF PoolInv
<1>len. \A w \in Workers : Len(queue[w]) \in Nat /\ queue[w] \in Seq(Requests)
  BY <1>s, LenProperties DEF Shape
<1>p. \A q \in Requests : Picked(q) \in Workers
  BY TargetAssumption DEF Picked
<1>woken. ASSUME NEW w \in Workers
          PROVE  /\ Woken(w) \in [Workers -> {"lock", "test", "block", "waiting",
                                              "run", "exited"}]
                 /\ Woken(w)[w] # "waiting"
                 /\ \A v \in Workers : \/ Woken(w)[v] = wpc[v]
                                       \/ wpc[v] = "waiting" /\ Woken(w)[v] = "lock"
  BY <1>s DEF Woken, Shape
<1>1. ASSUME NEW q \in Requests, Submit(q) PROVE PoolInv'
  <2> DEFINE w == Picked(q)
             n == Len(queue[w])
  <2>0. w \in Workers
    BY <1>p
  <2>1. /\ Fresh(q) /\ ~mutex[w] /\ n < MaxQueue
        /\ queue' = [queue EXCEPT ![w] = Append(queue[w], q)]
        /\ wpc' = Woken(w) /\ UNCHANGED <<stop, mutex, job, spc, notified, reply>>
    BY <1>1 DEF Submit
  <2> HIDE DEF w
  <2>2. /\ queue'[w] \in Seq(Requests) /\ Len(queue'[w]) = n + 1
        /\ \A i \in 1..n : queue'[w][i] = queue[w][i]
        /\ queue'[w][n + 1] = q
    BY <1>s, <1>len, <2>0, <2>1, AppendProperties DEF Shape
  <2>3. \A v \in Workers \ {w} : queue'[v] = queue[v]
    BY <1>s, <2>1 DEF Shape
  <2>n. n \in Nat
    BY <1>len, <2>0
  <2> HIDE DEF n
  <2>4. Shape'
    BY <1>s, <1>woken, <2>0, <2>1, <2>2 DEF Shape
  <2>5. Worked'
    <3> SUFFICES ASSUME NEW v \in Workers
                 PROVE  /\ Len(queue'[v]) <= MaxQueue
                        /\ mutex'[v] <=> wpc'[v] \in {"test", "block"}
                        /\ job'[v] # None <=> wpc'[v] = "run"
                        /\ wpc'[v] \in {"block", "waiting"} => queue'[v] = <<>>
      BY DEF Worked
    <3>1. Len(queue'[v]) <= MaxQueue
      BY <1>w, <1>len, <2>n, <2>1, <2>2, <2>3, MaxQueueAssumption DEF Worked
    <3>2. mutex'[v] <=> wpc'[v] \in {"test", "block"}
      BY <1>w, <1>woken, <2>0, <2>1 DEF Worked
    <3>3. job'[v] # None <=> wpc'[v] = "run"
      BY <1>w, <1>woken, <2>0, <2>1 DEF Worked
    <3>4. CASE v = w
      BY <1>w, <1>woken, <2>0, <2>1, <3>1, <3>2, <3>3, <3>4 DEF Worked
    <3>5. CASE v # w
      BY <1>w, <1>woken, <2>0, <2>1, <2>3, <3>1, <3>2, <3>3, <3>5 DEF Worked
    <3> QED BY <3>4, <3>5
  <2>6. /\ reply[q] = None /\ \A v \in Workers : job[v] # q
        /\ \A v \in Workers : \A i \in 1..Len(queue[v]) : queue[v][i] # q
    BY <1>s, <1>w, <2>1, QueuedMeans DEF Fresh, Running
  <2>7. \A v \in Workers : \A i \in 1..Len(queue'[v]) :
          \/ v = w /\ i = n + 1 /\ queue'[v][i] = q
          \/ i \in 1..Len(queue[v]) /\ queue'[v][i] = queue[v][i]
    BY <2>n, <2>2, <2>3 DEF n
  <2>8. Apart'
    BY <1>a, <2>1, <2>6, <2>7 DEF Apart
  <2> QED BY <2>4, <2>5, <2>8 DEF PoolInv
<1>2. ASSUME NEW q \in Requests, Shed(q) PROVE PoolInv'
  <2>1. Fresh(q) /\ reply' = [reply EXCEPT ![q] = "LoadShed"]
        /\ UNCHANGED <<stop, queue, mutex, wpc, job, spc, notified>>
    BY <1>2 DEF Shed
  <2>2. Shape'
    BY <1>s, <2>1 DEF Shape, Statuses
  <2>3. Worked'
    BY <1>w, <2>1 DEF Worked
  <2>4. /\ \A v \in Workers : job[v] # q
        /\ \A v \in Workers : \A i \in 1..Len(queue[v]) : queue[v][i] # q
    BY <1>s, <1>w, <2>1, QueuedMeans DEF Fresh, Running
  <2>5. Apart'
    BY <1>a, <1>s, <2>1, <2>4 DEF Apart, Shape
  <2> QED BY <2>2, <2>3, <2>5 DEF PoolInv
<1>3. ASSUME NEW w \in Workers,
             Lock(w) \/ TestIdle(w) \/ Block(w) \/ SpuriousWakeup(w) \/ TestExit(w)
      PROVE  PoolInv'
  <2>1. UNCHANGED <<queue, job, reply>>
    BY <1>3 DEF Lock, TestIdle, Block, SpuriousWakeup, TestExit
  <2>2. Shape'
    BY <1>3, <1>s DEF Lock, TestIdle, Block, SpuriousWakeup, TestExit, Shape
  <2>3. Worked'
    BY <1>3, <1>s, <1>w DEF Lock, TestIdle, Block, SpuriousWakeup, TestExit, Shape, Worked
  <2> QED BY <1>a, <2>1, <2>2, <2>3, StillApart DEF PoolInv
<1>4. ASSUME NEW w \in Workers, TestJob(w) PROVE PoolInv'
  <2> DEFINE q == queue[w][1]
             n == Len(queue[w])
  <2>1. /\ wpc[w] = "test" /\ queue[w] # <<>>
        /\ job' = [job EXCEPT ![w] = Head(queue[w])]
        /\ queue' = [queue EXCEPT ![w] = Tail(queue[w])]
        /\ mutex' = [mutex EXCEPT ![w] = FALSE]
        /\ wpc' = [wpc EXCEPT ![w] = "run"]
        /\ UNCHANGED <<stop, spc, notified, reply>>
    BY <1>4 DEF TestJob
  <2>2. /\ n \in Nat /\ n >= 1 /\ Head(queue[w]) = q /\ q \in Requests
        /\ Tail(queue[w]) \in Seq(Requests) /\ Len(Tail(queue[w])) = n - 1
        /\ \A i \in 1..(n - 1) : Tail(queue[w])[i] = queue[w][i + 1]
    BY <1>len, <2>1, HeadTailProperties, EmptySeq, ElementOfSeq
  <2>3. /\ queue'[w] \in Seq(Requests) /\ Len(queue'[w]) = n - 1
        /\ \A i \in 1..(n - 1) : queue'[w][i] = queue[w][i + 1]
        /\ \A v \in Workers \ {w} : queue'[v] = queue[v]
    BY <1>s, <2>1, <2>2 DEF Shape
  <2>4. job'[w] = q /\ \A v \in Workers \ {w} : job'[v] = job[v]
    BY <1>s, <2>1, <2>2 DEF Shape
  <2>5. Shape'
    BY <1>s, <2>1, <2>2 DEF Shape
  <2>6. q # None
    BY <2>2, NoneAssumption
  <2> HIDE DEF n, q
  <2>7. Worked'
    <3> SUFFICES ASSUME NEW v \in Workers
                 PROVE  /\ Len(queue'[v]) <= MaxQueue
                        /\ mutex'[v] <=> wpc'[v] \in {"test", "block"}
                        /\ job'[v] # None <=> wpc'[v] = "run"
                        /\ wpc'[v] \in {"block", "waiting"} => queue'[v] = <<>>
      BY DEF Worked
    <3>1. CASE v = w
      <4>1. n <= MaxQueue
        BY <1>w DEF Worked, n
      <4>2. Len(queue'[w]) <= MaxQueue
        BY <2>2, <2>3, <4>1, MaxQueueAssumption
      <4> QED BY <1>s, <2>1, <2>4, <2>6, <3>1, <4>2 DEF Shape
    <3>2. CASE v # w
      BY <1>s, <1>w, <2>1, <2>3, <2>4, <3>2 DEF Worked, Shape
    <3> QED BY <3>1, <3>2
  <2>8. \A v \in Workers : \A i \in 1..Len(queue'[v]) :
          \/ v # w /\ i \in 1..Len(queue[v]) /\ queue'[v][i] = queue[v][i]
          \/ v = w /\ i + 1 \in 1..Len(queue[v]) /\ queue'[v][i] = queue[v][i + 1]
    BY <2>2, <2>3 DEF n
  <2>9. 1 \in 1..Len(queue[w]) /\ queue[w][1] = q /\ reply' = reply
    BY <2>1, <2>2 DEF n, q
  <2>10. \A v \in Workers : \A i \in 1..Len(queue'[v]) :
           queue'[v][i] # q /\ reply[queue'[v][i]] = None
           /\ \A u \in Workers : queue'[v][i] # job[u]
    <3> SUFFICES ASSUME NEW v \in Workers, NEW i \in 1..Len(queue'[v])
                 PROVE  queue'[v][i] # q /\ reply[queue'[v][i]] = None
                        /\ \A u \in Workers : queue'[v][i] # job[u]
      OBVIOUS
    <3>0. i \in Nat /\ i >= 1
      BY <2>5, LenProperties DEF Shape
    <3>1. CASE v # w /\ i \in 1..Len(queue[v]) /\ queue'[v][i] = queue[v][i]
      BY <1>a, <2>9, <3>1 DEF Apart
    <3>2. CASE v = w /\ i + 1 \in 1..Len(queue[v]) /\ queue'[v][i] = queue[v][i + 1]
      <4>1. i + 1 # 1
        BY <3>0
      <4> QED BY <1>a, <2>9, <3>2, <4>1 DEF Apart
    <3> QED BY <2>8, <3>1, <3>2
  <2>11. \A u, v \in Workers : \A i \in 1..Len(queue'[u]), j \in 1..Len(queue'[v]) :
           queue'[u][i] = queue'[v][j] => u = v /\ i = j
    <3> SUFFICES ASSUME NEW u \in Workers, NEW v \in Workers,
                        NEW i \in 1..Len(queue'[u]), NEW j \in 1..Len(queue'[v]),
                        queue'[u][i] = queue'[v][j]
                 PROVE  u = v /\ i = j
      OBVIOUS
    <3>0. i \in Nat /\ j \in Nat
      BY <2>5, LenProperties DEF Shape
    <3>1. CASE u # w /\ v # w
      BY <1>a, <2>8, <3>1 DEF Apart
    <3>2. CASE u = w /\ v = w
      <4>1. i + 1 = j + 1
        BY <1>a, <2>8, <3>2 DEF Apart
      <4> QED BY <3>0, <3>2, <4>1
    <3>3. CASE u # w /\ v = w
      BY <1>a, <2>8, <3>3 DEF Apart
    <3>4. CASE u = w /\ v # w
      BY <1>a, <2>8, <3>4 DEF Apart
    <3> QED BY <3>1, <3>2, <3>3, <3>4
  <2>12. \A u, v \in Workers : job'[u] # None /\ job'[u] = job'[v] => u = v
    BY <1>a, <2>4, <2>9 DEF Apart
  <2>13. \A u \in Workers : job'[u] # None => reply[job'[u]] = None
    BY <1>a, <2>4, <2>9 DEF Apart
  <2>14. Apart'
    BY <2>4, <2>9, <2>10, <2>11, <2>12, <2>13 DEF Apart
  <2> QED BY <2>5, <2>7, <2>14 DEF PoolInv
<1>5. ASSUME NEW w \in Workers, Run(w) PROVE PoolInv'
  <2>1. PICK s \in Statuses : reply' = [reply EXCEPT ![job[w]] = s]
    BY <1>5 DEF Run
  <2>2. wpc[w] = "run" /\ job' = [job EXCEPT ![w] = None]
        /\ wpc' = [wpc EXCEPT ![w] = "lock"] /\ UNCHANGED <<stop, queue, mutex, spc, notified>>
    BY <1>5 DEF Run
  <2>3. job[w] # None /\ job[w] \in Requests
    BY <1>s, <1>w, <2>2 DEF Shape, Worked
  <2>4. Shape'
    BY <1>s, <2>1, <2>2, <2>3 DEF Shape
  <2>5. Worked'
    BY <1>s, <1>w, <2>2 DEF Shape, Worked
  <2>6. job'[w] = None /\ \A v \in Workers \ {w} : job'[v] = job[v]
    BY <1>s, <2>2 DEF Shape
  <2>7. \A q \in Requests : q # job[w] => reply'[q] = reply[q]
    BY <1>s, <2>1 DEF Shape
  <2>8. \A v \in Workers : \A i \in 1..Len(queue[v]) :
          queue[v][i] \in Requests /\ queue[v][i] # job[w] /\ queue[v][i] # None
    BY <1>a, <1>len, ElementOfSeq, NoneAssumption DEF Apart
  <2>9. \A v \in Workers \ {w} : job[v] # None => job[v] \in Requests /\ job[v] # job[w]
    BY <1>a, <1>s DEF Apart, Shape
  <2>10. Apart'
    BY <1>a, <2>2, <2>6, <2>7, <2>8, <2>9 DEF Apart
  <2> QED BY <2>4, <2>5, <2>10 DEF PoolInv
<1>6. ASSUME NEW w \in Workers, StopNotify(w) PROVE PoolInv'
  <2>1. UNCHANGED <<queue, job, reply, mutex, stop>> /\ wpc' = Woken(w)
    BY <1>6 DEF StopNotify
  <2>2. Shape'
    BY <1>6, <1>s, <1>woken, <2>1 DEF StopNotify, Shape
  <2>3. Worked'
    BY <1>w, <1>woken, <2>1 DEF Worked
  <2> QED BY <1>a, <2>1, <2>2, <2>3, StillApart DEF PoolInv
<1>7. CASE StopStore \/ StopJoin \/ UNCHANGED vars
  <2>1. UNCHANGED <<queue, job, reply, mutex, wpc, notified>>
    BY <1>7 DEF StopStore, StopJoin, vars
  <2>2. Shape'
    BY <1>7, <1>s, <2>1 DEF StopStore, StopJoin, vars, Shape
  <2>3. Worked'
    BY <1>w, <2>1 DEF Worked
  <2> QED BY <1>a, <2>1, <2>2, <2>3, StillApart DEF PoolInv
<1> QED BY <1>1, <1>2, <1>3, <1>4, <1>5, <1>6, <1>7 DEF Next, Worker

LEMMA PoolInvariant == Spec => []PoolInv
  BY InitPool, NextPool, PTL DEF Spec

LEMMA PoolIsExact == PoolInv => JobsExact
<1> SUFFICES ASSUME PoolInv PROVE JobsExact
  OBVIOUS
<1>1. TypeOK
  BY DEF PoolInv, Shape, Worked, TypeOK
<1>2. NoSleepOnWork
  BY DEF PoolInv, Worked, NoSleepOnWork
<1>3. ASSUME NEW q \in Requests
      PROVE  /\ reply[q] # None => ~Queued(q) /\ ~Running(q)
             /\ ~(Queued(q) /\ Running(q))
             /\ \A p, r \in Places(q) : p = r
  <2>1. Queued(q) <=> \E w \in Workers : \E i \in 1..Len(queue[w]) : queue[w][i] = q
    BY QueuedMeans DEF PoolInv
  <2>2. q # None
    BY NoneAssumption
  <2>3. reply[q] # None => ~Queued(q) /\ ~Running(q)
    BY <2>1, <2>2 DEF PoolInv, Apart, Running
  <2>4. ~(Queued(q) /\ Running(q))
    BY <2>1 DEF PoolInv, Apart, Running
  <2>5. ASSUME NEW p \in Places(q), NEW r \in Places(q) PROVE p = r
    <3>1. PICK v \in Workers, i \in 1..(MaxQueue + 1) :
            p = <<v, i>> /\ i \in DOMAIN queue[v] /\ queue[v][i] = q
      BY DEF Places
    <3>2. PICK w \in Workers, j \in 1..(MaxQueue + 1) :
            r = <<w, j>> /\ j \in DOMAIN queue[w] /\ queue[w][j] = q
      BY DEF Places
    <3>3. i \in 1..Len(queue[v]) /\ j \in 1..Len(queue[w])
      BY <3>1, <3>2, LenProperties DEF PoolInv, Shape
    <3>4. v = w /\ i = j
      BY <3>1, <3>2, <3>3 DEF PoolInv, Apart
    <3> QED BY <3>1, <3>2, <3>4
  <2> QED BY <2>3, <2>4, <2>5
<1>4. SetOnce
  BY <1>3 DEF SetOnce
<1> QED BY <1>1, <1>2, <1>4 DEF JobsExact

\* The queues keep their bound, no worker sleeps while its queue holds a job, and
\* a request is in one place of one queue, on one worker or answered, so that no
\* promise is set twice: at submission, in the job or by shedding.
THEOREM JobsExactTheorem == Spec => []JobsExact
  BY PoolInvariant, PoolIsExact, PTL
=============================================================================
