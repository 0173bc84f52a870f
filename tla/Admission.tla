------------------------------ MODULE Admission ------------------------------
(***************************************************************************)
(* How an HTTP request enters and leaves the application process           *)
(* (recserve_app/api.py, telemetry.py, db.py): the host check, Telemetry's *)
(* gauge and counters, the Bounds middleware with its admission counter    *)
(* and body deadline, the pool of worker threads that runs principal() and *)
(* then the route, and the pool of database connections those threads      *)
(* wait for.                                                               *)
(*                                                                         *)
(* The middlewares run on one event loop: what lies between two awaits is  *)
(* one action.  A request whose five seconds for the body are over is      *)
(* `late'.  A chunk is one unit of the 32768 byte limit.                   *)
(***************************************************************************)
EXTENDS Naturals, FiniteSets

CONSTANTS Requests,
          Limit,       \* 64, requests inside Bounds
          BodyLimit,   \* chunks a body may have
          Threads,     \* 16, tokens of anyio's thread limiter
          Pool         \* 8, pool_size + max_overflow

VARIABLES
  at,         \* where a request is
  status,     \* Telemetry's local `status', 500 until a response starts
  size,       \* chunks of the body received
  hop,        \* 1: principal() runs, 2: the route
  active,     \* Bounds.active
  gauge,      \* recserve_http_active
  counted,    \* recserve_http_requests_total by status
  failures    \* recserve_database_errors_total

vars == <<at, status, size, hop, active, gauge, counted, failures>>

\* "answer" is whatever principal() or a route returns or raises on purpose.
Statuses == {"host", "500", "busy", "408", "413", "database", "answer"}
Places == {"client", "body", "late", "queue", "thread", "query", "send", "gone"}

TypeOK ==
  /\ at \in [Requests -> Places]
  /\ status \in [Requests -> Statuses]
  /\ size \in [Requests -> 0 .. BodyLimit]
  /\ hop \in [Requests -> 1 .. 2]
  /\ active \in 0 .. Limit
  /\ gauge \in 0 .. Cardinality(Requests)
  /\ counted \in [Statuses -> 0 .. Cardinality(Requests)]
  /\ failures \in 0 .. Cardinality(Requests)

Init ==
  /\ at = [r \in Requests |-> "client"]
  /\ status = [r \in Requests |-> "500"]
  /\ size = [r \in Requests |-> 0]
  /\ hop = [r \in Requests |-> 1]
  /\ active = 0 /\ gauge = 0 /\ failures = 0
  /\ counted = [s \in Statuses |-> 0]

At(places) == {r \in Requests : at[r] \in places}

\* A thread of the limiter runs for the request, with or without a connection.
OnThread == At({"thread", "query"})

\* 503 is answered before the counter is touched, everything else after.
Admitted(r) == at[r] \in Places \ {"client", "gone"} /\ status[r] # "busy"

\* TrustedHostMiddleware is outermost and refuses without being observed.
WrongHost(r) ==
  /\ at[r] = "client"
  /\ at' = [at EXCEPT ![r] = "gone"]
  /\ status' = [status EXCEPT ![r] = "host"]
  /\ UNCHANGED <<size, hop, active, gauge, counted, failures>>

\* The request starts a response with status s.
Respond(r, s) ==
  /\ at' = [at EXCEPT ![r] = "send"]
  /\ status' = [status EXCEPT ![r] = s]

Arrive_OffByOne(r) ==
  /\ at[r] = "client"
  /\ gauge' = gauge + 1
  /\ IF active > Limit
     THEN Respond(r, "busy") /\ UNCHANGED active
     ELSE /\ active' = active + 1
          /\ at' = [at EXCEPT ![r] = "body"]
          /\ UNCHANGED status
  /\ UNCHANGED <<size, hop, counted, failures>>

\* Telemetry counts the request in, Bounds admits it or answers 503.
Arrive(r) ==
  /\ at[r] = "client"
  /\ gauge' = gauge + 1
  /\ IF active >= Limit
     THEN Respond(r, "busy") /\ UNCHANGED active
     ELSE /\ active' = active + 1
          /\ at' = [at EXCEPT ![r] = "body"]
          /\ UNCHANGED status
  /\ UNCHANGED <<size, hop, counted, failures>>

\* receive() delivers a chunk.  A chunk that is there at once is taken even
\* after the deadline, since wait_for() always gets a millisecond.
Chunk(r) ==
  /\ at[r] \in {"body", "late"}
  /\ \/ size[r] = BodyLimit /\ Respond(r, "413") /\ UNCHANGED size
     \/ /\ size[r] < BodyLimit
        /\ size' = [size EXCEPT ![r] = @ + 1]
        /\ UNCHANGED <<at, status>>
     \/ /\ size[r] < BodyLimit
        /\ at' = [at EXCEPT ![r] = "queue"]
        /\ UNCHANGED <<size, status>>
  /\ UNCHANGED <<hop, active, gauge, counted, failures>>

Deadline_Never(r) == FALSE /\ UNCHANGED vars

\* Five seconds have passed since the request was admitted.
Deadline(r) ==
  /\ at[r] = "body"
  /\ at' = [at EXCEPT ![r] = "late"]
  /\ UNCHANGED <<status, size, hop, active, gauge, counted, failures>>

Timeout(r) ==
  /\ at[r] = "late"
  /\ Respond(r, "408")
  /\ UNCHANGED <<size, hop, active, gauge, counted, failures>>

Leave_Unadmitted(r, places, s) ==
  /\ at[r] \in places
  /\ at' = [at EXCEPT ![r] = "gone"]
  /\ status' = [status EXCEPT ![r] = s]
  /\ active' = active - 1
  /\ gauge' = gauge - 1
  /\ counted' = [counted EXCEPT ![s] = @ + 1]
  /\ UNCHANGED <<size, hop, failures>>

\* The two finally blocks, entered from places with Telemetry's status s.
Leave(r, places, s) ==
  /\ at[r] \in places
  /\ at' = [at EXCEPT ![r] = "gone"]
  /\ status' = [status EXCEPT ![r] = s]
  /\ active' = IF Admitted(r) THEN active - 1 ELSE active
  /\ gauge' = gauge - 1
  /\ counted' = [counted EXCEPT ![s] = @ + 1]
  /\ UNCHANGED <<size, hop, failures>>

\* The client hangs up while its body is awaited: no response is started.
Disconnect(r) == Leave(r, {"body", "late"}, "500")

\* Shutdown cancels the task at an await; a running thread is waited for.
Cancel(r) == Leave(r, {"body", "late", "queue", "send"}, status[r])

Sent(r) == Leave(r, {"send"}, status[r])

\* A route that raises anything the handlers do not know.
Raise(r) == Leave(r, {"query"}, "500")

TakeThread(r) ==
  /\ at[r] = "queue"
  /\ Cardinality(OnThread) < Threads
  /\ at' = [at EXCEPT ![r] = "thread"]
  /\ UNCHANGED <<status, size, hop, active, gauge, counted, failures>>

\* Answered without a connection: a user_id in the query, /healthz, no model.
AnswerEarly(r) ==
  /\ at[r] = "thread"
  /\ Respond(r, "answer")
  /\ UNCHANGED <<size, hop, active, gauge, counted, failures>>

Connect(r) ==
  /\ at[r] = "thread"
  /\ Cardinality(At({"query"})) < Pool
  /\ at' = [at EXCEPT ![r] = "query"]
  /\ UNCHANGED <<status, size, hop, active, gauge, counted, failures>>

DatabaseError_Uncounted(r) ==
  /\ Respond(r, "database")
  /\ UNCHANGED <<size, hop, active, gauge, counted, failures>>

\* What the handler of SQLAlchemyError does; the labels of
\* database_failure_reason() are one counter here.
DatabaseError(r) ==
  /\ Respond(r, "database")
  /\ failures' = failures + 1
  /\ UNCHANGED <<size, hop, active, gauge, counted>>

\* A connection is waited for one second, then pool_timeout.
PoolTimeout(r) ==
  /\ at[r] = "thread"
  /\ Cardinality(At({"query"})) >= Pool
  /\ DatabaseError(r)

\* statement_timeout and lock_timeout bound every query.
QueryError(r) == at[r] = "query" /\ DatabaseError(r)

\* principal() lets the request pass, and the route waits for a thread again.
Pass(r) ==
  /\ at[r] = "query" /\ hop[r] = 1
  /\ at' = [at EXCEPT ![r] = "queue"]
  /\ hop' = [hop EXCEPT ![r] = 2]
  /\ UNCHANGED <<status, size, active, gauge, counted, failures>>

Answer(r) ==
  /\ at[r] = "query"
  /\ Respond(r, "answer")
  /\ UNCHANGED <<size, hop, active, gauge, counted, failures>>

Next ==
  \E r \in Requests :
    \/ WrongHost(r) \/ Arrive(r)
    \/ Chunk(r) \/ Deadline(r) \/ Timeout(r) \/ Disconnect(r)
    \/ TakeThread(r) \/ AnswerEarly(r) \/ Connect(r) \/ PoolTimeout(r)
    \/ QueryError(r) \/ Pass(r) \/ Answer(r) \/ Raise(r)
    \/ Sent(r) \/ Cancel(r)

\* What the runtime does by itself.  The limiter hands tokens out in order.
Work(r) ==
  \/ Deadline(r) \/ Timeout(r)
  \/ AnswerEarly(r) \/ Connect(r) \/ PoolTimeout(r)
  \/ QueryError(r) \/ Pass(r) \/ Answer(r) \/ Raise(r) \/ Sent(r)
Fairness == \A r \in Requests : WF_vars(Work(r)) /\ SF_vars(TakeThread(r))

Spec == Init /\ [][Next]_vars /\ Fairness

-----------------------------------------------------------------------------
\* The admission counter is the number of requests inside the try of Bounds,
\* however they came in and whichever exit they take, and the gauge is the
\* number of requests inside Telemetry.
AdmissionExact ==
  /\ active = Cardinality({r \in Requests : Admitted(r)})
  /\ active <= Limit
  /\ gauge = Cardinality(At(Places \ {"client", "gone"}))

\* Every request that Telemetry saw leave is in the counter exactly once,
\* under the status that was answered, and every answer "Database
\* unavailable" is in the counter of database failures.
Accounted ==
  /\ \A s \in Statuses \ {"host"} :
       counted[s] = Cardinality({r \in At({"gone"}) : status[r] = s})
  /\ failures = Cardinality({r \in Requests : status[r] = "database"})

\* No request stays for ever: not behind a client that sends its body slowly
\* or never, not behind other requests' threads and connections.  (A request
\* comes once, so in the end none is inside.)
EveryRequestLeaves == <>[](At(Places \ {"client", "gone"}) = {})
=============================================================================
