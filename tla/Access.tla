------------------------------- MODULE Access -------------------------------
(***************************************************************************)
(* Who gets in: the login flow with its single-use state, the exchange     *)
(* with the identity provider and its cached keys, sessions with their two *)
(* expiries, the per-minute rate limits, and the sweep of all of these     *)
(* tables (recserve_app/db.py, oidc.py, api.py).                           *)
(*                                                                         *)
(* Every database call reads the clock first and commits later.  Pool,     *)
(* connect and statement timeouts keep the two less than one window apart, *)
(* so the clock advances by at most one while a call is in flight.  The    *)
(* lives are scaled: the code has 1 minute windows, 10 minutes, 60         *)
(* minutes, 24 hours and 7 days.                                           *)
(*                                                                         *)
(* Request n starts flow n and gets session n: the random state, browser   *)
(* secret and token of an operation are named by the request that drew     *)
(* them.  A browser holds the last flow and session cookie it was given.   *)
(***************************************************************************)
EXTENDS Naturals, FiniteSets, Functions

CONSTANTS Browsers,
          MaxRequests, MaxTime,
          Opened,          \* requests that are over at time 0
          LoginLimit,      \* 10 logins a minute from one address
          MutationLimit,   \* 60 mutations a minute of one account
          FlowLife, KeyLife, IdleLife, SessionLife,
          KeptWindows      \* 2, windows the sweep keeps besides the current one

VARIABLES
  clock,
  flows,       \* oauth_flows: flow -> created_ms, Never without a row
  sessions,    \* rows [id, at, seen] of the one account
  rates,       \* rate_limits: <<key, window>> -> count
  keys,        \* GoogleOIDC.keys with keys_at
  flowCookie, sessionCookie,   \* per browser, 0 when none
  started,     \* requests begun
  call,        \* request -> what it is doing
  sweep,       \* stamp of a running maintenance(), Never when idle
  \* history
  passed,      \* <<key, window>> -> calls rate() let through
  spent,       \* what consume_flow() handed out
  oldest       \* largest age of the keys a token was decoded with

vars == <<clock, flows, sessions, rates, keys, flowCookie, sessionCookie, started,
          call, sweep, passed, spent, oldest>>

Ids == 1 .. MaxRequests
Times == 0 .. MaxTime
Never == MaxTime + 1
Keys == Browsers \cup {"account"}        \* 'login:' address, 'mutation:' user
RateLimit(k) == IF k = "account" THEN MutationLimit ELSE LoginLimit

Steps == {"new", "rate", "flow", "consume", "token", "certs", "login",
          "authenticate", "mutate", "logout", "done"}
Calls == [step : Steps, op : {"login", "callback", "read", "mutation", "logout"},
          browser : Browsers, flow : 0 .. MaxRequests, token : 0 .. MaxRequests,
          stamp : Times]

TypeOK ==
  /\ clock \in Times
  /\ flows \in [Ids -> Times \cup {Never}]
  /\ sessions \subseteq [id : Ids, at : Times, seen : Times]
  /\ rates \in [Keys \X Times -> 0 .. MaxRequests]
  /\ passed \in [Keys \X Times -> 0 .. MaxRequests]
  /\ keys \in [published : Times, at : Times \cup {Never}]
  /\ flowCookie \in [Browsers -> 0 .. MaxRequests]
  /\ sessionCookie \in [Browsers -> 0 .. MaxRequests]
  /\ started \in 0 .. MaxRequests
  /\ call \in [Ids -> Calls]
  /\ sweep \in Times \cup {Never}
  /\ spent \subseteq [by : Ids, flow : Ids, browser : Browsers, age : Times]
  /\ oldest \in Times

\* Time 0 finds the first Opened requests done: each started a flow from a
\* browser of its own, and one of them may have gone on to a session.
Init ==
  /\ clock = 0 /\ started = Opened /\ sweep = Never /\ oldest = 0
  /\ \E owner \in Injection(1 .. Opened, Browsers), in \in 0 .. Opened :
       LET of(b, S) == IF \E f \in S : owner[f] = b THEN CHOOSE f \in S : owner[f] = b ELSE 0
       IN
       /\ flows = [f \in Ids |-> IF f \in (1 .. Opened) \ {in} THEN 0 ELSE Never]
       /\ flowCookie = [b \in Browsers |-> of(b, (1 .. Opened) \ {in})]
       /\ sessionCookie = [b \in Browsers |-> of(b, (1 .. Opened) \cap {in})]
       /\ sessions = {[id |-> f, at |-> 0, seen |-> 0] : f \in (1 .. Opened) \cap {in}}
       /\ spent = {[by |-> f, flow |-> f, browser |-> owner[f], age |-> 0] :
                     f \in (1 .. Opened) \cap {in}}
       /\ rates = [x \in Keys \X Times |-> IF x[2] = 0 /\ x[1] \in Range(owner) THEN 1 ELSE 0]
       /\ passed = rates
       /\ keys = [published |-> 0, at |-> IF in = 0 THEN Never ELSE 0]
       /\ call = [n \in Ids |->
            [step |-> IF n <= Opened THEN "done" ELSE "new", op |-> "login",
             browser |-> IF n <= Opened THEN owner[n] ELSE CHOOSE b \in Browsers : TRUE,
             flow |-> 0, token |-> 0, stamp |-> 0]]

-----------------------------------------------------------------------------
\* Calls in flight have read the clock at their stamp.
InFlight(n) == call[n].step \notin {"new", "done"}

\* The clock waits for every call that is already one behind.
Tick ==
  /\ clock < MaxTime
  /\ \A n \in Ids : InFlight(n) => call[n].stamp = clock
  /\ sweep \in {Never, clock}
  /\ clock' = clock + 1
  /\ UNCHANGED <<flows, sessions, rates, keys, flowCookie, sessionCookie, started,
                 call, sweep, passed, spent, oldest>>

\* Request n goes on with the given step, at the present time.
Goto(n, step) == call' = [call EXCEPT ![n].step = step, ![n].stamp = clock]
Done(n) == call' = [call EXCEPT ![n] =
  [step |-> "done", op |-> "login", browser |-> @.browser, flow |-> 0, token |-> 0, stamp |-> 0]]

\* A browser sends a request with the cookies it holds; the state of a
\* callback comes with the URL and may be any that was ever given out.
Begin(n) ==
  /\ n = started + 1
  /\ started' = n
  /\ \E b \in Browsers, op \in {"login", "callback", "read", "mutation", "logout"} :
       \E f \in (IF op = "callback" THEN 1 .. started ELSE {0}) :
         /\ op \notin {"login", "callback"} => sessionCookie[b] # 0
         /\ call' = [call EXCEPT ![n] =
              [step |-> CASE op = "login" -> "rate" [] op = "callback" -> "consume"
                          [] OTHER -> "authenticate",
               op |-> op, browser |-> b, flow |-> f,
               token |-> IF op \in {"login", "callback"} THEN 0 ELSE sessionCookie[b],
               stamp |-> clock]]
  /\ UNCHANGED <<clock, flows, sessions, rates, keys, flowCookie, sessionCookie,
                 sweep, passed, spent, oldest>>

\* rate(): the upsert of the window of the stamp, and the verdict on its count.
Rate(n, key, onward) ==
  LET x == <<key, call[n].stamp>> IN
  /\ rates' = [rates EXCEPT ![x] = @ + 1]
  /\ IF rates'[x] > RateLimit(key)
     THEN Done(n) /\ UNCHANGED passed
     ELSE Goto(n, onward) /\ passed' = [passed EXCEPT ![x] = @ + 1]
  /\ UNCHANGED <<clock, flows, sessions, keys, flowCookie, sessionCookie, started,
                 sweep, spent, oldest>>

LoginRate(n) == call[n].step = "rate" /\ Rate(n, call[n].browser, "flow")

\* start_flow(), and the cookie that binds the flow to this browser.
StartFlow(n) ==
  /\ call[n].step = "flow"
  /\ flows' = [flows EXCEPT ![n] = call[n].stamp]
  /\ flowCookie' = [flowCookie EXCEPT ![call[n].browser] = n]
  /\ Done(n)
  /\ UNCHANGED <<clock, sessions, rates, keys, sessionCookie, started, sweep, passed,
                 spent, oldest>>

ConsumeFlow_Kept(n) ==
  LET f == call[n].flow   b == call[n].browser
      found == flows[f] # Never /\ flowCookie[b] = f IN
  /\ call[n].step = "consume"
  /\ IF found /\ clock - flows[f] <= FlowLife
     THEN /\ spent' = spent \cup {[by |-> n, flow |-> f, browser |-> b,
                                   age |-> clock - flows[f]]}
          /\ Goto(n, "token")
     ELSE Done(n) /\ UNCHANGED spent
  /\ UNCHANGED <<clock, flows, sessions, rates, keys, flowCookie, sessionCookie, started,
                 sweep, passed, oldest>>

\* consume_flow(): DELETE ... RETURNING on state and browser secret, then the
\* age; an expired flow is gone all the same.
ConsumeFlow(n) ==
  LET f == call[n].flow   b == call[n].browser
      found == flows[f] # Never /\ flowCookie[b] = f IN
  /\ call[n].step = "consume"
  /\ flows' = IF found THEN [flows EXCEPT ![f] = Never] ELSE flows
  /\ IF found /\ clock - flows[f] <= FlowLife
     THEN /\ spent' = spent \cup {[by |-> n, flow |-> f, browser |-> b,
                                   age |-> clock - flows[f]]}
          /\ Goto(n, "token")
     ELSE Done(n) /\ UNCHANGED spent
  /\ UNCHANGED <<clock, sessions, rates, keys, flowCookie, sessionCookie, started,
                 sweep, passed, oldest>>

KeysUsable_Forever == keys.at # Never

\* exchange(): the cached keys serve for an hour.
KeysUsable == keys.at # Never /\ clock - keys.at <= KeyLife

\* Decoding succeeds or raises; nothing is awaited between the keys and it.
Decode(n, published) ==
  /\ oldest' = IF clock - published > oldest THEN clock - published ELSE oldest
  /\ Goto(n, "login") \/ Done(n)

\* The token has come: the keys are there, or they are asked for.
FetchToken(n) ==
  /\ call[n].step = "token"
  /\ IF KeysUsable THEN Decode(n, keys.published)
                   ELSE Goto(n, "certs") /\ UNCHANGED oldest
  /\ UNCHANGED <<clock, flows, sessions, rates, keys, flowCookie, sessionCookie, started,
                 sweep, passed, spent>>

\* The certificates have come, as published when the request was answered;
\* answers to two requests may come in any order.
FetchCerts(n) ==
  /\ call[n].step = "certs"
  /\ \E published \in call[n].stamp .. clock :
       /\ keys' = [published |-> published, at |-> clock]
       /\ Decode(n, published)
  /\ UNCHANGED <<clock, flows, sessions, rates, flowCookie, sessionCookie, started,
                 sweep, passed, spent>>

\* Anything may raise: the exchange (a 400), the invitation check of login(),
\* the database.  A flow that was handed out stays spent.
Fail(n) ==
  /\ InFlight(n)
  /\ Done(n)
  /\ UNCHANGED <<clock, flows, sessions, rates, keys, flowCookie, sessionCookie, started,
                 sweep, passed, spent, oldest>>

\* login() rotates the sessions of the account; the callback sets the cookies.
Login(n) ==
  /\ call[n].step = "login"
  /\ sessions' = {[id |-> n, at |-> call[n].stamp, seen |-> call[n].stamp]}
  /\ sessionCookie' = [sessionCookie EXCEPT ![call[n].browser] = n]
  /\ flowCookie' = [flowCookie EXCEPT ![call[n].browser] = 0]
  /\ Done(n)
  /\ UNCHANGED <<clock, flows, rates, keys, started, sweep, passed, spent, oldest>>

\* authenticate() accepts a session as of its stamp.
Usable(s, stamp) == s.at + SessionLife > stamp /\ s.seen + IdleLife > stamp

\* authenticate(), then principal()'s checks of origin and CSRF token, which
\* a mutation may fail after its session has been seen.
Authenticate(n) ==
  LET stamp == call[n].stamp
      rows == {s \in sessions : s.id = call[n].token /\ Usable(s, stamp)} IN
  /\ call[n].step = "authenticate"
  /\ sessions' = (sessions \ rows) \cup {[s EXCEPT !.seen = stamp] : s \in rows}
  /\ \/ rows # {} /\ call[n].op # "read" /\ Goto(n, "mutate")
     \/ Done(n)
  /\ UNCHANGED <<clock, flows, rates, keys, flowCookie, sessionCookie, started, sweep,
                 passed, spent, oldest>>

\* The rate limit of mutations, before the route.
MutationRate(n) == call[n].step = "mutate" /\ Rate(n, "account", "logout")

\* The route: a logout deletes the session it was authenticated with.
Route(n) ==
  /\ call[n].step = "logout"
  /\ IF call[n].op = "logout"
     THEN /\ sessions' = {s \in sessions : s.id # call[n].token}
          /\ sessionCookie' = [sessionCookie EXCEPT ![call[n].browser] = 0]
     ELSE UNCHANGED <<sessions, sessionCookie>>
  /\ Done(n)
  /\ UNCHANGED <<clock, flows, rates, keys, flowCookie, started, sweep, passed, spent,
                 oldest>>

\* maintenance() reads the clock ...
SweepStart ==
  /\ sweep = Never
  /\ sweep' = clock
  /\ UNCHANGED <<clock, flows, sessions, rates, keys, flowCookie, sessionCookie, started,
                 call, passed, spent, oldest>>

\* ... and deletes what is over by then.
FlowOver(at, stamp) == at # Never /\ at + FlowLife < stamp
SessionOver_Early(s, stamp) == s.at + SessionLife < stamp \/ s.seen + IdleLife <= stamp + 1
SessionOver(s, stamp) == s.at + SessionLife < stamp \/ s.seen + IdleLife < stamp
WindowOver_Current(w, stamp) == w < stamp
WindowOver(w, stamp) == w + KeptWindows < stamp

Sweep ==
  /\ sweep # Never
  /\ flows' = [f \in Ids |-> IF FlowOver(flows[f], sweep) THEN Never ELSE flows[f]]
  /\ sessions' = {s \in sessions : ~SessionOver(s, sweep)}
  /\ rates' = [x \in Keys \X Times |-> IF WindowOver(x[2], sweep) THEN 0 ELSE rates[x]]
  /\ sweep' = Never
  /\ UNCHANGED <<clock, keys, flowCookie, sessionCookie, started, call, passed, spent,
                 oldest>>

Handle(n) ==
  \/ Begin(n) \/ LoginRate(n) \/ StartFlow(n) \/ ConsumeFlow(n) \/ FetchToken(n)
  \/ FetchCerts(n) \/ Fail(n) \/ Login(n) \/ Authenticate(n)
  \/ MutationRate(n) \/ Route(n)

Next == Tick \/ SweepStart \/ Sweep \/ \E n \in Ids : Handle(n)

Spec == Init /\ [][Next]_vars

-----------------------------------------------------------------------------
\* A login flow is handed out at most once, within its life, and only to the
\* browser that started it, however often and wherever its URL is opened.
FlowsSpentOnce ==
  \A x, y \in spent : /\ x.flow = y.flow => x = y
                      /\ x.age <= FlowLife
                      /\ x.browser = call[x.flow].browser

\* No more calls pass in a window than its limit, although the counters of
\* old windows are swept while late calls still count in them.
RatesHold == \A x \in Keys \X Times : passed[x] <= RateLimit(x[1])

\* The keys a token is checked with were published at most an hour and one
\* exchange ago, with exchanges overlapping in any way.
KeysFresh == oldest <= KeyLife + 1

\* The sweep takes no flow that its callback could still use and no session
\* that would still be accepted.
SweepSparesTheLiving ==
  [][Sweep => /\ \A f \in Ids : flows'[f] # flows[f] => clock - flows[f] > FlowLife
              /\ \A s \in sessions \ sessions' : ~Usable(s, clock)]_vars
=============================================================================
