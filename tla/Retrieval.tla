------------------------------ MODULE Retrieval ------------------------------
(***************************************************************************)
(* One selection of candidates over the retrieval socket: the application  *)
(* client (retrieval.py under select_items() of selection.py) and the      *)
(* pilot client (transport.py under the loop of Pilot.recommend()).        *)
(*                                                                         *)
(* The application has one deadline for all its queries and addresses, the *)
(* pilot a fresh timeout for each query.  Time passes only inside socket   *)
(* calls, which give up at `until'.  The server is free to refuse, stall,  *)
(* send in parts, close, or send a frame with any one flaw.                *)
(***************************************************************************)
EXTENDS Naturals, FiniteSets

CONSTANTS Addresses,    \* what getaddrinfo() gave the application client
          Timeout,      \* 0.3 s of recommend(), 0.25 s of Upstream
          MaxQueries,   \* 3: 128, 256 and 512 candidates
          Parts         \* parts in which a header or a body may come

VARIABLES client, now, deadline, until, phase,
          address,      \* the address being tried
          error,        \* connect()'s `error'
          got,          \* parts of the header or the body received
          flaw,         \* what is wrong with the server's frame
          query,        \* number of the current query
          outcome,      \* the label of query(), of the last query
          kept,         \* queries whose candidates are in the selection
          degraded

vars == <<client, now, deadline, until, phase, address, error, got, flaw, query,
          outcome, kept, degraded>>

HeaderFlaws == {"magic", "size"}
BodyFlaws == {"id", "status", "digest", "count", "item", "score"}
RowFlaw == "row"        \* an item beyond the catalog
Outcomes == {"none", "success", "timeout", "connection", "protocol"}
Horizon == 2 * MaxQueries * Timeout

TypeOK ==
  /\ client \in {"app", "pilot"}
  /\ now \in 0 .. Horizon /\ deadline \in 0 .. Horizon /\ until \in 0 .. Horizon
  /\ phase \in {"query", "dial", "connecting", "sending", "header", "body", "over"}
  /\ address \in 1 .. Addresses + 1
  /\ error \in Outcomes /\ outcome \in Outcomes
  /\ got \in 0 .. Parts
  /\ flaw \in HeaderFlaws \cup BodyFlaws \cup {RowFlaw, "none"}
  /\ query \in 1 .. MaxQueries
  /\ kept \subseteq 1 .. MaxQueries
  /\ degraded \in BOOLEAN

Init ==
  /\ client \in {"app", "pilot"}
  /\ now = 0 /\ deadline = Timeout /\ until = 0
  /\ phase = "query" /\ address = 1 /\ error = "none" /\ got = 0 /\ flaw = "none"
  /\ query = 1 /\ outcome = "none" /\ kept = {} /\ degraded = FALSE

-----------------------------------------------------------------------------
\* Time passes while a socket call waits.
Tick ==
  /\ phase \in {"connecting", "sending", "header", "body"}
  /\ now < until
  /\ now' = now + 1
  /\ UNCHANGED <<client, deadline, until, phase, address, error, got, flaw, query,
                 outcome, kept, degraded>>

\* Nothing is left of the deadline.
Expired == now >= deadline

\* What a socket call that has waited until its timeout may raise.
TimedOut == IF now = until THEN {"timeout"} ELSE {}

Raise_KeepsCandidates(label) ==
  /\ phase' = "over" /\ outcome' = label
  /\ kept' = kept /\ degraded' = TRUE
  /\ UNCHANGED <<client, now, deadline, until, address, error, got, flaw, query>>

\* The query raises: what earlier queries selected is dropped.
Raise(label) ==
  /\ phase' = "over" /\ outcome' = label
  /\ kept' = {} /\ degraded' = TRUE
  /\ UNCHANGED <<client, now, deadline, until, address, error, got, flaw, query>>

\* The next socket call, bounded by the deadline.
Await(p) ==
  /\ phase' = p
  /\ until' = deadline
  /\ UNCHANGED <<client, now, deadline, query, outcome, kept, degraded>>

\* _query() and retrieve(): only the pilot sets a deadline of its own.
Begin ==
  /\ phase = "query"
  /\ \/ client = "app" /\ Expired /\ Raise("timeout")
     \/ /\ client = "app" => ~Expired
        /\ phase' = "dial" /\ address' = 1 /\ error' = "connection"
        /\ deadline' = IF client = "app" THEN deadline ELSE now + Timeout
        /\ UNCHANGED <<client, now, until, got, flaw, query, outcome, kept, degraded>>

Dial_FullTimeout ==
  /\ phase = "dial"
  /\ IF address > (IF client = "app" THEN Addresses ELSE 1) THEN Raise(error)
     ELSE IF Expired THEN Raise("timeout")
     ELSE /\ phase' = "connecting" /\ until' = now + Timeout
          /\ UNCHANGED <<client, now, deadline, query, outcome, kept, degraded,
                         address, error, got, flaw>>

\* connect(): the next address, with what is left of the deadline.
Dial ==
  /\ phase = "dial"
  /\ IF address > (IF client = "app" THEN Addresses ELSE 1) THEN Raise(error)
     ELSE IF Expired THEN Raise("timeout")
     ELSE Await("connecting") /\ UNCHANGED <<address, error, got, flaw>>

\* An attempt fails, or takes all its time; the last error is the one raised.
Refused ==
  /\ phase = "connecting"
  /\ error' \in {"connection"} \cup TimedOut
  /\ phase' = "dial" /\ address' = address + 1
  /\ UNCHANGED <<client, now, deadline, until, got, flaw, query, outcome, kept, degraded>>

\* Connected: the request is sent, by the pilot with its whole timeout again.
Connected ==
  /\ phase = "connecting"
  /\ \/ client = "app" /\ Expired /\ Raise("timeout")
     \/ client = "app" /\ ~Expired /\ Await("sending")
        /\ UNCHANGED <<address, error, got, flaw>>
     \/ /\ client = "pilot"
        /\ phase' = "sending" /\ until' = now + Timeout
        /\ UNCHANGED <<client, now, deadline, address, error, got, flaw, query, outcome,
                       kept, degraded>>

\* receive(n): the deadline is looked at before every recv().
Receive(p, n) == Await(p) /\ got' = n /\ UNCHANGED <<address, error>>

Sent ==
  /\ phase = "sending"
  /\ \/ Expired /\ Raise("timeout")
     \/ /\ ~Expired
        /\ Receive("header", 0)
        /\ flaw' \in {RowFlaw, "none"} \cup HeaderFlaws \cup
                     (IF client = "app" THEN BodyFlaws ELSE BodyFlaws \ {"digest"})

\* The peer closes or resets, or a call has waited until its timeout.
Broken ==
  /\ phase \in {"sending", "header", "body"}
  /\ \E label \in {"connection"} \cup TimedOut : Raise(label)

\* Part of a frame comes in.
Part ==
  /\ phase \in {"header", "body"}
  /\ got + 1 < Parts
  /\ IF Expired THEN Raise("timeout") ELSE Receive(phase, got + 1) /\ UNCHANGED flaw

\* The header is complete: magic and size.
Header ==
  /\ phase = "header" /\ got + 1 = Parts
  /\ IF flaw \in HeaderFlaws THEN Raise("protocol")
     ELSE IF Expired THEN Raise("timeout") ELSE Receive("body", 0) /\ UNCHANGED flaw

Rejected_AnyModel(f) == f \in BodyFlaws \ {"digest"}

\* The checks of a complete frame.
Rejected(f) == f \in BodyFlaws

\* The frame is complete.  The application starts its selection over with
\* every answer, the pilot adds to it; both ask again while it is too short.
\* A row beyond the catalog is an error of the pilot's query, but of the
\* application only after the query has been counted as a success.
Body ==
  /\ phase = "body" /\ got + 1 = Parts
  /\ IF Rejected(flaw) \/ (flaw = RowFlaw /\ client = "pilot") THEN Raise("protocol")
     ELSE IF flaw = RowFlaw THEN Raise("success")
     ELSE /\ outcome' = "success"
          /\ kept' = (IF client = "app" THEN {} ELSE kept) \cup {query}
          /\ \/ phase' = "over" /\ UNCHANGED <<query, flaw>>
             \/ query < MaxQueries /\ phase' = "query" /\ query' = query + 1 /\ flaw' = "none"
          /\ UNCHANGED <<client, now, deadline, until, address, error, got, degraded>>

Next == Tick \/ Begin \/ Dial \/ Refused \/ Connected \/ Sent \/ Broken \/ Part \/ Header \/ Body

Spec == Init /\ [][Next]_vars

-----------------------------------------------------------------------------
\* The application's selection never outlives the deadline of recommend(),
\* over however many addresses, parts and queries; a query of the pilot
\* outlives its own by at most the timeout of the send.
DeadlineKept == now <= (IF client = "app" THEN Timeout ELSE deadline + Timeout)

\* A partial or flawed reply is never a success, and the label of a failure
\* names its cause: a timeout only when the time is up.
OutcomeHonest ==
  /\ outcome = "success" /\ phase = "over" =>
       /\ flaw \in {"none", RowFlaw} /\ got + 1 = Parts
       /\ flaw = RowFlaw => client = "app" /\ degraded
  /\ outcome = "timeout" => Expired
  /\ outcome = "protocol" => flaw # "none"

\* A selection is marked degraded exactly when its last query failed or gave a
\* row the catalog does not have, and then holds no candidate of an earlier
\* one; otherwise it holds the last answer.
SelectionWhole ==
  phase = "over" =>
    /\ degraded <=> (outcome # "success" \/ flaw = RowFlaw)
    /\ IF degraded THEN kept = {} ELSE query \in kept
    /\ client = "app" => Cardinality(kept) <= 1
=============================================================================
