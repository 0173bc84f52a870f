---------------------------- MODULE PilotServer ----------------------------
(***************************************************************************)
(* Connections of the pilot's HTTP server (recserve_pilot/service.py,      *)
(* class Server and Handler): eight slots, a thread and a timer for each   *)
(* admitted connection, and the shutdown that joins the threads.           *)
(*                                                                         *)
(* Clients may send a byte now and then for ever.  Threads can run out:    *)
(* starting one may fail, for the handler or for the timer inside it.      *)
(***************************************************************************)
EXTENDS Naturals, FiniteSets

CONSTANTS Clients,
          Slots,       \* 8, BoundedSemaphore
          Backlog,     \* 16, request_queue_size
          MaxFailures  \* bound on failing thread starts

VARIABLES
  conn,       \* connection -> its place
  timer,      \* connection -> its lifetime timer
  free,       \* value of the semaphore
  server,     \* "serving", "closing" (joining its threads) or "closed"
  failed,     \* thread starts that failed
  leaked      \* connections whose thread died before its try block

vars == <<conn, timer, free, server, failed, leaked>>

\* "admitted" has a slot and no thread yet, "reading" .. "replying" a thread.
Places == {"away", "backlog", "admitted", "reading", "working", "replying",
           "ending", "closed"}

TypeOK ==
  /\ conn \in [Clients -> Places]
  /\ timer \in [Clients -> {"off", "armed", "fired"}]
  /\ free \in 0 .. Slots
  /\ server \in {"serving", "closing", "closed"}
  /\ failed \in 0 .. MaxFailures
  /\ leaked \subseteq Clients

Init ==
  /\ conn = [c \in Clients |-> "away"]
  /\ timer = [c \in Clients |-> "off"]
  /\ free = Slots /\ server = "serving" /\ failed = 0 /\ leaked = {}

In(places) == {c \in Clients : conn[c] \in places}
Threaded == {"reading", "working", "replying", "ending"}
Move(c, place) == conn' = [conn EXCEPT ![c] = place]

-----------------------------------------------------------------------------
Connect(c) ==
  /\ conn[c] = "away"
  /\ server # "closed"
  /\ Cardinality(In({"backlog"})) < Backlog
  /\ Move(c, "backlog")
  /\ UNCHANGED <<timer, free, server, failed, leaked>>

\* process_request(): the accepted connection takes a slot or is shut down.
Accept(c) ==
  /\ server = "serving"
  /\ In({"admitted"}) = {}
  /\ conn[c] = "backlog"
  /\ IF free = 0 THEN Move(c, "closed") /\ UNCHANGED free
                 ELSE Move(c, "admitted") /\ free' = free - 1
  /\ UNCHANGED <<timer, server, failed, leaked>>

SpawnFails_Leaks(c) ==
  /\ conn[c] = "admitted"
  /\ failed < MaxFailures
  /\ failed' = failed + 1
  /\ Move(c, "closed")
  /\ UNCHANGED <<timer, free, server, leaked>>

\* The thread does not start: the slot is given back, the connection closed.
SpawnFails(c) ==
  /\ conn[c] = "admitted"
  /\ failed < MaxFailures
  /\ failed' = failed + 1
  /\ free' = free + 1
  /\ Move(c, "closed")
  /\ UNCHANGED <<timer, server, leaked>>

Spawn_NoTimer(c) ==
  /\ conn[c] = "admitted"
  /\ Move(c, "reading")
  /\ UNCHANGED <<timer, free, server, failed, leaked>>

\* process_request_thread() starts, and with it the lifetime timer.
Spawn(c) ==
  /\ conn[c] = "admitted"
  /\ Move(c, "reading")
  /\ timer' = [timer EXCEPT ![c] = "armed"]
  /\ UNCHANGED <<free, server, failed, leaked>>

\* timer.start() lies before the try: the thread ends without its finally.
TimerFails(c) ==
  /\ conn[c] = "admitted"
  /\ failed < MaxFailures
  /\ failed' = failed + 1
  /\ leaked' = leaked \cup {c}
  /\ Move(c, "closed")
  /\ UNCHANGED <<timer, free, server>>

\* expire(): the socket is shut down under the handler.
Fire(c) ==
  /\ timer[c] = "armed"
  /\ timer' = [timer EXCEPT ![c] = "fired"]
  /\ UNCHANGED <<conn, free, server, failed, leaked>>

\* A client that sends a byte within every two seconds stays "reading"; no
\* step is needed for that.  A complete request is refused (403, 404, 400)
\* or handed to the pilot.
Request(c) ==
  /\ conn[c] = "reading"
  /\ timer[c] # "fired"
  /\ Move(c, "replying") \/ Move(c, "working")
  /\ UNCHANGED <<timer, free, server, failed, leaked>>

\* Two seconds of silence, an end of file or a shut socket end the handler.
ReadEnds(c) ==
  /\ conn[c] = "reading"
  /\ Move(c, "ending")
  /\ UNCHANGED <<timer, free, server, failed, leaked>>

\* The store and the upstream call come back, or raise Conflict, ValueError,
\* Changed or a database error, each with its reply, or OSError with none.
Worked(c) ==
  /\ conn[c] = "working"
  /\ Move(c, "replying") \/ Move(c, "ending")
  /\ UNCHANGED <<timer, free, server, failed, leaked>>

\* Written or not, the connection is closed after one reply.
Replied(c) ==
  /\ conn[c] = "replying"
  /\ Move(c, "ending")
  /\ UNCHANGED <<timer, free, server, failed, leaked>>

\* shutdown_request(), then the finally block.
End(c) ==
  /\ conn[c] = "ending"
  /\ Move(c, "closed")
  /\ timer' = [timer EXCEPT ![c] = "off"]
  /\ free' = free + 1
  /\ UNCHANGED <<server, failed, leaked>>

\* KeyboardInterrupt ends serve_forever() between two connections; leaving
\* the with statement joins the handler threads, which are not daemons.
Interrupt ==
  /\ server = "serving" /\ In({"admitted"}) = {}
  /\ server' = "closing"
  /\ UNCHANGED <<conn, timer, free, failed, leaked>>

ServerClose ==
  /\ server = "closing" /\ In(Threaded) = {}
  /\ server' = "closed"
  /\ conn' = [c \in Clients |-> IF conn[c] = "backlog" THEN "closed" ELSE conn[c]]
  /\ UNCHANGED <<timer, free, failed, leaked>>

Next ==
  \/ Interrupt \/ ServerClose
  \/ \E c \in Clients :
       \/ Connect(c) \/ Accept(c) \/ SpawnFails(c) \/ Spawn(c) \/ TimerFails(c)
       \/ Fire(c) \/ Request(c) \/ ReadEnds(c) \/ Worked(c) \/ Replied(c)
       \/ End(c)

\* The timer, the accept loop and the threads run.  A client may keep its
\* handler reading for as long as the socket is open.
Progress(c) ==
  \/ Accept(c) \/ Spawn(c) \/ Worked(c) \/ Replied(c) \/ End(c)
  \/ timer[c] = "fired" /\ ReadEnds(c)
Fairness ==
  /\ WF_vars(ServerClose)
  /\ \A c \in Clients : WF_vars(Fire(c)) /\ WF_vars(Progress(c))

Spec == Init /\ [][Next]_vars /\ Fairness

-----------------------------------------------------------------------------
\* Every slot is free, held by one live connection, or lost with a connection
\* whose timer could not be started: refusals, failed starts and all ends of a
\* handler give back exactly what they took.
SlotsExact == free + Cardinality(In(Threaded \cup {"admitted"})) + Cardinality(leaked) = Slots

\* Every connection the server accepted is closed, also one whose client
\* sends a byte at a time without end, and an interrupted server closes.  (A
\* client connects once, so in the end none is connected.)
ConnectionsEnd == <>[](In(Threaded \cup {"admitted"}) = {} /\ server # "closing")
=============================================================================
