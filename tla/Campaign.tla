------------------------------ MODULE Campaign ------------------------------
(***************************************************************************)
(* A measurement campaign (scripts/measure.py): a run measures some stages *)
(* and merges them into the results file, from which the board is made.    *)
(*                                                                         *)
(* A stage's result is the run and the host that measured it.  A stage of  *)
(* Scripted is measured by a script that leaves a results file of its own, *)
(* read back afterwards.  One run goes on at a time.  The files travel     *)
(* with the repository, so a run may find results of another host.         *)
(* Left out: the figures themselves, and kernels_exact_big, which a run of *)
(* the stage kernels without the big catalog leaves as it was.             *)
(***************************************************************************)
EXTENDS Naturals, Sequences, Functions

CONSTANTS Order,      \* the stages, in the order they are run
          Scripted,   \* stages measured by a script with its own results file
          Hosts,
          MaxRuns,
          MaxMoves,   \* moves of the repository to another host
          None

VARIABLES
  here,       \* the host
  moves,
  campaign,   \* [at, run, todo, payload] of the running script
  file,       \* measured.json: its state and payload
  board,      \* COST.md: its state and results
  own,        \* scripted stage -> result in its own file
  kept,       \* stages with a result in the file since it was last absent
  saved       \* every <<stage, result>> the file has ever held

vars == <<here, moves, campaign, file, board, own, kept, saved>>

Stages == Range(Order)
Runs == 1 .. MaxRuns
Results == [Stages -> {None} \cup [run : Runs, host : Hosts]]
Empty == [s \in Stages |-> None]
Measured(results) == {s \in Stages : results[s] # None}
Held(results) == {<<s, results[s]>> : s \in Measured(results)}
\* host, stages_run and the results; asked is what the last run was to measure.
Payloads == [host : Hosts \cup {None}, run : 0 .. MaxRuns, ran : SUBSET Stages,
             asked : SUBSET Stages, results : Results]
Fresh == [host |-> None, run |-> 0, ran |-> {}, asked |-> {}, results |-> Empty]

TypeOK ==
  /\ here \in Hosts /\ moves \in 0 .. MaxMoves
  /\ campaign \in [at : {"idle", "stages", "filling", "board", "drawing"},
                   run : 0 .. MaxRuns, todo : SUBSET Stages, payload : Payloads]
  /\ file \in [state : {"absent", "torn", "whole"}, payload : Payloads]
  /\ board \in [state : {"absent", "torn", "whole"}, results : Results]
  /\ own \in [Scripted -> {None} \cup [run : Runs, host : Hosts]]
  /\ kept \subseteq Stages /\ saved \subseteq Stages \X [run : Runs, host : Hosts]

Init ==
  /\ here \in Hosts /\ moves = 0
  /\ campaign = [at |-> "idle", run |-> 0, todo |-> {}, payload |-> Fresh]
  /\ file = [state |-> "absent", payload |-> Fresh]
  /\ board = [state |-> "absent", results |-> Empty]
  /\ own = [s \in Scripted |-> None]
  /\ kept = {} /\ saved = {}

-----------------------------------------------------------------------------
Move(h) ==
  /\ campaign.at = "idle" /\ h # here
  /\ moves < MaxMoves /\ moves' = moves + 1
  /\ here' = h
  /\ UNCHANGED <<campaign, file, board, own, kept, saved>>

\* The operator throws away a file that is not of use.
Discard ==
  /\ campaign.at = "idle" /\ file.state # "absent"
  /\ moves < MaxMoves /\ moves' = moves + 1
  /\ file' = [state |-> "absent", payload |-> Fresh] /\ kept' = {}
  /\ UNCHANGED <<here, campaign, board, own, saved>>

\* The saved payload a run starts from; a torn file and one of another host
\* are refused.
Accepts_AnyHost(f) == f.state # "torn"

Accepts_Torn(f) == f.state = "whole" => f.payload.host = here

Accepts(f) ==
  /\ f.state # "torn"
  /\ f.state = "whole" => f.payload.host = here

Merged(f, asked) ==
  [host |-> here, run |-> campaign.run + 1, ran |-> f.payload.ran \cup asked,
   asked |-> asked, results |-> f.payload.results]

Start(asked) ==
  /\ campaign.at = "idle" /\ campaign.run < MaxRuns
  /\ Accepts(file)
  /\ campaign' = [at |-> "stages", run |-> campaign.run + 1, todo |-> asked,
                  payload |-> Merged(file, asked)]
  /\ UNCHANGED <<here, moves, file, board, own, kept, saved>>

\* --board-only, which needs a whole file.
BoardOnly ==
  /\ campaign.at = "idle" /\ file.state = "whole"
  /\ campaign' = [campaign EXCEPT !.at = "board", !.payload = file.payload]
  /\ UNCHANGED <<here, moves, file, board, own, kept, saved>>

Following(todo) == CHOOSE s \in todo : \A q \in todo : \E i, j \in 1 .. Len(Order) :
                 i <= j /\ Order[i] = s /\ Order[j] = q

Now == [run |-> campaign.run, host |-> here]

\* The next stage is measured ...
Measure ==
  /\ campaign.at = "stages" /\ campaign.todo # {}
  /\ LET s == Following(campaign.todo) IN
     /\ own' = IF s \in Scripted THEN [own EXCEPT ![s] = Now] ELSE own
     /\ campaign' = [campaign EXCEPT !.todo = @ \ {s}, !.payload.results[s] = Now]
  /\ UNCHANGED <<here, moves, file, board, kept, saved>>

\* ... or its command fails, before or after it wrote its own file, and ends the run.
Fails_Ignored ==
  /\ campaign.at = "stages" /\ campaign.todo # {}
  /\ LET s == Following(campaign.todo) IN
       campaign' = [campaign EXCEPT !.todo = @ \ {s}, !.payload.results[s] =
                      IF s \in Scripted THEN own[s] ELSE @]
  /\ UNCHANGED <<here, moves, file, board, own, kept, saved>>

Fails ==
  /\ campaign.at = "stages" /\ campaign.todo # {}
  /\ LET s == Following(campaign.todo) IN
       own' \in {own} \cup {[t \in Scripted |-> IF t = s THEN Now ELSE own[t]]}
  /\ campaign' = [campaign EXCEPT !.at = "idle", !.todo = {}, !.payload = Fresh]
  /\ UNCHANGED <<here, moves, file, board, kept, saved>>

\* write_text truncates the file, then fills it.
OpenOut ==
  /\ campaign.at = "stages" /\ campaign.todo = {}
  /\ campaign' = [campaign EXCEPT !.at = "filling"]
  /\ file' = [state |-> "torn", payload |-> Fresh]
  /\ UNCHANGED <<here, moves, board, own, kept, saved>>

FillOut ==
  /\ campaign.at = "filling"
  /\ campaign' = [campaign EXCEPT !.at = "board"]
  /\ file' = [state |-> "whole", payload |-> campaign.payload]
  /\ kept' = kept \cup Measured(campaign.payload.results)
  /\ saved' = saved \cup Held(campaign.payload.results)
  /\ UNCHANGED <<here, moves, board, own>>

OpenBoard_First ==
  /\ \/ campaign.at = "stages" /\ campaign.todo = {}
     \/ campaign.at = "board"
  /\ campaign' = [campaign EXCEPT !.at = "drawing"]
  /\ board' = [state |-> "torn", results |-> Empty]
  /\ UNCHANGED <<here, moves, file, own, kept, saved>>

OpenBoard ==
  /\ campaign.at = "board"
  /\ campaign' = [campaign EXCEPT !.at = "drawing"]
  /\ board' = [state |-> "torn", results |-> Empty]
  /\ UNCHANGED <<here, moves, file, own, kept, saved>>

WriteBoard ==
  /\ campaign.at = "drawing"
  /\ campaign' = [campaign EXCEPT !.at = "idle", !.payload = Fresh]
  /\ board' = [state |-> "whole", results |-> campaign.payload.results]
  /\ UNCHANGED <<here, moves, file, own, kept, saved>>

\* The process is killed, wherever it is.
Crash ==
  /\ campaign.at # "idle"
  /\ campaign' = [campaign EXCEPT !.at = "idle", !.todo = {}, !.payload = Fresh]
  /\ UNCHANGED <<here, moves, file, board, own, kept, saved>>

Next ==
  \/ \E h \in Hosts : Move(h)
  \/ Discard \/ BoardOnly \/ Measure \/ Fails
  \/ \E asked \in (SUBSET Stages) \ {{}} : Start(asked)
  \/ OpenOut \/ FillOut \/ OpenBoard \/ WriteBoard \/ Crash

Spec == Init /\ [][Next]_vars

-----------------------------------------------------------------------------
\* The results of a file were all measured on the host the file names.
OneHost == \A s \in Measured(file.payload.results) :
             file.payload.results[s].host = file.payload.host

\* stages_run lists exactly the stages with a result, and the stages the last
\* run was asked for have the results of that run, not those of an earlier one
\* left in a script's own file.
StagesHonest ==
  /\ file.payload.ran = Measured(file.payload.results)
  /\ \A s \in file.payload.asked : file.payload.results[s].run = file.payload.run

\* However the runs end, a later run never saves a file without a result that
\* an earlier one had saved.
NothingDropped == file.state = "whole" => kept \subseteq Measured(file.payload.results)

\* Every figure on the board was saved in the results file before.
BoardGrounded == Held(board.results) \subseteq saved
=============================================================================
