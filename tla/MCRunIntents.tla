---------------------------- MODULE MCRunIntents ----------------------------
(***************************************************************************)
(* Requests for a run: the tables, the board and the daemon that take one  *)
(* to its run (RunIntents), and the page that shows the runs and requests  *)
(* there are (RunDesk).                                                    *)
(*                                                                         *)
(* The two share no step: a behaviour is of one part, that Init chooses,   *)
(* and what is not of the part stays as it begins.                         *)
(***************************************************************************)
EXTENDS RunIntents, RunDesk

VARIABLE part  \* the part of the project that this behaviour is of

bothVars == <<part, vars, runsVars>>

QuietDesk == RunsInit /\ daemon = "running"

BothInit ==
  \/ part = "intents" /\ Init /\ QuietDesk
  \/ part \in {"runs", "run faults"} /\ QuietDesk /\ Init
  \/ part = "request" /\ RunsInit /\ Init

IntentsStep == part = "intents" /\ Next /\ UNCHANGED <<part, runsVars>>

(* Two runs without requests, one run and a request, or one run with        *)
(* failures and processes that fall silent.                                 *)
Calm == \A i \in DOMAIN rows' : ~rows'[i].silent
DeskBounds ==
  /\ part = "runs" => requests' = <<>> /\ fails' = 0 /\ Calm
  /\ part = "request" => Len(rows') <= 1 /\ fails' = 0 /\ Calm
  /\ part = "run faults" => Len(rows') <= 1 /\ requests' = <<>>
DeskStep == part # "intents" /\ RunsNext /\ DeskBounds /\ UNCHANGED <<part, vars>>

BothNext == IntentsStep \/ DeskStep

BothSpec == BothInit /\ [][BothNext]_bothVars
=============================================================================
