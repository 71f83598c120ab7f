------------------------------- MODULE HomeMove ------------------------------
(***************************************************************************)
(* `jobbunny migrate-home --apply` (src/cli/commands/migrate_home.ts): the  *)
(* profiles, the .env file and the Chrome directory of a checkout are       *)
(* planned, checked against the data home and renamed into it one by one,   *)
(* beside a board on the data home and a run that still uses the checkout.  *)
(***************************************************************************)
EXTENDS Naturals, FiniteSets

CONSTANTS
  Profile,   \* the profiles of the checkout, the fixture left out
  None,
  MaxCalls,  \* bound: times the command is called
  MaxWrites, \* bound: items made by others
  MaxStops   \* bound: renames that fail, and commands that are stopped

VARIABLES
  source,  \* source[i]: whose item i is in the checkout, None when it is not there
  home,    \* home[i]: the same of the data home
  plan,    \* what the command has still to rename, None when none is running
  using,   \* a run of the checkout is going
  daemon,  \* the checkout's daemon is alive
  calls, writes, stops,
  refused, \* the last call found something at a destination
  lost,    \* observability: an item was renamed over
  cause    \* observability

moveVars == <<source, home, plan, using, daemon, calls, writes, stops, refused, lost, cause>>

Item == Profile \cup {".env", ".chrome-debug"}

(* Mutant of Taken: only the profiles are looked for.                       *)
TakenProfiles(items) == {i \in items \cap Profile : home[i] # None}

(* What is already at a destination of the plan: the whole plan is checked  *)
(* before anything is moved.                                                *)
Taken(items) == {i \in items : home[i] # None}

(* No daemon of the checkout is alive; a run of it, and what uses the data  *)
(* home, are not looked for.                                                *)
Call ==
  /\ plan = None /\ calls < MaxCalls /\ ~daemon
  /\ calls' = calls + 1
  /\ LET items == {i \in Item : source[i] # None}
     IN  /\ refused' = (Taken(items) # {})
         /\ plan' = IF items = {} \/ Taken(items) # {} THEN None ELSE items
  /\ UNCHANGED <<source, home, using, daemon, writes, stops, lost, cause>>

(* Mutant of Left: the item is copied.                                      *)
LeftBehind(i) == source[i]

(* What a rename leaves in the checkout. *)
Left(i) == None

(* rename(2): a file takes the place of a file, a directory that of an      *)
(* empty one only, and the command throws.                                  *)
Move(i) ==
  /\ plan # None /\ i \in plan
  /\ i # ".env" => home[i] = None
  /\ lost' = (lost \/ home[i] # None)
  /\ home' = [home EXCEPT ![i] = source[i]] /\ source' = [source EXCEPT ![i] = Left(i)]
  /\ plan' = IF plan = {i} THEN None ELSE plan \ {i}
  /\ UNCHANGED <<using, daemon, calls, writes, stops, refused, cause>>

(* Across file systems, onto something, or stopped: what was moved stays.   *)
Stop ==
  /\ plan # None
  /\ \/ stops < MaxStops /\ stops' = stops + 1
     \/ (\E i \in plan : i # ".env" /\ home[i] # None) /\ UNCHANGED stops
  /\ plan' = None
  /\ UNCHANGED <<source, home, using, daemon, calls, writes, refused, lost, cause>>

StartRun == ~using /\ using' = TRUE /\ UNCHANGED <<source, home, plan, daemon, calls, writes, stops, refused, lost, cause>>

(* A run makes the folders it opens by path. *)
RunWrites(p) ==
  /\ using /\ source[p] = None /\ writes < MaxWrites
  /\ writes' = writes + 1
  /\ source' = [source EXCEPT ![p] = "run"]
  /\ cause' = cause \cup {"run"}
  /\ UNCHANGED <<home, plan, using, daemon, calls, stops, refused, lost>>

EndRun == using /\ using' = FALSE /\ UNCHANGED <<source, home, plan, daemon, calls, writes, stops, refused, lost, cause>>

ServeSwitch == daemon' = ~daemon /\ UNCHANGED <<source, home, plan, using, calls, writes, stops, refused, lost, cause>>

(* The board on the data home makes a profile, or a .env with a secret. *)
BoardWrites(i) ==
  /\ home[i] = None /\ i # ".chrome-debug" /\ writes < MaxWrites
  /\ writes' = writes + 1
  /\ home' = [home EXCEPT ![i] = "board"]
  /\ cause' = cause \cup {"board"} \cup (IF plan # None THEN {"crossed"} ELSE {})
  /\ UNCHANGED <<source, plan, using, daemon, calls, stops, refused, lost>>

MoveInit ==
  /\ source \in [Item -> {None, "checkout"}]
  /\ home = [i \in Item |-> None]
  /\ plan = None /\ using = FALSE /\ daemon \in BOOLEAN
  /\ calls = 0 /\ writes = 0 /\ stops = 0 /\ refused = FALSE /\ lost = FALSE /\ cause = {}

MoveNext ==
  \/ Call \/ Stop \/ StartRun \/ EndRun \/ ServeSwitch
  \/ \E i \in Item : Move(i) \/ BoardWrites(i)
  \/ \E p \in Profile : RunWrites(p)

MoveSpec == MoveInit /\ [][MoveNext]_moveVars

----------------------------------------------------------------------------
MoveTypeOK ==
  /\ source \in [Item -> {None, "checkout", "run"}] /\ home \in [Item -> {None, "checkout", "run", "board"}]
  /\ plan = None \/ plan \subseteq {i \in Item : source[i] # None}

(* Nothing at the data home is renamed over, unless the board wrote it after *)
(* the command had looked: only .env can be lost that way.                   *)
NothingReplaced == lost => "crossed" \in cause

(* A call that was stopped half-way can be made again: it is refused only    *)
(* because the board wrote to the data home, or a run that went on in the    *)
(* checkout made a folder anew where one had been moved away.                *)
RerunAccepted == refused => cause # {}

(* All of it: nothing is lost, and a stopped move can be made again. *)
MoveSound == MoveTypeOK /\ NothingReplaced /\ RerunAccepted
=============================================================================
