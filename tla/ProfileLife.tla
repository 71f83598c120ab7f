----------------------------- MODULE ProfileLife -----------------------------
(***************************************************************************)
(* The life of a profile's directory: made by the board's create or by      *)
(* `profile build`, opened by the board's requests and by runs through its  *)
(* path, its legacy configuration file lifted into the database, and        *)
(* removed by the board (cli/wire/board.ts, board_remove.ts) or by `profile *)
(* remove --force`, by one rename to a tombstone (ops/profile_remove).      *)
(*                                                                         *)
(* A directory that is made where none is has a number of its own, so that  *)
(* a handle tells whose files it is open on.  One configuration document    *)
(* stands for the profile's.                                                *)
(***************************************************************************)
EXTENDS Naturals, FiniteSets

CONSTANTS
  Request,    \* requests the board serves at once
  None,
  MaxDirs,    \* bound: directories made
  MaxSaves,   \* bound: documents saved, and intents posted
  MaxFails    \* bound: renames and deletes that fail, and boards that die

VARIABLES
  dir,       \* the directory at profiles/<name>, None when there is none
  made,      \* directories made so far
  tree,      \* tree[g]: what directory g holds
  stores,    \* the board's memoised store: its directory, or None
  intents,   \* the board's memoised intent store
  removing,  \* the board's set of profiles being removed
  reqs,      \* reqs[r]: a request past its membership check, or None
  removal,   \* the board's removal in flight, or None
  build,     \* a `profile build`, or a create, past its read of the document
  run,       \* a run of the profile, or None
  saves, fails,
  cause      \* observability: what crossed what

lifeVars == <<dir, made, tree, stores, intents, removing, reqs, removal, build, run, saves, fails, cause>>

Saved == 1 .. MaxSaves
Seed == MaxSaves + 1
Legacy == MaxSaves + 2
Malformed == MaxSaves + 3
Empty == [db |-> FALSE, row |-> None, legacy |-> None, run |-> None, intent |-> None, by |-> "opened"]

Listed == dir # None /\ ~removing

(* openJobsDb: mkdir -p, then the database opened or made and migrated.     *)
(* What it opens is at the path now, or is made there.                      *)
CanOpen == dir # None \/ made < MaxDirs
Opened == IF dir # None THEN dir ELSE made + 1
Open(by) ==
  /\ CanOpen
  /\ dir' = Opened /\ made' = IF dir # None THEN made ELSE made + 1

WithDb(g, by) == [tree EXCEPT ![g].db = TRUE, ![g].by = IF dir = None THEN by ELSE @]

----------------------------------------------------------------------------
(* The board's requests: the membership check is awaited, what follows it   *)
(* does not look again.                                                     *)

(* Mutant of Admit: a profile being removed is still listed.                *)
AdmitRemoving(r, kind) ==
  /\ reqs[r] = None /\ dir # None
  /\ kind = "open" => tree[dir].db
  /\ reqs' = [reqs EXCEPT ![r] = [kind |-> kind, early |-> FALSE]]
  /\ UNCHANGED <<dir, made, tree, stores, intents, removing, removal, build, run, saves, fails, cause>>

(* listProfileInfos, and the gates of openStore, openIntents and            *)
(* writeConfigDoc: a store is only opened where a database is.              *)
Admit(r, kind) ==
  /\ reqs[r] = None /\ Listed
  /\ kind = "open" => tree[dir].db
  /\ reqs' = [reqs EXCEPT ![r] = [kind |-> kind, early |-> FALSE]]
  /\ UNCHANGED <<dir, made, tree, stores, intents, removing, removal, build, run, saves, fails, cause>>

Served(r) ==
  /\ reqs' = [reqs EXCEPT ![r] = None]
  /\ cause' = cause \cup (IF reqs[r].early THEN {"early"} ELSE {})

OpenStore(r) ==
  /\ reqs[r] # None /\ reqs[r].kind = "open"
  /\ \/ stores # None /\ UNCHANGED <<dir, made, tree, stores>>
     \/ stores = None /\ Open("opened") /\ stores' = Opened /\ tree' = WithDb(Opened, "opened")
  /\ Served(r)
  /\ UNCHANGED <<intents, removing, removal, build, run, saves, fails>>

(* POST /run-intents: the intent goes where the memoised store is open. *)
PostIntent(r) ==
  /\ reqs[r] # None /\ reqs[r].kind = "intent" /\ saves < MaxSaves
  /\ \/ intents # None /\ UNCHANGED <<dir, made, intents>> /\ tree' = [tree EXCEPT ![intents].intent = "pending"]
     \/ /\ intents = None /\ Open("opened") /\ intents' = Opened
        /\ tree' = [WithDb(Opened, "opened") EXCEPT ![Opened].intent = "pending"]
  /\ saves' = saves + 1
  /\ Served(r)
  /\ UNCHANGED <<stores, removing, removal, build, run, fails>>

(* writeConfigDoc, in a store of its own. *)
SaveDoc(r) ==
  /\ reqs[r] # None /\ reqs[r].kind = "save" /\ saves < MaxSaves
  /\ Open("opened")
  /\ tree' = [WithDb(Opened, "opened") EXCEPT ![Opened].row = saves + 1]
  /\ saves' = saves + 1
  /\ Served(r)
  /\ UNCHANGED <<stores, intents, removing, removal, build, run, fails>>

----------------------------------------------------------------------------
(* Making a profile: seedProfileDocs                                       *)

(* createProfile of the board, and `profile build` for a profile that may   *)
(* be there: mkdir, then the document is read, and lifted by reading.       *)
Lifted(g) == IF tree[g].row = None /\ tree[g].legacy = Legacy THEN Legacy ELSE tree[g].row
Kept(g) == tree[g].row # None \/ tree[g].legacy # None

MayMake(by) == by = "create" => dir = None /\ ~removing

SeedRead(by) ==
  /\ build = None /\ MayMake(by)
  /\ Open(by)
  /\ tree' = [WithDb(Opened, by) EXCEPT ![Opened].row = Lifted(Opened), ![Opened].by = IF @ \in {"opened", "run"} THEN by ELSE @]
  /\ build' = IF Kept(Opened) THEN None ELSE [by |-> by, gen |-> Opened]
  /\ UNCHANGED <<stores, intents, removing, reqs, removal, run, saves, fails, cause>>

(* The template is written where nothing was read. *)
SeedWrite ==
  /\ build # None
  /\ tree' = [tree EXCEPT ![build.gen].row = Seed]
  /\ cause' = cause \cup (IF tree[build.gen].row # None THEN {"crossed"} ELSE {})
  /\ build' = None
  /\ UNCHANGED <<dir, made, stores, intents, removing, reqs, removal, run, saves, fails>>

----------------------------------------------------------------------------
(* A run, in a process of its own                                          *)

(* The daemon's scan, or a command line, found the profile. *)
RunScan ==
  /\ run = None /\ dir # None
  /\ run' = [at |-> "scanned", gen |-> None, lift |-> FALSE, found |-> None]
  /\ UNCHANGED <<dir, made, tree, stores, intents, removing, reqs, removal, build, saves, fails, cause>>

(* Mutant of Lifts: the file is lifted whatever is stored.                  *)
LiftsFile(g) == tree[g].legacy = Legacy

(* readText: no row, and a file that parses. *)
Lifts(g) == tree[g].row = None /\ tree[g].legacy = Legacy

(* The configuration is read: a malformed file ends the run. *)
RunOpen ==
  /\ run # None /\ run.at = "scanned"
  /\ Open("run")
  /\ tree' = WithDb(Opened, "run")
  /\ LET unreadable == tree[Opened].row = None /\ tree[Opened].legacy # Legacy
     IN  run' = IF unreadable THEN None ELSE [at |-> "open", gen |-> Opened, lift |-> Lifts(Opened), found |-> tree[Opened].row]
  /\ cause' = cause \cup (IF dir = None THEN {"run"} ELSE {})
  /\ UNCHANGED <<stores, intents, removing, reqs, removal, build, saves, fails>>

(* The lifted text is put in place of whatever is stored by then. *)
RunLift ==
  /\ run # None /\ run.lift
  /\ tree' = [tree EXCEPT ![run.gen].row = Legacy]
  /\ cause' = cause \cup (IF run.found = None /\ tree[run.gen].row # None THEN {"crossed"} ELSE {})
  /\ run' = [run EXCEPT !.lift = FALSE]
  /\ UNCHANGED <<dir, made, stores, intents, removing, reqs, removal, build, saves, fails>>

(* The run's row; a pending intent is the run's. *)
RunBegin ==
  /\ run # None /\ run.at = "open" /\ ~run.lift
  /\ tree' = [tree EXCEPT ![run.gen].run = "running", ![run.gen].intent = IF @ = "pending" THEN "claimed" ELSE @]
  /\ run' = [run EXCEPT !.at = "running"]
  /\ cause' = cause \cup (IF removal # None /\ removal.gen = run.gen THEN {"run"} ELSE {})
  /\ UNCHANGED <<dir, made, stores, intents, removing, reqs, removal, build, saves, fails>>

(* Other stores, the log and the run folder are opened by path as it goes. *)
RunReopen ==
  /\ run # None /\ run.at = "running" /\ dir = None
  /\ Open("run") /\ tree' = WithDb(Opened, "run")
  /\ cause' = cause \cup {"run"}
  /\ UNCHANGED <<stores, intents, removing, reqs, removal, build, run, saves, fails>>

RunEnd ==
  /\ run # None /\ run.at = "running"
  /\ tree' = [tree EXCEPT ![run.gen].run = "done"]
  /\ run' = None
  /\ UNCHANGED <<dir, made, stores, intents, removing, reqs, removal, build, saves, fails, cause>>

----------------------------------------------------------------------------
(* Removing a profile                                                      *)

(* removeBoardProfile: listed, and its newest run is not running.  To look, *)
(* the store is opened and stays memoised.                                  *)
CheckRuns ==
  /\ removal = None /\ Listed
  /\ LET g == IF stores # None THEN stores ELSE dir
     IN  /\ tree[dir].db => tree[g].run # "running"
         /\ stores' = IF tree[dir].db THEN g ELSE stores
         /\ removal' = [at |-> "runs", gen |-> dir]
  /\ UNCHANGED <<dir, made, tree, intents, removing, reqs, build, run, saves, fails, cause>>

(* Mutant of NothingQueued: the intents are not asked.                      *)
NothingQueuedUnasked(g) == TRUE
NothingQueued(g) == tree[g].intent # "pending"

EndRemoval == removal' = None /\ removing' = FALSE

(* Every request admitted before is now early. *)
Early == [r \in Request |-> IF reqs[r] = None THEN None ELSE [reqs[r] EXCEPT !.early = TRUE]]

(* Mutant of Released: the memoised handles are kept.                       *)
ReleasedNot == [stores |-> stores, intents |-> intents]
Released == [stores |-> None, intents |-> None]

(* No intent is pending: the profile is no longer served, and the board's   *)
(* handles on it are closed.                                                *)
CheckIntents ==
  /\ removal # None /\ removal.at = "runs"
  /\ LET g == IF intents # None THEN intents ELSE dir
         queued == dir # None /\ ~NothingQueued(g)
     IN  \/ /\ queued /\ EndRemoval
            /\ intents' = g /\ tree' = [tree EXCEPT ![dir].db = TRUE]
            /\ UNCHANGED <<stores, reqs, cause>>
         \/ /\ ~queued
            /\ removing' = TRUE /\ removal' = [at |-> "removing", gen |-> dir]
            /\ stores' = Released.stores /\ intents' = Released.intents
            /\ tree' = IF dir = None THEN tree ELSE [tree EXCEPT ![dir].db = TRUE]
            /\ reqs' = Early
            /\ cause' = cause \cup (IF run # None THEN {"run"} ELSE {})
  /\ UNCHANGED <<dir, made, build, run, saves, fails>>

(* removeProfileDir: one rename, tried again while the files are in use;    *)
(* a directory that is gone is removed.                                     *)
Rename ==
  /\ removal # None /\ removal.at = "removing"
  /\ \/ dir # None /\ dir' = None /\ removal' = [at |-> "renamed", gen |-> dir] /\ UNCHANGED removing
     \/ dir = None /\ EndRemoval /\ UNCHANGED dir
  /\ UNCHANGED <<made, tree, stores, intents, reqs, build, run, saves, fails, cause>>

RenameFails ==
  /\ removal # None /\ removal.at = "removing" /\ fails < MaxFails
  /\ fails' = fails + 1
  /\ EndRemoval
  /\ UNCHANGED <<dir, made, tree, stores, intents, reqs, build, run, saves, cause>>

(* The tombstone is deleted, or stays, and the name can be used again. *)
Bury ==
  /\ removal # None /\ removal.at = "renamed"
  /\ EndRemoval
  /\ UNCHANGED <<dir, made, tree, stores, intents, reqs, build, run, saves, fails, cause>>

(* `profile remove --force` looks at nothing but the directory. *)
CliRemove ==
  /\ dir # None
  /\ dir' = None
  /\ cause' = cause \cup {"cli"}
  /\ UNCHANGED <<made, tree, stores, intents, removing, reqs, removal, build, run, saves, fails>>

(* The board is stopped: a tombstone it was deleting stays. *)
BoardDies ==
  /\ fails < MaxFails
  /\ fails' = fails + 1
  /\ stores' = None /\ intents' = None /\ reqs' = [r \in Request |-> None]
  /\ EndRemoval
  /\ UNCHANGED <<dir, made, tree, build, run, saves, cause>>

LifeInit ==
  /\ dir \in {None, 1} /\ made = IF dir = None THEN 0 ELSE 1
  /\ tree \in {[g \in 1 .. MaxDirs |-> IF g = 1 /\ dir = 1 THEN [Empty EXCEPT !.legacy = l, !.by = "create"] ELSE Empty] : l \in {Legacy, Malformed}}
  /\ stores = None /\ intents = None /\ removing = FALSE
  /\ reqs = [r \in Request |-> None] /\ removal = None /\ build = None /\ run = None
  /\ saves = 0 /\ fails = 0 /\ cause = {}

LifeNext ==
  \/ \E r \in Request : OpenStore(r) \/ PostIntent(r) \/ SaveDoc(r) \/ \E kind \in {"open", "intent", "save"} : Admit(r, kind)
  \/ \E by \in {"create", "build"} : SeedRead(by)
  \/ SeedWrite
  \/ RunScan \/ RunOpen \/ RunLift \/ RunBegin \/ RunReopen \/ RunEnd
  \/ CheckRuns \/ CheckIntents \/ Rename \/ RenameFails \/ Bury \/ CliRemove \/ BoardDies

LifeSpec == LifeInit /\ [][LifeNext]_lifeVars

----------------------------------------------------------------------------
LifeTypeOK ==
  /\ dir \in 1 .. made \cup {None} /\ made \in 0 .. MaxDirs
  /\ stores \in 1 .. made \cup {None} /\ intents \in 1 .. made \cup {None}
  /\ removal # None /\ removal.at \in {"removing", "renamed"} <=> removing
  /\ \A g \in 1 .. MaxDirs : tree[g].row \in Saved \cup {None, Seed, Legacy}

(* What the board renames away has no run going and no intent waiting,      *)
(* unless a run had been found or begun, or a request admitted, before the  *)
(* profile stopped being served.                                            *)
BuriedIdle ==
  removal # None /\ removal.at = "renamed" /\ cause \cap {"run", "early", "cli"} = {} =>
    tree[removal.gen].run # "running" /\ tree[removal.gen].intent # "pending"

(* A directory is made by a create or a `profile build`.  A request that    *)
(* was admitted before the removal began, and a run, make an empty one      *)
(* where the profile was, and the profile is listed again.                  *)
MadeOnPurpose == \A g \in 1 .. made : tree[g].by \in {"create", "build"} \/ cause \cap {"early", "run", "cli"} # {}

(* The board's open handles are on the files at the profile's path, unless  *)
(* `profile remove --force` took them away under it (the board then serves, *)
(* and posts intents to, deleted files until it is restarted) or a request  *)
(* had been admitted early.                                                 *)
HandlesCurrent ==
  \A h \in {stores, intents} : h # None => h = dir \/ cause \cap {"early", "cli"} # {}

(* A saved document is never replaced by the file it was lifted from or by  *)
(* the template, unless the save fell between the read that found nothing   *)
(* stored and the write that follows it.                                    *)
SavedKeptStep ==
  \A g \in 1 .. MaxDirs :
    tree[g].row \in Saved /\ tree'[g].row # tree[g].row => tree'[g].row \in Saved \/ "crossed" \in cause'
SavedKept == [][SavedKeptStep]_lifeVars

(* All of it: a profile is buried idle, made on purpose, and served from its own files. *)
LifeSound == LifeTypeOK /\ BuriedIdle /\ MadeOnPurpose /\ HandlesCurrent
=============================================================================
