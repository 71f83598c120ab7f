------------------------------ MODULE Pipeline ------------------------------
(***************************************************************************)
(* One profile's pipeline: the stage runner (src/pipeline/runner), its     *)
(* checkpoints, `run --resume` and `run --dry-run` (src/cli/commands/      *)
(* run.ts), the single-stage command (stage.ts), and what each stage does  *)
(* with the documents the stages share in the profile's database           *)
(* (src/pipeline/stages): the connector's cache, the API lanes' seen       *)
(* ledger, the table compress hands to structure, structure's partial and  *)
(* final decisions.                                                        *)
(*                                                                         *)
(* Two actors: the run, at most one by the run lock (RunLock), and the     *)
(* stage command, which takes no lock; Alone says whether the user keeps   *)
(* them apart.  A job is its id; a payload is the jobs and what has been   *)
(* done to them.  Positions count from 1.  A step is one write to the      *)
(* database or one awaited call.  An attempt that is timed out does no     *)
(* more: the LLM call it awaits is killed and rejects, and it writes       *)
(* nothing between two calls without having been resumed by one.           *)
(***************************************************************************)
EXTENDS Naturals, Sequences, FiniteSets

CONSTANTS
  Job,        \* the jobs posted on the lanes' sites
  Farmed,     \* those a farming lane finds; the API lanes find the others
  Unwanted,   \* the jobs the user's filter drops
  Connector,  \* "notion" or "sqlite"
  Rank,       \* the order of the groups' time_dir names, by group number
  Options,    \* which of "resume", "dry" the user may give to `run`
  Faults,     \* which of FaultKinds the environment may do
  Alone,      \* the user starts no stage command beside a run, nor vice versa
  MaxGroups,  \* bound: runs and fresh stage groups
  MaxStages,  \* bound: stage commands
  NoDoc       \* "the document has never been written"

FaultKinds == {"fail", "die", "omit", "page"}

ASSUME PipelineAssumption ==
  /\ Farmed \subseteq Job /\ Unwanted \subseteq Job
  /\ Connector \in {"notion", "sqlite"}
  /\ MaxGroups \in Nat /\ MaxStages \in Nat
  /\ Rank \in [1 .. MaxGroups -> Nat]
  /\ \A g, h \in 1 .. MaxGroups : Rank[g] = Rank[h] => g = h
  /\ Options \subseteq {"resume", "dry"} /\ Faults \subseteq FaultKinds
  /\ Alone \in BOOLEAN
  /\ \A jobs \in SUBSET Job : jobs # NoDoc

VARIABLES
  apiSeen,      \* registry/api_seen.json
  cache,        \* cache/entries.json
  table,        \* structure/table.json, and the passthrough written with it
  partial,      \* structure's decisions so far
  decisions,    \* structure's decisions
  pages,        \* how many pages each job has in the connector's database
  checkpoints,  \* the checkpoints rows
  groups,       \* groups named so far
  staged,       \* stage commands so far
  proc,         \* what each actor is doing
  passed,       \* observability: the last run passed and was not a dry run
  answered,     \* observability: rows answered since structure was last done
  newest,       \* observability: the checkpoint written last
  emitted,      \* observability: what the API lanes emitted since the last fresh or dry run began
  torn          \* observability: a sync to Notion was left in the middle

docs  == <<apiSeen, cache, table, partial, decisions>>
store == <<pages, checkpoints>>
count == <<groups, staged>>
obs   == <<passed, answered, newest, emitted, torn>>
vars  == <<docs, store, count, proc, obs>>

Actor  == {"run", "stage"}
Stages == <<"reconcile", "farm", "source", "compress", "structure",
            "assemble", "filter", "dedup", "rank", "sync">>
Position == DOMAIN Stages
Retries(name) == IF name = "structure" THEN 1 ELSE 0

Payload == [jobs : SUBSET Job, ready : SUBSET Job, paged : SUBSET Job, dropped : SUBSET Job]
Seed == [jobs |-> {}, ready |-> {}, paged |-> {}, dropped |-> {}]

Process == [step : {"idle", "body", "batches", "clear", "pages", "write"},
            pos : Position, group : 0 .. MaxGroups, pay : Payload, attempt : 1 .. 2,
            todo : SUBSET Job, acc : SUBSET Job, dry : BOOLEAN, only : BOOLEAN]
Idle == [step |-> "idle", pos |-> 1, group |-> 0, pay |-> Seed, attempt |-> 1,
         todo |-> {}, acc |-> {}, dry |-> FALSE, only |-> FALSE]

TypeOK ==
  /\ \A set \in {apiSeen, partial, answered, emitted} : set \subseteq Job
  /\ \A doc \in {cache, table, decisions} : doc # NoDoc => doc \subseteq Job
  /\ pages \in [Job -> Nat]
  /\ \A c \in checkpoints : /\ c.group \in 1 .. groups /\ c.pos \in Position
                            /\ c.pay \in Payload
  /\ groups \in 0 .. MaxGroups /\ staged \in 0 .. MaxStages
  /\ proc \in [Actor -> Process] /\ passed \in BOOLEAN /\ torn \in BOOLEAN
  /\ newest # NoDoc => newest.pos \in Position /\ newest.pay \in Payload

Init ==
  /\ apiSeen = {} /\ cache = NoDoc /\ table = NoDoc /\ partial = {} /\ decisions = NoDoc
  /\ pages = [j \in Job |-> 0] /\ checkpoints = {}
  /\ groups = 0 /\ staged = 0
  /\ proc = [a \in Actor |-> Idle]
  /\ passed = FALSE /\ answered = {} /\ newest = NoDoc
  /\ emitted = {} /\ torn = FALSE

----------------------------------------------------------------------------
(* Checkpoints *)

Written == {c.group : c \in checkpoints}

(* latestCheckpointTimeDir: the greatest name, not the latest group. *)
LatestGroup == CHOOSE g \in Written : \A h \in Written : Rank[h] <= Rank[g]

(* Mutant of LatestIn: the first row, not the last. *)
FirstIn(g) == CHOOSE c \in checkpoints :
                c.group = g /\ \A d \in checkpoints : d.group = g => c.pos <= d.pos

(* readLatest *)
LatestIn(g) == CHOOSE c \in checkpoints :
                 c.group = g /\ \A d \in checkpoints : d.group = g => d.pos <= c.pos

Busy(a) == proc[a].step # "idle"

MayStart(a) == ~Busy(a) /\ (Alone => \A b \in Actor : ~Busy(b))

At(a, name) == proc[a].step = "body" /\ Stages[proc[a].pos] = name

(* The stage's body resolves with a payload; its checkpoint comes next. *)
Resolve(a, pay) == proc' = [proc EXCEPT ![a].step = "write", ![a].pay = pay]

----------------------------------------------------------------------------
(* The two commands *)

(* runCommand, past the lock and the preflight: a fresh group, seeded from  *)
(* the latest checkpoint when resuming.  One that is already complete       *)
(* leaves nothing to run, and the run passes.                               *)
StartRun(resume, dry) ==
  /\ MayStart("run") /\ groups < MaxGroups
  /\ groups' = groups + 1
  /\ LET fresh == ~resume \/ Written = {}
         from  == IF fresh THEN 0 ELSE LatestIn(LatestGroup).pos
     IN  /\ proc' = IF from = Len(Stages) THEN proc
                    ELSE [proc EXCEPT !["run"] =
                            [Idle EXCEPT !.step = "body", !.pos = from + 1, !.group = groups + 1,
                                         !.pay = IF fresh THEN Seed ELSE LatestIn(LatestGroup).pay,
                                         !.dry = dry]]
         /\ passed' = (from = Len(Stages) /\ ~dry)
         /\ emitted' = IF fresh \/ dry THEN {} ELSE emitted
  /\ UNCHANGED <<docs, store, staged, answered, newest, torn>>

(* stageCommand: in the latest group, from its latest checkpoint; in a      *)
(* fresh group, from the seed, when the day has no checkpoint.              *)
StartStage(k) ==
  /\ MayStart("stage") /\ staged < MaxStages
  /\ staged' = staged + 1
  /\ \/ /\ Written # {}
        /\ proc' = [proc EXCEPT !["stage"] =
                      [Idle EXCEPT !.step = "body", !.pos = k, !.group = LatestGroup,
                                   !.pay = LatestIn(LatestGroup).pay, !.only = TRUE]]
        /\ UNCHANGED groups
     \/ /\ Written = {} /\ groups < MaxGroups
        /\ groups' = groups + 1
        /\ proc' = [proc EXCEPT !["stage"] =
                      [Idle EXCEPT !.step = "body", !.pos = k, !.group = groups + 1, !.only = TRUE]]
  /\ UNCHANGED <<docs, store, obs>>

(* checkpointStore.write replaces the row of that group and position; the   *)
(* next stage takes the output, or the command is over.                     *)
Checkpoint(a) ==
  LET p == proc[a]
      over == p.only \/ p.pos = Len(Stages)
  IN  /\ p.step = "write"
      /\ checkpoints' = {c \in checkpoints : c.group # p.group \/ c.pos # p.pos}
                          \cup {[group |-> p.group, pos |-> p.pos, pay |-> p.pay]}
      /\ proc' = [proc EXCEPT ![a] = IF over THEN Idle
                                     ELSE [p EXCEPT !.step = "body", !.pos = @ + 1, !.attempt = 1]]
      /\ passed' = IF over /\ a = "run" THEN ~p.dry ELSE passed
      /\ newest' = [pos |-> p.pos, pay |-> p.pay]
      /\ UNCHANGED <<docs, pages, count, answered, emitted, torn>>

(* Whether ending here leaves pages behind that no checkpoint knows of. *)
Tears(a) ==
  torn' = \/ torn
          \/ /\ Connector = "notion" /\ Stages[proc[a].pos] = "sync"
             /\ proc[a].step \in {"pages", "write"}

(* Mutants of AttemptFails: an attempt too many; attempts never counted. *)
AttemptFailsOnceMore(a) ==
  /\ "fail" \in Faults /\ proc[a].step \in {"body", "batches", "clear", "pages"}
  /\ proc' = [proc EXCEPT ![a] =
       IF proc[a].attempt <= Retries(Stages[proc[a].pos]) + 1
         THEN [proc[a] EXCEPT !.step = "body", !.attempt = @ + 1, !.todo = {}, !.acc = {}]
         ELSE Idle]
  /\ UNCHANGED <<docs, store, count, obs>>
AttemptFailsUncounted(a) ==
  /\ "fail" \in Faults /\ proc[a].step \in {"body", "batches", "clear", "pages"}
  /\ proc' = [proc EXCEPT ![a] = [proc[a] EXCEPT !.step = "body", !.todo = {}, !.acc = {}]]
  /\ UNCHANGED <<docs, store, count, obs>>

(* guardStage: an attempt throws, stalls or is timed out; the stage is      *)
(* tried again from its own input, or the run fails.                        *)
AttemptFails(a) ==
  /\ "fail" \in Faults /\ proc[a].step \in {"body", "batches", "clear", "pages"}
  /\ proc' = [proc EXCEPT ![a] =
       IF proc[a].attempt <= Retries(Stages[proc[a].pos])
         THEN [proc[a] EXCEPT !.step = "body", !.attempt = @ + 1, !.todo = {}, !.acc = {}]
         ELSE Idle]
  /\ Tears(a)
  /\ UNCHANGED <<docs, store, count, passed, answered, newest, emitted>>

(* The run cap, a failed checkpoint write, or the end of the process. *)
Dies(a) ==
  /\ "die" \in Faults /\ Busy(a)
  /\ proc' = [proc EXCEPT ![a] = Idle]
  /\ Tears(a)
  /\ UNCHANGED <<docs, store, count, passed, answered, newest, emitted>>

----------------------------------------------------------------------------
(* The stages *)

InPages == {j \in Job : pages[j] > 0}
Known == IF cache = NoDoc THEN {} ELSE cache

(* Mutant of Reconcile: a cache that exists is kept. *)
ReconcileOnce(a) ==
  /\ At(a, "reconcile")
  /\ cache' = IF cache = NoDoc THEN InPages ELSE cache
  /\ Resolve(a, proc[a].pay)
  /\ UNCHANGED <<apiSeen, table, partial, decisions, store, count, obs>>

Reconcile(a) ==
  /\ At(a, "reconcile")
  /\ cache' = InPages
  /\ Resolve(a, proc[a].pay)
  /\ UNCHANGED <<apiSeen, table, partial, decisions, store, count, obs>>

(* A farming lane returns what it gets to of what the cache does not have. *)
Farm(a) ==
  /\ At(a, "farm")
  /\ \E found \in SUBSET (Farmed \ Known) :
       Resolve(a, [proc[a].pay EXCEPT !.jobs = @ \cup found])
  /\ UNCHANGED <<docs, store, count, obs>>

(* The API lanes emit, and record as seen, what they get to of what is      *)
(* neither seen nor cached; skipped jobs leave no record.                   *)
Source(a) ==
  /\ At(a, "source")
  /\ \E found \in SUBSET (Job \ (Farmed \cup apiSeen \cup Known)) :
       /\ apiSeen' = apiSeen \cup found
       /\ emitted' = IF a = "run" /\ ~proc[a].dry THEN emitted \cup found ELSE emitted
       /\ Resolve(a, [proc[a].pay EXCEPT !.jobs = @ \cup found])
  /\ UNCHANGED <<cache, table, partial, decisions, store, count, passed, answered, newest, torn>>

(* Mutant of Compress: a table that exists is kept. *)
CompressOnce(a) ==
  /\ At(a, "compress")
  /\ table' = IF table = NoDoc THEN proc[a].pay.jobs ELSE table
  /\ Resolve(a, proc[a].pay)
  /\ UNCHANGED <<apiSeen, cache, partial, decisions, store, count, obs>>

Compress(a) ==
  /\ At(a, "compress")
  /\ table' = proc[a].pay.jobs
  /\ Resolve(a, proc[a].pay)
  /\ UNCHANGED <<apiSeen, cache, partial, decisions, store, count, obs>>

(* Mutants of StructureBegin: everything is sent again; the rows that are   *)
(* done are neither sent nor kept.                                          *)
StructureBeginAfresh(a) ==
  /\ At(a, "structure") /\ table # NoDoc
  /\ proc' = [proc EXCEPT ![a].step = "batches", ![a].acc = {}, ![a].todo = table]
  /\ UNCHANGED <<docs, store, count, obs>>
StructureBeginForgetting(a) ==
  /\ At(a, "structure") /\ table # NoDoc
  /\ proc' = [proc EXCEPT ![a].step = "batches", ![a].acc = {}, ![a].todo = table \ partial]
  /\ UNCHANGED <<docs, store, count, obs>>

(* structure goes on from the partial decisions, whoever left them. *)
StructureBegin(a) ==
  /\ At(a, "structure") /\ table # NoDoc
  /\ proc' = [proc EXCEPT ![a].step = "batches", ![a].acc = partial, ![a].todo = table \ partial]
  /\ UNCHANGED <<docs, store, count, obs>>

(* A batch of one row: the LLM answers it or leaves it out. *)
StructureBatch(a) ==
  /\ proc[a].step = "batches"
  /\ \E j \in proc[a].todo, ok \in {TRUE} \cup (IF "omit" \in Faults THEN {FALSE} ELSE {}) :
       LET acc == IF ok THEN proc[a].acc \cup {j} ELSE proc[a].acc IN
       /\ proc' = [proc EXCEPT ![a].todo = @ \ {j}, ![a].acc = acc]
       /\ partial' = acc
       /\ answered' = IF ok THEN answered \cup {j} ELSE answered
  /\ UNCHANGED <<apiSeen, cache, table, decisions, store, count, passed, newest, emitted, torn>>

StructureDecide(a) ==
  /\ proc[a].step = "batches" /\ proc[a].todo = {}
  /\ decisions' = proc[a].acc
  /\ proc' = [proc EXCEPT ![a].step = "clear"]
  /\ UNCHANGED <<apiSeen, cache, table, partial, store, count, obs>>

StructureClear(a) ==
  /\ proc[a].step = "clear"
  /\ partial' = {} /\ answered' = {}
  /\ Resolve(a, proc[a].pay)
  /\ UNCHANGED <<apiSeen, cache, table, decisions, store, count, passed, newest, emitted, torn>>

(* assemble's jobs are the passthrough's, not its input's. *)
Assemble(a) ==
  /\ At(a, "assemble") /\ table # NoDoc /\ decisions # NoDoc
  /\ Resolve(a, [proc[a].pay EXCEPT !.jobs = table \cap decisions, !.ready = table \cap decisions,
                                    !.paged = @ \cap table \cap decisions,
                                    !.dropped = @ \cup (table \ decisions)])
  /\ UNCHANGED <<docs, store, count, obs>>

(* What is left of a payload when some of its jobs are dropped. *)
Without(pay, gone) ==
  [jobs |-> pay.jobs \ gone, ready |-> pay.ready \ gone, paged |-> pay.paged \ gone,
   dropped |-> pay.dropped \cup (pay.jobs \cap gone)]

Ready(a) == proc[a].pay.jobs \subseteq proc[a].pay.ready

Filter(a) ==
  /\ At(a, "filter") /\ Ready(a)
  /\ Resolve(a, Without(proc[a].pay, Unwanted))
  /\ UNCHANGED <<docs, store, count, obs>>

Dedup(a) ==
  /\ At(a, "dedup") /\ cache # NoDoc
  /\ Resolve(a, Without(proc[a].pay, cache))
  /\ UNCHANGED <<docs, store, count, obs>>

RankJobs(a) ==
  /\ At(a, "rank") /\ Ready(a)
  /\ Resolve(a, proc[a].pay)
  /\ UNCHANGED <<docs, store, count, obs>>

(* A stage that finds no input document, or a job without its section,      *)
(* throws; so do its retries.                                               *)
StageThrows(a) ==
  /\ \/ At(a, "structure") /\ table = NoDoc
     \/ At(a, "assemble") /\ (table = NoDoc \/ decisions = NoDoc)
     \/ At(a, "dedup") /\ cache = NoDoc
     \/ (At(a, "filter") \/ At(a, "rank")) /\ ~Ready(a)
  /\ proc' = [proc EXCEPT ![a] = Idle]
  /\ UNCHANGED <<docs, store, count, obs>>

SyncDry(a) ==
  /\ At(a, "sync") /\ proc[a].dry
  /\ Resolve(a, proc[a].pay)
  /\ UNCHANGED <<docs, store, count, obs>>

(* SqliteConnector.syncJobs: one transaction of upserts by id. *)
SyncSqlite(a) ==
  LET p == proc[a].pay IN
  /\ At(a, "sync") /\ ~proc[a].dry /\ Connector = "sqlite"
  /\ pages' = [j \in Job |-> IF j \in p.jobs THEN 1 ELSE pages[j]]
  /\ Resolve(a, [p EXCEPT !.paged = p.jobs])
  /\ UNCHANGED <<docs, checkpoints, count, obs>>

SyncBegin(a) ==
  /\ At(a, "sync") /\ ~proc[a].dry /\ Connector = "notion"
  /\ proc' = [proc EXCEPT ![a].step = "pages", ![a].todo = proc[a].pay.jobs, ![a].acc = {}]
  /\ UNCHANGED <<docs, store, count, obs>>

(* notion syncJobs: a page is created for a job whose payload has none, and *)
(* updated otherwise.                                                       *)
SyncPage(a) ==
  /\ proc[a].step = "pages"
  /\ \E j \in proc[a].todo :
       /\ pages' = IF j \in proc[a].pay.paged THEN pages ELSE [pages EXCEPT ![j] = @ + 1]
       /\ proc' = [proc EXCEPT ![a].todo = @ \ {j}, ![a].acc = @ \cup {j}]
  /\ UNCHANGED <<docs, checkpoints, count, obs>>

(* A write that fails after the client's retries is passed over. *)
SyncPageFails(a) ==
  /\ "page" \in Faults /\ proc[a].step = "pages"
  /\ \E j \in proc[a].todo : proc' = [proc EXCEPT ![a].todo = @ \ {j}]
  /\ UNCHANGED <<docs, store, count, obs>>

(* Mutant of SyncEnd: pages that failed leave no record. *)
SyncEndSilently(a) ==
  LET p == proc[a].pay IN
  /\ proc[a].step = "pages" /\ proc[a].todo = {}
  /\ Resolve(a, [Without(p, p.jobs \ proc[a].acc) EXCEPT !.paged = proc[a].acc,
                                                         !.dropped = p.dropped])
  /\ UNCHANGED <<docs, store, count, obs>>

(* The sync stage drops, on record, the jobs the connector did not return. *)
SyncEnd(a) ==
  LET p == proc[a].pay IN
  /\ proc[a].step = "pages" /\ proc[a].todo = {}
  /\ Resolve(a, [Without(p, p.jobs \ proc[a].acc) EXCEPT !.paged = proc[a].acc])
  /\ UNCHANGED <<docs, store, count, obs>>

Body(a) ==
  \/ Reconcile(a) \/ Farm(a) \/ Source(a) \/ Compress(a)
  \/ StructureBegin(a) \/ StructureBatch(a) \/ StructureDecide(a) \/ StructureClear(a)
  \/ Assemble(a) \/ Filter(a) \/ Dedup(a) \/ RankJobs(a)
  \/ SyncDry(a) \/ SyncSqlite(a) \/ SyncBegin(a) \/ SyncPage(a) \/ SyncEnd(a)
  \/ StageThrows(a) \/ Checkpoint(a)

Next ==
  \/ \E resume, dry \in BOOLEAN :
       /\ resume => "resume" \in Options
       /\ dry => "dry" \in Options
       /\ StartRun(resume, dry)
  \/ \E k \in Position : StartStage(k)
  \/ \E a \in Actor : Body(a) \/ SyncPageFails(a) \/ AttemptFails(a) \/ Dies(a)

Spec == Init /\ [][Next]_vars

(* Every awaited call of a stage settles or is timed out, and the process   *)
(* is scheduled.                                                            *)
FairSpec == Spec /\ \A a \in Actor : WF_vars(Body(a))

----------------------------------------------------------------------------
(* Properties *)

DroppedOnRecord == UNION {c.pay.dropped : c \in checkpoints}

(* Reconcile and dedup keep a job from getting a second page in Notion,     *)
(* however runs fail and are started again or chained from stage commands.  *)
NoDuplicatePage == \A j \in Job : pages[j] <= 1

(* ... as long as no sync was left in the middle: no run makes one, nor     *)
(* does one stage command among them.  Two can: `stage assemble` in a new   *)
(* group takes the table of the last run, and `stage sync` after it skips   *)
(* the dedup.                                                               *)
DuplicateNeedsTornSync == ~torn /\ staged <= 1 => NoDuplicatePage

(* assemble.ts:25, core/jd/schema.ts:92: "the funnel can always answer why  *)
(* did this job disappear": when a run has passed, every job the API lanes  *)
(* emitted in it, and in the failed runs it resumed, has a page or a drop   *)
(* on record, while runs are all the user starts.  A dry run in between     *)
(* ends the claim: what it has brought to the end counts as complete.       *)
Accounted ==
  passed /\ ~Busy("run") /\ staged = 0 => emitted \subseteq InPages \cup DroppedOnRecord

(* The jobs assemble puts into a run are jobs that run was given: a resumed *)
(* or retried run never continues with the table of another, while runs are *)
(* all the user starts.                                                     *)
NoForeignJobs ==
  [][\A a \in Actor : At(a, "assemble") /\ proc'[a].step = "write" /\ staged = 0
       => proc'[a].pay.jobs \subseteq proc[a].pay.jobs \cup proc[a].pay.dropped]_vars

(* structure.ts: a retried attempt, or a resumed run, "resumes from the     *)
(* last completed batch instead of re-sending already-decided rows".        *)
NoResend == [][\A a \in Actor : proc[a].step = "batches" /\ proc'[a].step = "batches"
                 => (proc[a].todo \ proc'[a].todo) \cap partial = {}]_vars

(* ... and loses no answer: when structure is done, every row of its table  *)
(* the LLM answered in any attempt or run is among the decisions.           *)
NoAnswerLost ==
  \A a \in Actor : proc[a].step = "clear" => answered \cap table \subseteq decisions

(* run.ts:241: a resumed run takes the newest checkpoint there is, and      *)
(* starts at the stage after it, while runs are all the user starts.        *)
ResumesNewest ==
  [][~Busy("run") /\ Busy("run")' /\ proc'["run"].pos > 1 /\ staged = 0
       => proc'["run"].pay = newest.pay /\ proc'["run"].pos = newest.pos + 1]_vars

(* A run ends. *)
RunEnds == Busy("run") ~> ~Busy("run")

(* All the invariants: a second page needs a torn sync, every emitted job   *)
(* has a page or a drop on record, and no answer of the model is lost.      *)
StagesSound == TypeOK /\ DuplicateNeedsTornSync /\ Accounted /\ NoAnswerLost

(* A resumed run continues the newest checkpoint, with its own jobs.        *)
ResumeSound == NoForeignJobs /\ ResumesNewest
=============================================================================
