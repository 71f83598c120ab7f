------------------------------- MODULE JobStores -----------------------------
(***************************************************************************)
(* The two job stores behind the connector port and what a run, the        *)
(* cleanup routine and `migrate --apply` do to them: the Notion connector  *)
(* with its retrying client (src/adapters/db/notion), the SQLite connector *)
(* (src/adapters/db/sqlite), the mirror that pushes to the second what the *)
(* first has stored (src/adapters/db/mirror), src/routines/cleanup and     *)
(* src/cli/commands/migrate.ts.                                            *)
(*                                                                         *)
(* A request to Notion may be refused, be applied and yet answered with a  *)
(* 5xx, or outlive the caller who gave up on it.  The user edits tracking  *)
(* fields at any time.                                                     *)
(***************************************************************************)
EXTENDS Naturals, Sequences, FiniteSets

CONSTANTS
  Job, Nothing,
  MaxAttempts,     \* of NotionApi
  PageSize,        \* pages of one query answer
  PassedDays, UntouchedDays,   \* the archive policy
  MaxPages, MostRuns, LastDay, MaxEdits   \* bounds

VARIABLES
  pages,     \* Notion: the pages ever created, in order
  late,      \* Notion: requests nobody waits for any more
  table,     \* jobs.db: a row, with its tracking status, or Nothing, by job
  connector, \* profile.json: "notion", "sqlite" or "mirror" (sqlite, mirrored)
  today,
  task,      \* the run in progress: see NoTask
  mig,       \* the migrate command in progress: see NoMigration
  runs, edits,   \* counters of the bounds
  causes     \* observability: see NoCauses

storeVars == <<pages, late, table, connector, today, task, mig, runs, edits, causes>>

(* at: the step; via: the connector it was wired with; known: the cache;    *)
(* todo: jobs to push or pages to archive; req: the request being tried, or *)
(* Nothing; attempt: tries of it that failed; cursor: of the query.            *)
NoTask == [at |-> "idle", via |-> Nothing, known |-> {}, todo |-> {}, req |-> Nothing,
          attempt |-> 0, cursor |-> 0]
NoMigration == [at |-> "idle", cursor |-> 0, read |-> {}]

(* ghosts: pages of a job that Notion made and no caller was told of;       *)
(* revived: times an archived row was written again; missed: jobs that got  *)
(* a page while a migration was reading or after it; overtaken: pages and   *)
(* rows the user edited after a caller had read them and before it acted, or   *)
(* after a row was archived.                                                *)
NoCauses == [ghosts |-> [j \in Job |-> 0], revived |-> [j \in Job |-> 0],
             missed |-> {}, overtaken |-> {}]

StoresInit ==
  /\ pages = <<>> /\ late = {}
  /\ table = [j \in Job |-> Nothing]
  /\ connector = "notion"
  /\ today = 0
  /\ task = NoTask /\ mig = NoMigration
  /\ runs = 0 /\ edits = 0
  /\ causes = NoCauses

Live == {p \in DOMAIN pages : ~pages[p].archived}
Rows == {j \in Job : table[j] # Nothing}

(* Mutant of IsStale: whatever is not Passed counts as untouched. *)
IsStaleByAge(x) ==
  IF x.status = "Passed" THEN today - x.found > PassedDays
  ELSE today - x.found > UntouchedDays

(* isStale, of either connector: a day is the unit of both *)
IsStale(x) ==
  \/ x.status = "Passed" /\ today - x.found > PassedDays
  \/ x.status = "none" /\ today - x.found > UntouchedDays

----------------------------------------------------------------------------
(* Requests to Notion *)

(* What a request does once it arrives; buildAutomatedProperties writes no  *)
(* field of the user's.                                                     *)
Land(req) ==
  IF req.op = "create"
    THEN Append(pages, [job |-> req.job, status |-> "none", found |-> today, archived |-> FALSE])
    ELSE [pages EXCEPT ![req.page].archived = TRUE]

Noted(req, heard) ==
  IF req.op = "create"
    THEN [causes EXCEPT !.ghosts[req.job] = IF heard THEN @ ELSE @ + 1,
                        !.missed = IF req.job \in Rows \/ (mig.at = "idle" /\ connector = "notion")
                                   THEN @ ELSE @ \cup {req.job}]
    ELSE [causes EXCEPT !.overtaken = IF pages[req.page].status # req.seen THEN @ \cup {req.page} ELSE @]

Lands(req, heard) ==
  /\ req.op = "create" => Len(pages) < MaxPages
  /\ pages' = Land(req) /\ causes' = Noted(req, heard)

(* A request whose caller has given up arrives after all, or never. *)
Arrive ==
  \E req \in late :
    /\ late' = late \ {req}
    /\ \/ UNCHANGED <<pages, causes>>
       \/ Lands(req, FALSE)
    /\ UNCHANGED <<table, connector, today, task, mig, runs, edits>>

(* The request to try: one that is being retried, or the next in turn. *)
Requests ==
  IF task.req # Nothing THEN {task.req}
  ELSE CASE task.at = "push" -> {[op |-> "create", job |-> j] : j \in task.todo}
         [] task.at = "archive" /\ task.via = "notion" ->
              {[op |-> "archive", page |-> x.page, seen |-> x.seen] : x \in task.todo}
         [] OTHER -> {}

Remaining(req) ==
  IF req.op = "create" THEN task.todo \ {req.job} ELSE {x \in task.todo : x.page # req.page}

Over(req) == [task EXCEPT !.todo = Remaining(req), !.req = Nothing, !.attempt = 0]

(* withRetry on a 409, 429 or 5xx: again, or a SoftError, which the batch   *)
(* passes over.                                                             *)
Refused(req) ==
  IF task.attempt + 1 < MaxAttempts
    THEN [task EXCEPT !.req = req, !.attempt = @ + 1]
    ELSE Over(req)

(* Any other error ends the batch: a run on Notion fails with it, a mirror  *)
(* logs it and the run goes on to its routines, and the cleanup routine     *)
(* ends the run.                                                            *)
Thrown ==
  IF task.at = "push" /\ task.via = "mirror"
    THEN [NoTask EXCEPT !.at = "list", !.via = task.via]
    ELSE NoTask

stores == <<table, connector, today, mig, runs, edits>>

Acknowledged(req) ==
  /\ Lands(req, TRUE) /\ task' = Over(req)
  /\ UNCHANGED <<late, stores>>

Errs(req) ==
  /\ task' = Refused(req)
  /\ \/ UNCHANGED <<pages, causes>>
     \/ Lands(req, FALSE)
  /\ UNCHANGED <<late, stores>>

(* The 30 s deadline of an attempt, a network error, the mirror's budget or *)
(* the run's own abort: nobody listens any more.                            *)
Abandoned(req) ==
  /\ late = {}     \* bound: one request is late at a time
  /\ task' = Thrown /\ late' = late \cup {req}
  /\ UNCHANGED <<pages, causes, stores>>

----------------------------------------------------------------------------
(* A run *)

RunBegins ==
  /\ task.at = "idle" /\ runs < MostRuns
  /\ task' = [NoTask EXCEPT !.at = "cache", !.via = connector]
  /\ runs' = runs + 1
  /\ UNCHANGED <<pages, late, table, connector, today, mig, edits, causes>>

Batch(from) == {p \in Live : p > from /\ Cardinality({q \in Live : from < q /\ q < p}) < PageSize}
More(from) == \E p \in Live : p > from /\ p \notin Batch(from)
Last(from) == IF Batch(from) = {} THEN from ELSE CHOOSE p \in Batch(from) : \A q \in Batch(from) : q <= p

(* Mutant of NotCached: the jobs are compared with an empty cache. *)
NotCachedEver(known) == Job

(* What the dedup stage may let through. *)
NotCached(known) == Job \ known

(* queryDatabase: on to the next page of results, as long as there is one. *)
NextCursor(from) == IF More(from) THEN Last(from) ELSE 0

(* What has been read is what the step was for. *)
Read(known, todo, cursor) ==
  IF cursor # 0 THEN task' = [task EXCEPT !.known = known, !.todo = todo, !.cursor = cursor, !.attempt = 0]
  ELSE IF task.at = "cache"
    THEN \E new \in SUBSET NotCached(known) :
           task' = [NoTask EXCEPT !.at = "store", !.via = task.via, !.todo = new]
  ELSE \/ task' = [NoTask EXCEPT !.at = "archive", !.via = task.via, !.todo = todo]
       \/ task' = NoTask      \* dryRun

Query ==
  /\ task.at \in {"cache", "list"} /\ task.via = "notion"
  /\ LET got == Batch(task.cursor) IN
     Read(task.known \cup {pages[p].job : p \in got},
          task.todo \cup {[page |-> p, seen |-> pages[p].status] : p \in {q \in got : task.at = "list" /\ IsStale(pages[q])}},
          NextCursor(task.cursor))
  /\ UNCHANGED <<pages, late, stores, causes>>

QueryFails ==
  /\ task.at \in {"cache", "list"} /\ task.via = "notion"
  /\ task' = IF task.attempt + 1 < MaxAttempts THEN [task EXCEPT !.attempt = @ + 1] ELSE NoTask
  /\ UNCHANGED <<pages, late, stores, causes>>

(* listCacheEntries and listArchiveCandidates *)
Select ==
  /\ task.at \in {"cache", "list"} /\ task.via # "notion"
  /\ LET rows == {j \in Rows : ~table[j].archived} IN
     Read(rows, {[page |-> j, seen |-> table[j].status] : j \in {k \in rows : IsStale(table[k])}}, 0)
  /\ UNCHANGED <<pages, late, stores, causes>>

(* syncJobs: upsertJobs in one savepoint.  The mirror then pushes the same  *)
(* jobs to Notion, where none of them is known.                             *)
Store ==
  /\ task.at = "store"
  /\ task' = [task EXCEPT !.at = IF task.via = "sqlite" THEN "list" ELSE "push",
                        !.todo = IF task.via = "sqlite" THEN {} ELSE @]
  /\ table' = IF task.via = "notion" THEN table
              ELSE [j \in Job |-> IF j \notin task.todo THEN table[j]
                                  ELSE [status |-> IF table[j] = Nothing THEN "none" ELSE table[j].status,
                                        found |-> today, archived |-> FALSE]]
  /\ causes' = IF task.via = "notion" THEN causes
               ELSE [causes EXCEPT !.revived = [j \in Job |->
                       IF j \in task.todo /\ table[j] # Nothing THEN @[j] + 1 ELSE @[j]]]
  /\ UNCHANGED <<pages, late, connector, today, mig, runs, edits>>

Pushed ==
  /\ task.at = "push" /\ task.todo = {}
  /\ task' = [NoTask EXCEPT !.at = "list", !.via = task.via]
  /\ UNCHANGED <<pages, late, stores, causes>>

(* markArchived, in one savepoint *)
MarkArchived ==
  /\ task.at = "archive" /\ task.via # "notion"
  /\ LET ids == {x.page : x \in task.todo} IN
     /\ table' = [j \in Job |-> IF j \in ids THEN [table[j] EXCEPT !.archived = TRUE] ELSE table[j]]
     /\ causes' = [causes EXCEPT !.overtaken = @ \cup {x.page : x \in {y \in task.todo : table[y.page].status # y.seen}}]
  /\ task' = NoTask
  /\ UNCHANGED <<pages, late, connector, today, mig, runs, edits>>

Archived ==
  /\ task.at = "archive" /\ task.via = "notion" /\ task.todo = {}
  /\ task' = NoTask
  /\ UNCHANGED <<pages, late, stores, causes>>

TaskDies ==
  /\ task.at # "idle" /\ task' = NoTask
  /\ UNCHANGED <<pages, late, stores, causes>>

----------------------------------------------------------------------------
(* migrate --apply, which takes no run lock *)

Migrate ==
  /\ mig.at = "idle" /\ connector = "notion"
  /\ mig' = [NoMigration EXCEPT !.at = "read"]
  /\ UNCHANGED <<pages, late, table, connector, today, task, runs, edits, causes>>

(* exportForMigration *)
Export ==
  /\ mig.at = "read"
  /\ LET next == NextCursor(mig.cursor) IN
     mig' = [at |-> IF next = 0 THEN "jobs" ELSE "read", cursor |-> next,
             read |-> mig.read \cup {[page |-> p, job |-> pages[p].job, status |-> pages[p].status, found |-> pages[p].found]
                                     : p \in Batch(mig.cursor)}]
  /\ UNCHANGED <<pages, late, table, connector, today, task, runs, edits, causes>>

FirstPage(rows) == CHOOSE x \in rows : \A y \in rows : x.page <= y.page

(* importJobs: a job already there, or read before, is left as it is. *)
ImportJobs ==
  /\ mig.at = "jobs"
  /\ table' = [j \in Job |->
       LET rows == {x \in mig.read : x.job = j} IN
       IF table[j] # Nothing \/ rows = {} THEN table[j]
       ELSE [status |-> "none", found |-> FirstPage(rows).found, archived |-> FALSE]]
  /\ mig' = [mig EXCEPT !.at = "tracking"]
  /\ UNCHANGED <<pages, late, connector, today, task, runs, edits, causes>>

(* Mutant of ImportTracking: the tracking of the first page of a job only.  *)
ImportTrackingOfFirst ==
  /\ mig.at = "tracking"
  /\ table' = [j \in Job |->
       LET rows == {x \in mig.read : x.job = j} IN
       IF rows = {} \/ table[j].status # "none" THEN table[j]
       ELSE [table[j] EXCEPT !.status = FirstPage(rows).status]]
  /\ mig' = [mig EXCEPT !.at = "flip"]
  /\ UNCHANGED <<pages, late, connector, today, task, runs, edits, causes>>

(* importTracking: the first page of a job that has any. *)
ImportTracking ==
  /\ mig.at = "tracking"
  /\ table' = [j \in Job |->
       LET rows == {x \in mig.read : x.job = j /\ x.status # "none"} IN
       IF rows = {} \/ table[j].status # "none" THEN table[j]
       ELSE [table[j] EXCEPT !.status = FirstPage(rows).status]]
  /\ mig' = [mig EXCEPT !.at = "flip"]
  /\ UNCHANGED <<pages, late, connector, today, task, runs, edits, causes>>

(* profile.json says sqlite from now on; mirror if settings.notion has it.  *)
Flip ==
  /\ mig.at = "flip"
  /\ connector' \in {"sqlite", "mirror"}
  /\ mig' = NoMigration
  /\ UNCHANGED <<pages, late, table, today, task, runs, edits, causes>>

(* A failed query, the 300 s deadline, no --apply, or the process dies. *)
MigrationEnds ==
  /\ mig.at # "idle" /\ mig' = NoMigration
  /\ UNCHANGED <<pages, late, table, connector, today, task, runs, edits, causes>>

----------------------------------------------------------------------------
(* The user *)

Edited(was) == IF was = "none" THEN {"Passed", "Applied"} ELSE {"Applied", "Passed"} \ {was}

(* In Notion, or on the board: a status is set or changed. *)
EditPage ==
  /\ edits < MaxEdits /\ edits' = edits + 1
  /\ \E p \in Live : \E s \in Edited(pages[p].status) :
       /\ pages' = [pages EXCEPT ![p].status = s]
       /\ causes' = [causes EXCEPT !.overtaken =
            IF mig.at = "idle" /\ connector = "notion" THEN @ ELSE @ \cup {p}]
  /\ UNCHANGED <<late, table, connector, today, task, mig, runs>>

EditRow ==
  /\ edits < MaxEdits /\ edits' = edits + 1
  /\ connector # "notion"
  /\ \E j \in Rows : \E s \in Edited(table[j].status) :
       /\ table' = [table EXCEPT ![j].status = s]
       /\ causes' = IF table[j].archived THEN [causes EXCEPT !.overtaken = @ \cup {j}] ELSE causes
  /\ UNCHANGED <<pages, late, connector, today, task, mig, runs>>

(* Bound: midnight falls between two runs. *)
NextDay ==
  /\ task.at = "idle" /\ mig.at = "idle"
  /\ today < LastDay /\ today' = today + 1
  /\ UNCHANGED <<pages, late, table, connector, task, mig, runs, edits, causes>>

StoresNext ==
  \/ Arrive
  \/ \E req \in Requests : Acknowledged(req) \/ Errs(req) \/ Abandoned(req)
  \/ RunBegins \/ Query \/ QueryFails \/ Select \/ Store \/ Pushed \/ MarkArchived \/ Archived \/ TaskDies
  \/ Migrate \/ Export \/ ImportJobs \/ ImportTracking \/ Flip \/ MigrationEnds
  \/ EditPage \/ EditRow \/ NextDay

StoresSpec == StoresInit /\ [][StoresNext]_storeVars

----------------------------------------------------------------------------
(* Properties *)

(* A job has one page in Notion, and one more for each page whose creation  *)
(* nobody heard of, each time an archived row was synced (and mirrored)     *)
(* again, and if it got a page while a migration was under way.             *)
OnePageUnlessCause ==
  \A j \in Job :
    Cardinality({p \in Live : pages[p].job = j}) <=
      1 + causes.ghosts[j] + causes.revived[j] + (IF j \in causes.missed THEN 1 ELSE 0)

(* The cleanup routine archives no job the user is working on, unless the   *)
(* user took it up after the routine had read it.                           *)
TrackedSpared ==
  /\ \A p \in DOMAIN pages :
       pages[p].archived /\ pages[p].status = "Applied" => p \in causes.overtaken
  /\ \A j \in Rows :
       table[j].archived /\ table[j].status = "Applied" => j \in causes.overtaken

(* Once the profile is on SQLite every page of Notion has its row, and one  *)
(* with tracking a row with tracking, except for what was made or edited    *)
(* there while the migration was reading or later.                          *)
MigrationComplete ==
  connector # "notion" =>
    \A p \in Live :
      LET j == pages[p].job IN
      /\ j \in Rows \cup causes.missed
      /\ pages[p].status # "none" /\ p \notin causes.overtaken /\ j \in Rows \ causes.missed
           => table[j].status # "none"

(* All of it: one page to a job, followed jobs stay, nothing is left out of a migration. *)
PagesSound == OnePageUnlessCause /\ TrackedSpared /\ MigrationComplete
=============================================================================
