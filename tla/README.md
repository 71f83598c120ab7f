# Job Bunny: TLA+ models and proofs

Job Bunny finds job postings, structures them with an LLM, filters and ranks
them, and writes them to Notion or to its own SQLite board. It runs on one
machine, for several profiles, from three kinds of processes that share files
and databases and nothing else:

* `jobbunny run` (and `run --resume`, `run --dry-run`, `stage <name>`): one
  pipeline of one profile, then it ends;
* the scheduling daemon (`jobbunny serve start`): ticks every 30 seconds,
  decides which scheduled slots are owed, and spawns `jobbunny run` children;
* the board server: a local HTTP server with a UI, which edits profiles, queues
  run requests and starts or stops the daemon.

Whatever one of them decides may be stale when it acts. That, crashes and
restarts, and the local calendar are what makes the system hard; those are what
the modules here are about. Paths below are relative to `src/` of the
repository, those that begin with `ui/` to its root.

## 1. Inventory

| component | state it keeps | operations | who touches it | what makes it correct |
|---|---|---|---|---|
| Run lock (`ops/scheduling/run_lock.ts`) | one lock file | acquire (create, read, steal), release | every `jobbunny run` | at most one pipeline; a release removes only its own file; acquire always answers |
| Scheduling daemon tick (`ops/daemon/daemon.ts`, `gate/`, `core/schedule`) | ledger, declines, throttle stamps in the pidfile; `deferred_slots`, `runs` tables | tick: intents, owed slots, gate, spawn, record deferrals, same-day summary and catch-up, retrospective sweep | daemon, its children, the user's own runs | a slot is spawned once, in its window, or reported as missed; one catch-up a day; nothing undelivered is closed |
| Daemon's alert about newer databases (`ops/daemon/alert`) | `degraded` and three stamps in the pidfile | per tick: note, look for a notifier, send, stamp | daemon | delivered once, in the end, and tried no oftener than hourly |
| Daemon lifecycle (`ops/daemon/pidfile.ts`, `supervise/`, `cli/commands/serve`, `cli/wire/board_daemon_control.ts`) | the daemon pidfile with pid, heartbeat and `inFlight` | serve start (parent, child), steal, heartbeat, spawn/exit of a child, serve stop | terminal, board, daemon | one daemon; stop finds it and its child; the board never kills itself |
| Run requests (`app/features/intents`, `adapters/db/sqlite/intents`, `runs`) | `run_intents`, `runs` rows | POST, DELETE, claim, spawn, attach, row start/heartbeat/end | board, daemon, run | one open request per profile; taken or cancelled, not both; spawned once |
| Pipeline (`pipeline/runner`, `pipeline/stages`, `cli/commands/run.ts`, `stage.ts`) | checkpoints, the stages' documents (`api_seen`, cache, table, partial, decisions), pages | ten stages, retry/timeout guard, resume, dry run, single stage | run and stage command | no duplicate page, no job without an outcome, nothing paid for twice, resume continues the right thing |
| LinkedIn lane (`adapters/lanes/linkedin`) | breaker file shared by the profiles; done searches of the day (`extract_resume.json`); `captures.json` | a fire: breaker, probe, searches, pages, cards, captures, canary, verdict | pipeline's farm stage | a throttled session is left alone; a search passed over as done contributes its jobs; no captured job is lost; no job opened twice in a fire |
| Chrome provider (`adapters/browser/cdp-chrome`) | ownership pidfile, one Chrome process, its saved tabs | probe, prove, attach, recycle, launch, give up, close | farm stage, stage commands, doctor | never signals a Chrome it does not own; what it leaves is on record; every launch settles |
| API lanes and company registry (`adapters/lanes/greenhouse`, `keka`, `core/company`, `pipeline/stages/source.ts`) | registry document with probe states; ledger of emitted ids | probe, fetch boards, count failures, two writes at the end | source stage | a dead board is retired only for its own failures; probes are capped |
| Notion connector (`adapters/db/notion`) | remote pages | sync, query, archive, retry under a deadline, migrate's export | reconcile, dedup, sync, migrate | a retry does not repeat a write that was applied |
| Mirror connector (`adapters/db/mirror`) | none of its own | local write, then push | sync, archive | a failed push loses nothing local |
| SQLite stores (`adapters/db/sqlite`) | all tables; schema version | transactions of each store, migrations, prunes | everyone | savepoints whole or not at all; a row in use is not pruned |
| LLM provider (`adapters/llm/claude-cli`) | a child process per call | call, abort, parse | structure stage | an aborted call settles |
| Notifications (`adapters/notify/telegram`, `cli/commands/run_failure_notice.ts`) | the last failure notice | send, once-a-day failure notice | daemon, run | a failure is kept back only if it was told that day |
| Pure core (`core/filter`, `dedup`, `rank`, `company`, dates, personas) | none | decisions over jobs | stages | the early gate never drops what the full one keeps; one of each duplicate is kept; a score is a job's own |
| Profile configuration (`core/config`, sqlite config store) | config documents, legacy files | load, save, cut over, detect divergence | board, every command | one source of truth |
| Board server (`app/server`, `app/features`, `cli/wire/board*.ts`) | memoised store handles, profiles being removed | HTTP routes | the user's tabs | an answer is true; handles are on the right files |
| Board UI, settings (`ui/src/features/settings`) | drafts, query cache | load, edit, save, raw editor, navigation guard | one tab; other tabs and the CLI beside it | what was typed for a profile is stored in it, once, and is not lost silently |
| Board UI, runs and run control | query cache, polling timers | poll, Run now, Cancel | one tab | a tab that has stopped polling is up to date |
| Board UI, operate | cached rows | Skip next, Pause, Pause all, secrets, autostart | one tab beside the daemon | a button's promise is kept by the daemon |
| Board UI, triage, tracker and job panel | cached lists and details, optimistic patches | decide, set a field, type, roll back | one tab, another window | a text goes to its own job; what is shown is stored |
| Board UI, setup wizard | draft in browser storage | six steps, reload, return | one tab, other tools | never writes over foreign documents; ends as answered |
| Board UI, analytics and shared widgets | none | render | - | - |
| Doctor, observability | none that is read back | checks, logs, reports | user | - |
| Cleanup routine (`routines/cleanup`) | deletes runs, checkpoints; archives jobs | prune, archive | end of a run, command line | nothing in use is removed |
| Profile life and removal (`cli/commands/profile.ts`, `cli/wire/board_remove.ts`, `ops/profile_remove`) | the profile's directory, tombstones | create, build, lift, remove | board, command line, runs | removed only when idle, and stays removed |
| Release command (`cli/commands/release`) | git and GitHub | resumable steps to the pushed tag | maintainer, others on GitHub | the tag is on the merged release, what is merged was checked |
| Setup, secrets, autostart, data home | `.env`, login item, the data home | save a token, enable, migrate-home | board, terminal | a saved token reaches its readers; a move replaces nothing |

**How they interact.** A run takes the run lock for its whole life and writes
its row only after its preflight, so between "spawned" and "has a row" nobody
can see it. The daemon knows its children by process, its own history by a
ledger in the pidfile (emptied by every restart), and everything else by the
`runs` table, which is dated in UTC while the schedule is local. The board
starts the daemon inside its own process and therefore lends the pidfile its own
pid until the daemon's first write. Requests pass through the `run_intents`
table. The board's UI polls, caches and writes whole documents back, so every
button races with other tabs, with the command line and with the daemon. The
stages of a run hand a payload from one to the next through
checkpoints, but several also read documents an earlier run may have left.

**Where it is hard.** Check-then-act on files (steal, release, stop); two system
calls where one is meant (create and write, spawn and note); awaits of hours
inside a tick; a crash between a decision and its record; the daemon replaced
while its child runs on; sends that fail; retries and resumes over documents
that outlive the run; requests to Notion that are applied and yet answered with an
error; answers and saves that cross in the browser; whole-document writes over
somebody else's; local time against UTC. `PROJECT.json` lists each of these
at the line where it bites.

## 2. Modules

`MC*.tla` modules extend a model for TLC (symmetry sets, negative numbers and
functions that a cfg cannot write) or bundle several. Definitions named "Mutant of X" are
deliberate bugs that replace X to see that the property notices; no specification
uses them.

### RunLock

One process per `jobbunny run`; a step is one file-system call. `file` is the
lock file (creator, whether the record is already written, whether it is over
four hours old); `pc` and `attempt` follow `acquireRunLock`, whose two rounds of
create / read / judge / unlink are `CreateFile`, `CreateFails`, `Refuse`,
`JudgeStale`, `Steal`, and the last look `LastRead`. `Finish`, `ReleaseRead`,
`ReleaseUnlink` are the `finally` of `run.ts`. Faults: a crash at any step, a
torn create (`wx` creates, then writes), ageing, a dead holder's pid given to an
unrelated process. `causes` remembers the unsound steps taken, so that the
safety property can say precisely when the exclusion can be lost.

### DaemonTick

One daemon over several days, in units of local time; slots, grace window and
day length are constants. A tick (`runOwedBatch`) is a sequence of steps because
it awaits: `Tick` captures `now`; `RunIntent` handles board requests; `Scan`
derives owed (`OwedAt`) and expired (`ExpiredAt`) slots and the gate's decision;
`Decline`, `PassOver`, `Launch` handle each owed slot (with the ledger written
first, and the re-validation after a long child); `RecordDeferrals`,
`SameDaySummary`, `NoCatchup`, `LaunchCatchup` are the sweep;
`BeginRetro`, `Retro`, `FinishBatch` the retrospective sweep. `RunRow` and
`RunEnds` belong to the child or the user's run, `run` being whoever is past the
run lock. Environment: time, a suspended host, a lost pidfile, an unreachable
network, failing sends, `Stop` (which kills the awaited child) and `Crash`
(which leaves it running). The once-a-day schema alert, the 60-minute cache of a
gate decision made for a catch-up only, and failing SQL writes are left out.

### ServeLifecycle

`serve start` (parent and child), the 35 s wait for a stale but living pid, the
unconditional unlink, the two-second confirmation, the daemon's heartbeat and
the spawn / note / reap of a child, and `serve stop` from a terminal or from the
board (`ReadPidfile(x, board)`). Of the heartbeat only "over five minutes old"
and "changed since I looked" are kept. Faults: crash, a spawn that throws, a
stalled daemon, a slow boot, a process that survives SIGKILL.

### RunIntents and IntentPromise

`IntentPromise` is what `ports/run_intents.ts` promises: at most one open
request per profile, each open request is taken or dropped once, each taken one
starts at most once. `RunIntents` is the code: POST as guard and request (an
await lies between), DELETE as read and conditional update, the daemon's list /
claim / spawn / wait / attach, the run's row, its heartbeat and derived status.
`Promise` instantiates the first with the refinement mapping and `PromiseKept`
is checked as a property of the second and proved in `RunIntentsProofs`.

### Pipeline

A run and a stage command over the shared documents of one profile. A payload is
the jobs and what was done to them (structured, paged, dropped on record). Each
stage is one step per write or awaited call: structure and Notion's sync are
several. `AttemptFails` is the guard's verdict (throw, stall or timeout; retry
or fail), `Dies` the end of the process. `StartRun` and `StartStage` seed from
the checkpoints as the code does: `LatestGroup` by name, `LatestIn` by position.
What filter, dedup and rank compute of a job is not modelled; which jobs they
keep is (`Unwanted`, the cache).

### LinkedInLane

One profile's fires (`source()` of `lane.ts`), one after another, for the run
lock keeps them apart. `breaker`, `resume` and `captures` are on disk; `done`,
`jobs`, `processed` and the counters are the fire's own. `FireSkipped`,
`FireStarts` (with `Rescan`) and `Launch` are the start; `ProbeEndsFire`,
`ProbeFindsNothing`, `ProbeOpens` and `ProbeKeeps` the half-open probe; `NextUrl`,
`PageShows`, `PassOver`, `CaptureCard`, `MissCard`, `WithheldCard`, `PageEnds` and
`UrlEnds` the three nested loops with a step for each write; `Canary`, `Sound` and
`Finish` the verdict. Time is the UTC date and whether the breaker's four hours
are over. Faults: a death anywhere (`Dies`), failing writes and unreadable
documents (`"disk"`), an edit of the saved searches. Since the page scripts'
answers are any choice, what they compute is not modelled. `opened`, `harvest`, `owed` and
`causes` only observe. The `finally` that closes the browser is taken to
succeed, and a breaker file that cannot be read counts as absent, as the code
says it shall.

### DriftAlert

The daemon's one alert about databases newer than its build. `Track` notes the
degraded profiles, `Look(p)` asks the profiles in order for a notifier, `Send(p)`
sends and stamps. Time is the hours since the last failure and the last try;
`Change` and `Restart` are databases upgraded or restored, notifiers added or
broken, and a new daemon with an empty pidfile; a pidfile write may fail.

### ChromeProvider

Two processes that call `launch()` and `close()` over one debugging port, one user
data dir and one ownership pidfile. A step is one probe, file call, signal or
awaited answer: `Probe`, `Prove`, `ReadPidfile`, `ClearSession`, `Spawn`, `Record`,
`Connect`, `GiveUp`, `Close` and the kill (`KillTerm`, `KillWait`, `RemoveRecord`).
Chromes are numbered pids: starting, listening, mute or dead, of our dir or a
foreign one. A behaviour may meet one of `ProviderCases`: a user's Chrome, the
keep variable, a crash, a slow start, a failing record, a reused pid, a spawn
without a pid. Clocks are left out: each bounded wait may end at any time.

### JobStores

The Notion connector with its retrying client, the SQLite connector and the mirror,
under a run's query and sync, the cleanup's archiving and `migrate --apply`. A
request may be refused, applied and acknowledged (`Acknowledged`), applied and
answered with an error (`Fails`), or given up and applied later (`Abandoned`,
`Arrive`). The user edits pages and rows at any time. `causes` counts the pages
nobody heard of, rows revived, and what crossed a migration.

### CompanyRegistry

The source stage with its API lanes: `BeginRun` copies the registry and the ledger of
emitted ids, `NextLane`, `StartProbe`, `AnswerProbe`, `FetchBoard`,
`BudgetExpires`, `EndLane` work on the copies, `WriteRegistry` and `WriteSeen` are the two
writes at the end, and `Abort` may come anywhere. What a job board answers is any
choice; `Board` says what each lane makes of it.

### JobDecisions

The card gate, the filter rules, dedup and the score as the stages run them, job by
job, and again by `jobbunny stage`. Texts are tokens as the normalisers leave
them. Jobs, filters and preferences are inputs (`MCStores` enumerates 3456
triples for dedup and filters by postings for the rest).

### Retention, FailureNotice

`Retention`: the two prunes of runs and checkpoints, called at the end of a run and
by hand, beside a run and across midnight, and the board's preview of an unsaved
filter rule against a recent run (edits, debounce, answers out of order).
`FailureNotice`: what a failing run tells, with the record of the last notice
(`Action`, `Again`), the two steps notify and write, lost notices, unread records and
deaths between.

### ProfileLife

A profile's directory: created, built, opened by path (an open makes a missing
one), lifted from its legacy file, removed by the board (checks, rename to a
tombstone, delete) or by `profile remove --force`. A directory has a number, so that
a memoised handle can be seen to be on the files of an earlier one. A request is
admitted and served in two steps, for the handlers await in between.

### HomeMove, Release, MachineSetup

`HomeMove`: `migrate-home --apply`: one look at the destinations, then rename by
rename, stopped anywhere and called again, beside a board and a run.
`Release`: each step of `jobbunny release` from `Preflight` to `PushTag`, every call
resuming from what git and GitHub show, others pushing, merging and closing.
`MachineSetup`: `.env` as its list of assignments, who inherits which
environment, crossing saves, hand edits; the login item and the switch that shows it.

### SettingsDesk, SearchUrls

`SettingsDesk`: one tab on two profiles' documents: the effects of a commit of React
(`Commit`), GET and PUT as two events each (`Fetch`, `Fetched`; `StorePut`,
`AnswerPut`), the save of one or two documents, the navigation guard and its dialog, the raw
editor, the back button, and another writer. A section is mounted anew for every visit and for every profile
(`Mounted`), while its saves go on. A field's value says for which profile and by which edit
it was entered. `SearchUrls`: the list of LinkedIn searches as the normaliser,
the form, `add-url` and the lane read the same text.

### RunDesk, ScheduleDesk, JobDesk, SetupWizard

`RunDesk`: the polls of runs, requests and the newest run's detail, when they stop,
focus, Run now and Cancel. `ScheduleDesk`: Skip next, Pause, Pause all as read and
write-back of a whole document, against the daemon's tick that works through an
older reading. `JobDesk`: optimistic patches with roll-back, list and detail
caches, the selection and the text being typed. `SetupWizard`: six steps of
requests, the guard over foreign documents, the stored draft, reload, return and
failing requests.

### MCServices, MCStores, MCDesk, MCLifecycles, MCRunIntents

Each bundles components that share no step, so that one run checks them all:
`part` (`of` in `MCLifecycles`) says which component a behaviour is of, the initial state
chooses it. The components are extended, with their own variables and constants:
`DriftAlert` and `ChromeProvider`; `JobStores`, `CompanyRegistry`, `JobDecisions`, `HomeMove`,
`FailureNotice` and `Release`; `Retention`, `ScheduleDesk`, `JobDesk`, `SearchUrls` and `SettingsDesk`;
`ServeLifecycle`, `ProfileLife`, `SetupWizard` and `MachineSetup`; `RunIntents` and `RunDesk`. A component
may have several parts, with bounds that favour different behaviours; those of a
component differ by a condition on the state a step leads to (`SettingsBounds`, `ScheduleBounds`,
`JobBounds`, `WizardBounds`, `DeskBounds`). What is not of the part stays as it began, so
no behaviour of one part can repair or hide one of another. Most of these component modules end in a
conjunction "All of it" of their type invariant and their properties, which the bundle
checks under the same name.

## 3. Runs

A run's properties are conjunctions of the ones their modules state and comment
one by one:

* `LockSound`: `TypeOK`, `ExclusionUnlessCause`, `NoLeak`. `DaySound`: `TypeOK`,
  `LaunchedXorDeferred`, `AccountedToday`. `LaunchSound`: `NoDoubleLaunch`,
  `LaunchWithinWindow`, `NotSuppressed`. `RetroSound`: `ClosedForAReason`,
  `PastDatesRetried`, `OneCatchupPerDay`. `DaemonsSound`: `TypeOK`,
  `OneDaemonUnlessCause`, `FindableUnlessCause`, `StopCompleteUnlessCause`. `StopsSound`:
  `BoardStopSparesBoard`, `RefusedMeansRunning`. `IntentsSound`: `TypeOK`,
  `SpawnedOnce`, `NoSharedRun`. `LaneSound`: `TypeOK`, `LeftAlone`,
  `SkippedContributes`. `ResumeSound`: `NoForeignJobs`, `ResumesNewest`. `StagesSound`: `TypeOK`,
  `DuplicateNeedsTornSync`, `Accounted`, `NoAnswerLost`;
* `BrowserSafe`: `SparesForeign`, `OnRecordUnlessLost`, `AttachedOurs`, `SessionSpared`.
  `AlertSound`: `OneAlert`. `PagesSound`: `OnePageUnlessCause`, `TrackedSpared`,
  `MigrationComplete`. `RegistrySound`: `LockoutEarned`, `ProbesCapped`. `DecisionsSound`:
  `CardGateSound`, `OneOfEachKept`, `ScoreFair`. `CleanupSound`: `LiveSpared`,
  `PreviewOfDraft`. `NoticeSound`: `KeptBackWasTold`, `CountedInRow`. `LifeSound`: `BuriedIdle`,
  `MadeOnPurpose`, `HandlesCurrent`. `MoveSound`: `NothingReplaced`, `RerunAccepted`.
  `ReleaseSound`: `TaggedAsMerged`, `MergedChecked`. `MachineSound`: `SavedEverywhere`,
  `SwitchTrue`. `SettingsSound`: `OwnProfile`, `LostNeedsCause`, `DroppedNeedsCause`,
  `CleanIsStored`. `RunsSound`: `UpToDateUnlessCause`. `ScheduleSound`: `SkipHonoured`.
  `JobsSound`: `OwnJob`, `ShownIsStored`. `WizardSound`: `BlockedNeedsCause`,
  `FinishedAsAnswered`; with the component's type invariant where it has one. `StepsSound` of `MCLifecycles`:
  `NeverClobbers`, `RunUsesSaved`; of `MCDesk`: `PauseHonoured`, `StoredForward` and `LinksKept`.

| run | checks | instance | shows |
|---|---|---|---|
| `run_lock` | `LockSound`, `ReleaseOwn`, `AcquireTerminates` | 3 processes, all faults, weak fairness | the lock is lost only through a torn create, a steal of the wrong file, an aged record of a live process, or the final "nobody holds it" |
| `daemon_launch` | `DaySound`, `LaunchSound` | 1 profile, 2 overlapping slots, one day of 4 units, 2 daemon starts, 1 user run or request; sleep, network, lost pidfile, crash | every slot is spawned once in its window or accounted for |
| `daemon_days` | `RetroSound`, `NoRerun`, `BatchCompletes` | 1 profile, 1 slot, 3 days of 2 units, 2 daemon starts, 1 user run; failing sends | the sweeps over days and a restart |
| `daemon_utc_rerun` | `NoRerun` | host west of UTC | **violated**: slot run twice |
| `lifecycles` | `DaemonsSound`, `LifeSound`, `WizardSound`, `MachineSound`, `StopsSound`, `StepsSound` | a start from the board, one from a terminal, one stop from either; all faults. Apart from it a profile: 2 directories, 1 request at a time, 1 document saved or intent posted, 1 failing rename or dead board; and the parts below | the named races are the only ways to a second, lost or surviving daemon, and to a profile buried in use or made again; the wizard ends as answered; a saved token reaches its readers |
| `intents` | `IntentsSound`, `RunsSound`, `PromiseKept` | 3 requests, 2 runs, 2 daemon starts, crashes. Apart from it the page, daemon running or stopped: two runs, or one run and a request, or one run with a failing request and silent processes | the request table implements the promise; a tab that has stopped polling is up to date |
| `pipeline_runs` | `ResumeSound`, `RunEnds` | 2 jobs, 3 runs, SQLite, failures and deaths, weak fairness | resume continues the newest checkpoint with its own jobs |
| `pipeline_stages` | `StagesSound`, `NoResend` | 2 jobs, 2 runs and a stage command, Notion, resume and dry; failures, omitted answers, failing pages | no answer lost or paid twice, every job has an outcome |
| `linkedin` | `LaneSound`, `LostNeedsCause`, `OpenedOnce` | 2 searches of up to 2 pages, 2 jobs, breaker at 2 shells, 3 fires over 2 dates; deaths together with failing writes or with edits | the throttle is respected, done marks and captures stay together, the two ways to lose a capture are the only ones |
| `services` | `BrowserSafe`, `AlertSound`, `LaunchSettles`, `AlertDelivered` | 2 processes, 3 Chromes, each of the seven cases; 2 profiles, 3 changes, 1 failing write, interval of 1 hour | foreign browsers are spared, what is left running is on record, a launch settles; the alert is sent once, and in the end |
| `stores` | `PagesSound`, `RegistrySound`, `DecisionsSound`, `NoticeSound`, `MoveSound`, `ReleaseSound` | the parts below | what is stored stays right under retries, crossings, stops and faults |
| `desk` | `SettingsSound`, `SavedIsRead`, `ScheduleSound`, `JobsSound`, `CleanupSound`, `StepsSound` | the parts below | what a tab shows is stored, what it writes goes where it was meant, but for the causes named |

Parts of `stores`: *jobs* (JobStores: 2 jobs alike, 2 runs, 1 edit, 2 pages, 2 days, two tries
a request, pages of one); *registry* (2 companies, one of them curated, 2 lanes, 1 probe a run, 4 days, any
number of runs); *decisions* (three jobs that may be each other's twins, and pairs of
jobs under every combination of rule and severity); *notice* (2 kinds of
failure, a day of 2 hours, 4 hours, 3 runs in a row, 2 faults);
*move* (2 profiles, 2 calls, 2 writes, 1 stop); *release* (4 calls, 3 moves of
others).

Parts of `lifecycles`, beside the two named: *wizard* (2 answers and another tool), *wizard again* (1
answer, another tool, reloaded and returned to), *wizard faults* (2 answers, a failing request, a second
visit); *machine* (2 keys, four texts of `.env`, 2 writes, 1 failure).

Parts of `desk`: *settings* (2 profiles, one form, another writer), *settings jobs* (the form
that takes its answer in, a failing save), *settings pair* (two sections over one document),
*settings raw* (the raw editor, and the section "Where jobs come from" after it); in each 2 edits, 2 saves
and up to 2 changes of place; *urls*; *schedules* (2 profiles, 2 presses),
*schedule* (one of two profiles while the other is paused, 3 presses, one of which may be a failing request); *job* (edits of
one job, 2 values typed, a failing request) and *jobs* (2 jobs, 1 value typed); *cleanup* (2 runs, 2 UTC days, settings of 0 and 1 days, 1 edit, 1 fault).

**Bounds, and why they are enough.** Three lock processes are needed for a steal
to hit a third one's fresh file; a fourth adds only more of the same. The daemon
needs two slots whose windows overlap (one run may serve both) and a day with
room before and after; the sweeps need a third day, because "every earlier day"
and "yesterday" only differ then. Two daemon starts give one restart, one user
run suffices to occupy the lock. Two starts and one stop are what every lifecycle
race of the code needs. Two jobs, one from a farming lane and one from an API
lane, take the two different paths of a job; three runs are a failure, a failing
resume and its resume. Two searches and two jobs let a job be shown by both, by
two pages of one, and by the probe; two shells trip the breaker across the border
of two searches as three do in the code; a fire that dies, the one that
takes its documents over and the one after it are three fires. Three Chromes are
the user's or an orphan and one for each process. The browser's parts need two of
whatever can cross: two edits of one field, two saves, two profiles or sections to
go between, and one event from elsewhere; each `cause` a property names is reached in one of
them, and each property is broken by a small change of the code it is about.
Each bound is a constant named in its module.

**Deadlock** is not checked: processes end, and every bound is reached.

**Fairness.** `RunLock`: a process inside acquire or release is synchronous code
and goes on unless killed; nobody must start a run, and a pipeline is not
obliged to end here. `DaemonTick`: the event loop runs the continuations of a
batch, and a child ends because the supervisor's backstop kills it after the run
cap plus five minutes. `Pipeline`: every awaited call of a stage settles or is
timed out by the guard. `ChromeProvider`: every wait of a process inside `launch`
or `close` is bounded by a timeout of its own, so its next step comes; nothing is
assumed of the browsers. `DriftAlert`: the daemon ticks while it is up, and the hours of a
waiting retry pass. No fairness is assumed of users or faults.

## 4. What is proved

Each theorem holds for every value of the constants that the module's assumption
admits; these only say what is a number, that "none" is none of the values, how
lanes are wired, and that the retry throttle is at most a day. Where a theorem has a
hypothesis of its own, it says so, and the property is false without it.

`RunKeepingProofs`, of the lock, for any number of processes and any set of faults:

* `LockHolds`: `Spec => []LockSound`, from three parts. `TypeInvariant`.
  `ExclusionHolds`: `ExclusionUnlessCause` alone is not inductive: that two
  processes are not in the pipeline together says nothing about one that is about
  to be. `ExclusionInv` adds that, while no cause is recorded, a process that
  believes it owns the file does (`OwnersOwn`) and a process about to unlink has
  judged the file of a process that is gone (`JudgedGone`). The second is stable
  because nobody comes back from the dead (`ExitedStays`); together they give the one
  step that matters, `StealRemovesTheDead`. `NoLeakHolds`, with `TornOwner` (a record
  not yet written belongs to a process about to write it, or dead);
* `ReleaseOwnHolds`: `ReleaseOwn`, from `ExclusionInv`.

`DaemonTickProofs`, for any profiles, slots, grace window, days and faults. The batch
decides from a `now` and a history it read once; what keeps its stale decisions
harmless is the invariant `LedgerInv`: the batch's clock is not ahead of the wall clock
(`Clocked`), what is queued or expired was derived from the batch's own `now` (`Derived`),
the ledger knows of every launch of the day and of nothing else (`Ledgered`), and a
recorded slot's window is over (`RecordedIsPast`). `DayInv` adds that a row says when its
run started (`RowsDated`) and, by how far the batch has got, which closed windows are
accounted for (`Accounting`). `RowsDated` holds **on a host in UTC** only, so
`UtcOffset = 0` is a hypothesis wherever it is needed; `daemon_utc_rerun` refutes what
rests on it elsewhere:

* `DayHolds`: `DaySound`, and `LaunchHolds`: `LaunchSound`, on a host in UTC, from `DayInv`;
* `LedgerHolds`, in any time zone, from `LedgerInv` alone: `LaunchedXorDeferred`,
  `NoDoubleLaunch` and `LaunchWithinWindow`;
* `DeferralsHold`, in any time zone: `ClosedForAReason` and `PastDatesRetried`. The second needs
  `RetriedInTurn`: every open earlier day is throttled, or the sweep has it still to do.
  The throttle may not outlast a day, which the module's assumption on `RetryAfter` (an
  hour in the code) says;
* `NoRerunHolds`: `NoRerun`, on a host in UTC, if no window reaches over midnight (`WindowsInDay`). Then
  a run inside a window is of the slot's own day, which is the day the scan looks under. Without
  that hypothesis TLC refutes it (section 5);
* `RetroHolds`: `RetroSound`, on a host in UTC whose daemon does not crash. Between the
  decision for a catch-up and its row the guard sees nothing; what stands in for it is
  that the day's earlier catch-ups lie behind the batch (`CatchupsBehind`), that a profile is
  swept in its turn (`SweepInTurn`), and that the row is there once the batch goes on
  (`Started`), which a crash breaks.

`RunIntentsProofs`, for any profiles and any number of requests, runs and daemon
starts, with or without crashes:

* `IntentsHold`: `Spec => []IntentsSound`. `SpawnedOnce` rests on `Requests`: what the
  board and the daemon hold refers to rows that exist (`Referenced`), and a request
  that was spawned is still "claimed", while the one about to be spawned is claimed and was
  not (`ClaimedFirst`). `NoSharedRun` needs that starts are numbered in order
  (`StartsOrdered`) and that, while the pass works on a request, every run attached
  so far started before its claim (`AttachedBefore`), so that "started since" can
  only pick a run nobody has; two daemons would break it;
* `PromiseHolds`: `Spec => PromiseKept`, the refinement of `IntentPromise`: a queued
  request is an `Ask` (`RequestIsAsk`; the expired one makes way in the same
  savepoint), a DELETE a `Drop` or nothing, a claim a `Take` or nothing, a spawn a
  `Begin`, every other step a stutter. Only the spawn needs the invariant.

The same module proves of the runs page, for any number of runs, requests and failures, with the daemon
running or stopped:

* `RunsHold`: `RunsSound`. A tab polls while its list shows something open, so the argument is about what it has
  not seen: a request listed as settled is settled (`AsksKept`), a run listed as ended has ended
  (`RowsListed`), one that is not listed is about to be asked for, or the tab still polls (`AsksCounted`,
  `RowsCounted`), and the details agree with the list or are asked for again (`DetailsMatch`).
* `SettingsHold`: `SettingsSound`, for any profiles, sections, documents and values, any number of edits, saves,
  navigations, failures and other writers. The module's assumption says that there is a document and that
  `NoText` is neither a text nor a key. Three invariants carry it:
  * `SettingsFit`: every text, of the store, a query, a GET, a section or a request, has the fields of its document with
    values entered for its profile. The raw editor is the hard case: until another document's text is seeded, the
    form still has the fields of the one before (`SeededFields`). `OwnProfile` follows;
  * `Followed`: while nobody left without a question, a save that the dialog began is of the section that is there, and
    its values are those of the form, so nothing is left behind; `RawSent` says the same of the raw editor's request;
  * `CalmHolds`: while nothing made a text out of date, there is one save at most and it is the section's (`OneSave`),
    the queries show what is stored but for a request not answered yet (`CacheStored`), each request has the
    save's values over the loaded text (`PutsOfHere`), and a field is stored, on its way, or as it was
    (`Outstanding`). That no older value goes over a newer one needs `Newer`: once a field is not stored as it was loaded, the
    form does not show it as loaded either, so the next save cannot send it.

`ServeLifecycleProofs`, for any number of starts and stops, from the board or a terminal,
and any faults; the module's assumption says of the constants only that "no pid" and "no
file" are neither:

* `DaemonsHold`: `Spec => []DaemonsSound`. The three claims hold while no cause is recorded, but a crash
  before the first tick, and the invariant is what such a world looks like (`Clear`): at most
  one start or daemon holds the pidfile, and it says who (`Held`); a start that judged the
  pidfile stale judged no other's that is about to spawn (`JudgedStale`); an orphaned run
  is still noted in the pidfile its daemon left (`OrphanNoted`); and a stop that has found the daemon
  to be dead, or read its run, is working on the pidfile that is there (`StopSees`). Every action
  either keeps all of it or records its cause;
* `StopsHold`: `Spec => StopsSound`, from `BoardBusy`: without a cause, the board's pid is in the pidfile
  only while a start of the board is under way.

The proof corrected the model: of two starts given on the board, which share one pid,
the failing one removes the placeholder of the other. `Anothers` names it, and
it is recorded as the cause `lateRelease`.

The same module proves of `ProfileLife`, for any number of directories, requests and saves,
given that `None` is no number and no record of the model and that a directory may be there
(`LifeConstants`):

* `LifeHolds`: `LifeSpec => []LifeSound`. An undisturbed removal works on the directory at the path,
  and that is idle from the moment the profile stops being served (`RemovesIdle`), because
  then whatever is admitted and not yet served is known to be early and no handle is open
  (`NotServed`), and because a directory says "running" only while its run goes on (`RunRecorded`);
* `SavedKeptHolds`: `LifeSpec => SavedKept`: no lift and no template takes the place of a saved
  document, but where the save crossed the read. No run repeats this property.

And of `MachineSetup`, for any keys, first text of `.env`, saves, hand edits, clicks and failures (`SetupAssumption`:
the first values are values, and "not set" is none):

* `MachineHolds`: `MachineSound`, from: what was saved is the first and the last assignment of its key
  (`FileSaved`), because a save that nothing disturbs replaces the only one or appends (`Upserted`) and leaves the
  lines of the other keys; the board's own environment has it (`BoardSaved`); and the switch is true once its
  answer is in (`SwitchKept`);
* `RunsUseSaved`: `RunUsesSaved`, from `DaemonSaved`: the daemon's environment has the saved value, or none, in
  which case its runs read `.env`.

`PipelineProofs`, for any jobs, lanes, options, faults, and any number of runs and stage
commands. Two hypotheses recur. `Alone`: the user keeps runs and stage commands apart, which
the code does not enforce (`stage.ts:89`, section 6). `NamesAscend`: a later group has the
later name, that is, the clock's "HH-MM" does not wrap within a UTC date; section 5 has
what happens when it does.

* `NoResendHolds`: `NoResend`, and half of `PagesHold`, from `AnswersKept`: every answer is among the
  partial decisions until it is in the final ones, and a batch about to be sent has none there;
* `ResumeHolds`: `ResumeSound`, from three facts: the run writes above every checkpoint there
  is (`InOrder`), so the greatest one is the newest, and the run's stage started from it
  (`FollowsNewest`); and the table between compress and assemble is of the run's own jobs (`TableIsOwn`);
* `PagesHold`: `NoAnswerLost` and `DuplicateNeedsTornSync`, whatever fails or dies. The second
  needs `PagesFollow`: a payload on its way to the sync says "paged" of every job of its own that has
  a page, and from the reconcile on the cache has them all. Each stage keeps this by a different
  step, the dedup for fresh jobs, the checkpoints for resumed ones;
* `StagesHold`: `StagesSound`, as long as no process dies, by `InSight`: what the lanes
  emitted has a page, a drop on record, or is held by the run or the newest checkpoint. A death
  between `api_seen` and the checkpoint of source breaks it (section 5).

`LinkedInLaneProofs`, for any searches and jobs, limits, fires, dates and faults:

* `LaneHolds`: `Spec => []LaneSound`. `LeftAlone` rests on `Respected`: during a fire the
  breaker is open only if the fire itself tripped, and a place that visits LinkedIn
  is reached without a trip. `SkippedContributes` rests on `Contributed`: what the marks stand
  for is in the captures on disk, both for the fire's copy of the marks and for the
  ones on disk, unless those call for a rescan;
* `OpenedOnceHolds`: `Spec => OpenedOnce`, from `OpenedKnown`: every opened card is in
  `processedIds`, but the probe's own while it waits to be kept;
* `LostNeedsCauseHolds`: `Spec => []LostNeedsCause`, from `Accounted`: what is owed is in
  the captures (`Owing`); a fire about to clear them owes nothing (`Paid`); and a fire
  whose searches all failed has left one unmarked (`FailedLeavesWork`).

`StoresProofs`, of the registry, for any companies, lanes and policy: `RegistryHolds`. The run
works on copies, so each claim is made of the copies as well (`Earned`); the cap is
counting (`Counted`): a probe begun is counted, in flight, or the one its lane's budget cut
off, and a lane runs out once (`Placed`).

`RunKeepingProofs`, of the cleanup, for any settings, runs, cleanups and edits: `CleanupHolds`. A run that goes on began
today or yesterday (`GoingIsRecent`: a run is at most a day old, which its cap gives) and no
cleanup is ahead of the day it took as its own (`CleanerInThePast`); for the preview,
while nothing failed and nothing was saved, an answer to the rule in the form is still to
come unless the one shown is that (`Pending`).

`RunKeepingProofs`, of the schedule page, for any profiles, slots, grace window, days, presses and failing
requests: `ScheduleHolds` (`ScheduleSound`) and `PauseHolds` (`PauseHonoured`). What the page said stays true as
long as the document says so: a slot called skipped is the one skip that is stored, and was neither run
nor missed (`SkipStored`), a profile called paused is switched off (`PauseStored`). The named
causes are how they come apart: a daemon that works through an older reading, two changes that cross, a
second press, one that comes after the slot's time.

`RunKeepingProofs`, of triage, tracker and job panel, for any jobs, edits, reads, failing and late requests and other windows:

* `JobsHold`: `JobsSound`. That a text goes to its own job is that whatever is stored, cached or on its way was
  chosen for the job it is kept under (`OwnShapes`). That the panel shows what is stored counts the writes
  of a job: an answer that carries the last one is what is stored (`Versions`), it is shown or on
  its way (`LastComes`), a field with a single patch would roll back to what is stored (`AloneKeeps`),
  and every field without a patch is as stored once the last write is shown (`FieldsShown`);
* `ForwardHolds`: `StoredForward`: what a patch or the panel would write is no earlier than what is stored or on
  its way (`ForwardInv`), but for the fields flagged for a cause.

`RunKeepingProofs`, of the wizard, for any names, answers, other tools, failures and visits; of the constants only
that `Nothing` is none of what it stands beside. The saves are followed request by request (`SaveShape`), and the page by
its step (`PageShape`):

* `ClobbersNothing`: `NeverClobbers`, from `GuardPassed`: a document that a save past its guard has still to write is not
  another tool's, unless it came between;
* `WizardHolds`: `WizardSound`. The guard refuses what the draft does not know; while no tool wrote and no save
  failed or was left, the draft knows every text the wizard wrote (`WritesKnown`), between two writes of one step
  the draft of the save does. For the end, with nothing beside the saves what was typed,
  what the page holds and what is being saved are the same, and what the earlier steps answered is stored (`SavesAnswers`).

`RunKeepingProofs`, of the list of searches, for any pages, links, imported texts and edits, under `UrlsAssumption` (no
heading is no page, and what is imported is a text):

* `NormalKeepsLinks` and `NormalIsStable`: the normaliser loses no link and makes none up, what it writes it takes again,
  and writes it the same; both rest on `CleanKeeps`, that to clean a link leaves its key and its page;
* `SearchesHold`: `SavedIsRead`, from `NormalInOrder`, what the normaliser files is clean and under its page;
* `LinksStay`: `LinksKept`, from what each writer keeps: `FormKeeps`, `RefileKeeps`, `AddUrlKeeps`.

`StoresProofs`, of the decisions on jobs, for any jobs, cache, filter and preferences and any stages by hand, under
`DecisionsAssumption` (jobs, their skills and the title rules are finite): `DecisionsHold` and `ByHandDropsNothing`, from one
invariant (`DecidedSoFar`). What a stage has come past is decided for good, so no induction over the jobs is needed:

* the filter would keep what it has kept, and the soft verdicts counted for a job are those it fails, or more once it
  was filtered again (`Filtered`); hence a score is that of the job alone or, after a second filter, lower than that,
  for a penalty takes the more the more often it counts (`ScoreFacts`, `ScoreFair`);
* what dedup has compared is like no row of the cache and no other job compared, and what it dropped a job for is
  still there (`Distinct`): to be the same goes both ways (`SameBoth`), though not along a chain, so the argument is
  over pairs, never over groups. Run by hand it meets only jobs already compared (`NothingTwice`).

`StoresProofs`, of the move of the data home, for any profiles, calls, writers and stops: `MoveHolds`. What is still
planned is free at its destination or was written to in the middle of the command
(`PlanFree`), and an item at both places was made by someone else (`TwiceByOthers`).

`StoresProofs`, of the failure notice, for any failures, any length of the day and any faults: `NoticeHolds`. What the
record says of its failure was told no earlier than it says (`ToldBy`), also of the record a run
is about to write (`ToBeWritten`), but for a notice that was not delivered; and while nothing was lost, its
count is that of the failures in a row (`CountKept`).

`StoresProofs`, of the release command, for any number of calls and of things others do: `ReleaseHolds`. What is pushed
is whole (`PushedWhole`), for the command gathers the parts before it (`Gathered`), and after the merge there is no
difference left to open a pull request of, so the release is merged once (`MergedOnce`); a tag follows that
merge (`Tagged`).

`ServicesProofs`, of the Chrome provider, for any number of processes and browsers, any host and
any of the cases:

* `BrowsersHold`: `SparesForeign`, `OnRecordUnlessLost` and `AttachedOurs`. A kill goes to a pid, so the
  argument is that a pid in hand, or on file, was once a browser that a run spawned, and that a pid
  is not given to a Chrome a second time (`InHand`, `OnFile`); that what a process found on the port and went
  past is on our dir (`DirsOurs`); and that a run's browser is in the pidfile or about to be put
  there (`Recorded`), but for a record never written, one overwritten by another spawn, or one removed by a kill of another Chrome;
* `SessionsHold`: `BrowserSafe`, with the saved tabs, under the hypothesis `LockVisible`. It is false
  on macOS and Linux, where section 5 has what happens.

`ServicesProofs`, of the alert, for any number of profiles, any interval, changes and restarts:
`AlertHolds`. The pidfile decides, so the argument is that it says what has happened
(`Truthful`) as long as it could be written.

`ServicesProofs`, of the job stores, for any jobs, page size and archive policy, any number of runs, migrations, edits and
lost answers: `StoresHold`, under `StoresConstants` (an answer has a page at least; `Nothing` is no row
and no request). None of the three parts of `PagesSound` is inductive alone:

* the pages of a job are counted (`Counted`), and a page that a run has still to make is missing (`Missing`):
  on Notion since the query had read every page when it ended (`QueryReadsOn`, `Cached`), on the mirror since
  a job that is new to the database has no page but of a migration, and one that is not is excused;
* an archiving carries the status that was read, never one the user follows (`Wired`), and rows are archived
  only once the profile is on SQLite (`RowsLive`), so that a migration finds none;
* until the flip a page was read, and is as it was but for the user, or came later (`WasRead`, `CameLater`);
  what was read has its row after the first import and its tracking after the second (`MigFits`).

**Only model-checked**: all liveness (`AcquireTerminates`, `BatchCompletes`, `RunEnds`,
`LaunchSettles`, `AlertDelivered`), for liveness under fairness is out of the prover's
reach here; `NoRerun` for windows over midnight and `OneCatchupPerDay` beside crashes are
refuted, so only the hypotheses above make theorems of them.

## 5. Where the code and its text disagree

The violation run, with the lines that promise otherwise, is in `PROJECT.json` under
`findings`. The models also refute the following promises. No run repeats them; each
is obtained with the property and constants named.

| promise | property, constants | what happens |
|---|---|---|
| RunRecord.date is "YYYY-MM-DD local" (`core/schedule/types.ts:37`) | `NotSuppressed`, `UtcOffset` west, slots {1, 2} of 3 units | yesterday evening's run serves today's slot, which is never spawned |
| "at most one catch-up per calendar day", surviving a restart (`sweep.ts:223-229`) | `OneCatchupPerDay`, `UtcOffset` far west; or `Faults = {"crash"}` | the guard looks under the local date; or the earlier catch-up has no row yet when its successor is decided |
| a past date with a catch-up is "already covered" (`sweep.ts:322-324`) | `ClosedMeansInformed`, `Faults = {"notify"}`, two slots, `Grace = 0` | a slot that expired after the catch-up is closed without having been named |
| the sweep covers "a lid that stays closed for a WHOLE calendar day" (`sweep.ts:274-279`) | `MissedDayRecorded`, `Faults = {"sleep"}` | a day without a tick has no rows to find |
| "scheduler was not running during this scheduled window" (`sweep.ts:98-101`) | `UnavailableMeansDown`, no fault | said of a slot that expired while the daemon awaited another child |
| inFlight lets stop find a run "even if the daemon itself has died" (`pidfile.ts:7-8`) | `StopFindsOrphans`, 2 starts, `Faults = {"crash"}` | the next start replaces the pidfile and its inFlight |
| the exclusive create is "the actual mutual-exclusion guarantee" (`pidfile.ts:189-191`) | `OneDaemon`, 2 starts, 1 stop, no fault | a stop in the boot window unlinks the pidfile, a later start makes its own, and the first child boots on |
| "daemon stopped" (`lifecycle.ts:69-70`) | `StopIsComplete`, 1 start, no fault | a stop in the boot window kills the parent only |
| a stop must not kill the board (`board_daemon_control.ts:113-120`) | `BoardSurvives`, a board start, a stop from a terminal | the placeholder is the board's pid, and the terminal's stop has no guard |
| cancel is "Pre-claim only" (`ports/run_intents.ts:33`) | `CancelHonoured`, 1 request, no crash | "cancelled" is answered though a claim came between read and update; the run starts |
| listing "pending and not expired" (`ports/run_intents.ts:41`) | `ExpiredNeverClaimed`, 2 profiles | a request read before a long child is claimed after it expired |
| attachRun "back-writes the spawned run's id" (`ports/run_intents.ts:47`) | `AttachedIsOwn`, 3 runs | a spawn the lock refused is shown with the user's own run |
| no request during a run (`app/features/intents/routes.ts:48-61`) | `NoRequestDuringRun` | a run without a fresh heartbeat reads as crashed |
| the funnel answers "why did this job disappear?" (`core/jd/schema.ts:92`) | `Accounted` with `"die"` in `Faults` | api_seen is saved before the checkpoint of source: a death in between loses the jobs even for a resumed run |
| resume takes the latest earlier group (`run.ts:241`) | `NoForeignJobs`, `Rank <- PastMidnight` | after local midnight "23-00" is later than "01-00" within a UTC date |
| a chain of stage commands (`stage.ts:15-19`) | after a full run | every stage command reads the greatest position, sync's output |
| a fire without captures is an outage unless an "earlier same-day fire" has some (`evidence.ts:157`) | `OutageIsLoud`, `Faults = {{}}` | captures.json has no date: yesterday's captures, already published, hide today's outage |
| a skipped search "still contributes its jobs" (`capture_store.ts:13-15`) | `SkippedContributes` without its first line, `Faults = {{"die", "edit"}}` | all searches of a shortened list are done, the captures are cleared, the fire does not save its marks, the list is restored: the old marks count again |
| one run at a time (`run_lock.ts:2-5`) | `MutualExclusion`, `Faults = {}` | two processes judge one dead holder; the second unlinks the first one's fresh lock |
| a restart runs no slot again (`daemon.ts:24-29`) | `NoRerun`, `SlotTime = {1}`, `DayLen = 2`, `Grace = 1`, 2 profiles, UTC | a batch that awaits the other profile's child over midnight looks for the slot's run under the new date |
| "stage assemble", then "stage sync" (`stage.ts:15-19`) | `NoDuplicatePage`, 2 groups, 2 stage commands, `Faults = {"die"}`, no torn sync | assemble takes the table of the last run again, and sync alone skips the dedup: a second page |
| the funnel answers "why did this job disappear?" (`core/jd/schema.ts:92`) | `Accounted` without `staged = 0` and with dry runs as fresh ones | `run --resume --dry-run` completes the checkpoints, so the `run --resume` after it finds nothing to do and passes; or a `stage assemble` in between gives the resumed run another's table |
| a resumed run creates no page twice (`sync.ts:26-31`) | `NoDuplicatePage`, one job page written when the stage fails | the resumed sync starts from the checkpoint before it and makes the first pages again |
| captures survive until a fire has handed them on (`capture_store.ts:9-12`) | `NothingLost`, `Faults = {{"die"}}` | a fire dies between the last mark and its return; the next finds all searches done, rescans and clears them |
| the SingletonLock "gates the whole clear off" (`session_clear.ts:43-48`) | `SessionSpared`, `LockVisible = FALSE` | on macOS and Linux the lock is a dangling symlink, which existsSync does not see |

`Accounted` and `NoForeignJobs` speak of a run and of the failed runs it resumed, while runs are
all the user starts. Jobs emitted by a failed run that is never resumed, or before a dry
run, stay in `api_seen` and are skipped by later fresh runs; that is how the code works
and is outside it. `DuplicateNeedsTornSync` admits one stage command for the same reason.

The modules of the connectors, the services and the browser state their properties "but
for" named causes, and each cause is a way the code gets there. Those that a text of
the repository promises against, or that a reader of the code would want to know:

* **ChromeProvider**: a Chrome whose record failed to be written, or was overwritten by a
  second spawn, runs on with nobody to recycle it.
* **DriftAlert**: only the first profile, by name, that has a notifier is tried, also when
  its notifier is broken; a profile that degrades after the alert is never told of;
  `degraded` keeps profiles that recovered, though it is "today's + any
  still-unresolved prior entries" (`ops/daemon/pidfile.ts:51`); while the pidfile cannot be
  written, every tick sends again.
* **JobStores**: a page whose creation was answered with a 5xx or a timeout is created again;
  a push of the mirror that failed is not retried by a later run; a job archived
  locally and synced again is un-archived and pushed as a second page; `migrate` takes no run
  lock, so what a run stores meanwhile is left behind. "Date Found" is local by
  `archive.ts:84-92` and written in UTC by `sync.ts:95`.
* **CompanyRegistry**: a company's failure count is never reset by a successful fetch, so
  failures years apart add up to "stale"; the probe that a budget cuts off is not
  counted towards the cap.
* **JobDecisions**: `jobbunny stage filter` over a table that was already filtered counts each soft
  verdict twice (`refiltered`); `stage dedup` after a later reconcile would drop the
  table's own jobs as already known; with unknown cities, which twin is kept depends on the order.
* **Retention**: with a setting of 0 days, `jobbunny routine cleanup` (which takes no run
  lock) across UTC midnight removes a live run's row, and the run fails at its
  checkpoint. After a save the preview still compares with the rule before it.
* **FailureNotice**: a passed run does not clear the record, so "Same failure since" and its
  count span successes, and the same failure within a day of a success is kept back; an
  undelivered notice counts as told.
* **ProfileLife**: a request admitted before a removal re-opens the path after the rename and
  makes the profile anew; a run that begins between the check and the rename loses its
  files; `profile remove --force` looks at no run or request and leaves the board's
  handles on deleted files; the lift reads and writes outside one transaction; a create
  that fails leaves a listed profile without documents, and its retry says "already exists".
* **HomeMove**: the command looks for the checkout's daemon, not for a run or a board.
* **Release**: once others merge between the release's merge and its tag, the command refuses for
  good, though its message says to pull and re-run (`steps.ts:255-258`); a push between the
  green checks and the merge is merged unchecked; a failed listing reads as "no pull request".
* **MachineSetup**: a token replaced under a running daemon never reaches its runs, which inherit
  its environment, while the doctor of the board says it is fine; with a key assigned
  twice the board replaces the first and a process takes the last; two crossing saves lose one;
  the switch begins as "off" whatever the item is.
* **SettingsDesk**: what is typed into "Where jobs come from"
  during its save is overwritten by the answer; the raw editor's list and the back button ask no
  guard, and a dialog that is open stays over the section that Back brings; "Stay here" during the
  dialog's save still leaves; a GET that crosses a save
  brings the old text back; a save of two documents may store one and report a failure.
* **SearchUrls**: the form drops links under no heading; what stands ahead of `## linkedin`
  is never normalised, nor is what `config import` writes.
* **RunDesk**: polling stops as soon as the list shows nothing running, with a detail fetched
  before the run's end, or in the gap between the claim of a request and its run's row.
* **ScheduleDesk**: a second "Skip next" takes the first one back; Skip and Pause write the whole
  document, so one that crosses the other undoes it; the daemon re-validates only the grace
  window of what it had read.
* **JobDesk**: a concurrent edit that landed "is never discarded" (`ui/src/features/board/useTracking.ts:78-80`),
  but the roll-back of an earlier edit of the same field shows the older value over the later
  one, and the detail is not read again.
* **SetupWizard**: a failure, or leaving, between two writes of a step leaves text that no record
  claims, so the step refuses its own text ever after, against
  `ui/src/features/wizard/wizard.types.ts:52-65`; Back during the last save stores the finished draft again.

## 6. Plan: what is left

1. **The farm stage of a run**: `LinkedInLane` and `CompanyRegistry` composed with `Pipeline`,
   so that what a run loses is theorem and counterexample of all three; a stage
   command beside a run (`stage.ts:89`), which the runs of `Pipeline` keep apart (`Alone`).
2. **Composition**: daemon, run lock, requests and `ScheduleDesk` in one specification.
3. **Stores**: the single migrations and a crash between them, the state documents' store,
   SQLITE_BUSY between the board and a run.
4. **Pure core**: the normalisation of texts, experience and salary against reference
   definitions over bounded inputs.

## 7. Not modelled, and why

* The lines that render, log and format (observability, analytics, shared widgets, CLI
  output) keep no state another part reads, and the doctor only reads (what it says
  of a token is in `MachineSetup`).
* Prompts, HTML and JSON parsing, the persona catalogue and the configuration schemas are data; a
  call is modelled by whether it answers, a document by which check accepts it.
* The creation and check of the Notion database, the pacing between its requests, launchd's
  plist format, and the questions `jobbunny setup` asks are I/O without a decision another part depends on.
* The board's request checks and static files, its read-only routes.
* Stall detection as distinct from a timeout: both end an attempt.
* Pids are not reused in `ServeLifecycle` (they are in `RunLock` and
  `ChromeProvider`): after a reboot the recorded pid may belong to an unrelated
  process, which `serve stop` would kill; that is outside the program's own state.
* `RunDesk` asks and answers a poll in one step, and the daemon's state is constant in it;
  `Release` takes the looks of one call together; `SetupWizard` has one submit in
  flight; `JobStores` lets midnight pass between runs and has one late request at a time.
* `SettingsDesk` handles an answer for the document it was sent for, also when the raw editor shows
  another by then, and saves nothing from a dialog over a section that has not loaded.
