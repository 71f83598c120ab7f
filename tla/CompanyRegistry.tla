-------------------------- MODULE CompanyRegistry ---------------------------
(***************************************************************************)
(* The source stage (src/pipeline/stages/source.ts), the API lanes it      *)
(* drives (src/adapters/lanes/greenhouse, keka) and the company registry   *)
(* it keeps (src/core/company): which companies are probed for a board,    *)
(* which boards are fetched, and how a company is locked out of both.      *)
(*                                                                         *)
(* A run goes through the lanes in order and works on copies of two        *)
(* documents, the registry and the ledger of the job ids emitted so far;   *)
(* it writes them at its end, one after the other.  A lane's 90 s budget   *)
(* may run out at any call, and the run may be aborted or die at any step. *)
(* What the job boards' servers answer is external: any answer.            *)
(***************************************************************************)
EXTENDS Naturals, Sequences, FiniteSets

CONSTANTS
  Company,         \* companies, by normalized key
  Curated,         \* those whose board the user entered
  LaneOrder,       \* the API lanes, in the order they are wired
  MaxProbes,       \* maxProbesPerRun
  MaxProbeFailures, StaleAfter, ReprobeDays, MaxNew,  \* the policy
  CardDropped,     \* companies whose jobs the card filter drops
  MaxDay           \* bound: days

Lanes == {LaneOrder[i] : i \in DOMAIN LaneOrder}

(* Each lane is wired once; curated companies are companies. *)
ASSUME CompanyRegistryAssumption ==
  /\ Curated \subseteq Company
  /\ LaneOrder \in Seq(Lanes)
  /\ \A i, j \in DOMAIN LaneOrder : LaneOrder[i] = LaneOrder[j] => i = j
  /\ {MaxProbes, MaxProbeFailures, StaleAfter, ReprobeDays, MaxNew} \subseteq Nat

Unprobed == [status |-> "unprobed", day |-> 0, fails |-> 0]

VARIABLES
  registry,  \* companies.json: the probe state of each known company, by lane
  known,     \* companies in it
  apiSeen,   \* api_seen.json: jobs emitted, a job being <<company, lane>>
  day,
  run,       \* the run in progress: see NoRun
  failures,  \* observability: failures that calls have met since the last
             \* definite answer to a probe, in runs that came to their end
  emitted    \* observability: jobs that finished runs have emitted

registryVars == <<registry, known, apiSeen, day, run, failures, emitted>>

Pairs == Company \X Lanes
Zero == [x \in Pairs |-> 0]

(* at: where the run is; i: its lane; todo: candidates or boards left;      *)
(* call: the candidate being probed; reg, known, seen: the working copies;  *)
(* issued: probesIssued; started: probes begun; new: jobs emitted in this   *)
(* lane; cache: ids of the Notion cache; fails, jobs: as failures and       *)
(* emitted; expired: lanes out of budget.                                   *)
NoRun == [at |-> "idle", i |-> 0, todo |-> {}, call |-> {}, known |-> {},
          reg |-> [x \in Pairs |-> Unprobed], seen |-> {}, issued |-> 0, started |-> 0, new |-> 0, cache |-> {},
          fails |-> Zero, jobs |-> {}, expired |-> {}]

RegistryInit ==
  /\ registry = [x \in Pairs |->
       IF x[1] \in Curated /\ x[2] = LaneOrder[1] THEN [status |-> "found", day |-> 0, fails |-> 0] ELSE Unprobed]
  /\ known = Curated
  /\ apiSeen = {} /\ day = 0
  /\ run = NoRun
  /\ failures = Zero /\ emitted = {}

Lane == LaneOrder[run.i]
docs == <<registry, known, apiSeen, day, failures, emitted>>

(* probeCandidates *)
ProbeCandidate(probe) ==
  \/ probe.status = "unprobed"
  \/ probe.status = "not-found" /\ day - probe.day > ReprobeDays
  \/ probe.status = "error" /\ probe.fails < MaxProbeFailures

Candidates(reg, l) == {c \in run.known : ProbeCandidate(reg[<<c, l>>])}

(* boardsToFetch *)
Boards(reg, l) == {c \in run.known : reg[<<c, l>>].status = "found"}

(* recordProbe *)
Probed(probe, result) ==
  [status |-> result, day |-> day, fails |-> IF result = "error" THEN probe.fails + 1 ELSE 0]

(* Mutant of FetchFailed: a curated board goes stale as well. *)
FetchFailedAll(c, probe) ==
  [probe EXCEPT !.fails = @ + 1,
                !.status = IF probe.fails + 1 >= StaleAfter THEN "stale" ELSE @]

(* recordFetchFailure *)
FetchFailed(c, probe) ==
  [probe EXCEPT !.fails = @ + 1,
                !.status = IF c \notin Curated /\ probe.fails + 1 >= StaleAfter THEN "stale" ELSE @]

(* One answer of a server.  getBoardInfo and getPortalInfo read a 200 whose *)
(* body they cannot parse as a board without a name.                        *)
Reply == {"named", "misnamed", "unreadable", "gone", "refused", "thrown"}

(* probe(), of either lane: the candidate tokens of a name are tried in     *)
(* order.  A board of that name ends it; a board of another name, or none,  *)
(* is a definite answer; it is only an error when no token got one.         *)
ProbeResult(replies) ==
  IF \E t \in DOMAIN replies : replies[t] = "named" THEN "found"
  ELSE IF \A t \in DOMAIN replies : replies[t] \in {"refused", "thrown"} THEN "error"
  ELSE "not-found"

(* Greenhouse's fetchBoard: board info that cannot be had costs the jobs    *)
(* the company's name only.                                                 *)
GreenhouseBoard(info, jobs) == IF jobs = "listed" THEN "jobs" ELSE "failed"

(* The portal's id, from its info or else from its page of careers.         *)
KekaGuid(info, page) == info = "guid" \/ (info = "noGuid" /\ page = "guid")

KekaBoard(info, page, jobs) ==
  IF KekaGuid(info, page) /\ jobs = "listed" THEN "jobs" ELSE "failed"

Board(info, page, jobs) ==
  IF Lane = "keka" THEN KekaBoard(info, page, jobs) ELSE GreenhouseBoard(info, jobs)

(* runJobGates, on the one job of a board. *)
JobGate(j) ==
  IF j[1] \in CardDropped THEN "drop"
  ELSE IF j \in run.seen \cup run.cache THEN "skip"
  ELSE IF run.new >= MaxNew THEN "drop"
  ELSE "emit"

----------------------------------------------------------------------------
(* The farm stage has noted companies it saw (companies_seen.json), and     *)
(* upsertSeen adds them; reconcile has refreshed the cache, or not.         *)
BeginRun ==
  /\ run.at = "idle" /\ day < MaxDay
  /\ \E names \in SUBSET Company, cached \in {{}, emitted} :
       run' = [NoRun EXCEPT !.at = "lane", !.known = known \cup names, !.reg = registry,
                            !.seen = apiSeen, !.cache = cached, !.fails = failures]
  /\ day' = day + 1
  /\ UNCHANGED <<registry, known, apiSeen, failures, emitted>>

(* Each lane starts with a fresh budget. *)
NextLane ==
  /\ run.at = "lane"
  /\ IF run.i = Len(LaneOrder)
       THEN run' = [run EXCEPT !.at = "writeRegistry"]
       ELSE run' = [run EXCEPT !.i = @ + 1, !.at = "probe", !.new = 0,
                               !.todo = Candidates(run.reg, LaneOrder[run.i + 1])]
  /\ UNCHANGED docs

StartProbe(c) ==
  /\ run.at = "probe" /\ c \in run.todo /\ run.issued < MaxProbes
  /\ run' = [run EXCEPT !.at = "asking", !.todo = @ \ {c}, !.call = {c}, !.started = @ + 1]
  /\ UNCHANGED docs

(* Mutant of AnswerProbe: probes that failed are not counted. *)
AnswerProbeUncounted(c, replies) ==
  /\ run.at = "asking" /\ c \in run.call
  /\ LET x == <<c, Lane>>  result == ProbeResult(replies) IN
     run' = [run EXCEPT !.at = "probe", !.call = {},
                        !.issued = IF result = "error" THEN @ ELSE @ + 1,
                        !.reg[x] = Probed(@, result),
                        !.fails[x] = IF result = "error" THEN @ + 1 ELSE 0]
  /\ UNCHANGED docs

AnswerProbe(c, replies) ==
  /\ run.at = "asking" /\ c \in run.call
  /\ LET x == <<c, Lane>>  result == ProbeResult(replies) IN
     run' = [run EXCEPT !.at = "probe", !.call = {}, !.issued = @ + 1,
                        !.reg[x] = Probed(@, result),
                        !.fails[x] = IF result = "error" THEN @ + 1 ELSE 0]
  /\ UNCHANGED docs

(* No candidate is left, or maxProbesPerRun is reached. *)
EndProbes ==
  /\ run.at = "probe" /\ (run.todo = {} \/ run.issued >= MaxProbes)
  /\ run' = [run EXCEPT !.at = "board", !.todo = Boards(run.reg, Lane)]
  /\ UNCHANGED docs

(* Mutant of BudgetExpires: the call in flight is recorded as an error. *)
BudgetExpiresRecorded ==
  /\ run.at \in {"probe", "asking", "board"}
  /\ run' = [run EXCEPT !.at = "lane", !.todo = {}, !.call = {}, !.expired = @ \cup {Lane},
                        !.reg = [x \in Pairs |-> IF x \in run.call \X {Lane}
                                                 THEN Probed(@[x], "error") ELSE @[x]]]
  /\ UNCHANGED docs

(* The lane's budget runs out: what is in flight or left is not recorded.   *)
BudgetExpires ==
  /\ run.at \in {"probe", "asking", "board"}
  /\ run' = [run EXCEPT !.at = "lane", !.todo = {}, !.call = {}, !.expired = @ \cup {Lane}]
  /\ UNCHANGED docs

FetchBoard(c, info, page, jobs) ==
  /\ run.at = "board" /\ c \in run.todo
  /\ LET j == <<c, Lane>> IN
     run' = IF Board(info, page, jobs) = "failed"
              THEN [run EXCEPT !.todo = @ \ {c}, !.reg[j] = FetchFailed(c, @), !.fails[j] = @ + 1]
            ELSE IF JobGate(j) = "emit"
              THEN [run EXCEPT !.todo = @ \ {c}, !.seen = @ \cup {j},
                               !.jobs = @ \cup {j}, !.new = @ + 1]
            ELSE [run EXCEPT !.todo = @ \ {c}]
  /\ UNCHANGED docs

EndLane ==
  /\ run.at = "board" /\ run.todo = {}
  /\ run' = [run EXCEPT !.at = "lane"]
  /\ UNCHANGED docs

WriteRegistry ==
  /\ run.at = "writeRegistry"
  /\ registry' = run.reg /\ known' = run.known /\ failures' = run.fails
  /\ run' = [run EXCEPT !.at = "writeSeen"]
  /\ UNCHANGED <<apiSeen, day, emitted>>

WriteSeen ==
  /\ run.at = "writeSeen"
  /\ apiSeen' = run.seen /\ emitted' = emitted \cup run.jobs
  /\ run' = NoRun
  /\ UNCHANGED <<registry, known, day, failures>>

(* The run is aborted, or dies: nothing more is written. *)
Abort ==
  /\ run.at # "idle"
  /\ run' = NoRun
  /\ UNCHANGED docs

RegistryNext ==
  \/ BeginRun \/ NextLane
  \/ \E c \in Company : StartProbe(c)
  \/ \E c \in Company, info, page \in {"guid", "noGuid", "thrown"}, jobs \in {"listed", "thrown"} :
       FetchBoard(c, info, page, jobs)
  \/ \E c \in Company, replies \in [1..2 -> Reply] : AnswerProbe(c, replies)
  \/ EndProbes \/ BudgetExpires \/ EndLane \/ WriteRegistry \/ WriteSeen \/ Abort

RegistrySpec == RegistryInit /\ [][RegistryNext]_registryVars

----------------------------------------------------------------------------
(* Properties *)

(* What the registry holds against a company it has met: no more failures   *)
(* than calls have really met in runs that came to their end (a budget or   *)
(* an abort is nobody's failure), and staleness never of a curated board.   *)
LockoutEarned ==
  \A x \in Pairs :
    /\ registry[x].fails <= failures[x]
    /\ registry[x].status = "stale" => x[1] \notin Curated /\ failures[x] >= StaleAfter

(* A run begins at most maxProbesPerRun probes, and one more for each lane  *)
(* whose budget ran out (such a probe is not counted).                      *)
ProbesCapped == run.started <= MaxProbes + Cardinality(run.expired)

(* All of it: lockouts are earned, probes are capped. *)
RegistrySound == LockoutEarned /\ ProbesCapped
=============================================================================
