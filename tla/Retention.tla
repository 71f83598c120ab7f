------------------------------ MODULE Retention ------------------------------
(***************************************************************************)
(* How long what runs leave is kept (src/routines/cleanup/cleanup.ts, the   *)
(* two prunes of src/adapters/db/sqlite), and the one reader of what is     *)
(* left: the preview of an unsaved rule against a recent run                *)
(* (src/cli/wire/board_preview.ts, ui RulePreviewStrip.tsx).                *)
(***************************************************************************)
EXTENDS Integers, FiniteSets

CONSTANTS
  None,
  Recent,   \* MAX_RECENT_RUNS
  MaxRuns,  \* bound: runs
  MaxDay,   \* bound: UTC days
  MaxTtl,   \* bound: the days a setting may say
  MaxEdits, \* bound: edits of the rule
  MaxFails  \* bound: prunes and requests that fail

(* None is not a day. *)
ASSUME RetentionAssumption ==
  None \notin Int /\ MaxTtl \in Nat /\ MaxRuns \in Nat /\ MaxDay \in Nat \ {0} /\ MaxEdits \in Nat

VARIABLES
  day,     \* the UTC day
  runs,    \* runs[r]: the day it is filed under, whether it still goes on, its row and its checkpoint
  ttl,     \* ttl.runs, ttl.ckpts: runsOlderThanDays and checkpointsOlderThanDays
  cleaner, \* cleaner[c]: the prune that comes next and its `today`, None when it is not cleaning
  draft, saved, \* the rule in the form, and the stored one
  timer,   \* the debounce timer is running
  asked,   \* the requests not answered yet: the drafts they carry
  result,  \* what the strip shows: the draft and the stored rule it was computed from, and whether on a run
  fails,
  cause    \* observability

retentionVars == <<day, runs, ttl, cleaner, draft, saved, timer, asked, result, fails, cause>>
kept == <<day, runs, ttl, cleaner>>
strip == <<draft, saved, timer, asked, result>>

Run == 1..MaxRuns
Cleaner == {"post-sync", "jobbunny routine"}
Started == {r \in Run : runs[r].day # None}
Fail == fails < MaxFails /\ fails' = fails + 1

(* Mutant of Prunable: the day of the cut-off goes too.                     *)
PrunableAtCutoff(d, today, days) == d <= today - days /\ d # today

(* Strictly older than the cut-off, and never `today`, whatever the setting. *)
Prunable(d, today, days) == d < today - days /\ d # today

(* A run is filed under the UTC day it starts on; the run lock is held      *)
(* until the routine of the run before has ended.                           *)
StartRun ==
  /\ cleaner["post-sync"] = None
  /\ \A r \in Started : ~runs[r].going
  /\ \E r \in Run \ Started :
       /\ \A q \in Run : q < r => q \in Started
       /\ runs' = [runs EXCEPT ![r] = [day |-> day, going |-> TRUE, row |-> TRUE, ckpt |-> FALSE]]
  /\ UNCHANGED <<day, ttl, cleaner, strip, fails, cause>>

(* The checkpoint refers to the run's row: without it the insert throws and *)
(* the run fails.                                                           *)
Assemble(r) ==
  /\ r \in Started /\ runs[r].going /\ ~runs[r].ckpt
  /\ runs' = IF runs[r].row THEN [runs EXCEPT ![r].ckpt = TRUE] ELSE [runs EXCEPT ![r].going = FALSE]
  /\ UNCHANGED <<day, ttl, cleaner, strip, fails, cause>>

(* The run ends; the routine comes after a passed one, before its process ends. *)
EndRun(r) ==
  /\ r \in Started /\ runs[r].going
  /\ runs' = [runs EXCEPT ![r].going = FALSE]
  /\ \/ UNCHANGED cleaner
     \/ cleaner["post-sync"] = None /\ cleaner' = [cleaner EXCEPT !["post-sync"] = [next |-> "runs", today |-> day]]
  /\ UNCHANGED <<day, ttl, strip, fails, cause>>

(* `jobbunny routine cleanup` takes no run lock. *)
CallRoutine ==
  /\ cleaner["jobbunny routine"] = None
  /\ cleaner' = [cleaner EXCEPT !["jobbunny routine"] = [next |-> "runs", today |-> day]]
  /\ UNCHANGED <<day, runs, ttl, strip, fails, cause>>

(* The rows of runs first; a failure is warned about and passed over.       *)
PruneRuns(c) ==
  /\ cleaner[c] # None /\ cleaner[c].next = "runs"
  /\ cleaner' = [cleaner EXCEPT ![c].next = "ckpts"]
  /\ LET gone == {r \in Started : runs[r].row /\ Prunable(runs[r].day, cleaner[c].today, ttl.runs)}
     IN  \/ /\ runs' = [r \in Run |-> IF r \in gone THEN [runs[r] EXCEPT !.row = FALSE] ELSE runs[r]]
            /\ cause' = cause \cup (IF ttl.runs = 0 /\ (\E r \in gone : runs[r].going) THEN {"zero"} ELSE {})
            /\ UNCHANGED fails
         \/ Fail /\ UNCHANGED <<runs, cause>>
  /\ UNCHANGED <<day, ttl, strip>>

PruneCheckpoints(c) ==
  /\ cleaner[c] # None /\ cleaner[c].next = "ckpts"
  /\ cleaner' = [cleaner EXCEPT ![c] = None]
  /\ \/ /\ runs' = [r \in Run |-> IF r \in Started /\ Prunable(runs[r].day, cleaner[c].today, ttl.ckpts)
                                  THEN [runs[r] EXCEPT !.ckpt = FALSE] ELSE runs[r]]
        /\ UNCHANGED fails
     \/ Fail /\ UNCHANGED runs
  /\ UNCHANGED <<day, ttl, strip, cause>>

(* What cleanup prunes once it has archived, which is in JobStores; the     *)
(* folders of old runs go by the rule of Prunable too.                      *)
Cleanup(c) == PruneRuns(c) \/ PruneCheckpoints(c)

(* A run goes on for less than a day. *)
Midnight ==
  /\ day < MaxDay /\ day' = day + 1
  /\ \A r \in Started : runs[r].going => runs[r].day = day
  /\ UNCHANGED <<runs, ttl, cleaner, strip, fails, cause>>

----------------------------------------------------------------------------
(* The preview: every edit starts the timer anew and turns away the answer  *)
(* of an earlier request.                                                   *)
Edit ==
  /\ draft < MaxEdits /\ draft' = draft + 1 /\ timer' = TRUE
  /\ UNCHANGED <<kept, saved, asked, result, fails, cause>>

Ask ==
  /\ timer /\ timer' = FALSE
  /\ asked' = asked \cup {draft}
  /\ UNCHANGED <<kept, draft, saved, result, fails, cause>>

(* The first of the newest listed runs whose checkpoint is still there.     *)
Listed == {r \in Started : runs[r].row /\ Cardinality({q \in Started : runs[q].row /\ q > r}) < Recent}
Hits == {r \in Listed : runs[r].ckpt}

(* Mutant of Takes: an answer is taken whenever it comes.                   *)
TakesLate(d) == TRUE

(* Only the answer to the request of the rule in the form is taken.         *)
Takes(d) == d = draft /\ ~timer

Answer(d) ==
  /\ d \in asked /\ asked' = asked \ {d}
  /\ result' = IF Takes(d) THEN [draft |-> d, base |-> saved, run |-> Hits # {}] ELSE result
  /\ UNCHANGED <<kept, draft, saved, timer, fails, cause>>

(* A request that fails leaves what the strip shows.                        *)
AnswerLost(d) ==
  /\ d \in asked /\ asked' = asked \ {d}
  /\ Fail /\ cause' = cause \cup {"failed"}
  /\ UNCHANGED <<kept, draft, saved, timer, result>>

(* The section's save leaves the request as it was, so none is made anew.   *)
Save ==
  /\ saved # draft /\ saved' = draft
  /\ cause' = cause \cup {"saved"}
  /\ UNCHANGED <<kept, draft, timer, asked, result, fails>>

----------------------------------------------------------------------------
RetentionInit ==
  /\ day = 1 /\ ttl \in [runs : 0..MaxTtl, ckpts : 0..MaxTtl]
  /\ runs = [r \in Run |-> [day |-> None, going |-> FALSE, row |-> FALSE, ckpt |-> FALSE]]
  /\ cleaner = [c \in Cleaner |-> None]
  /\ draft = 0 /\ saved = 0 /\ timer = TRUE /\ asked = {} /\ result = None
  /\ fails = 0 /\ cause = {}

RetentionNext ==
  \/ StartRun \/ CallRoutine \/ Midnight \/ Edit \/ Ask \/ Save
  \/ \E r \in Run : Assemble(r) \/ EndRun(r)
  \/ \E c \in Cleaner : Cleanup(c)
  \/ \E d \in 0..MaxEdits : Answer(d) \/ AnswerLost(d)

RetentionSpec == RetentionInit /\ [][RetentionNext]_retentionVars

----------------------------------------------------------------------------
RetentionTypeOK ==
  /\ day \in 1..MaxDay /\ {draft, saved} \cup asked \subseteq 0..MaxEdits
  /\ \A r \in Started : runs[r].day \in 1..day
  /\ result = None \/ result \in [draft : 0..MaxEdits, base : 0..MaxEdits, run : BOOLEAN]

(* A cleanup, also one called by hand beside a run that goes on past        *)
(* midnight, leaves the row of that run alone; only a setting of zero days  *)
(* does not.                                                                *)
LiveSpared == \A r \in Started : runs[r].going => runs[r].row \/ "zero" \in cause

(* Once nothing is pending the strip shows what the rule in the form would  *)
(* drop beside the stored one, unless a request failed, or the save itself  *)
(* made the comparison old.                                                 *)
PreviewOfDraft ==
  (result # None /\ ~timer /\ asked = {}) =>
    ((result.draft = draft /\ result.base = saved) \/ cause \cap {"failed", "saved"} # {})

(* All of it: live runs are spared and the preview is of the rule in the form. *)
CleanupSound == RetentionTypeOK /\ LiveSpared /\ PreviewOfDraft
=============================================================================
