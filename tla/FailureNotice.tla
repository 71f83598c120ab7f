----------------------------- MODULE FailureNotice ---------------------------
(***************************************************************************)
(* What a run tells when it ends (src/cli/commands/run.ts,                  *)
(* run_failure_notice.ts and ops/observability/notify/dedup.ts): a passed   *)
(* run always its digest; a failed one its notice, unless the same failure  *)
(* was told less than a day ago.  Notifiers fail silently, the record may   *)
(* not be written or read, and a run may die between the two.               *)
(***************************************************************************)
EXTENDS Naturals

CONSTANTS
  Failure,  \* the signatures: the failed stage and its error, digits and queries left out
  Nil,
  Day,      \* DAY_MS in the hours of the model
  MaxHours, \* bound: the clock
  MaxRuns,  \* bound: failures in a row, and the count on record
  MaxFaults \* bound: notices lost, records unread or unwritten, runs that die

(* notify/failure_dedup.json, when there is one. *)
NoticeRecord == [signature : Failure, first : Nat, last : Nat, count : Nat]

ASSUME FailureNoticeAssumption ==
  /\ Nil \notin Failure \cup Nat /\ Nil \notin NoticeRecord
  /\ Nil \notin [action : {"send", "remind", "suppress"}, step : {"notify", "write"}, doc : NoticeRecord]
  /\ Day \in Nat /\ MaxHours \in Nat

VARIABLES
  now,
  doc,      \* the record: signature, firstSeenAt, lastNotifiedAt, consecutiveCount
  ending,   \* the run that is telling its failure: what it decided, Nil without
  faults,
  told,     \* observability: told[f]: the hour its notice last went out, Nil before
  inRow,    \* observability: the failures in a row with the last one's signature
  silenced, \* observability: a failure was kept back that nothing had told that day
  lapses    \* observability: what was lost on the way

noticeVars == <<now, doc, ending, faults, told, inRow, silenced, lapses>>

First(f) == [signature |-> f, first |-> now, last |-> now, count |-> 1]

(* Mutant of Again: a notice kept back counts as told.                      *)
AgainAsTold(prior, remind) == [prior EXCEPT !.count = @ + 1, !.last = now]

(* The record after one more failure of the same kind.                      *)
Again(prior, remind) == [prior EXCEPT !.count = @ + 1, !.last = IF remind THEN now ELSE @]

(* Mutant of Action: a failure already on record is never told again.       *)
ActionOnce(prior, f) == IF prior = Nil \/ prior.signature # f THEN "send" ELSE "suppress"

(* Sent when it is another failure than the one on record, reminded of a    *)
(* day after it was last told, suppressed until then.                       *)
Action(prior, f) ==
  IF prior = Nil THEN "send"
  ELSE IF prior.signature # f THEN "send"
  ELSE IF now - prior.last >= Day THEN "remind" ELSE "suppress"

Faulty(why) == faults < MaxFaults /\ faults' = faults + 1 /\ lapses' = lapses \cup {why}

(* The record is read, or cannot be and counts as absent.                   *)
RunFails(f) ==
  /\ ending = Nil /\ inRow.count < MaxRuns
  /\ doc # Nil => doc.count < MaxRuns
  /\ \E prior \in {doc, Nil} :
       /\ IF prior = doc THEN UNCHANGED <<faults, lapses>> ELSE Faulty("unread")
       /\ LET action == Action(prior, f)
          IN  ending' = [action |-> action, step |-> "notify",
                         doc |-> IF prior # Nil /\ action # "send" THEN Again(prior, action = "remind") ELSE First(f)]
  /\ inRow' = [signature |-> f, count |-> IF inRow.signature = f THEN inRow.count + 1 ELSE 1]
  /\ UNCHANGED <<now, doc, told, silenced>>

(* Every notifier is tried; that none got through is not told to the caller. *)
Notify ==
  /\ ending # Nil /\ ending.step = "notify"
  /\ LET f == ending.doc.signature IN
       IF ending.action = "suppress"
       THEN /\ silenced' = (silenced \/ (IF told[f] = Nil THEN TRUE ELSE now - told[f] >= Day))
            /\ UNCHANGED <<told, faults, lapses>>
       ELSE /\ \/ told' = [told EXCEPT ![f] = now] /\ UNCHANGED <<faults, lapses>>
               \/ Faulty("undelivered") /\ UNCHANGED told
            /\ UNCHANGED silenced
  /\ ending' = [ending EXCEPT !.step = "write"]
  /\ UNCHANGED <<now, doc, inRow>>

Write ==
  /\ ending # Nil /\ ending.step = "write" /\ ending' = Nil
  /\ \/ doc' = ending.doc /\ UNCHANGED <<faults, lapses>>
     \/ Faulty("unwritten") /\ UNCHANGED doc
  /\ UNCHANGED <<now, told, inRow, silenced>>

Dies ==
  /\ ending # Nil /\ ending' = Nil
  /\ Faulty("died")
  /\ UNCHANGED <<now, doc, told, inRow, silenced>>

(* A passed run sends its digest and leaves the record of failures alone.   *)
RunPasses ==
  /\ ending = Nil
  /\ inRow' = [signature |-> Nil, count |-> 0]
  /\ lapses' = lapses \cup (IF doc = Nil THEN {} ELSE {"recovered"})
  /\ UNCHANGED <<now, doc, ending, faults, told, silenced>>

HourPasses == ending = Nil /\ now < MaxHours /\ now' = now + 1 /\ UNCHANGED <<doc, ending, faults, told, inRow, silenced, lapses>>

NoticeInit ==
  /\ now = 0 /\ doc = Nil /\ ending = Nil /\ faults = 0
  /\ told = [f \in Failure |-> Nil] /\ inRow = [signature |-> Nil, count |-> 0]
  /\ silenced = FALSE /\ lapses = {}

NoticeNext ==
  \/ \E f \in Failure : RunFails(f)
  \/ Notify \/ Write \/ Dies \/ RunPasses \/ HourPasses

NoticeSpec == NoticeInit /\ [][NoticeNext]_noticeVars

----------------------------------------------------------------------------
NoticeTypeOK ==
  /\ now \in 0..MaxHours
  /\ doc = Nil \/ doc \in [signature : Failure, first : 0..now, last : 0..now, count : Nat \ {0}]
  /\ doc # Nil => doc.first <= doc.last

(* A failure is kept back only when the same one was told less than a day   *)
(* before; a notice that no notifier delivered is the one way out of that,  *)
(* and a record lost, unread or of another failure never is.                *)
KeptBackWasTold == silenced => "undelivered" \in lapses

(* The count a reminder gives is that of the failures in a row, unless the  *)
(* record was lost or unread, or a run passed in between, which does not    *)
(* clear it.                                                                *)
CountedInRow ==
  (ending = Nil /\ doc # Nil) =>
    (doc.signature = inRow.signature => doc.count = inRow.count \/ lapses \ {"undelivered"} # {})

(* All of it: no failure is kept back untold, and the count is true. *)
NoticeSound == NoticeTypeOK /\ KeptBackWasTold /\ CountedInRow
=============================================================================
