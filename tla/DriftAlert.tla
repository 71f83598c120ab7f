------------------------------ MODULE DriftAlert -----------------------------
(***************************************************************************)
(* The daemon's one alert about databases newer than its build              *)
(* (src/ops/daemon/alert/schema_drift.ts): at each tick the degraded        *)
(* profiles are put down in the pidfile, a profile with a notifier is       *)
(* looked for, and the alert is sent once, a failed send being tried again  *)
(* an hour later.  Databases, settings and tokens change meanwhile.         *)
(***************************************************************************)
EXTENDS Integers, FiniteSets

CONSTANTS
  Profiles,   \* the scheduled profiles, numbered in the order of their names
  None,
  Retry,      \* hours: SCHEMA_DRIFT_NOTIFY_RETRY_INTERVAL_MS
  MaxChanges, \* bound: databases upgraded or restored, notifiers changed
  MaxFails    \* bound: writes of the pidfile that fail

VARIABLES
  drift,    \* the profiles whose database is newer than the build
  notifier, \* notifier[p]: "none" configured, "works", or "broken"
  degraded, notified, warned, \* the pidfile's degraded, schemaDriftNotifiedAt, ...NoNotifierWarnedAt
  failed,   \* the hours since ...NotifyFailedAt, None when it is null
  tick,     \* where the tick is: None, looking at a profile, or sending for one
  changes, fails,
  sent,     \* observability: the alert was delivered since the pidfile was made
  last,     \* observability: the hours since the last try, None before the first
  crowded,  \* observability: two deliveries, or two tries within the interval
  cause     \* observability

alertVars == <<drift, notifier, degraded, notified, warned, failed, tick,
               changes, fails, sent, last, crowded, cause>>
around == <<drift, notifier, changes>>
watched == <<sent, last, crowded, cause>>

Profile == 1..Profiles
Looking(p) == [step |-> "look", p |-> p]
Sending(p) == [step |-> "send", p |-> p]

(* None is neither a number nor a place of the tick. *)
ASSUME DriftAlertAssumption ==
  /\ Retry \in Nat /\ Profiles \in Nat
  /\ None \notin Int
  /\ \A p \in Profile : None # Looking(p) /\ None # Sending(p)

(* The profiles are put down; the pidfile's other fields say whether to go  *)
(* on.  A database that is no longer newer stays in `degraded`.             *)
Track ==
  /\ tick = None /\ drift # {}
  /\ degraded' = degraded \cup drift
  /\ tick' = IF notified THEN None ELSE Looking(1)
  /\ UNCHANGED <<around, notified, warned, failed, fails, watched>>

(* Mutant of Throttled: a failed send is never tried again.                 *)
ThrottledForGood == failed # None

(* A try that failed less than the interval ago; the next one waits.        *)
Throttled == failed # None /\ failed <= Retry

(* The first profile in order that has a notifier sends, whether or not its *)
(* notifier works; each profile's settings are awaited.                     *)
Look(p) ==
  /\ tick = Looking(p)
  /\ IF notifier[p] # "none"
     THEN warned' = FALSE /\ tick' = IF Throttled THEN None ELSE Sending(p)
     ELSE IF p < Profiles THEN tick' = Looking(p + 1) /\ UNCHANGED warned
     ELSE warned' = TRUE /\ tick' = None
  /\ UNCHANGED <<around, degraded, notified, failed, fails, watched>>

(* Mutant of Stamped: only a failure is put down.                           *)
StampedFailure(ok) == notified' = notified /\ failed' = IF ok THEN None ELSE 0

(* What a try leaves in the pidfile. *)
Stamped(ok) == notified' = (notified \/ ok) /\ failed' = IF ok THEN None ELSE 0

Send(p) ==
  /\ tick = Sending(p) /\ tick' = None
  /\ LET ok == notifier[p] = "works"
     IN  /\ sent' = (sent \/ ok)
         /\ crowded' = (crowded \/ sent \/ (last # None /\ last <= Retry))
         /\ \/ Stamped(ok) /\ UNCHANGED <<fails, cause>>
            \/ /\ fails < MaxFails /\ fails' = fails + 1
               /\ cause' = cause \cup {"unwritten"}
               /\ UNCHANGED <<notified, failed>>
  /\ last' = 0
  /\ UNCHANGED <<around, degraded, warned>>

Older(age) == IF age = None THEN None ELSE IF age > Retry THEN age ELSE age + 1

HourPasses ==
  /\ failed' = Older(failed) /\ last' = Older(last)
  /\ UNCHANGED <<around, degraded, notified, warned, tick, fails, sent, crowded, cause>>

(* serve stop and start: a new pidfile; the new daemon's build may still be *)
(* older than a database.                                                   *)
Restart ==
  /\ changes < MaxChanges /\ changes' = changes + 1
  /\ drift' \in {drift, {}}
  /\ degraded' = {} /\ notified' = FALSE /\ warned' = FALSE /\ failed' = None /\ tick' = None
  /\ sent' = FALSE /\ last' = None
  /\ UNCHANGED <<notifier, fails, crowded, cause>>

Change ==
  /\ changes < MaxChanges /\ changes' = changes + 1
  /\ \E p \in Profile :
       \/ /\ drift' = IF p \in drift THEN drift \ {p} ELSE drift \cup {p}
          /\ UNCHANGED notifier
       \/ /\ \E s \in {"none", "works", "broken"} : notifier' = [notifier EXCEPT ![p] = s]
          /\ UNCHANGED drift
  /\ UNCHANGED <<degraded, notified, warned, failed, tick, fails, watched>>

AlertInit ==
  /\ drift = {} /\ notifier \in [Profile -> {"none", "works", "broken"}]
  /\ degraded = {} /\ notified = FALSE /\ warned = FALSE /\ failed = None /\ tick = None
  /\ changes = 0 /\ fails = 0 /\ sent = FALSE /\ last = None /\ crowded = FALSE /\ cause = {}

TickStep == Track \/ \E p \in Profile : Look(p) \/ Send(p)

AlertNext == TickStep \/ HourPasses \/ Restart \/ Change

(* The daemon ticks every half minute and the hours pass. *)
Waiting == HourPasses /\ failed' # failed
AlertFairness == WF_alertVars(TickStep) /\ WF_alertVars(Waiting)

AlertSpec == AlertInit /\ [][AlertNext]_alertVars /\ AlertFairness

----------------------------------------------------------------------------
AlertTypeOK ==
  /\ drift \subseteq Profile /\ degraded \subseteq Profile
  /\ {notified, warned, sent, crowded} \subseteq BOOLEAN
  /\ failed = None \/ failed \in 0..(Retry + 1)

(* The alert is delivered once as long as the daemon lives, and tried no    *)
(* oftener than the interval, unless the pidfile could not be written.      *)
OneAlert == crowded => "unwritten" \in cause

Senders == {p \in Profile : notifier[p] # "none"}
Due == drift # {} /\ Senders # {} /\ notifier[CHOOSE p \in Senders : \A q \in Senders : p <= q] = "works"

(* While a database is too new and the first profile that has a notifier    *)
(* can send, the alert is delivered sooner or later: a send that failed, or *)
(* no notifier at all, does not silence it for good.                        *)
Settled == sent \/ ~Due
AlertDelivered == Due ~> Settled

(* All of it: one alert, as often as the interval allows. *)
AlertSound == AlertTypeOK /\ OneAlert
=============================================================================
