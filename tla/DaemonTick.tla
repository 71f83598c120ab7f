---------------------------- MODULE DaemonTick ----------------------------
(***************************************************************************)
(* The scheduling daemon's tick (src/ops/daemon/daemon.ts, runOwedBatch)   *)
(* with what it calls: the pure owed / expired derivations of              *)
(* src/core/schedule, the reachability gate, the deferred-slot sweep, the  *)
(* same-day catch-up, the retrospective sweep and the notification         *)
(* throttle.  It runs beside the user's own runs, across daemon restarts   *)
(* and host suspends.                                                      *)
(*                                                                         *)
(* Time is an integer number of units of LOCAL time; a day has DayLen of   *)
(* them, and unit 0 is the midnight that starts day 0.  A tick happens     *)
(* every 30 s in the code, so in the model no unit passes over an idle     *)
(* daemon that has not ticked in it.  A slot is named by its profile, its  *)
(* date (day number) and its time of day.                                  *)
(*                                                                         *)
(* A tick is a sequence of steps because it awaits children, probes and    *)
(* sends; everything it decided before an await may be stale after it.     *)
(* Which process may run a pipeline is decided by the run lock (RunLock):  *)
(* here at most one process is past it, and others are refused at once.    *)
(***************************************************************************)
EXTENDS Integers, FiniteSets

CONSTANTS
  Profile,      \* the scheduled profiles
  SlotTime,     \* the slots of every day, as times of day
  Skipped,      \* the slots the user chose to skip (skipNext, weekdays)
  DayLen,       \* units in a day
  Grace,        \* graceMinutes, in units
  RetryAfter,   \* DEFERRED_NOTIFY_RETRY_INTERVAL_MS, in units
  UtcOffset,    \* local time minus UTC, in units
  Faults,       \* which of FaultKinds the environment may do
  MaxTime,      \* bound: the last unit of a behaviour
  MaxStarts,    \* bound: daemon starts
  MaxUserRuns,  \* bound: manual runs and run requests from the board
  NoRun         \* "no process is past the run lock"

FaultKinds == {"sleep", "network", "notify", "lost", "crash"}

ASSUME DaemonTickAssumption ==
  /\ DayLen \in Nat \ {0}
  /\ SlotTime \subseteq 0 .. DayLen - 1
  /\ Grace \in Nat /\ MaxTime \in Nat
  /\ RetryAfter \in 0 .. DayLen  \* one hour, in sweep.ts
  /\ UtcOffset \in -DayLen .. DayLen
  /\ Faults \subseteq FaultKinds
  /\ MaxStarts \in Nat /\ MaxUserRuns \in Nat

(* The ledger's 'catchup' slot.  As a time it parses to an invalid date,    *)
(* which no window contains.                                                *)
Catchup == -1

VARIABLES
  \* the environment
  now,        \* local wall clock
  starts,     \* daemon starts so far
  userRuns,   \* manual runs and run requests so far
  intents,    \* profiles with a pending run request from the board
  run,        \* the process past the run lock, or NoRun
  \* durable: the profiles' databases
  rows,       \* the runs table
  deferred,   \* the deferred_slots table
  \* the pidfile
  attempts,   \* slots this daemon has tried to spawn
  declines,   \* slotGateDeclines
  stamps,     \* deferredNotifyAttempts
  lost,       \* the pidfile has been removed: reads are empty, writes do nothing
  slept,      \* the gap since lastTickAt shows a suspend
  \* the daemon process
  up,         \* it is running
  phase,      \* where its batch is
  waiting,    \* the batch is awaiting the process in run
  bnow,       \* the batch's `now`, captured once; -1 before the first
  bslept,     \* the batch's own view of slept
  toClaim,    \* intents the batch read and has not handled
  queue,      \* owed slots the batch has not handled
  expired,    \* expired, unserved slots the batch derived
  gate,       \* the batch's gate decision
  toSweep,    \* profiles whose catch-up is not decided yet
  summed,     \* profiles whose same-day summary is decided
  toRetro,    \* past (profile, date) pairs the batch has not handled
  \* observability
  launched,   \* scheduled slots spawned in this daemon's life
  upSince,    \* when this daemon started
  informed    \* deferred slots the user was told of, or a catch-up ran for

envVars   == <<now, starts, userRuns, intents>>
dbVars    == <<rows, deferred>>
pidVars   == <<attempts, declines, stamps, lost>>
batchVars == <<bnow, bslept, toClaim, queue, expired, gate, toSweep, summed, toRetro>>
obsVars   == <<launched, upSince, informed>>
vars == <<envVars, run, dbVars, pidVars, slept, up, phase, waiting, batchVars, obsVars>>

Day     == 0 .. MaxTime \div DayLen
RunDay  == -1 .. (MaxTime \div DayLen) + 1
SlotKey == [profile : Profile, date : Day, slot : SlotTime]
Attempt == [profile : Profile, date : Day, slot : SlotTime \cup {Catchup}]
GateReasons == {"host-asleep", "network-unreachable"}
Kinds   == {"run", "catchup"}
Reasons == GateReasons \cup {"daemon-unavailable"}
Phases  == {"idle", "intents", "owed", "sweep", "retro"}

TypeOK ==
  /\ now \in 0 .. MaxTime /\ starts \in 0 .. MaxStarts
  /\ userRuns \in 0 .. MaxUserRuns /\ intents \subseteq Profile
  /\ run \in [profile : Profile, kind : Kinds, at : 0 .. MaxTime,
              written : BOOLEAN] \cup {NoRun}
  /\ rows \subseteq [id : Nat, profile : Profile, runDate : RunDay, clock : 0 .. DayLen - 1,
                     kind : Kinds, at : 0 .. MaxTime]
  /\ deferred \subseteq [key : SlotKey, reason : Reasons, notified : BOOLEAN]
  /\ attempts \subseteq Attempt
  /\ declines \subseteq [key : SlotKey, reason : GateReasons]
  /\ stamps \subseteq [profile : Profile, date : Day, at : 0 .. MaxTime]
  /\ lost \in BOOLEAN /\ slept \in BOOLEAN /\ up \in BOOLEAN
  /\ phase \in Phases /\ waiting \in BOOLEAN
  /\ bnow \in -1 .. MaxTime /\ bslept \in BOOLEAN
  /\ toClaim \subseteq Profile /\ queue \subseteq SlotKey /\ expired \subseteq SlotKey
  /\ gate \in GateReasons \cup {"ok"}
  /\ toSweep \subseteq Profile /\ summed \subseteq Profile
  /\ toRetro \subseteq Profile \X Day
  /\ launched \subseteq SlotKey /\ upSince \in 0 .. MaxTime
  /\ informed \subseteq SlotKey

----------------------------------------------------------------------------
(* core/schedule *)

DayOf(t)    == t \div DayLen
SlotAt(k)   == k.date * DayLen + k.slot
GraceEnd(k) == SlotAt(k) + Grace

(* run.ts: the row's date is the UTC one, its time directory the local one. *)
RunDate(t) == (t - UtcOffset) \div DayLen
ClockOf(t) == t % DayLen

(* The ledger as the daemon reads it back from the pidfile. *)
Ledger == IF lost THEN {} ELSE attempts

(* readRunHistory plus the ledger's entries of that date, as times of day.  *)
History(p, d) ==
  {r.clock : r \in {r \in rows : r.profile = p /\ r.runDate = d}}
    \cup {a.slot : a \in {a \in Ledger : a.profile = p /\ a.date = d}}

(* Mutant of IsServed: any run of the day serves the slot. *)
IsServedByAny(k, starttimes) == starttimes # {}

(* isServed: some start lies in the slot's own window. *)
IsServed(k, starttimes) ==
  \E c \in starttimes : k.slot <= c /\ c <= k.slot + Grace

ScheduledOn(d) == [profile : Profile, date : {d}, slot : SlotTime] \ Skipped

(* Mutant of OwedAt: only the ledger is asked, which a restart empties. *)
OwedAtByLedger(t) ==
  {k \in ScheduledOn(DayOf(t)) :
     /\ SlotAt(k) <= t /\ t <= GraceEnd(k)
     /\ ~IsServed(k, {a.slot : a \in {a \in Ledger : a.profile = k.profile
                                                   /\ a.date = k.date}})}

(* isRunOwed *)
OwedAt(t) ==
  {k \in ScheduledOn(DayOf(t)) :
     /\ SlotAt(k) <= t /\ t <= GraceEnd(k)
     /\ ~IsServed(k, History(k.profile, k.date))}

(* Mutant of ExpiredAt: only the database is asked, not the ledger. *)
ExpiredAtByRows(t) ==
  {k \in ScheduledOn(DayOf(t)) :
     /\ t > GraceEnd(k)
     /\ ~IsServed(k, {r.clock : r \in {r \in rows : r.profile = k.profile
                                                  /\ r.runDate = k.date}})}

(* deriveExpiredUnserved *)
ExpiredAt(t) ==
  {k \in ScheduledOn(DayOf(t)) :
     /\ t > GraceEnd(k)
     /\ ~IsServed(k, History(k.profile, k.date))}

----------------------------------------------------------------------------
(* The pidfile: updateDaemonPidfile does nothing once the file is gone *)

(* The ledger keeps only the entries of the date it appends for. *)
Append(a) ==
  attempts' = IF lost THEN attempts
              ELSE {b \in attempts : b.date = a.date} \cup {a}

RowsOf(p, d) == {r \in deferred : r.key.profile = p /\ r.key.date = d}
KeysOf(p, d) == {r.key : r \in RowsOf(p, d)}

IsThrottled(p, d) ==
  ~lost /\ \E s \in stamps : s.profile = p /\ s.date = d /\ bnow - s.at <= RetryAfter

(* stampNotifyAttempt: one stamp per (profile, date); a stamp over a day    *)
(* old is dropped.                                                          *)
Stamp(p, d) ==
  stamps' = IF lost THEN stamps
            ELSE {s \in stamps : ~(s.profile = p /\ s.date = d) /\ bnow - s.at <= DayLen}
                   \cup {[profile |-> p, date |-> d, at |-> bnow]}

(* markNotified: every row of the date. *)
Marked(p, d) ==
  {IF r \in RowsOf(p, d) THEN [r EXCEPT !.notified = TRUE] ELSE r : r \in deferred}

----------------------------------------------------------------------------
(* The environment: clock, host, user, run processes *)

Init ==
  /\ now = 0 /\ starts = 0 /\ userRuns = 0 /\ intents = {} /\ run = NoRun
  /\ rows = {} /\ deferred = {}
  /\ attempts = {} /\ declines = {} /\ stamps = {} /\ lost = FALSE /\ slept = FALSE
  /\ up = FALSE /\ phase = "idle" /\ waiting = FALSE
  /\ bnow = -1 /\ bslept = FALSE /\ toClaim = {} /\ queue = {} /\ expired = {}
  /\ gate = "ok" /\ toSweep = {} /\ summed = {} /\ toRetro = {}
  /\ launched = {} /\ upSince = 0 /\ informed = {}

(* The host is awake: an idle daemon has ticked in this unit, a waiting one *)
(* goes on beating.                                                         *)
TimePasses ==
  /\ now < MaxTime
  /\ up => waiting \/ (phase = "idle" /\ bnow = now)
  /\ now' = now + 1
  /\ slept' = FALSE
  /\ UNCHANGED <<starts, userRuns, intents, run, dbVars, pidVars, up, phase,
                 waiting, batchVars, obsVars>>

(* The host sleeps through a unit: no tick fires.  Over a waiting batch the *)
(* first beat after waking may come before or after the batch goes on.      *)
HostSleeps ==
  /\ "sleep" \in Faults
  /\ up /\ (waiting \/ phase = "idle")
  /\ now < MaxTime
  /\ now' = now + 1
  /\ slept' \in IF waiting THEN BOOLEAN ELSE {TRUE}
  /\ UNCHANGED <<starts, userRuns, intents, run, dbVars, pidVars, up, phase,
                 waiting, batchVars, obsVars>>

(* `jobbunny run` by hand. *)
UserRun(p) ==
  /\ userRuns < MaxUserRuns
  /\ userRuns' = userRuns + 1
  /\ run = NoRun
  /\ run' = [profile |-> p, kind |-> "run", at |-> now, written |-> FALSE]
  /\ UNCHANGED <<now, starts, intents, dbVars, pidVars, slept, up, phase, waiting,
                 batchVars, obsVars>>

(* The board asks the daemon for a run. *)
RequestRun(p) ==
  /\ userRuns < MaxUserRuns
  /\ userRuns' = userRuns + 1
  /\ p \notin intents
  /\ intents' = intents \cup {p}
  /\ UNCHANGED <<now, starts, run, dbVars, pidVars, slept, up, phase, waiting,
                 batchVars, obsVars>>

(* run.ts: after lock and preflight, startRun inserts the row, dated with   *)
(* the time the process started.                                            *)
RunRow ==
  /\ run # NoRun /\ ~run.written
  /\ rows' = rows \cup {[id |-> Cardinality(rows), profile |-> run.profile,
                         runDate |-> RunDate(run.at), clock |-> ClockOf(run.at),
                         kind |-> run.kind, at |-> run.at]}
  /\ run' = [run EXCEPT !.written = TRUE]
  /\ UNCHANGED <<envVars, deferred, pidVars, slept, up, phase, waiting, batchVars, obsVars>>

(* Mutant of RunEnds: the exit listener only fires for a run that got       *)
(* through its preflight.                                                   *)
RunEndsUnheard ==
  /\ run # NoRun
  /\ run' = NoRun
  /\ waiting' = (waiting /\ ~run.written)
  /\ UNCHANGED <<envVars, dbVars, pidVars, slept, up, phase, batchVars, obsVars>>

(* The process exits: finished, failed its preflight, crashed, or killed by *)
(* the daemon's backstop.                                                   *)
RunEnds ==
  /\ run # NoRun
  /\ run' = NoRun
  /\ waiting' = FALSE
  /\ UNCHANGED <<envVars, dbVars, pidVars, slept, up, phase, batchVars, obsVars>>

(* Somebody removes the pidfile under a running daemon. *)
PidfileLost ==
  /\ "lost" \in Faults
  /\ up /\ ~lost
  /\ lost' = TRUE
  /\ UNCHANGED <<envVars, run, dbVars, attempts, declines, stamps, slept, up, phase,
                 waiting, batchVars, obsVars>>

----------------------------------------------------------------------------
(* The daemon's life *)

(* `serve start`: acquireDaemonPidfile writes an empty ledger. *)
Start ==
  /\ ~up /\ starts < MaxStarts
  /\ up' = TRUE /\ starts' = starts + 1
  /\ attempts' = {} /\ declines' = {} /\ stamps' = {} /\ lost' = FALSE
  /\ slept' = FALSE /\ bnow' = -1
  /\ launched' = {} /\ upSince' = now
  /\ UNCHANGED <<now, userRuns, intents, run, dbVars, phase, waiting, bslept, toClaim,
                 queue, expired, gate, toSweep, summed, toRetro, informed>>

EndBatch ==
  /\ phase' = "idle" /\ bslept' = FALSE /\ toClaim' = {} /\ queue' = {}
  /\ expired' = {} /\ gate' = "ok" /\ toSweep' = {} /\ summed' = {} /\ toRetro' = {}

(* `serve stop` ends the daemon (its handler exits at once, the batch is    *)
(* forgotten) and then the child the daemon awaits.                         *)
Stop ==
  /\ up
  /\ up' = FALSE /\ waiting' = FALSE /\ EndBatch
  /\ run' = IF waiting THEN NoRun ELSE run
  /\ UNCHANGED <<envVars, dbVars, pidVars, slept, bnow, obsVars>>

(* The daemon dies by itself: a child goes on. *)
Crash ==
  /\ "crash" \in Faults
  /\ up
  /\ up' = FALSE /\ waiting' = FALSE /\ EndBatch
  /\ UNCHANGED <<envVars, run, dbVars, pidVars, slept, bnow, obsVars>>

----------------------------------------------------------------------------
(* runOwedBatch *)

(* tick: the heartbeat first, then `now`, then the intents are read. *)
Tick ==
  /\ up /\ phase = "idle"
  /\ bnow' = now /\ bslept' = slept /\ slept' = FALSE
  /\ toClaim' = intents
  /\ phase' = "intents"
  /\ UNCHANGED <<envVars, run, dbVars, pidVars, up, waiting, queue, expired, gate,
                 toSweep, summed, toRetro, obsVars>>

Proceeding(ph) == up /\ phase = ph /\ ~waiting

(* Spawn a child and await it; refused by the run lock, it exits at once.   *)
Spawn(p, kind) ==
  \/ /\ run = NoRun
     /\ run' = [profile |-> p, kind |-> kind, at |-> now, written |-> FALSE]
     /\ waiting' = TRUE
  \/ run # NoRun /\ UNCHANGED <<run, waiting>>

(* claimIntent; one that vanished (cancelled, expired) is passed over. *)
RunIntent(p) ==
  /\ Proceeding("intents") /\ p \in toClaim
  /\ toClaim' = toClaim \ {p}
  /\ \/ /\ p \in intents
        /\ intents' = intents \ {p}
        /\ Spawn(p, "run")
     \/ UNCHANGED <<intents, run, waiting>>
  /\ UNCHANGED <<now, starts, userRuns, dbVars, pidVars, slept, up, phase, bnow, bslept,
                 queue, expired, gate, toSweep, summed, toRetro, obsVars>>

(* Owed and expired slots are derived from the batch's `now` and from one   *)
(* reading of history; the gate is decided once for both.                   *)
Scan ==
  /\ Proceeding("intents") /\ toClaim = {}
  /\ queue' = OwedAt(bnow)
  /\ expired' = ExpiredAt(bnow)
  /\ \/ bslept /\ gate' = "host-asleep"
     \/ ~bslept /\ gate' = "ok"
     \/ ~bslept /\ "network" \in Faults /\ queue' \cup expired' # {}
          /\ gate' = "network-unreachable"
  /\ phase' = "owed"
  /\ UNCHANGED <<envVars, run, dbVars, pidVars, slept, up, waiting, bnow, bslept,
                 toClaim, toSweep, summed, toRetro, obsVars>>

(* The queue is in slot order. *)
NextOwed(k) == k \in queue /\ \A j \in queue : k.slot <= j.slot

(* applyGateDecline: a decline is noted, and nothing else. *)
Decline(k) ==
  /\ Proceeding("owed") /\ NextOwed(k) /\ gate # "ok"
  /\ queue' = queue \ {k}
  /\ declines' = IF lost THEN declines
                 ELSE {d \in declines : d.key.date = k.date /\ d.key # k}
                        \cup {[key |-> k, reason |-> gate]}
  /\ UNCHANGED <<envVars, run, dbVars, attempts, stamps, lost, slept, up, phase, waiting,
                 bnow, bslept, toClaim, expired, gate, toSweep, summed, toRetro, obsVars>>

(* The slot is passed over: an earlier child outlasted its grace, or the    *)
(* ledger cannot be written.                                                *)
PassOver(k) ==
  /\ Proceeding("owed") /\ NextOwed(k) /\ gate = "ok"
  /\ now > GraceEnd(k) \/ lost
  /\ queue' = queue \ {k}
  /\ UNCHANGED <<envVars, run, dbVars, pidVars, slept, up, phase, waiting, bnow, bslept,
                 toClaim, expired, gate, toSweep, summed, toRetro, obsVars>>

(* Mutant of Launch: the window is not checked again after the awaits. *)
LaunchUnchecked(k) ==
  /\ Proceeding("owed") /\ NextOwed(k) /\ gate = "ok" /\ ~lost
  /\ queue' = queue \ {k}
  /\ Append(k)
  /\ Spawn(k.profile, "run")
  /\ launched' = launched \cup {k}
  /\ UNCHANGED <<envVars, dbVars, declines, stamps, lost, slept, up, phase, bnow, bslept,
                 toClaim, expired, gate, toSweep, summed, toRetro, upSince, informed>>

(* Mutant of Launch: the attempt is not ledgered. *)
LaunchUnledgered(k) ==
  /\ Proceeding("owed") /\ NextOwed(k) /\ gate = "ok" /\ now <= GraceEnd(k) /\ ~lost
  /\ queue' = queue \ {k}
  /\ Spawn(k.profile, "run")
  /\ launched' = launched \cup {k}
  /\ UNCHANGED <<envVars, dbVars, pidVars, slept, up, phase, bnow, bslept, toClaim,
                 expired, gate, toSweep, summed, toRetro, upSince, informed>>

(* The ledger is written before the spawn, the child awaited after it. *)
Launch(k) ==
  /\ Proceeding("owed") /\ NextOwed(k) /\ gate = "ok" /\ now <= GraceEnd(k) /\ ~lost
  /\ queue' = queue \ {k}
  /\ Append(k)
  /\ Spawn(k.profile, "run")
  /\ launched' = launched \cup {k}
  /\ UNCHANGED <<envVars, dbVars, declines, stamps, lost, slept, up, phase, bnow, bslept,
                 toClaim, expired, gate, toSweep, summed, toRetro, upSince, informed>>

----------------------------------------------------------------------------
(* runDeferredSweepAndCatchup *)

(* Mutant of Attribution: no fallback for a slot nothing is known about. *)
AttributionPartial(k) ==
  IF \E d \in declines : d.key = k
    THEN (CHOOSE d \in declines : d.key = k).reason
    ELSE gate

(* attributeReason: the slot's own decline, this tick's decline, or "the    *)
(* daemon was not there".                                                   *)
Attribution(k) ==
  IF ~lost /\ \E d \in declines : d.key = k
    THEN (CHOOSE d \in declines : d.key = k).reason
    ELSE IF gate # "ok" THEN gate ELSE "daemon-unavailable"

(* Mutant of RecordDeferrals: a declined gate ends the sweep before it. *)
RecordDeferralsUngated ==
  /\ Proceeding("owed") /\ queue = {}
  /\ deferred' = IF gate # "ok" THEN deferred ELSE deferred \cup
       {[key |-> k, reason |-> Attribution(k), notified |-> FALSE] :
          k \in expired \ {r.key : r \in deferred}}
  /\ toSweep' = {k.profile : k \in expired}
  /\ phase' = "sweep"
  /\ UNCHANGED <<envVars, run, rows, pidVars, slept, up, waiting, bnow, bslept, toClaim,
                 queue, expired, gate, summed, toRetro, obsVars>>

(* recordIfAbsent for every expired slot. *)
RecordDeferrals ==
  /\ Proceeding("owed") /\ queue = {}
  /\ deferred' = deferred \cup
       {[key |-> k, reason |-> Attribution(k), notified |-> FALSE] :
          k \in expired \ {r.key : r \in deferred}}
  /\ toSweep' = {k.profile : k \in expired}
  /\ phase' = "sweep"
  /\ UNCHANGED <<envVars, run, rows, pidVars, slept, up, waiting, bnow, bslept, toClaim,
                 queue, expired, gate, summed, toRetro, obsVars>>

Today == DayOf(bnow)

HasCatchupRun(p, d) == \E r \in rows : r.profile = p /\ r.runDate = d /\ r.kind = "catchup"

(* Mutant of HasCatchup: the ledger alone guards the catch-up. *)
HasCatchupByLedger(p) ==
  \E a \in Ledger : a.profile = p /\ a.date = Today /\ a.slot = Catchup

HasCatchup(p) ==
  (\E a \in Ledger : a.profile = p /\ a.date = Today /\ a.slot = Catchup)
    \/ HasCatchupRun(p, Today)

NeedsSummary(p, d) == \E r \in RowsOf(p, d) : ~r.notified

(* Mutant of Summarise: the result of notify is not looked at. *)
SummariseBlindly(p, d) ==
  /\ Stamp(p, d)
  /\ deferred' = Marked(p, d)
  /\ \/ informed' = informed \cup KeysOf(p, d)
     \/ "notify" \in Faults /\ UNCHANGED informed

(* A summary of date d is composed, stamped and sent; only a delivered one  *)
(* marks the rows.                                                          *)
Summarise(p, d) ==
  /\ Stamp(p, d)
  /\ \/ deferred' = Marked(p, d) /\ informed' = informed \cup KeysOf(p, d)
     \/ "notify" \in Faults /\ UNCHANGED <<deferred, informed>>

(* Whether there was a catch-up today is asked before the summary is sent.  *)
SameDaySummary(p) ==
  /\ Proceeding("sweep") /\ p \in toSweep \ summed
  /\ summed' = summed \cup {p}
  /\ toSweep' = IF HasCatchup(p) THEN toSweep \ {p} ELSE toSweep
  /\ IF NeedsSummary(p, Today) /\ ~IsThrottled(p, Today)
       THEN Summarise(p, Today)
       ELSE UNCHANGED <<deferred, stamps, informed>>
  /\ UNCHANGED <<envVars, run, rows, attempts, declines, lost, slept, up, phase, waiting,
                 bnow, bslept, toClaim, queue, expired, gate, toRetro, launched, upSince>>

(* No catch-up: the gate is closed, or the ledger cannot be written. *)
NoCatchup(p) ==
  /\ Proceeding("sweep") /\ p \in toSweep \cap summed
  /\ gate # "ok" \/ lost
  /\ toSweep' = toSweep \ {p}
  /\ UNCHANGED <<envVars, run, dbVars, pidVars, slept, up, phase, waiting, bnow, bslept,
                 toClaim, queue, expired, gate, summed, toRetro, obsVars>>

(* One run stands in for every row of the day. *)
LaunchCatchup(p) ==
  /\ Proceeding("sweep") /\ p \in toSweep \cap summed
  /\ gate = "ok" /\ ~lost
  /\ toSweep' = toSweep \ {p}
  /\ Append([profile |-> p, date |-> Today, slot |-> Catchup])
  /\ Spawn(p, "catchup")
  /\ informed' = IF run = NoRun THEN informed \cup KeysOf(p, Today) ELSE informed
  /\ UNCHANGED <<envVars, dbVars, declines, stamps, lost, slept, up, phase, bnow, bslept,
                 toClaim, queue, expired, gate, summed, toRetro, launched, upSince>>

----------------------------------------------------------------------------
(* runRetrospectiveDeferredSweep *)

(* Mutant of BeginRetro: only yesterday is looked at. *)
BeginRetroYesterday ==
  /\ Proceeding("sweep") /\ toSweep = {}
  /\ toRetro' = {pd \in Profile \X Day : pd[2] = Today - 1 /\ NeedsSummary(pd[1], pd[2])}
  /\ phase' = "retro"
  /\ UNCHANGED <<envVars, run, dbVars, pidVars, slept, up, waiting, bnow, bslept, toClaim,
                 queue, expired, gate, toSweep, summed, obsVars>>

BeginRetro ==
  /\ Proceeding("sweep") /\ toSweep = {}
  /\ toRetro' = {pd \in Profile \X Day : pd[2] < Today /\ NeedsSummary(pd[1], pd[2])}
  /\ phase' = "retro"
  /\ UNCHANGED <<envVars, run, dbVars, pidVars, slept, up, waiting, bnow, bslept, toClaim,
                 queue, expired, gate, toSweep, summed, obsVars>>

(* A past day that had a catch-up is closed; another one is summarised. *)
Retro(p, d) ==
  /\ Proceeding("retro") /\ <<p, d>> \in toRetro
  /\ toRetro' = toRetro \ {<<p, d>>}
  /\ \/ /\ HasCatchupRun(p, d)
        /\ deferred' = Marked(p, d)
        /\ UNCHANGED <<stamps, informed>>
     \/ ~HasCatchupRun(p, d) /\ ~IsThrottled(p, d) /\ Summarise(p, d)
     \/ /\ ~HasCatchupRun(p, d) /\ IsThrottled(p, d)
        /\ UNCHANGED <<deferred, stamps, informed>>
  /\ UNCHANGED <<envVars, run, rows, attempts, declines, lost, slept, up, phase, waiting,
                 bnow, bslept, toClaim, queue, expired, gate, toSweep, summed, launched,
                 upSince>>

FinishBatch ==
  /\ Proceeding("retro") /\ toRetro = {}
  /\ EndBatch
  /\ UNCHANGED <<envVars, run, dbVars, pidVars, slept, up, waiting, bnow, obsVars>>

Batch ==
  \/ Scan \/ RecordDeferrals \/ BeginRetro \/ FinishBatch
  \/ \E p \in Profile : \/ RunIntent(p) \/ SameDaySummary(p) \/ NoCatchup(p)
                        \/ LaunchCatchup(p) \/ \E d \in Day : Retro(p, d)
  \/ \E k \in queue : Decline(k) \/ PassOver(k) \/ Launch(k)

Environment ==
  \/ TimePasses \/ HostSleeps \/ RunRow \/ PidfileLost
  \/ \E p \in Profile : UserRun(p) \/ RequestRun(p)

Next == Environment \/ RunEnds \/ Start \/ Stop \/ Crash \/ Tick \/ Batch

Spec == Init /\ [][Next]_vars

(* The event loop runs the batch's continuations; every child ends, because *)
(* the supervisor's backstop kills one that outlives runCapMs + 5 min.      *)
FairSpec == Spec /\ WF_vars(Batch) /\ WF_vars(RunEnds)

----------------------------------------------------------------------------
(* Properties *)

(* A run of this profile really started inside the slot's window. *)
ReallyServed(k) ==
  \E r \in rows : r.profile = k.profile /\ SlotAt(k) <= r.at /\ r.at <= GraceEnd(k)

(* This daemon spawned a slot inside the window of k: k itself, or one       *)
(* whose run serves k as well.                                              *)
Attempted(k) ==
  \E j \in launched : /\ j.profile = k.profile /\ j.date = k.date
                      /\ k.slot <= j.slot /\ j.slot <= k.slot + Grace

Recorded(k) == \E r \in deferred : r.key = k

(* A batch has just completed, in the present unit. *)
Settled == up /\ phase = "idle" /\ bnow = now

(* The daemon spawns a scheduled slot at most once in its life, however     *)
(* many ticks find it owed (the ledger is written before the spawn).        *)
NoDoubleLaunch ==
  [][\A k \in queue : Launch(k) /\ ~lost => k \notin launched]_vars

(* No scheduled run is spawned outside its slot's window, even when an      *)
(* earlier child of the same batch ran for hours (the re-validation).       *)
LaunchWithinWindow ==
  [][\A k \in SlotKey : k \in launched' \ launched
       => SlotAt(k) <= now /\ now <= GraceEnd(k)]_vars

(* daemon.ts:24-29: a restart within the grace does not spawn again a slot  *)
(* whose run is in the runs table.                                          *)
NoRerun == [][Scan => \A k \in queue' : ~ReallyServed(k)]_vars

(* A slot in its window, with no run of its own and no attempt, is owed: no *)
(* other day's run passes for it (RunRecord.date is the local date).        *)
NotSuppressed ==
  [][Scan => \A k \in ScheduledOn(Today) :
       SlotAt(k) <= bnow /\ bnow <= GraceEnd(k)
         => k \in queue' \/ ReallyServed(k) \/ Attempted(k)]_vars

(* A slot this daemon launched is never also reported to the user as        *)
(* missed, and a missed one is never launched afterwards.                   *)
LaunchedXorDeferred == ~lost => \A k \in launched : ~Recorded(k)

(* After a batch, every slot of today whose window has closed was run,      *)
(* attempted or recorded as deferred.                                       *)
AccountedToday ==
  Settled => \A k \in ScheduledOn(Today) :
    now > GraceEnd(k) => ReallyServed(k) \/ Attempted(k) \/ Recorded(k)

(* sweep.ts:223-229: "at most one catch-up per calendar day", per profile,  *)
(* with a guard that survives restarts, which empty the ledger.             *)
OneCatchupPerDay ==
  \A r, q \in rows :
    r.kind = "catchup" /\ q.kind = "catchup" /\ r.profile = q.profile
      /\ DayOf(r.at) = DayOf(q.at) => r = q

(* A deferred slot is closed only when the user was told of it or a         *)
(* catch-up ran that day; a send that failed closes nothing.                *)
ClosedForAReason ==
  \A r \in deferred :
    r.notified => r.key \in informed \/ HasCatchupRun(r.key.profile, r.key.date)

(* After a batch, every earlier day still unnotified was tried within the   *)
(* retry interval: no day is left behind, however long the daemon was away. *)
PastDatesRetried ==
  Settled /\ ~lost => \A r \in deferred :
    ~r.notified /\ r.key.date < Today => IsThrottled(r.key.profile, r.key.date)

(* A batch is never wedged: it completes, or the daemon ends. *)
BatchCompletes == phase # "idle" ~> phase = "idle"

----------------------------------------------------------------------------
(* Promises of the code's comments that the code does not keep.  No run     *)
(* checks them; README.md says under which constants TLC refutes each.      *)

(* sweep.ts:322-328 marks the rows of a day that had a catch-up because     *)
(* that day is "already covered": the user was told of every closed row.    *)
ClosedMeansInformed == \A r \in deferred : r.notified => r.key \in informed

(* sweep.ts:274-281: a whole day with the lid closed is covered the next    *)
(* day: none of its slots stays unrecorded.                                 *)
MissedDayRecorded ==
  Settled => \A k \in SlotKey \ Skipped :
    k.date = Today - 1 /\ upSince <= k.date * DayLen
      => ReallyServed(k) \/ Attempted(k) \/ Recorded(k)

(* sweep.ts:98-101 tells the user "the scheduler was not running during     *)
(* this scheduled window" of a slot only if the daemon was started later    *)
(* than the slot.                                                           *)
UnavailableMeansDown ==
  [][RecordDeferrals => \A r \in deferred' \ deferred :
       r.reason = "daemon-unavailable" /\ ~lost => upSince > SlotAt(r.key)]_vars

(* The slots of a day: launched or recorded as deferred, and accounted for. *)
DaySound == TypeOK /\ LaunchedXorDeferred /\ AccountedToday

(* A launch is the only one of its slot, is inside its window, and is not   *)
(* kept back by a run that did not serve the slot.                          *)
LaunchSound == NoDoubleLaunch /\ LaunchWithinWindow /\ NotSuppressed

(* Earlier days: one catch-up a day, deferrals closed for a reason, and     *)
(* every open day tried again.                                              *)
RetroSound == ClosedForAReason /\ PastDatesRetried /\ OneCatchupPerDay
=============================================================================
