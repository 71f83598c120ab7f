--------------------------- MODULE DaemonTickProofs --------------------------
(***************************************************************************)
(* A day's slots are each launched once, in their window, or recorded as    *)
(* deferred, never both and never neither, for every set of profiles and    *)
(* slots and every fault, in a zone where local time is UTC (elsewhere the  *)
(* run DaemonUtcRerun refutes what the argument rests on).                  *)
(*                                                                         *)
(* The batch decides from a `now` and a history it read once.  What keeps   *)
(* its stale decisions harmless is that the clock only goes forward (what   *)
(* had expired stays expired), that an attempt is in the ledger before      *)
(* anything else can read it, and that the ledger forgets no entry of the   *)
(* day it is asked about.                                                   *)
(***************************************************************************)
EXTENDS DaemonTick, FiniteSetTheorems, TLAPS

EnvType ==
  /\ now \in 0 .. MaxTime /\ starts \in 0 .. MaxStarts
  /\ userRuns \in 0 .. MaxUserRuns /\ intents \subseteq Profile
RunType ==
  run \in [profile : Profile, kind : Kinds, at : 0 .. MaxTime, written : BOOLEAN] \cup {NoRun}
RowsType ==
  rows \subseteq [id : Nat, profile : Profile, runDate : RunDay, clock : 0 .. DayLen - 1,
                  kind : Kinds, at : 0 .. MaxTime]
DeferredType == deferred \subseteq [key : SlotKey, reason : Reasons, notified : BOOLEAN]
PidType ==
  /\ attempts \subseteq Attempt
  /\ declines \subseteq [key : SlotKey, reason : GateReasons]
  /\ stamps \subseteq [profile : Profile, date : Day, at : 0 .. MaxTime]
  /\ lost \in BOOLEAN
DaemonType ==
  /\ slept \in BOOLEAN /\ up \in BOOLEAN
  /\ phase \in Phases /\ waiting \in BOOLEAN
  /\ bnow \in -1 .. MaxTime /\ bslept \in BOOLEAN
BatchType ==
  /\ toClaim \subseteq Profile /\ queue \subseteq SlotKey /\ expired \subseteq SlotKey
  /\ gate \in GateReasons \cup {"ok"}
  /\ toSweep \subseteq Profile /\ summed \subseteq Profile
  /\ toRetro \subseteq Profile \X Day
ObsType == launched \subseteq SlotKey /\ upSince \in 0 .. MaxTime /\ informed \subseteq SlotKey

LEMMA TypeParts ==
  TypeOK <=> /\ EnvType /\ RunType /\ RowsType /\ DeferredType /\ PidType /\ DaemonType /\ BatchType /\ ObsType
BY DEF TypeOK, EnvType, RunType, RowsType, DeferredType, PidType, DaemonType, BatchType, ObsType

----------------------------------------------------------------------------
(* The batch's clock is not ahead of the wall clock, and set while it works. *)
Clocked ==
  /\ bnow <= now
  /\ phase # "idle" => up /\ bnow >= 0
  /\ phase \in {"idle", "intents"} => queue = {} /\ expired = {}

(* A row says when its run started. *)
RowsDated == \A r \in rows : r.at = r.runDate * DayLen + r.clock

(* What the batch has still to do was derived from its own `now`. *)
Derived ==
  /\ \A k \in queue : k \in ScheduledOn(Today) /\ SlotAt(k) <= bnow
  /\ \A k \in expired : k \in ScheduledOn(Today) /\ GraceEnd(k) < bnow

(* The ledger knows of every launch of the day, and of nothing else. *)
Ledgered ==
  /\ \A k \in launched : k.date <= Today
  /\ ~lost =>
       /\ \A k \in launched : k \in attempts \/ k.date < Today
       /\ \A a \in attempts : a.slot = Catchup \/ a \in launched
       /\ queue \cap launched = {} /\ expired \cap launched = {}

(* A recorded slot's window is over. *)
RecordedIsPast == \A r \in deferred : GraceEnd(r.key) < now

(* How far the batch has accounted for the closed windows of its day. *)
AccountedBy(k) == ReallyServed(k) \/ Attempted(k) \/ Recorded(k)
Accounting ==
  up /\ bnow # -1 =>
    \A k \in ScheduledOn(Today) :
      bnow > GraceEnd(k) =>
        /\ phase = "owed" => AccountedBy(k) \/ k \in expired
        /\ phase \in {"sweep", "retro", "idle"} => AccountedBy(k)

(* What needs no agreement of the rows' dates with the local calendar. *)
LedgerInv ==
  /\ TypeOK /\ IsFiniteSet(rows) /\ Clocked /\ Derived /\ Ledgered
  /\ RecordedIsPast /\ LaunchedXorDeferred

DayInv == LedgerInv /\ RowsDated /\ Accounting

----------------------------------------------------------------------------
(* Days *)

LEMMA DayBounds ==
  ASSUME NEW t \in Int
  PROVE  /\ DayOf(t) \in Int /\ ClockOf(t) \in 0 .. DayLen - 1
         /\ t = DayOf(t) * DayLen + ClockOf(t)
<1>1. DayLen \in Int /\ DayLen > 0
  BY DaemonTickAssumption
<1>2. QED
  BY <1>1, SMTT(30) DEF DayOf, ClockOf

LEMMA DayGrows ==
  ASSUME NEW t \in Int, NEW u \in Int, t <= u PROVE DayOf(t) <= DayOf(u)
<1> DEFINE d == DayOf(t)  e == DayOf(u)  n == DayLen
<1>1. n \in Int /\ n > 0
  BY DaemonTickAssumption
<1>2. /\ d \in Int /\ t = d * n + ClockOf(t) /\ ClockOf(t) \in 0 .. n - 1
      /\ e \in Int /\ u = e * n + ClockOf(u) /\ ClockOf(u) \in 0 .. n - 1
  BY DayBounds
<1> HIDE DEF d, e, n
<1>3. ASSUME e + 1 <= d PROVE FALSE
  <2>1. (e + 1) * n <= d * n
    BY <1>1, <1>2, <1>3, SMTT(30)
  <2>2. (e + 1) * n = e * n + n
    BY <1>1, <1>2, SMTT(30)
  <2>3. d * n \in Int /\ e * n \in Int
    BY <1>1, <1>2
  <2>4. d * n <= t /\ u < e * n + n
    BY <1>1, <1>2, <2>3
  <2>5. QED
    BY <1>1, <2>1, <2>2, <2>3, <2>4
<1>4. d <= e
  BY <1>2, <1>3
<1>5. QED
  BY <1>4 DEF d, e

(* A day and a time of it say which unit is meant. *)
LEMMA DayIs ==
  ASSUME NEW t \in Int, NEW d \in Int, NEW c \in 0 .. DayLen - 1, t = d * DayLen + c
  PROVE  DayOf(t) = d /\ ClockOf(t) = c
<1> DEFINE e == DayOf(t)  f == ClockOf(t)  n == DayLen
<1>1. n \in Int /\ n > 0
  BY DaemonTickAssumption
<1>2. e \in Int /\ f \in 0 .. n - 1 /\ t = e * n + f
  BY DayBounds
<1> HIDE DEF e, f, n
<1>3. c \in Int /\ f \in Int /\ e * n \in Int /\ d * n \in Int
  BY <1>1, <1>2 DEF n
<1>4. c <= n - 1 /\ f <= n - 1 /\ c >= 0 /\ f >= 0 /\ d * n + c = e * n + f
  BY <1>1, <1>2 DEF n
<1>5. ASSUME d + 1 <= e PROVE FALSE
  <2>1. (d + 1) * n <= e * n /\ (d + 1) * n = d * n + n
    BY <1>1, <1>2, <1>5, SMTT(30)
  <2>2. QED
    BY <1>1, <1>3, <1>4, <2>1
<1>6. ASSUME e + 1 <= d PROVE FALSE
  <2>1. (e + 1) * n <= d * n /\ (e + 1) * n = e * n + n
    BY <1>1, <1>2, <1>6, SMTT(30)
  <2>2. QED
    BY <1>1, <1>3, <1>4, <2>1
<1>7. e = d
  BY <1>2, <1>5, <1>6
<1>8. f = c
  BY <1>3, <1>4, <1>7
<1>9. QED
  BY <1>7, <1>8 DEF e, f

LEMMA DayInRange ==
  ASSUME NEW t \in 0 .. MaxTime PROVE DayOf(t) \in Day
<1>1. MaxTime \in Int /\ DayLen \in Int /\ DayLen > 0
  BY DaemonTickAssumption
<1>2. DayOf(0) <= DayOf(t) /\ DayOf(t) <= DayOf(MaxTime)
  BY <1>1, DayGrows
<1>3. DayOf(0) = 0
  BY <1>1 DEF DayOf
<1>4. DayOf(t) \in Int /\ DayOf(MaxTime) \in Int
  BY <1>1, DayBounds
<1>5. QED
  BY <1>2, <1>3, <1>4 DEF Day, DayOf

LEMMA SlotTyped ==
  ASSUME NEW k \in SlotKey
  PROVE  /\ k.date \in Int /\ k.slot \in Int /\ k.slot >= 0 /\ k.profile \in Profile
         /\ SlotAt(k) \in Int /\ GraceEnd(k) \in Int /\ Grace \in Nat
<1>1. MaxTime \div DayLen \in Int /\ DayLen \in Int /\ SlotTime \subseteq Int /\ \A s \in SlotTime : s >= 0
  BY DaemonTickAssumption
<1>2. k.date \in Day /\ k.slot \in SlotTime /\ k.profile \in Profile /\ Grace \in Nat
  BY DaemonTickAssumption DEF SlotKey
<1>d. Day \subseteq Int
  BY <1>1 DEF Day
<1>3. k.date \in Int
  BY <1>2, <1>d
<1>4. k.slot \in Int /\ k.slot >= 0
  BY <1>1, <1>2
<1>5. k.date * DayLen \in Int
  BY <1>1, <1>3
<1>6. SlotAt(k) \in Int
  BY <1>4, <1>5 DEF SlotAt
<1>7. GraceEnd(k) \in Int
  BY <1>2, <1>6 DEF GraceEnd
<1>8. QED
  BY <1>2, <1>3, <1>4, <1>6, <1>7

----------------------------------------------------------------------------
(* Types *)

(* What a step that is not named leaves alone. *)
LEMMA EnvFrame ==
  ASSUME [Next]_vars, ~TimePasses, ~HostSleeps, \A p \in Profile : ~UserRun(p) /\ ~RequestRun(p) /\ ~RunIntent(p), ~Start
  PROVE  UNCHANGED envVars
BY DEF Next, Environment, Batch, RunRow, PidfileLost, RunEnds, Stop, Crash, Tick, Scan, RecordDeferrals, BeginRetro,
     FinishBatch, SameDaySummary, NoCatchup, LaunchCatchup, Retro, Decline, PassOver, Launch, vars

LEMMA EnvTyped == TypeOK /\ [Next]_vars => EnvType'
<1> SUFFICES ASSUME TypeOK, [Next]_vars PROVE EnvType'
  OBVIOUS
<1>0. EnvType /\ MaxTime \in Nat /\ MaxStarts \in Nat /\ MaxUserRuns \in Nat
  BY TypeParts, DaemonTickAssumption
<1> USE DEF EnvType
<1>1. CASE TimePasses \/ HostSleeps
  <2>1. now' = now + 1 /\ now < MaxTime /\ UNCHANGED <<starts, userRuns, intents>>
    BY <1>1 DEF TimePasses, HostSleeps
  <2>2. QED
    BY <1>0, <2>1
<1>2. ASSUME NEW p \in Profile, UserRun(p) \/ RequestRun(p) \/ RunIntent(p) PROVE EnvType'
  BY <1>0, <1>2 DEF UserRun, RequestRun, RunIntent
<1>3. CASE Start
  BY <1>0, <1>3 DEF Start
<1>4. CASE UNCHANGED envVars
  BY <1>0, <1>4 DEF envVars
<1>5. QED
  BY <1>1, <1>2, <1>3, <1>4, EnvFrame

LEMMA RunFrame ==
  ASSUME [Next]_vars, ~RunRow, ~RunEnds, ~Stop,
         \A p \in Profile : ~UserRun(p) /\ ~RunIntent(p) /\ ~LaunchCatchup(p), \A k \in queue : ~Launch(k)
  PROVE  UNCHANGED run
BY DEF Next, Environment, Batch, TimePasses, HostSleeps, PidfileLost, RequestRun, Start, Crash, Tick, Scan, RecordDeferrals,
     BeginRetro, FinishBatch, SameDaySummary, NoCatchup, Retro, Decline, PassOver, vars

LEMMA RunTyped == TypeOK /\ [Next]_vars => RunType'
<1> SUFFICES ASSUME TypeOK, [Next]_vars PROVE RunType'
  OBVIOUS
<1>0. EnvType /\ RunType /\ BatchType
  BY TypeParts
<1>1. CASE RunRow
  BY <1>0, <1>1 DEF RunRow, RunType
<1>2. CASE RunEnds \/ Stop
  BY <1>0, <1>2 DEF RunEnds, Stop, RunType
<1>3. ASSUME NEW p \in Profile, NEW kind \in Kinds, Spawn(p, kind) PROVE RunType'
  <2>1. run' = run \/ run' = [profile |-> p, kind |-> kind, at |-> now, written |-> FALSE]
    BY <1>3 DEF Spawn
  <2>2. now \in 0 .. MaxTime
    BY <1>0 DEF EnvType
  <2>3. CASE run' = run
    BY <1>0, <2>3 DEF RunType
  <2>4. CASE run' = [profile |-> p, kind |-> kind, at |-> now, written |-> FALSE]
    BY <2>2, <2>4 DEF RunType
  <2>5. QED
    BY <2>1, <2>3, <2>4
<1>4. ASSUME NEW p \in Profile, UserRun(p) PROVE RunType'
  BY <1>0, <1>4 DEF UserRun, EnvType, RunType, Kinds
<1>5. ASSUME NEW p \in Profile, RunIntent(p) PROVE RunType'
  <2>1. Spawn(p, "run") \/ UNCHANGED run
    BY <1>5 DEF RunIntent
  <2>2. QED
    BY <1>0, <1>3, <2>1 DEF Kinds, RunType
<1>6. ASSUME NEW p \in Profile, LaunchCatchup(p) PROVE RunType'
  BY <1>3, <1>6 DEF LaunchCatchup, Kinds
<1>7. ASSUME NEW k \in queue, Launch(k) PROVE RunType'
  <2>1. k.profile \in Profile
    BY <1>0 DEF BatchType, SlotKey
  <2>2. QED
    BY <1>3, <1>7, <2>1 DEF Launch, Kinds
<1>8. CASE UNCHANGED run
  BY <1>0, <1>8 DEF RunType
<1>9. QED
  BY <1>1, <1>2, <1>4, <1>5, <1>6, <1>7, <1>8, RunFrame

LEMMA RowsFrame == ASSUME [Next]_vars, ~RunRow PROVE UNCHANGED rows
BY DEF Next, Environment, Batch, TimePasses, HostSleeps, UserRun, PidfileLost, RequestRun, RunEnds, Start, Stop, Crash,
     Tick, RunIntent, Scan, RecordDeferrals, BeginRetro, FinishBatch, SameDaySummary, NoCatchup, LaunchCatchup,
     Retro, Decline, PassOver, Launch, vars, dbVars

(* Wherever UTC is, the row's date is at most a day off the run's own. *)
LEMMA RunDateInRange == ASSUME NEW t \in 0 .. MaxTime PROVE RunDate(t) \in RunDay
<1>1. /\ MaxTime \in Int /\ DayLen \in Int /\ DayLen > 0 /\ UtcOffset \in Int
      /\ -DayLen <= UtcOffset /\ UtcOffset <= DayLen
  BY DaemonTickAssumption
<1>2. /\ -DayLen \in Int /\ MaxTime + DayLen \in Int /\ t - UtcOffset \in Int
      /\ -DayLen <= t - UtcOffset /\ t - UtcOffset <= MaxTime + DayLen
  BY <1>1
<1>3. DayOf(-DayLen) <= DayOf(t - UtcOffset) /\ DayOf(t - UtcOffset) <= DayOf(MaxTime + DayLen)
  BY <1>2, DayGrows
<1>4. DayOf(-DayLen) = -1
  BY <1>1, DayIs
<1>5. DayOf(MaxTime + DayLen) = DayOf(MaxTime) + 1
  <2>1. DayOf(MaxTime) \in Int /\ ClockOf(MaxTime) \in 0 .. DayLen - 1 /\ MaxTime = DayOf(MaxTime) * DayLen + ClockOf(MaxTime)
    BY <1>1, DayBounds
  <2>2. (DayOf(MaxTime) + 1) * DayLen = DayOf(MaxTime) * DayLen + DayLen
    BY <1>1, <2>1, SMTT(30)
  <2>3. DayOf(MaxTime) * DayLen \in Int /\ (DayOf(MaxTime) + 1) * DayLen \in Int /\ ClockOf(MaxTime) \in Int
    BY <1>1, <2>1
  <2> DEFINE before == DayOf(MaxTime) * DayLen  after == (DayOf(MaxTime) + 1) * DayLen
  <2>a. before \in Int /\ after \in Int /\ after = before + DayLen /\ MaxTime = before + ClockOf(MaxTime)
    BY <2>1, <2>2, <2>3
  <2> HIDE DEF before, after
  <2>b. MaxTime + DayLen = after + ClockOf(MaxTime)
    BY <1>1, <2>3, <2>a
  <2>4. MaxTime + DayLen = (DayOf(MaxTime) + 1) * DayLen + ClockOf(MaxTime)
    BY <2>b DEF after
  <2>5. DayOf(MaxTime) + 1 \in Int
    BY <2>1
  <2>6. QED
    BY <1>2, <2>1, <2>4, <2>5, DayIs
<1>6. DayOf(t - UtcOffset) \in Int /\ DayOf(MaxTime) \in Int
  BY <1>1, <1>2, DayBounds
<1>7. RunDate(t) = DayOf(t - UtcOffset) /\ RunDay = -1 .. DayOf(MaxTime) + 1
  BY DEF RunDate, DayOf, RunDay
<1>8. QED
  BY <1>3, <1>4, <1>5, <1>6, <1>7

(* The row a run writes. *)
RowOf(r) == [id |-> Cardinality(rows), profile |-> r.profile, runDate |-> RunDate(r.at), clock |-> ClockOf(r.at),
             kind |-> r.kind, at |-> r.at]

LEMMA RowWritten ==
  ASSUME TypeOK, RunRow
  PROVE  /\ rows' = rows \cup {RowOf(run)}
         /\ run # NoRun /\ ~run.written
         /\ run.profile \in Profile /\ run.kind \in Kinds /\ run.at \in 0 .. MaxTime /\ run.at \in Int
         /\ run'.profile = run.profile /\ run'.kind = run.kind /\ run'.at = run.at /\ run'.written = TRUE
<1>1. RunType /\ run # NoRun /\ MaxTime \in Int
  BY TypeParts, DaemonTickAssumption DEF RunRow
<1>2. run \in [profile : Profile, kind : Kinds, at : 0 .. MaxTime, written : BOOLEAN]
  BY <1>1 DEF RunType
<1>3. run.profile \in Profile /\ run.kind \in Kinds /\ run.at \in 0 .. MaxTime /\ run.at \in Int
  BY <1>1, <1>2
<1>4. ASSUME NEW r \in [profile : Profile, kind : Kinds, at : 0 .. MaxTime, written : BOOLEAN]
      PROVE  /\ [r EXCEPT !.written = TRUE].profile = r.profile /\ [r EXCEPT !.written = TRUE].kind = r.kind
             /\ [r EXCEPT !.written = TRUE].at = r.at /\ [r EXCEPT !.written = TRUE].written = TRUE
  OBVIOUS
<1>5. run'.profile = run.profile /\ run'.kind = run.kind /\ run'.at = run.at /\ run'.written = TRUE
  BY <1>2, <1>4 DEF RunRow
<1>6. QED
  BY <1>1, <1>3, <1>5 DEF RunRow, RowOf

LEMMA RowsTyped ==
  ASSUME TypeOK, IsFiniteSet(rows), [Next]_vars
  PROVE  RowsType' /\ IsFiniteSet(rows')
<1>0. RowsType
  BY TypeParts
<1>1. CASE RunRow
  <2>1. /\ rows' = rows \cup {RowOf(run)} /\ run.profile \in Profile /\ run.kind \in Kinds
        /\ run.at \in 0 .. MaxTime /\ run.at \in Int
    BY <1>1, RowWritten
  <2>2. RunDate(run.at) \in RunDay /\ ClockOf(run.at) \in 0 .. DayLen - 1
    BY <2>1, DayBounds, RunDateInRange
  <2>3. Cardinality(rows) \in Nat
    BY FS_CardinalityType
  <2>4. RowOf(run) \in [id : Nat, profile : Profile, runDate : RunDay, clock : 0 .. DayLen - 1, kind : Kinds, at : 0 .. MaxTime]
    BY <2>1, <2>2, <2>3 DEF RowOf
  <2>5. IsFiniteSet(rows \cup {RowOf(run)})
    BY FS_AddElement
  <2>6. QED
    BY <1>0, <2>1, <2>4, <2>5 DEF RowsType
<1>2. CASE UNCHANGED rows
  BY <1>0, <1>2 DEF RowsType
<1>3. QED
  BY <1>1, <1>2, RowsFrame

(* In a zone that is UTC a row's date and clock are its run's own. *)
LEMMA RowsDatedKept ==
  ASSUME UtcOffset = 0, TypeOK, RowsDated, [Next]_vars
  PROVE  RowsDated'
<1>1. CASE RunRow
  <2>1. rows' = rows \cup {RowOf(run)} /\ run.at \in Int
    BY <1>1, RowWritten
  <2>2. RunDate(run.at) = DayOf(run.at)
    BY <2>1 DEF RunDate, DayOf
  <2>3. run.at = DayOf(run.at) * DayLen + ClockOf(run.at)
    BY <2>1, DayBounds
  <2>4. RowOf(run).at = RowOf(run).runDate * DayLen + RowOf(run).clock
    BY <2>2, <2>3 DEF RowOf
  <2>5. QED
    BY <2>1, <2>4 DEF RowsDated
<1>2. CASE UNCHANGED rows
  BY <1>2 DEF RowsDated
<1>3. QED
  BY <1>1, <1>2, RowsFrame

(* What today's, and any earlier, batch may name. *)
LEMMA TodayInRange == ASSUME TypeOK, bnow >= 0 PROVE bnow \in 0 .. MaxTime /\ Today \in Day
<1>1. bnow \in 0 .. MaxTime
  BY DaemonTickAssumption DEF TypeOK
<1>2. QED
  BY <1>1, DayInRange DEF Today

LEMMA OwedTyped ==
  ASSUME TypeOK, bnow >= 0
  PROVE  OwedAt(bnow) \subseteq SlotKey /\ ExpiredAt(bnow) \subseteq SlotKey
<1>1. ScheduledOn(DayOf(bnow)) \subseteq SlotKey
  BY TodayInRange DEF ScheduledOn, SlotKey, Today
<1>2. QED
  BY <1>1 DEF OwedAt, ExpiredAt

LEMMA MarkedTyped == ASSUME DeferredType, NEW p, NEW d
                     PROVE  /\ Marked(p, d) \subseteq [key : SlotKey, reason : Reasons, notified : BOOLEAN]
                            /\ \A r \in Marked(p, d) : \E q \in deferred : r.key = q.key
                            /\ \A q \in deferred : \E r \in Marked(p, d) : r.key = q.key
<1>1. ASSUME NEW r \in deferred
      PROVE  /\ [r EXCEPT !.notified = TRUE] \in [key : SlotKey, reason : Reasons, notified : BOOLEAN]
             /\ [r EXCEPT !.notified = TRUE].key = r.key
             /\ r \in [key : SlotKey, reason : Reasons, notified : BOOLEAN]
  BY DEF DeferredType
<1> DEFINE mark(r) == IF r \in RowsOf(p, d) THEN [r EXCEPT !.notified = TRUE] ELSE r
<1>2. \A r \in deferred : mark(r) \in [key : SlotKey, reason : Reasons, notified : BOOLEAN] /\ mark(r).key = r.key
  BY <1>1
<1>3. Marked(p, d) = {mark(r) : r \in deferred}
  BY DEF Marked
<1> HIDE DEF mark
<1>4. QED
  BY <1>2, <1>3

LEMMA AttributionTyped ==
  ASSUME TypeOK, NEW k \in SlotKey PROVE Attribution(k) \in Reasons
<1>1. declines \subseteq [key : SlotKey, reason : GateReasons] /\ gate \in GateReasons \cup {"ok"}
  BY DEF TypeOK
<1>2. CASE ~lost /\ \E d \in declines : d.key = k
  <2>1. (CHOOSE d \in declines : d.key = k) \in declines
    BY <1>2
  <2>2. QED
    BY <1>1, <1>2, <2>1 DEF Attribution, Reasons
<1>3. CASE ~(~lost /\ \E d \in declines : d.key = k)
  BY <1>1, <1>3 DEF Attribution, Reasons
<1>4. QED
  BY <1>2, <1>3

LEMMA DeferredFrame ==
  ASSUME [Next]_vars, ~RecordDeferrals, \A p \in Profile : ~SameDaySummary(p) /\ \A d \in Day : ~Retro(p, d)
  PROVE  UNCHANGED deferred
BY DEF Next, Environment, Batch, TimePasses, HostSleeps, UserRun, PidfileLost, RequestRun, RunRow, RunEnds, Start, Stop, Crash,
     Tick, RunIntent, Scan, BeginRetro, FinishBatch, NoCatchup, LaunchCatchup, Decline, PassOver, Launch, vars, dbVars

(* What a step does to the deferred slots: expired ones are added, or some  *)
(* are marked; none is forgotten.                                           *)
LEMMA DeferredSteps ==
  ASSUME TypeOK, [Next]_vars
  PROVE  \/ /\ RecordDeferrals
            /\ \A r \in deferred' \ deferred : r.key \in expired
         \/ ~RecordDeferrals /\ \E p \in Profile, d \in Int : deferred' = Marked(p, d)
         \/ ~RecordDeferrals /\ UNCHANGED deferred
<1>1. CASE RecordDeferrals
  BY <1>1 DEF RecordDeferrals
<1>2. ASSUME NEW p \in Profile, SameDaySummary(p) PROVE UNCHANGED deferred \/ deferred' = Marked(p, Today)
  BY <1>2 DEF SameDaySummary, Summarise
<1>3. ASSUME NEW p \in Profile, NEW d \in Day, Retro(p, d) PROVE UNCHANGED deferred \/ deferred' = Marked(p, d)
  BY <1>3 DEF Retro, Summarise
<1>4. Today \in Int /\ Day \subseteq Int
  <2>1. MaxTime \div DayLen \in Int /\ bnow \in Int
    BY DaemonTickAssumption DEF TypeOK
  <2>2. QED
    BY <2>1, DayBounds DEF Today, Day
<1>5. QED
  BY <1>1, <1>2, <1>3, <1>4, DeferredFrame

LEMMA DeferredTyped == ASSUME TypeOK, [Next]_vars PROVE DeferredType'
<1>0. DeferredType /\ BatchType
  BY TypeParts
<1>1. CASE RecordDeferrals
  <2>1. deferred' = deferred \cup {[key |-> k, reason |-> Attribution(k), notified |-> FALSE] :
                                     k \in expired \ {r.key : r \in deferred}}
    BY <1>1 DEF RecordDeferrals
  <2>2. \A k \in expired : k \in SlotKey /\ Attribution(k) \in Reasons
    BY <1>0, AttributionTyped DEF BatchType
  <2>3. ASSUME NEW k \in expired
        PROVE  [key |-> k, reason |-> Attribution(k), notified |-> FALSE] \in [key : SlotKey, reason : Reasons, notified : BOOLEAN]
    BY <2>2
  <2>4. ASSUME NEW r \in deferred', r \notin deferred
        PROVE  \E k \in expired : r = [key |-> k, reason |-> Attribution(k), notified |-> FALSE]
    BY <2>1, <2>4
  <2>5. QED
    BY <1>0, <2>3, <2>4 DEF DeferredType
<1>2. CASE \E p \in Profile, d \in Int : deferred' = Marked(p, d)
  BY <1>0, <1>2, MarkedTyped DEF DeferredType
<1>3. CASE UNCHANGED deferred
  BY <1>0, <1>3 DEF DeferredType
<1>4. QED
  BY <1>1, <1>2, <1>3, DeferredSteps

LEMMA PidFrame ==
  ASSUME [Next]_vars, ~PidfileLost, ~Start, \A p \in Profile : ~SameDaySummary(p) /\ ~LaunchCatchup(p) /\ \A d \in Day : ~Retro(p, d),
         \A k \in queue : ~Decline(k) /\ ~Launch(k)
  PROVE  UNCHANGED pidVars
BY DEF Next, Environment, Batch, TimePasses, HostSleeps, UserRun, RequestRun, RunRow, RunEnds, Stop, Crash, Tick, RunIntent,
     Scan, RecordDeferrals, BeginRetro, FinishBatch, NoCatchup, PassOver, vars, pidVars

LEMMA StampTyped ==
  ASSUME TypeOK, bnow >= 0, NEW p \in Profile, NEW d \in Day, Stamp(p, d)
  PROVE  stamps' \subseteq [profile : Profile, date : Day, at : 0 .. MaxTime]
<1>1. bnow \in 0 .. MaxTime
  BY TodayInRange
<1>2. stamps \subseteq [profile : Profile, date : Day, at : 0 .. MaxTime]
  BY DEF TypeOK
<1>3. [profile |-> p, date |-> d, at |-> bnow] \in [profile : Profile, date : Day, at : 0 .. MaxTime]
  BY <1>1
<1>4. CASE lost
  BY <1>2, <1>4 DEF Stamp
<1>5. CASE ~lost
  BY <1>2, <1>3, <1>5 DEF Stamp
<1>6. QED
  BY <1>4, <1>5

LEMMA AppendTyped ==
  ASSUME TypeOK, NEW a \in Attempt, Append(a) PROVE attempts' \subseteq Attempt
BY DEF TypeOK, Append

LEMMA PidTyped == ASSUME TypeOK, Clocked, [Next]_vars PROVE PidType'
<1>0. PidType /\ BatchType /\ (phase # "idle" => bnow >= 0)
  BY TypeParts DEF Clocked
<1>1. CASE PidfileLost \/ Start
  BY <1>0, <1>1 DEF PidfileLost, Start, PidType
<1>2. ASSUME NEW p \in Profile, SameDaySummary(p) PROVE PidType'
  <2>1. Stamp(p, Today) \/ UNCHANGED stamps
    BY <1>2 DEF SameDaySummary, Summarise
  <2>2. bnow >= 0
    BY <1>0, <1>2 DEF SameDaySummary, Proceeding
  <2>3. stamps' \subseteq [profile : Profile, date : Day, at : 0 .. MaxTime]
    BY <1>0, <2>1, <2>2, StampTyped, TodayInRange DEF PidType
  <2>4. QED
    BY <1>0, <1>2, <2>3 DEF SameDaySummary, PidType
<1>3. ASSUME NEW p \in Profile, NEW d \in Day, Retro(p, d) PROVE PidType'
  <2>1. Stamp(p, d) \/ UNCHANGED stamps
    BY <1>3 DEF Retro, Summarise
  <2>2. bnow >= 0
    BY <1>0, <1>3 DEF Retro, Proceeding
  <2>3. stamps' \subseteq [profile : Profile, date : Day, at : 0 .. MaxTime]
    BY <1>0, <2>1, <2>2, StampTyped DEF PidType
  <2>4. QED
    BY <1>0, <1>3, <2>3 DEF Retro, PidType
<1>4. ASSUME NEW p \in Profile, LaunchCatchup(p) PROVE PidType'
  <2>1. bnow >= 0
    BY <1>0, <1>4 DEF LaunchCatchup, Proceeding
  <2>2. [profile |-> p, date |-> Today, slot |-> Catchup] \in Attempt
    BY <2>1, TodayInRange DEF Attempt
  <2>3. attempts' \subseteq Attempt
    BY <1>4, <2>2, AppendTyped DEF LaunchCatchup
  <2>4. QED
    BY <1>0, <1>4, <2>3 DEF LaunchCatchup, PidType
<1>5. ASSUME NEW k \in queue, Launch(k) PROVE PidType'
  <2>1. k \in Attempt
    BY <1>0 DEF BatchType, SlotKey, Attempt
  <2>2. attempts' \subseteq Attempt
    BY <1>5, <2>1, AppendTyped DEF Launch
  <2>3. QED
    BY <1>0, <1>5, <2>2 DEF Launch, PidType
<1>6. ASSUME NEW k \in queue, Decline(k) PROVE PidType'
  <2>1. k \in SlotKey /\ gate \in GateReasons
    BY <1>0, <1>6 DEF BatchType, Decline
  <2>2. declines' \subseteq [key : SlotKey, reason : GateReasons]
    <3>1. CASE lost
      BY <1>0, <1>6, <3>1 DEF Decline, PidType
    <3>2. CASE ~lost
      <4>1. [key |-> k, reason |-> gate] \in [key : SlotKey, reason : GateReasons]
        BY <2>1
      <4>2. QED
        BY <1>0, <1>6, <3>2, <4>1 DEF Decline, PidType
    <3>3. QED
      BY <3>1, <3>2
  <2>3. QED
    BY <1>0, <1>6, <2>2 DEF Decline, PidType
<1>7. CASE UNCHANGED pidVars
  BY <1>0, <1>7 DEF pidVars, PidType
<1>8. QED
  BY <1>1, <1>2, <1>3, <1>4, <1>5, <1>6, <1>7, PidFrame

LEMMA DaemonTyped == ASSUME TypeOK, [Next]_vars PROVE DaemonType'
<1>0. DaemonType /\ EnvType /\ MaxTime \in Nat
  BY TypeParts, DaemonTickAssumption
<1> USE DEF DaemonType
<1>1. CASE TimePasses \/ HostSleeps
  BY <1>0, <1>1 DEF TimePasses, HostSleeps, batchVars
<1>2. CASE RunEnds
  BY <1>0, <1>2 DEF RunEnds, batchVars
<1>3. CASE Start
  <2>1. -1 \in -1 .. MaxTime
    BY <1>0
  <2>2. QED
    BY <1>0, <1>3, <2>1 DEF Start
<1>4. CASE Stop \/ Crash
  BY <1>0, <1>4 DEF Stop, Crash, EndBatch, Phases
<1>5. CASE Tick
  <2>1. now \in -1 .. MaxTime
    BY <1>0 DEF EnvType
  <2>2. QED
    BY <1>0, <1>5, <2>1 DEF Tick, Phases
<1>6. CASE Scan \/ RecordDeferrals \/ BeginRetro \/ FinishBatch
  BY <1>0, <1>6 DEF Scan, RecordDeferrals, BeginRetro, FinishBatch, EndBatch, Phases
<1>7. ASSUME NEW p, NEW kind, Spawn(p, kind) PROVE waiting' \in BOOLEAN
  BY <1>0, <1>7 DEF Spawn
<1>8. ASSUME NEW p \in Profile, RunIntent(p) \/ LaunchCatchup(p) PROVE DaemonType'
  BY <1>0, <1>7, <1>8 DEF RunIntent, LaunchCatchup
<1>9. ASSUME NEW k \in queue, Launch(k) PROVE DaemonType'
  BY <1>0, <1>7, <1>9 DEF Launch
<1>10. CASE UNCHANGED <<slept, up, phase, waiting, bnow, bslept>>
  BY <1>0, <1>10
<1>11. QED
  BY <1>1, <1>2, <1>3, <1>4, <1>5, <1>6, <1>8, <1>9, <1>10 DEF Next, Environment, Batch, UserRun, RequestRun, RunRow,
     PidfileLost, SameDaySummary, NoCatchup, Retro, Decline, PassOver, vars, batchVars

LEMMA BatchFrame ==
  ASSUME [Next]_vars, ~Stop, ~Crash, ~Tick, ~Batch
  PROVE  UNCHANGED <<toClaim, queue, expired, gate, toSweep, summed, toRetro>>
BY DEF Next, Environment, TimePasses, HostSleeps, UserRun, RequestRun, RunRow, PidfileLost, RunEnds, Start, vars, batchVars

LEMMA BatchTyped == ASSUME TypeOK, Clocked, [Next]_vars PROVE BatchType'
<1>0. BatchType /\ EnvType /\ (phase # "idle" => bnow >= 0)
  BY TypeParts DEF Clocked
<1> USE DEF BatchType
<1>1. CASE Stop \/ Crash \/ FinishBatch
  BY <1>1 DEF Stop, Crash, FinishBatch, EndBatch
<1>2. CASE Tick
  BY <1>0, <1>2 DEF Tick, EnvType
<1>3. CASE Scan
  <2>1. OwedAt(bnow) \subseteq SlotKey /\ ExpiredAt(bnow) \subseteq SlotKey
    BY <1>0, <1>3, OwedTyped DEF Scan, Proceeding
  <2>2. gate' \in GateReasons \cup {"ok"}
    BY <1>3 DEF Scan, GateReasons
  <2>3. QED
    BY <1>0, <1>3, <2>1, <2>2 DEF Scan
<1>4. CASE RecordDeferrals
  <2>1. {k.profile : k \in expired} \subseteq Profile
    BY <1>0 DEF SlotKey
  <2>2. QED
    BY <1>0, <1>4, <2>1 DEF RecordDeferrals
<1>5. CASE BeginRetro
  BY <1>0, <1>5 DEF BeginRetro
<1>6. ASSUME NEW p \in Profile, RunIntent(p) \/ SameDaySummary(p) \/ NoCatchup(p) \/ LaunchCatchup(p) PROVE BatchType'
  BY <1>0, <1>6 DEF RunIntent, SameDaySummary, NoCatchup, LaunchCatchup
<1>7. ASSUME NEW p \in Profile, NEW d \in Day, Retro(p, d) PROVE BatchType'
  BY <1>0, <1>7 DEF Retro
<1>8. ASSUME NEW k \in queue, Decline(k) \/ PassOver(k) \/ Launch(k) PROVE BatchType'
  BY <1>0, <1>8 DEF Decline, PassOver, Launch
<1>9. CASE UNCHANGED <<toClaim, queue, expired, gate, toSweep, summed, toRetro>>
  BY <1>0, <1>9
<1>10. QED
  BY <1>1, <1>2, <1>3, <1>4, <1>5, <1>6, <1>7, <1>8, <1>9, BatchFrame DEF Batch

LEMMA ObsFrame ==
  ASSUME [Next]_vars, ~Start, \A k \in queue : ~Launch(k)
  PROVE  UNCHANGED <<launched, upSince>>
BY DEF Next, Environment, Batch, TimePasses, HostSleeps, UserRun, RequestRun, RunRow, PidfileLost, RunEnds, Stop, Crash, Tick,
     RunIntent, Scan, RecordDeferrals, BeginRetro, FinishBatch, SameDaySummary, NoCatchup, LaunchCatchup, Retro,
     Decline, PassOver, vars, obsVars

LEMMA InformedSteps ==
  ASSUME [Next]_vars
  PROVE  UNCHANGED informed \/ \E p, d : informed' = informed \cup KeysOf(p, d)
<1>1. ASSUME NEW p, NEW d, Summarise(p, d) PROVE UNCHANGED informed \/ \E q, e : informed' = informed \cup KeysOf(q, e)
  BY <1>1 DEF Summarise
<1>2. ASSUME NEW p \in Profile, SameDaySummary(p) PROVE UNCHANGED informed \/ \E q, e : informed' = informed \cup KeysOf(q, e)
  BY <1>1, <1>2 DEF SameDaySummary
<1>3. ASSUME NEW p \in Profile, NEW d \in Day, Retro(p, d) PROVE UNCHANGED informed \/ \E q, e : informed' = informed \cup KeysOf(q, e)
  BY <1>1, <1>3 DEF Retro
<1>4. ASSUME NEW p \in Profile, LaunchCatchup(p) PROVE UNCHANGED informed \/ \E q, e : informed' = informed \cup KeysOf(q, e)
  BY <1>4 DEF LaunchCatchup
<1>5. CASE UNCHANGED informed
  BY <1>5
<1>6. QED
  BY <1>2, <1>3, <1>4, <1>5 DEF Next, Environment, Batch, TimePasses, HostSleeps, UserRun, RequestRun, RunRow, PidfileLost,
     RunEnds, Start, Stop, Crash, Tick, RunIntent, Scan, RecordDeferrals, BeginRetro, FinishBatch, NoCatchup,
     Decline, PassOver, Launch, vars, obsVars

LEMMA ObsTyped == ASSUME TypeOK, [Next]_vars PROVE ObsType'
<1>0. ObsType /\ BatchType /\ EnvType /\ DeferredType
  BY TypeParts
<1>1. launched' \subseteq SlotKey /\ upSince' \in 0 .. MaxTime
  <2>1. CASE Start
    BY <1>0, <2>1 DEF Start, ObsType, EnvType
  <2>2. ASSUME NEW k \in queue, Launch(k) PROVE launched' \subseteq SlotKey /\ upSince' \in 0 .. MaxTime
    BY <1>0, <2>2 DEF Launch, ObsType, BatchType
  <2>3. CASE UNCHANGED <<launched, upSince>>
    BY <1>0, <2>3 DEF ObsType
  <2>4. QED
    BY <2>1, <2>2, <2>3, ObsFrame
<1>2. informed' \subseteq SlotKey
  <2>1. \A p, d : KeysOf(p, d) \subseteq SlotKey
    BY <1>0 DEF KeysOf, RowsOf, DeferredType
  <2>2. QED
    BY <1>0, <2>1, InformedSteps DEF ObsType
<1>3. QED
  BY <1>1, <1>2 DEF ObsType

LEMMA TypeKept == ASSUME TypeOK, Clocked, IsFiniteSet(rows), [Next]_vars PROVE TypeOK'
<1>1. /\ EnvType' /\ RunType' /\ RowsType' /\ DeferredType' /\ PidType' /\ DaemonType' /\ BatchType' /\ ObsType'
  BY EnvTyped, RunTyped, RowsTyped, DeferredTyped, PidTyped, DaemonTyped, BatchTyped, ObsTyped
<1>2. QED
  BY <1>1 DEF TypeOK, EnvType, RunType, RowsType, DeferredType, PidType, DaemonType, BatchType, ObsType

----------------------------------------------------------------------------
(* The clock and the batch *)

LEMMA ClockFrame ==
  ASSUME [Next]_vars, ~TimePasses, ~HostSleeps, ~Start, ~Tick
  PROVE  UNCHANGED <<now, bnow>>
BY DEF Next, Environment, Batch, UserRun, RequestRun, RunRow, PidfileLost, RunEnds, Stop, Crash,
     RunIntent, Scan, RecordDeferrals, BeginRetro, FinishBatch, SameDaySummary, NoCatchup, LaunchCatchup, Retro,
     Decline, PassOver, Launch, vars, envVars, batchVars

(* The clock goes forward, and the batch's only by a tick. *)
LEMMA ClockSteps ==
  ASSUME TypeOK, Clocked, [Next]_vars
  PROVE  /\ now \in Int /\ now' \in Int /\ now <= now' /\ bnow' <= now' /\ bnow \in Int /\ bnow' \in Int
         /\ ~Start => bnow <= bnow'
         /\ ~Start /\ ~Tick => bnow' = bnow
<1>0. now \in 0 .. MaxTime /\ bnow \in -1 .. MaxTime /\ bnow <= now /\ now \in Int /\ bnow \in Int
  BY DaemonTickAssumption DEF TypeOK, Clocked
<1>1. CASE TimePasses \/ HostSleeps
  <2>1. now' = now + 1 /\ bnow' = bnow
    BY <1>1 DEF TimePasses, HostSleeps, batchVars
  <2>2. QED
    BY <1>0, <2>1
<1>2. CASE Start
  BY <1>0, <1>2 DEF Start
<1>3. CASE Tick
  BY <1>0, <1>3 DEF Tick, envVars
<1>4. CASE UNCHANGED <<now, bnow>>
  BY <1>0, <1>4
<1>5. QED
  BY <1>1, <1>2, <1>3, <1>4, ClockFrame

LEMMA ClockKept == ASSUME TypeOK, Clocked, [Next]_vars PROVE Clocked'
<1>0. Clocked /\ bnow' <= now' /\ now \in 0 .. MaxTime
  BY ClockSteps DEF TypeOK
<1> USE DEF Clocked
<1>1. CASE TimePasses \/ HostSleeps
  BY <1>0, <1>1 DEF TimePasses, HostSleeps, batchVars
<1>2. CASE Start
  BY <1>0, <1>2 DEF Start
<1>3. CASE Tick
  BY <1>0, <1>3 DEF Tick
<1>4. CASE Stop \/ Crash \/ FinishBatch
  BY <1>0, <1>4 DEF Stop, Crash, FinishBatch, EndBatch, Proceeding
<1>5. CASE Scan \/ RecordDeferrals \/ BeginRetro
  BY <1>0, <1>5 DEF Scan, RecordDeferrals, BeginRetro, Proceeding
<1>6. ASSUME NEW p \in Profile, RunIntent(p) \/ SameDaySummary(p) \/ NoCatchup(p) \/ LaunchCatchup(p) PROVE Clocked'
  BY <1>0, <1>6 DEF RunIntent, SameDaySummary, NoCatchup, LaunchCatchup, Proceeding
<1>7. ASSUME NEW p \in Profile, NEW d \in Day, Retro(p, d) PROVE Clocked'
  BY <1>0, <1>7 DEF Retro, Proceeding
<1>8. ASSUME NEW k \in queue, Decline(k) \/ PassOver(k) \/ Launch(k) PROVE Clocked'
  BY <1>0, <1>8 DEF Decline, PassOver, Launch, Proceeding
<1>9. CASE UNCHANGED <<bnow, phase, up, queue, expired>>
  BY <1>0, <1>9
<1>10. QED
  BY <1>1, <1>2, <1>3, <1>4, <1>5, <1>6, <1>7, <1>8, <1>9 DEF Next, Environment, Batch, UserRun, RequestRun, RunRow,
     PidfileLost, RunEnds, vars, batchVars

(* Only a scan puts anything into the queue, or among the expired. *)
LEMMA QueueShrinks ==
  ASSUME [Next]_vars, ~Scan
  PROVE  queue' \subseteq queue /\ expired' \subseteq expired
BY DEF Next, Environment, Batch, TimePasses, HostSleeps, UserRun, RequestRun, RunRow, PidfileLost, RunEnds, Start, Stop, Crash,
     Tick, RunIntent, RecordDeferrals, BeginRetro, FinishBatch, EndBatch, SameDaySummary, NoCatchup, LaunchCatchup, Retro,
     Decline, PassOver, Launch, vars, batchVars

LEMMA DerivedKept ==
  ASSUME TypeOK, Clocked, Derived, [Next]_vars PROVE Derived'
<1>1. Clocked' /\ DaemonType'
  BY ClockKept, DaemonTyped
<1>2. CASE phase' \in {"idle", "intents"}
  BY <1>1, <1>2 DEF Clocked, Derived
<1>3. CASE Scan
  <2>1. queue' = OwedAt(bnow) /\ expired' = ExpiredAt(bnow) /\ bnow' = bnow /\ bnow >= 0
    BY <1>3 DEF Scan, Proceeding, Clocked
  <2>2. \A k \in ExpiredAt(bnow) : k \in SlotKey /\ GraceEnd(k) \in Int /\ bnow \in Int
    BY <2>1, OwedTyped, SlotTyped, ClockSteps
  <2>3. \A k \in expired' : k \in ScheduledOn(Today) /\ GraceEnd(k) < bnow
    BY <2>1, <2>2 DEF ExpiredAt, Today
  <2>4. \A k \in queue' : k \in ScheduledOn(Today) /\ SlotAt(k) <= bnow
    BY <2>1 DEF OwedAt, Today
  <2>5. Today' = Today
    BY <2>1 DEF Today
  <2>6. QED
    BY <2>1, <2>3, <2>4, <2>5 DEF Derived
<1>4. CASE phase' \notin {"idle", "intents"} /\ ~Scan
  <2>1. ~Start /\ ~Tick
    BY <1>1, <1>4 DEF Start, Tick, Clocked
  <2>2. bnow' = bnow /\ Today' = Today
    BY <2>1, ClockSteps DEF Today
  <2>3. QED
    BY <1>4, <2>2, QueueShrinks DEF Derived
<1>5. QED
  BY <1>2, <1>3, <1>4

LEMMA TodayGrows == ASSUME TypeOK, Clocked, [Next]_vars, ~Start PROVE Today \in Int /\ Today' \in Int /\ Today <= Today'
<1>1. bnow \in Int /\ bnow' \in Int /\ bnow <= bnow'
  BY ClockSteps
<1>2. DayOf(bnow) \in Int /\ DayOf(bnow') \in Int /\ DayOf(bnow) <= DayOf(bnow')
  BY <1>1, DayBounds, DayGrows
<1>3. Today' = DayOf(bnow')
  BY DEF Today
<1>4. QED
  BY <1>2, <1>3 DEF Today

----------------------------------------------------------------------------
(* The ledger *)

LEMMA LedgerFrame ==
  ASSUME [Next]_vars, ~Start, ~Tick, ~Scan, \A p \in Profile : ~LaunchCatchup(p), \A k \in queue : ~Launch(k)
  PROVE  UNCHANGED <<attempts, launched, bnow>> /\ (lost => lost')
<1>1. CASE PidfileLost
  BY <1>1 DEF PidfileLost, batchVars, obsVars
<1>2. CASE ~PidfileLost
  <2>1. UNCHANGED <<attempts, launched, bnow, lost>>
    BY <1>2 DEF Next, Environment, Batch, TimePasses, HostSleeps, UserRun, RequestRun, RunRow, RunEnds, Stop, Crash,
     RunIntent, RecordDeferrals, BeginRetro, FinishBatch, SameDaySummary, NoCatchup, Retro,
     Decline, PassOver, vars, batchVars, pidVars, obsVars
  <2>2. QED
    BY <2>1
<1>3. QED
  BY <1>1, <1>2

(* A slot that was launched counts as served. *)
LEMMA LaunchedIsServed ==
  ASSUME NEW k \in SlotKey, k \in attempts, ~lost
  PROVE  IsServed(k, History(k.profile, k.date))
<1>1. k.slot \in Int /\ Grace \in Nat
  BY SlotTyped
<1>2. k.slot \in History(k.profile, k.date)
  BY DEF History, Ledger
<1>3. k.slot <= k.slot /\ k.slot <= k.slot + Grace
  BY <1>1
<1>4. QED
  BY <1>2, <1>3 DEF IsServed

(* The ledger's append for a day forgets nothing of that day. *)
LEMMA AppendKeeps ==
  ASSUME TypeOK, Ledgered, ~lost, Today \in Int, NEW a, a.date = Today, Append(a)
  PROVE  /\ a \in attempts'
         /\ \A k \in launched : k \in attempts' \/ k.date < Today
         /\ \A b \in attempts' : b = a \/ b.slot = Catchup \/ b \in launched
<1>1. attempts' = {b \in attempts : b.date = a.date} \cup {a}
  BY DEF Append
<1>2. ASSUME NEW k \in launched PROVE k \in attempts' \/ k.date < Today
  <2>1. k \in SlotKey /\ k.date <= Today /\ (k \in attempts \/ k.date < Today)
    BY DEF Ledgered, TypeOK
  <2>2. k.date \in Int
    BY <2>1, SlotTyped
  <2>3. CASE k.date = Today
    BY <1>1, <2>1, <2>2, <2>3
  <2>4. CASE k.date # Today
    BY <2>1, <2>2, <2>4
  <2>5. QED
    BY <2>3, <2>4
<1>3. QED
  BY <1>1, <1>2 DEF Ledgered

LEMMA LedgerKept ==
  ASSUME TypeOK, Clocked, Derived, Ledgered, [Next]_vars PROVE Ledgered'
<1>0. now \in Int /\ bnow \in Int /\ bnow <= now /\ queue \subseteq SlotKey /\ expired \subseteq SlotKey /\ launched \subseteq SlotKey
  BY ClockSteps DEF TypeOK, Clocked
<1>1. CASE Start
  <2>1. launched' = {} /\ attempts' = {}
    BY <1>1 DEF Start
  <2>2. QED
    BY <2>1 DEF Ledgered
<1>t. ~Start => Today \in Int /\ Today' \in Int /\ Today <= Today'
  BY TodayGrows
<1>2. CASE Tick
  <2>1. ~Start
    BY <1>2 DEF Tick, Start
  <2>2. UNCHANGED <<launched, attempts, lost, queue, expired>>
    BY <1>2 DEF Tick, obsVars, pidVars
  <2>3. \A k \in launched : k.date \in Int
    BY <1>0, SlotTyped
  <2>4. QED
    BY <1>t, <2>1, <2>2, <2>3 DEF Ledgered
<1>3. CASE Scan
  <2>1. UNCHANGED <<launched, attempts, lost, bnow>> /\ queue' = OwedAt(bnow) /\ expired' = ExpiredAt(bnow)
    BY <1>3 DEF Scan, obsVars, pidVars
  <2>2. ASSUME ~lost, NEW k \in launched, k.date = Today PROVE IsServed(k, History(k.profile, k.date))
    <3>1. Today \in Int
      BY <1>3, <1>t DEF Scan, Proceeding, Start
    <3>2. k \in attempts
      BY <2>2, <3>1 DEF Ledgered
    <3>3. QED
      BY <1>0, <2>2, <3>2, LaunchedIsServed
  <2>3. \A k \in OwedAt(bnow) \cup ExpiredAt(bnow) : k.date = Today /\ ~IsServed(k, History(k.profile, k.date))
    BY DEF OwedAt, ExpiredAt, ScheduledOn, Today
  <2>4. ~lost => queue' \cap launched = {} /\ expired' \cap launched = {}
    BY <2>1, <2>2, <2>3
  <2>5. Today' = Today
    BY <2>1 DEF Today
  <2>6. QED
    BY <2>1, <2>4, <2>5 DEF Ledgered
<1>4. ASSUME NEW k \in queue, Launch(k) PROVE Ledgered'
  <2>1. /\ ~lost /\ ~lost' /\ Append(k) /\ launched' = launched \cup {k} /\ bnow' = bnow
        /\ queue' = queue \ {k} /\ expired' = expired /\ now <= GraceEnd(k)
    BY <1>4 DEF Launch
  <2>2. Today' = Today /\ Today \in Int
    <3>1. ~Start
      BY <1>4 DEF Launch, Proceeding, Start
    <3>2. QED
      BY <1>t, <2>1, <3>1 DEF Today
  <2>3. k.date = Today
    BY DEF Derived, ScheduledOn
  <2>4. k \notin expired
    <3>1. GraceEnd(k) \in Int
      BY <1>0, SlotTyped
    <3>2. QED
      BY <1>0, <2>1, <3>1 DEF Derived
  <2>5. /\ k \in attempts'
        /\ \A j \in launched : j \in attempts' \/ j.date < Today
        /\ \A b \in attempts' : b = k \/ b.slot = Catchup \/ b \in launched
    BY <2>1, <2>2, <2>3, AppendKeeps
  <2>6. \A j \in launched' : j.date <= Today'
    BY <2>1, <2>2, <2>3 DEF Ledgered
  <2>7. QED
    BY <2>1, <2>2, <2>4, <2>5, <2>6 DEF Ledgered
<1>5. ASSUME NEW p \in Profile, LaunchCatchup(p) PROVE Ledgered'
  <2> DEFINE a == [profile |-> p, date |-> Today, slot |-> Catchup]
  <2>1. /\ ~lost /\ ~lost' /\ Append(a) /\ UNCHANGED <<launched, bnow, queue, expired>>
    BY <1>5 DEF LaunchCatchup
  <2>2. Today' = Today /\ Today \in Int
    <3>1. ~Start
      BY <1>5 DEF LaunchCatchup, Proceeding, Start
    <3>2. QED
      BY <1>t, <2>1, <3>1 DEF Today
  <2>3. a.date = Today /\ a.slot = Catchup
    OBVIOUS
  <2> HIDE DEF a
  <2>4. /\ \A j \in launched : j \in attempts' \/ j.date < Today
        /\ \A b \in attempts' : b = a \/ b.slot = Catchup \/ b \in launched
    BY <2>1, <2>2, <2>3, AppendKeeps
  <2>5. QED
    BY <2>1, <2>2, <2>3, <2>4 DEF Ledgered
<1>6. CASE UNCHANGED <<attempts, launched, bnow>> /\ (lost => lost') /\ ~Scan
  <2>1. Today' = Today
    BY <1>6 DEF Today
  <2>2. QED
    BY <1>6, <2>1, QueueShrinks DEF Ledgered
<1>7. QED
  BY <1>1, <1>2, <1>3, <1>4, <1>5, <1>6, LedgerFrame

----------------------------------------------------------------------------
(* The deferred slots *)

(* Whatever a step does, a key it adds had expired, and none goes. *)
LEMMA KeysGrow ==
  ASSUME TypeOK, [Next]_vars
  PROVE  /\ \A r \in deferred' : (\E q \in deferred : r.key = q.key) \/ (RecordDeferrals /\ r.key \in expired)
         /\ \A q \in deferred : \E r \in deferred' : r.key = q.key
<1>0. DeferredType
  BY TypeParts
<1>1. CASE RecordDeferrals
  <2>1. deferred \subseteq deferred' /\ \A r \in deferred' \ deferred : r.key \in expired
    BY <1>1, DeferredSteps DEF RecordDeferrals
  <2>2. QED
    BY <1>1, <2>1
<1>2. CASE \E p \in Profile, d \in Int : deferred' = Marked(p, d)
  BY <1>0, <1>2, MarkedTyped
<1>3. CASE UNCHANGED deferred
  BY <1>3
<1>4. QED
  BY <1>1, <1>2, <1>3, DeferredSteps

LEMMA RecordedKept ==
  ASSUME TypeOK, Clocked, Derived, RecordedIsPast, [Next]_vars PROVE RecordedIsPast'
<1> SUFFICES ASSUME NEW r \in deferred' PROVE GraceEnd(r.key) < now'
  BY DEF RecordedIsPast
<1>0. now \in Int /\ now' \in Int /\ now <= now' /\ bnow \in Int /\ bnow <= now
  BY ClockSteps DEF Clocked
<1>1. ASSUME NEW q \in deferred, r.key = q.key PROVE GraceEnd(r.key) < now'
  <2>1. q.key \in SlotKey
    BY DEF TypeOK
  <2>2. GraceEnd(q.key) \in Int /\ GraceEnd(q.key) < now
    BY <2>1, SlotTyped DEF RecordedIsPast
  <2>3. QED
    BY <1>0, <1>1, <2>2
<1>2. ASSUME r.key \in expired PROVE GraceEnd(r.key) < now'
  <2>1. r.key \in SlotKey
    BY <1>2 DEF TypeOK
  <2>2. GraceEnd(r.key) \in Int /\ GraceEnd(r.key) < bnow
    BY <1>2, <2>1, SlotTyped DEF Derived
  <2>3. QED
    BY <1>0, <2>2
<1>3. QED
  BY <1>1, <1>2, KeysGrow

LEMMA XorKept ==
  ASSUME TypeOK, Clocked, Derived, Ledgered, RecordedIsPast, LaunchedXorDeferred, [Next]_vars
  PROVE  LaunchedXorDeferred'
<1> SUFFICES ASSUME ~lost', NEW k \in launched', NEW r \in deferred', r.key = k PROVE FALSE
  BY DEF LaunchedXorDeferred, Recorded
<1>1. CASE Start
  BY <1>1 DEF Start
<1>2. CASE \E j \in queue : Launch(j)
  <2>1. PICK j \in queue : Launch(j)
    BY <1>2
  <2>2. ~lost /\ launched' = launched \cup {j} /\ deferred' = deferred /\ now <= GraceEnd(j)
    BY <2>1 DEF Launch, dbVars
  <2>3. CASE k \in launched
    BY <2>2, <2>3 DEF LaunchedXorDeferred, Recorded
  <2>4. CASE k = j
    <3>1. j \in SlotKey /\ now \in Int
      BY ClockSteps DEF TypeOK
    <3>2. GraceEnd(j) \in Int /\ GraceEnd(j) < now
      BY <2>2, <2>4, <3>1, SlotTyped DEF RecordedIsPast
    <3>3. QED
      BY <2>2, <3>1, <3>2
  <2>5. QED
    BY <2>2, <2>3, <2>4
<1>3. CASE ~Start /\ ~\E j \in queue : Launch(j)
  <2>1. launched' = launched
    BY <1>3, ObsFrame
  <2>2. ~lost
    <3>1. PidfileLost \/ UNCHANGED lost
      BY <1>3 DEF Next, Environment, Batch, TimePasses, HostSleeps, UserRun, RequestRun, RunRow, RunEnds, Stop, Crash, Tick,
         RunIntent, Scan, RecordDeferrals, BeginRetro, FinishBatch, SameDaySummary, NoCatchup, LaunchCatchup, Retro,
         Decline, PassOver, Launch, vars, pidVars
    <3>2. QED
      BY <3>1 DEF PidfileLost
  <2>3. CASE \E q \in deferred : r.key = q.key
    BY <2>1, <2>2, <2>3 DEF LaunchedXorDeferred, Recorded
  <2>4. CASE r.key \in expired
    BY <2>1, <2>2, <2>4 DEF Ledgered
  <2>5. QED
    BY <2>3, <2>4, KeysGrow
<1>4. QED
  BY <1>1, <1>2, <1>3

----------------------------------------------------------------------------
(* Accounting for the day *)

(* A start of the slot's own day inside its window is one of its time, and  *)
(* an entry of the ledger there a launch.                                   *)
LEMMA ServedIsAccounted ==
  ASSUME TypeOK, RowsDated, Ledgered, NEW k \in SlotKey, IsServed(k, History(k.profile, k.date))
  PROVE  ReallyServed(k) \/ Attempted(k)
<1>0. k.date \in Int /\ k.slot \in Int /\ k.slot >= 0 /\ SlotAt(k) \in Int /\ GraceEnd(k) \in Int /\ Grace \in Nat
  BY SlotTyped
<1>1. PICK c \in History(k.profile, k.date) : k.slot <= c /\ c <= k.slot + Grace
  BY DEF IsServed
<1>2. CASE \E r \in rows : r.profile = k.profile /\ r.runDate = k.date /\ r.clock = c
  <2>1. PICK r \in rows : r.profile = k.profile /\ r.runDate = k.date /\ r.clock = c
    BY <1>2
  <2>2. r.at = k.date * DayLen + c
    BY <2>1 DEF RowsDated
  <2>3. DayLen \in Int /\ c \in Int
    BY <2>1, DaemonTickAssumption DEF TypeOK
  <2>4. k.date * DayLen \in Int
    BY <1>0, <2>3
  <2>5. SlotAt(k) <= r.at /\ r.at <= GraceEnd(k)
    BY <1>0, <1>1, <2>2, <2>3, <2>4 DEF SlotAt, GraceEnd
  <2>6. QED
    BY <2>1, <2>5 DEF ReallyServed
<1>3. CASE \E a \in Ledger : a.profile = k.profile /\ a.date = k.date /\ a.slot = c
  <2>1. PICK a \in attempts : a.profile = k.profile /\ a.date = k.date /\ a.slot = c /\ ~lost
    BY <1>3 DEF Ledger
  <2>2. a.slot # Catchup
    BY <1>0, <1>1, <2>1 DEF Catchup
  <2>3. a \in launched
    BY <2>1, <2>2 DEF Ledgered
  <2>4. QED
    BY <1>1, <2>1, <2>3 DEF Attempted
<1>4. QED
  BY <1>1, <1>2, <1>3 DEF History

(* What is accounted for stays so while the daemon lives. *)
LEMMA AccountedGrows ==
  ASSUME TypeOK, [Next]_vars, ~Start, NEW k, AccountedBy(k)
  PROVE  AccountedBy(k)'
<1>1. rows \subseteq rows'
  BY RowsFrame DEF RunRow
<1>2. launched \subseteq launched'
  BY ObsFrame DEF Launch
<1>3. CASE ReallyServed(k)
  BY <1>1, <1>3 DEF AccountedBy, ReallyServed
<1>4. CASE Attempted(k)
  BY <1>2, <1>4 DEF AccountedBy, Attempted
<1>5. CASE Recorded(k)
  BY <1>5, KeysGrow DEF AccountedBy, Recorded
<1>6. QED
  BY <1>3, <1>4, <1>5 DEF AccountedBy

LEMMA PhaseFrame ==
  ASSUME [Next]_vars, ~Start, ~Stop, ~Crash, ~Tick, ~Scan, ~RecordDeferrals, ~BeginRetro, ~FinishBatch
  PROVE  UNCHANGED <<up, phase, bnow, expired>>
BY DEF Next, Environment, Batch, TimePasses, HostSleeps, UserRun, RequestRun, RunRow, PidfileLost, RunEnds,
     RunIntent, SameDaySummary, NoCatchup, LaunchCatchup, Retro, Decline, PassOver, Launch, vars, batchVars

LEMMA AccountingKept ==
  ASSUME TypeOK, Clocked, RowsDated, Ledgered, Accounting, [Next]_vars PROVE Accounting'
<1>1. CASE Start
  BY <1>1 DEF Start, Accounting
<1>2. CASE Stop \/ Crash
  BY <1>2 DEF Stop, Crash, Accounting
<1>3. CASE Tick
  BY <1>3 DEF Tick, Accounting
<1> DEFINE Closed(k) == k \in ScheduledOn(Today) /\ bnow > GraceEnd(k)
<1>4. ASSUME UNCHANGED <<up, bnow>>, ~Start,
             up => \A k : Closed(k) =>
               /\ phase' = "owed" => AccountedBy(k)' \/ k \in expired'
               /\ phase' \in {"sweep", "retro", "idle"} => AccountedBy(k)'
      PROVE  Accounting'
  BY <1>4 DEF Accounting, Today
<1>5. CASE Scan
  <2>1. UNCHANGED <<up, bnow>> /\ ~Start /\ phase' = "owed" /\ expired' = ExpiredAt(bnow) /\ up /\ bnow >= 0
    BY <1>5 DEF Scan, Proceeding, Start, Clocked
  <2>2. ASSUME NEW k, Closed(k) PROVE AccountedBy(k)' \/ k \in expired'
    <3>1. CASE IsServed(k, History(k.profile, k.date))
      <4>1. k \in SlotKey
        <5>1. Today \in Day
          BY <2>1, TodayInRange
        <5>2. QED
          BY <2>2, <5>1 DEF ScheduledOn, SlotKey
      <4>2. AccountedBy(k)
        BY <3>1, <4>1, ServedIsAccounted DEF AccountedBy
      <4>3. QED
        BY <2>1, <4>2, AccountedGrows
    <3>2. CASE ~IsServed(k, History(k.profile, k.date))
      BY <2>1, <2>2, <3>2 DEF ExpiredAt, Today
    <3>3. QED
      BY <3>1, <3>2
  <2>3. QED
    BY <1>4, <2>1, <2>2
<1>6. CASE RecordDeferrals
  <2>1. UNCHANGED <<up, bnow>> /\ ~Start /\ phase = "owed" /\ phase' = "sweep" /\ up
    BY <1>6 DEF RecordDeferrals, Proceeding, Start
  <2>2. bnow # -1
    BY <2>1 DEF Clocked
  <2>3. ASSUME NEW k, k \in expired PROVE AccountedBy(k)'
    <3>1. deferred' = deferred \cup {[key |-> j, reason |-> Attribution(j), notified |-> FALSE] :
                                       j \in expired \ {r.key : r \in deferred}}
      BY <1>6 DEF RecordDeferrals
    <3>2. \E r \in deferred' : r.key = k
      <4>1. CASE k \in {r.key : r \in deferred}
        BY <3>1, <4>1
      <4>2. CASE k \notin {r.key : r \in deferred}
        <5> DEFINE r == [key |-> k, reason |-> Attribution(k), notified |-> FALSE]
        <5>1. r \in deferred' /\ r.key = k
          BY <2>3, <3>1, <4>2
        <5>2. QED
          BY <5>1
      <4>3. QED
        BY <4>1, <4>2
    <3>3. QED
      BY <3>2 DEF AccountedBy, Recorded
  <2>4. ASSUME NEW k, Closed(k) PROVE AccountedBy(k)'
    <3>1. AccountedBy(k) \/ k \in expired
      BY <2>1, <2>2, <2>4 DEF Accounting
    <3>2. QED
      BY <2>1, <2>3, <3>1, AccountedGrows
  <2>5. QED
    BY <1>4, <2>1, <2>4
<1>7. CASE BeginRetro \/ FinishBatch
  <2>1. /\ UNCHANGED <<up, bnow>> /\ ~Start /\ phase \in {"sweep", "retro"} /\ up
        /\ phase' \in {"retro", "idle"}
    BY <1>7 DEF BeginRetro, FinishBatch, EndBatch, Proceeding, Start
  <2>2. bnow # -1
    BY <2>1 DEF Clocked
  <2>3. ASSUME NEW k, Closed(k) PROVE AccountedBy(k)'
    <3>1. AccountedBy(k)
      BY <2>1, <2>2, <2>3 DEF Accounting
    <3>2. QED
      BY <2>1, <3>1, AccountedGrows
  <2>4. QED
    BY <1>4, <2>1, <2>3
<1>8. CASE UNCHANGED <<up, phase, bnow, expired>> /\ ~Start
  <2>1. ASSUME up, bnow # -1, NEW k, Closed(k)
        PROVE  /\ phase' = "owed" => AccountedBy(k)' \/ k \in expired'
               /\ phase' \in {"sweep", "retro", "idle"} => AccountedBy(k)'
    <3>1. /\ phase = "owed" => AccountedBy(k) \/ k \in expired
          /\ phase \in {"sweep", "retro", "idle"} => AccountedBy(k)
      BY <2>1 DEF Accounting
    <3>2. AccountedBy(k) => AccountedBy(k)'
      BY <1>8, AccountedGrows
    <3>3. QED
      BY <1>8, <3>1, <3>2
  <2>2. QED
    BY <1>8, <2>1 DEF Accounting, Today
<1>9. QED
  BY <1>1, <1>2, <1>3, <1>5, <1>6, <1>7, <1>8, PhaseFrame

----------------------------------------------------------------------------
LEMMA InitHolds == ASSUME Init PROVE DayInv
<1>1. MaxTime \in Nat /\ MaxStarts \in Nat /\ MaxUserRuns \in Nat
  BY DaemonTickAssumption
<1>2. TypeOK
  <2>1. /\ 0 \in 0 .. MaxTime /\ 0 \in 0 .. MaxStarts /\ 0 \in 0 .. MaxUserRuns
        /\ -1 \in -1 .. MaxTime
    BY <1>1
  <2>2. EnvType
    BY <2>1 DEF Init, EnvType
  <2>3. RunType
    BY DEF Init, RunType
  <2>4. RowsType /\ DeferredType
    BY DEF Init, RowsType, DeferredType
  <2>5. PidType
    BY DEF Init, PidType
  <2>6. DaemonType
    BY <2>1 DEF Init, DaemonType, Phases
  <2>7. BatchType
    BY DEF Init, BatchType
  <2>8. ObsType
    BY <2>1 DEF Init, ObsType
  <2>9. QED
    BY <2>2, <2>3, <2>4, <2>5, <2>6, <2>7, <2>8, TypeParts
<1>3. IsFiniteSet(rows)
  BY FS_EmptySet DEF Init
<1>4. Clocked /\ Derived /\ Ledgered /\ RecordedIsPast /\ LaunchedXorDeferred /\ Accounting /\ RowsDated
  BY DEF Init, Clocked, Derived, Ledgered, RecordedIsPast, LaunchedXorDeferred, Accounting, RowsDated
<1>5. QED
  BY <1>2, <1>3, <1>4 DEF DayInv, LedgerInv

LEMMA LedgerInvKept == ASSUME LedgerInv, [Next]_vars PROVE LedgerInv'
<1>1. TypeOK' /\ IsFiniteSet(rows')
  BY TypeKept, RowsTyped DEF LedgerInv
<1>2. QED
  BY <1>1, ClockKept, DerivedKept, LedgerKept, RecordedKept, XorKept DEF LedgerInv

LEMMA LedgerInvHolds == Spec => []LedgerInv
<1>1. Init => LedgerInv
  BY InitHolds DEF DayInv
<1>2. LedgerInv /\ [Next]_vars => LedgerInv'
  BY LedgerInvKept
<1>3. QED
  BY <1>1, <1>2, PTL DEF Spec

LEMMA InvKept == ASSUME UtcOffset = 0, DayInv, [Next]_vars PROVE DayInv'
BY LedgerInvKept, RowsDatedKept, AccountingKept DEF DayInv, LedgerInv

LEMMA InvHolds == ASSUME UtcOffset = 0 PROVE Spec => []DayInv
<1>1. Init => DayInv
  BY InitHolds
<1>2. DayInv /\ [Next]_vars => DayInv'
  BY InvKept
<1>3. QED
  BY <1>1, <1>2, PTL DEF Spec

(* After every batch each slot of today whose window has closed was run,    *)
(* attempted or recorded as deferred, and none was both launched and        *)
(* recorded (runOwedBatch: owed slots are launched under the ledger,        *)
(* expired ones recorded after them, from one derivation).                  *)
THEOREM DayHolds == UtcOffset = 0 => (Spec => []DaySound)
<1> SUFFICES ASSUME UtcOffset = 0 PROVE Spec => []DaySound
  OBVIOUS
<1>1. DayInv => DaySound
  <2> SUFFICES ASSUME DayInv PROVE DaySound
    OBVIOUS
  <2>1. TypeOK /\ LaunchedXorDeferred
    BY DEF DayInv, LedgerInv
  <2>2. ASSUME Settled, NEW k \in ScheduledOn(Today), now > GraceEnd(k) PROVE AccountedBy(k)
    <3>1. bnow # -1
      BY <2>1, <2>2 DEF Settled, TypeOK
    <3>2. QED
      BY <2>2, <3>1 DEF DayInv, Accounting, Settled
  <2>3. AccountedToday
    BY <2>2 DEF AccountedToday, AccountedBy
  <2>4. QED
    BY <2>1, <2>3 DEF DaySound
<1>2. QED
  BY <1>1, InvHolds, PTL

----------------------------------------------------------------------------
(* The launches *)

LEMMA OnceStep ==
  ASSUME LedgerInv, [Next]_vars
  PROVE  \A k \in queue : Launch(k) /\ ~lost => k \notin launched
BY DEF LedgerInv, Ledgered

LEMMA WindowStep ==
  ASSUME LedgerInv, [Next]_vars
  PROVE  \A k \in SlotKey : k \in launched' \ launched => SlotAt(k) <= now /\ now <= GraceEnd(k)
<1> SUFFICES ASSUME NEW k \in launched', k \notin launched PROVE SlotAt(k) <= now /\ now <= GraceEnd(k)
  OBVIOUS
<1>1. ~Start
  BY DEF Start
<1>2. PICK j \in queue : Launch(j)
  BY <1>1, ObsFrame
<1>3. k = j /\ now <= GraceEnd(j)
  BY <1>2 DEF Launch
<1>4. j \in SlotKey /\ SlotAt(j) <= bnow /\ bnow <= now
  BY DEF LedgerInv, TypeOK, Derived, Clocked
<1>5. SlotAt(j) \in Int /\ bnow \in Int /\ now \in Int
  BY <1>4, SlotTyped, ClockSteps DEF LedgerInv
<1>6. QED
  BY <1>3, <1>4, <1>5

LEMMA OwedStep ==
  ASSUME DayInv, Scan
  PROVE  \A k \in ScheduledOn(Today) :
           SlotAt(k) <= bnow /\ bnow <= GraceEnd(k) => k \in queue' \/ ReallyServed(k) \/ Attempted(k)
<1> SUFFICES ASSUME NEW k \in ScheduledOn(Today), SlotAt(k) <= bnow, bnow <= GraceEnd(k), k \notin queue'
             PROVE  ReallyServed(k) \/ Attempted(k)
  OBVIOUS
<1>1. IsServed(k, History(k.profile, k.date))
  BY DEF Scan, OwedAt, Today
<1>2. k \in SlotKey
  <2>1. Today \in Day
    BY TodayInRange DEF DayInv, LedgerInv, Scan, Proceeding, Clocked
  <2>2. QED
    BY <2>1 DEF ScheduledOn, SlotKey
<1>3. QED
  BY <1>1, <1>2, ServedIsAccounted DEF DayInv, LedgerInv

(* The daemon spawns a scheduled slot once in its life and in its window    *)
(* only, however long the batch awaited earlier children, and passes over   *)
(* none that neither ran nor was attempted (daemon.ts: the ledger before    *)
(* the spawn, the window looked at again after the awaits).                 *)
THEOREM LaunchHolds == UtcOffset = 0 => (Spec => LaunchSound)
<1> SUFFICES ASSUME UtcOffset = 0 PROVE Spec => LaunchSound
  OBVIOUS
<1>1. LedgerInv /\ [Next]_vars => [\A k \in queue : Launch(k) /\ ~lost => k \notin launched]_vars
  BY OnceStep
<1>2. LedgerInv /\ [Next]_vars => [\A k \in SlotKey : k \in launched' \ launched
                                  => SlotAt(k) <= now /\ now <= GraceEnd(k)]_vars
  BY WindowStep
<1>3. DayInv /\ [Next]_vars => [Scan => \A k \in ScheduledOn(Today) :
        SlotAt(k) <= bnow /\ bnow <= GraceEnd(k) => k \in queue' \/ ReallyServed(k) \/ Attempted(k)]_vars
  BY OwedStep
<1>4. QED
  BY <1>1, <1>2, <1>3, LedgerInvHolds, InvHolds, PTL DEF Spec, LaunchSound, NoDoubleLaunch, LaunchWithinWindow, NotSuppressed

(* In every zone, UTC or not: no slot is spawned twice or outside its       *)
(* window, and none is both spawned and reported as missed.  The ledger     *)
(* and the clock alone carry this; what a row's date says does not matter.  *)
THEOREM LedgerHolds ==
  Spec => [](TypeOK /\ LaunchedXorDeferred) /\ NoDoubleLaunch /\ LaunchWithinWindow
<1>1. LedgerInv => TypeOK /\ LaunchedXorDeferred
  BY DEF LedgerInv
<1>2. LedgerInv /\ [Next]_vars => [\A k \in queue : Launch(k) /\ ~lost => k \notin launched]_vars
  BY OnceStep
<1>3. LedgerInv /\ [Next]_vars => [\A k \in SlotKey : k \in launched' \ launched
                                     => SlotAt(k) <= now /\ now <= GraceEnd(k)]_vars
  BY WindowStep
<1>4. QED
  BY <1>1, <1>2, <1>3, LedgerInvHolds, PTL DEF Spec, NoDoubleLaunch, LaunchWithinWindow

----------------------------------------------------------------------------
(* A served slot is not run again *)

(* No slot's window reaches over midnight. *)
WindowsInDay == \A s \in SlotTime : s + Grace < DayLen

(* A run in the window is then one of the slot's own day, and its row's     *)
(* clock is in the window too.                                              *)
LEMMA ReallyIsServed ==
  ASSUME WindowsInDay, TypeOK, RowsDated, NEW k \in SlotKey, ReallyServed(k)
  PROVE  IsServed(k, History(k.profile, k.date))
<1>1. PICK r \in rows : r.profile = k.profile /\ SlotAt(k) <= r.at /\ r.at <= GraceEnd(k)
  BY DEF ReallyServed
<1>2. /\ r.at \in Int /\ r.runDate \in Int /\ r.clock \in 0 .. DayLen - 1 /\ r.clock \in Int
      /\ DayLen \in Int /\ DayLen > 0
  <2>1. MaxTime \div DayLen \in Int /\ DayLen \in Int /\ DayLen > 0
    BY DaemonTickAssumption
  <2>2. r.at \in 0 .. MaxTime /\ r.runDate \in RunDay /\ r.clock \in 0 .. DayLen - 1
    BY DEF TypeOK
  <2>3. r.runDate \in Int
    BY <2>1, <2>2 DEF RunDay
  <2>4. r.at \in Int /\ r.clock \in Int
    BY <2>1, <2>2, DaemonTickAssumption
  <2>5. QED
    BY <2>1, <2>2, <2>3, <2>4
<1>3. /\ k.date \in Int /\ k.slot \in Int /\ k.slot >= 0 /\ Grace \in Nat /\ k.slot + Grace < DayLen
      /\ SlotAt(k) \in Int /\ GraceEnd(k) \in Int
  BY SlotTyped DEF SlotKey, WindowsInDay
<1> DEFINE c == r.at - k.date * DayLen
<1>4. k.date * DayLen \in Int
  BY <1>2, <1>3
<1>5. c \in Int /\ k.slot <= c /\ c <= k.slot + Grace /\ r.at = k.date * DayLen + c
  BY <1>1, <1>2, <1>3, <1>4 DEF SlotAt, GraceEnd
<1> HIDE DEF c
<1>6. c \in 0 .. DayLen - 1
  BY <1>2, <1>3, <1>5
<1>7. DayOf(r.at) = k.date /\ ClockOf(r.at) = c
  BY <1>2, <1>3, <1>5, <1>6, DayIs
<1>8. DayOf(r.at) = r.runDate /\ ClockOf(r.at) = r.clock
  BY <1>2, DayIs DEF RowsDated
<1>9. r.clock \in History(k.profile, k.date)
  BY <1>1, <1>7, <1>8 DEF History
<1>10. QED
  BY <1>5, <1>7, <1>8, <1>9 DEF IsServed

LEMMA RerunStep ==
  ASSUME WindowsInDay, DayInv, Scan
  PROVE  \A k \in queue' : ~ReallyServed(k)
<1>1. queue' = OwedAt(bnow) /\ bnow >= 0
  BY DEF Scan, Proceeding, DayInv, LedgerInv, Clocked
<1>2. OwedAt(bnow) \subseteq SlotKey
  BY <1>1, OwedTyped DEF DayInv, LedgerInv
<1>3. \A k \in OwedAt(bnow) : ~IsServed(k, History(k.profile, k.date))
  BY DEF OwedAt
<1>4. QED
  BY <1>1, <1>2, <1>3, ReallyIsServed DEF DayInv, LedgerInv

(* daemon.ts:24-29: a restart within the grace, which empties the ledger,   *)
(* does not spawn again a slot whose run is in the runs table.  Local time  *)
(* must be UTC, and no window may reach over midnight: the run of the       *)
(* other day is not in the history isRunOwed is given.                      *)
THEOREM NoRerunHolds == UtcOffset = 0 /\ WindowsInDay => (Spec => NoRerun)
<1> SUFFICES ASSUME UtcOffset = 0, WindowsInDay PROVE Spec => NoRerun
  OBVIOUS
<1>1. DayInv /\ [Next]_vars => [Scan => \A k \in queue' : ~ReallyServed(k)]_vars
  BY RerunStep
<1>2. QED
  BY <1>1, InvHolds, PTL DEF Spec, NoRerun

----------------------------------------------------------------------------
(* Deferred slots are closed for a reason *)

(* A mark changes rows of the named date only. *)
LEMMA MarkedRows ==
  ASSUME DeferredType, NEW p, NEW d, NEW r \in Marked(p, d)
  PROVE  /\ r \in deferred \/ (r.notified /\ r.key \in KeysOf(p, d) /\ r.key.profile = p /\ r.key.date = d)
         /\ ~r.notified => r \in deferred \ RowsOf(p, d)
<1>1. PICK q \in deferred : r = IF q \in RowsOf(p, d) THEN [q EXCEPT !.notified = TRUE] ELSE q
  BY DEF Marked
<1>2. ASSUME NEW x \in [key : SlotKey, reason : Reasons, notified : BOOLEAN]
      PROVE  [x EXCEPT !.notified = TRUE].notified = TRUE /\ [x EXCEPT !.notified = TRUE].key = x.key
  OBVIOUS
<1>3. CASE q \in RowsOf(p, d)
  <2>1. r.notified = TRUE /\ r.key = q.key
    BY <1>1, <1>2, <1>3 DEF DeferredType
  <2>2. q.key.profile = p /\ q.key.date = d /\ q.key \in KeysOf(p, d)
    BY <1>3 DEF RowsOf, KeysOf
  <2>3. QED
    BY <2>1, <2>2
<1>4. CASE q \notin RowsOf(p, d)
  BY <1>1, <1>4
<1>5. QED
  BY <1>3, <1>4

LEMMA ReasonKept == ASSUME TypeOK, ClosedForAReason, [Next]_vars PROVE ClosedForAReason'
<1> SUFFICES ASSUME NEW r \in deferred', r.notified PROVE (r.key \in informed \/ HasCatchupRun(r.key.profile, r.key.date))'
  BY DEF ClosedForAReason
<1>0. DeferredType
  BY TypeParts
<1>1. informed \subseteq informed' /\ rows \subseteq rows'
  BY InformedSteps, RowsFrame DEF RunRow
<1>2. CASE r \in deferred
  <2>1. r.key \in informed \/ HasCatchupRun(r.key.profile, r.key.date)
    BY <1>2 DEF ClosedForAReason
  <2>2. QED
    BY <1>1, <2>1 DEF HasCatchupRun
<1>3. ASSUME NEW p, NEW d, Summarise(p, d) PROVE r \in deferred \/ r.key \in informed'
  BY <1>0, <1>3, MarkedRows DEF Summarise
<1>4. ASSUME NEW p \in Profile, SameDaySummary(p) PROVE r \in deferred \/ r.key \in informed'
  BY <1>3, <1>4 DEF SameDaySummary
<1>5. ASSUME NEW p \in Profile, NEW d \in Day, Retro(p, d)
      PROVE  r \in deferred \/ (r.key \in informed \/ HasCatchupRun(r.key.profile, r.key.date))'
  <2>1. CASE Summarise(p, d)
    BY <1>3, <2>1
  <2>2. CASE HasCatchupRun(p, d) /\ deferred' = Marked(p, d)
    <3>1. r \in deferred \/ (r.key.profile = p /\ r.key.date = d)
      BY <1>0, <2>2, MarkedRows
    <3>2. HasCatchupRun(p, d)'
      BY <1>1, <2>2 DEF HasCatchupRun
    <3>3. QED
      BY <3>1, <3>2
  <2>3. CASE UNCHANGED deferred
    BY <2>3
  <2>4. QED
    BY <1>5, <2>1, <2>2, <2>3 DEF Retro
<1>6. ASSUME RecordDeferrals PROVE r \in deferred
  BY <1>6 DEF RecordDeferrals
<1>7. ASSUME UNCHANGED deferred PROVE r \in deferred
  BY <1>7
<1>8. r \in deferred \/ (r.key \in informed \/ HasCatchupRun(r.key.profile, r.key.date))'
  BY <1>4, <1>5, <1>6, <1>7, DeferredFrame
<1>9. QED
  BY <1>2, <1>8

----------------------------------------------------------------------------
(* Earlier days are tried again *)

(* While the retrospective sweep goes on, an open day was tried or is still *)
(* to be looked at; after it, every one was tried.                          *)
RetriedInTurn ==
  ~lost => \A r \in deferred :
    ~r.notified /\ r.key.date < Today =>
      /\ phase = "retro" => \/ <<r.key.profile, r.key.date>> \in toRetro
                            \/ IsThrottled(r.key.profile, r.key.date)
      /\ up /\ phase = "idle" /\ bnow # -1 => IsThrottled(r.key.profile, r.key.date)

(* An attempt is stamped, and drops no stamp that is within the interval.   *)
LEMMA StampKeeps ==
  ASSUME TypeOK, ~lost, bnow' = bnow, ~lost', NEW p, NEW d, Stamp(p, d)
  PROVE  /\ IsThrottled(p, d)'
         /\ \A q, e : IsThrottled(q, e) => IsThrottled(q, e)'
<1>0. /\ bnow \in Int /\ RetryAfter \in Int /\ RetryAfter >= 0 /\ RetryAfter <= DayLen /\ DayLen \in Int
      /\ \A s \in stamps : s.at \in Int
  BY DaemonTickAssumption DEF TypeOK
<1> DEFINE new == [profile |-> p, date |-> d, at |-> bnow]
<1>1. stamps' = {s \in stamps : ~(s.profile = p /\ s.date = d) /\ bnow - s.at <= DayLen} \cup {new}
  BY DEF Stamp
<1>2. new.profile = p /\ new.date = d /\ bnow - new.at <= RetryAfter
  BY <1>0
<1>3. new \in stamps'
  BY <1>1
<1> HIDE DEF new
<1>4. IsThrottled(p, d)'
  BY <1>2, <1>3 DEF IsThrottled
<1>5. ASSUME NEW q, NEW e, IsThrottled(q, e), ~(q = p /\ e = d) PROVE IsThrottled(q, e)'
  <2>1. PICK s \in stamps : s.profile = q /\ s.date = e /\ bnow - s.at <= RetryAfter
    BY <1>5 DEF IsThrottled
  <2>2. bnow - s.at <= DayLen
    BY <1>0, <2>1
  <2>3. s \in stamps'
    BY <1>1, <1>5, <2>1, <2>2
  <2>4. QED
    BY <2>1, <2>3 DEF IsThrottled
<1>6. QED
  BY <1>4, <1>5

(* Either the sweep is not at stake, or it is left as it is. *)
LEMMA RetroFrame ==
  ASSUME [Next]_vars, ~Start, ~Stop, ~Crash, ~BeginRetro, ~FinishBatch, \A p \in Profile, d \in Day : ~Retro(p, d)
  PROVE  \/ phase' \in {"intents", "owed", "sweep"}
         \/ UNCHANGED <<up, phase, bnow, deferred, stamps, toRetro>> /\ (lost => lost')
<1>1. CASE PidfileLost
  BY <1>1 DEF PidfileLost, dbVars, batchVars
<1>2. CASE Tick \/ Scan \/ RecordDeferrals
  BY <1>2 DEF Tick, Scan, RecordDeferrals
<1>3. CASE \E p \in Profile : SameDaySummary(p)
  BY <1>3 DEF SameDaySummary, Proceeding
<1>4. CASE ~PidfileLost /\ ~Tick /\ ~Scan /\ ~RecordDeferrals /\ \A p \in Profile : ~SameDaySummary(p)
  <2>1. UNCHANGED <<up, phase, bnow, deferred, stamps, toRetro, lost>>
    BY <1>4 DEF Next, Environment, Batch, TimePasses, HostSleeps, UserRun, RequestRun, RunRow, RunEnds,
     RunIntent, NoCatchup, LaunchCatchup, Decline, PassOver, Launch, vars, dbVars, batchVars, pidVars
  <2>2. QED
    BY <2>1
<1>5. QED
  BY <1>1, <1>2, <1>3, <1>4

LEMMA RetriedKept == ASSUME TypeOK, Clocked, RetriedInTurn, [Next]_vars PROVE RetriedInTurn'
<1> DEFINE Open(r) == ~r.notified /\ r.key.date < Today
           Listed(r) == <<r.key.profile, r.key.date>> \in toRetro
           Tried(r) == IsThrottled(r.key.profile, r.key.date)
<1>1. CASE phase' \in {"intents", "owed", "sweep"} \/ lost'
  BY <1>1 DEF RetriedInTurn
<1>2. CASE Start
  BY <1>2 DEF Start, Clocked, RetriedInTurn
<1>3. CASE Stop \/ Crash
  BY <1>3 DEF Stop, Crash, EndBatch, RetriedInTurn
<1>4. ASSUME NEW r \in deferred PROVE r.key.profile \in Profile /\ r.key.date \in Day
  BY DEF TypeOK, SlotKey
<1>5. CASE BeginRetro
  <2>1. UNCHANGED <<bnow, deferred>> /\ phase' = "retro"
    BY <1>5 DEF BeginRetro, dbVars
  <2>2. ASSUME NEW r \in deferred, Open(r) PROVE Listed(r)'
    <3>1. NeedsSummary(r.key.profile, r.key.date)
      BY <2>2 DEF NeedsSummary, RowsOf
    <3>2. QED
      BY <1>4, <1>5, <2>2, <3>1 DEF BeginRetro
  <2>3. QED
    BY <2>1, <2>2 DEF RetriedInTurn, Today
<1>6. CASE FinishBatch
  <2>1. phase = "retro" /\ toRetro = {} /\ phase' = "idle" /\ UNCHANGED <<bnow, deferred, stamps, lost>>
    BY <1>6 DEF FinishBatch, Proceeding, EndBatch, dbVars, pidVars
  <2>2. ASSUME ~lost, NEW r \in deferred, Open(r) PROVE Tried(r)
    BY <2>1, <2>2 DEF RetriedInTurn
  <2>3. ASSUME NEW r \in deferred, Tried(r) PROVE Tried(r)'
    BY <2>1, <2>3 DEF IsThrottled
  <2>4. QED
    BY <2>1, <2>2, <2>3 DEF RetriedInTurn, Today
<1>7. ASSUME NEW p \in Profile, NEW d \in Day, Retro(p, d), ~lost' PROVE RetriedInTurn'
  <2>1. phase = "retro" /\ phase' = "retro" /\ bnow' = bnow /\ ~lost /\ toRetro' = toRetro \ {<<p, d>>}
    BY <1>7 DEF Retro, Proceeding
  <2>2. DeferredType
    BY TypeParts
  <2>3. \A q, e : IsThrottled(q, e) => IsThrottled(q, e)'
    <3>1. CASE Summarise(p, d)
      BY <1>7, <2>1, <3>1, StampKeeps DEF Summarise
    <3>2. CASE UNCHANGED stamps
      BY <1>7, <2>1, <3>2 DEF IsThrottled
    <3>3. QED
      BY <1>7, <3>1, <3>2 DEF Retro
  <2>4. ASSUME NEW r \in deferred', ~r.notified
        PROVE  r \in deferred /\ (r.key.profile = p /\ r.key.date = d => IsThrottled(p, d)')
    <3>1. CASE deferred' = Marked(p, d)
      <4>1. r \in deferred \ RowsOf(p, d)
        BY <2>2, <2>4, <3>1, MarkedRows
      <4>2. QED
        BY <4>1 DEF RowsOf
    <3>2. CASE UNCHANGED deferred /\ Summarise(p, d)
      BY <1>7, <2>1, <2>4, <3>2, StampKeeps DEF Summarise
    <3>3. CASE UNCHANGED deferred /\ IsThrottled(p, d)
      BY <2>3, <2>4, <3>3
    <3>4. QED
      BY <1>7, <3>1, <3>2, <3>3 DEF Retro, Summarise
  <2>5. ASSUME NEW r \in deferred', ~r.notified, r.key.date < Today
        PROVE  Listed(r)' \/ Tried(r)'
    <3>1. r \in deferred /\ (Listed(r) \/ Tried(r))
      BY <2>1, <2>4, <2>5 DEF RetriedInTurn
    <3>2. CASE Tried(r)
      BY <2>3, <3>2
    <3>3. CASE Listed(r) /\ r.key.profile = p /\ r.key.date = d
      BY <2>4, <2>5, <3>3
    <3>4. CASE Listed(r) /\ ~(r.key.profile = p /\ r.key.date = d)
      BY <2>1, <3>4
    <3>5. QED
      BY <3>1, <3>2, <3>3, <3>4
  <2>6. QED
    BY <2>1, <2>5 DEF RetriedInTurn, Today
<1>8. CASE UNCHANGED <<up, phase, bnow, deferred, stamps, toRetro>> /\ (lost => lost') /\ ~lost'
  <2>1. ASSUME NEW q, NEW e, IsThrottled(q, e) PROVE IsThrottled(q, e)'
    BY <1>8, <2>1 DEF IsThrottled
  <2>2. Today' = Today
    BY <1>8 DEF Today
  <2>3. QED
    BY <1>8, <2>1, <2>2 DEF RetriedInTurn
<1>9. QED
  BY <1>1, <1>2, <1>3, <1>5, <1>6, <1>7, <1>8, RetroFrame

DeferralInv == LedgerInv /\ ClosedForAReason /\ RetriedInTurn

LEMMA DeferralInvHolds == Spec => []DeferralInv
<1>1. Init => DeferralInv
  BY InitHolds DEF Init, DayInv, DeferralInv, ClosedForAReason, RetriedInTurn
<1>2. DeferralInv /\ [Next]_vars => DeferralInv'
  BY LedgerInvKept, ReasonKept, RetriedKept DEF DeferralInv, LedgerInv
<1>3. QED
  BY <1>1, <1>2, PTL DEF Spec

LEMMA DeferralParts == ASSUME DeferralInv PROVE ClosedForAReason /\ PastDatesRetried
<1>1. ASSUME Settled, ~lost, NEW r \in deferred, ~r.notified, r.key.date < Today
      PROVE  IsThrottled(r.key.profile, r.key.date)
  <2>1. bnow # -1
    BY <1>1 DEF Settled, DeferralInv, LedgerInv, TypeOK
  <2>2. QED
    BY <1>1, <2>1 DEF Settled, DeferralInv, RetriedInTurn
<1>2. QED
  BY <1>1 DEF DeferralInv, PastDatesRetried

(* A deferred slot is closed only when the user was told of it or a         *)
(* catch-up ran that day, and after every batch each earlier day still open *)
(* was tried within the retry interval: in every zone, under every fault    *)
(* (sweep.ts marks after a delivered send only, and stamps every attempt).  *)
THEOREM DeferralsHold == Spec => [](ClosedForAReason /\ PastDatesRetried)
BY DeferralParts, DeferralInvHolds, PTL

----------------------------------------------------------------------------
(* One catch-up a day *)

(* The sweep's lists exist during it only, and a catch-up runs only while   *)
(* the sweep awaits it: the daemon does not die under it.                   *)
SweepInTurn ==
  /\ phase = "idle" => ~waiting
  /\ phase \in {"idle", "intents", "owed"} => toSweep = {} /\ summed = {}
  /\ run # NoRun /\ run.kind = "catchup" =>
       waiting /\ phase = "sweep" /\ run.profile \notin toSweep

(* No run started after the present. *)
Started ==
  /\ \A r \in rows : r.at <= now
  /\ run # NoRun => run.at <= now

(* Until a profile's catch-up is decided its earlier ones are behind the    *)
(* batch's clock; once it is known to be due they are behind its day; and   *)
(* the one in flight is on a later day than every earlier one.              *)
CatchupsBehind ==
  \A r \in rows : r.kind = "catchup" =>
    /\ phase \in {"intents", "owed"} \/ (phase = "sweep" /\ r.profile \in toSweep) => r.at <= bnow
    /\ r.profile \in toSweep \cap summed => DayOf(r.at) < Today
    /\ run # NoRun /\ run.kind = "catchup" /\ ~run.written /\ run.profile = r.profile
         => DayOf(r.at) < DayOf(run.at)

CatchupInv == DayInv /\ SweepInTurn /\ Started /\ CatchupsBehind /\ OneCatchupPerDay

LEMMA SweepFrame ==
  ASSUME [Next]_vars, ~Start, ~Stop, ~Crash, ~Tick, ~Scan, ~RecordDeferrals, ~BeginRetro, ~FinishBatch,
         \A p \in Profile : ~SameDaySummary(p) /\ ~NoCatchup(p) /\ ~LaunchCatchup(p)
  PROVE  UNCHANGED <<phase, toSweep, summed, bnow>>
BY DEF Next, Environment, Batch, TimePasses, HostSleeps, UserRun, RequestRun, RunRow, PidfileLost, RunEnds,
     RunIntent, Retro, Decline, PassOver, Launch, vars, batchVars

(* The process past the run lock is a catch-up only if it was one before,   *)
(* or the sweep has just spawned it.                                        *)
LEMMA CatchupSpawned ==
  ASSUME TypeOK, [Next]_vars, run' # NoRun, run'.kind = "catchup"
  PROVE  \/ UNCHANGED run
         \/ RunRow
         \/ \E p \in Profile : /\ LaunchCatchup(p) /\ waiting'
                               /\ run'.profile = p /\ run'.at = now
<1>1. ASSUME NEW p, Spawn(p, "run") PROVE UNCHANGED run
  BY <1>1 DEF Spawn
<1>2. ASSUME NEW p \in Profile, UserRun(p) PROVE FALSE
  BY <1>2 DEF UserRun
<1>3. ASSUME NEW p \in Profile, RunIntent(p) PROVE UNCHANGED run
  BY <1>1, <1>3 DEF RunIntent
<1>4. ASSUME NEW k \in queue, Launch(k) PROVE UNCHANGED run
  BY <1>1, <1>4 DEF Launch
<1>5. ASSUME NEW p \in Profile, LaunchCatchup(p)
      PROVE  UNCHANGED run \/ (waiting' /\ run'.profile = p /\ run'.at = now)
  BY <1>5 DEF LaunchCatchup, Spawn
<1>6. CASE RunEnds \/ Stop
  BY <1>6 DEF RunEnds, Stop
<1>7. QED
  BY <1>2, <1>3, <1>4, <1>5, <1>6, RunFrame

(* Who else waits. *)
LEMMA WaitingFrame ==
  ASSUME [Next]_vars, ~RunEnds, ~Stop, ~Crash, \A p \in Profile : ~RunIntent(p) /\ ~LaunchCatchup(p), \A k \in queue : ~Launch(k)
  PROVE  UNCHANGED waiting
BY DEF Next, Environment, Batch, TimePasses, HostSleeps, UserRun, RequestRun, RunRow, PidfileLost, Start, Tick, Scan,
     RecordDeferrals, BeginRetro, FinishBatch, SameDaySummary, NoCatchup, Retro, Decline, PassOver, vars

LEMMA WaitingKept == ASSUME TypeOK, SweepInTurn, [Next]_vars PROVE (phase = "idle" => ~waiting)'
<1>0. waiting \in BOOLEAN
  BY DEF TypeOK
<1>1. CASE RunEnds \/ Stop \/ Crash
  BY <1>1 DEF RunEnds, Stop, Crash
<1>2. ASSUME NEW p \in Profile, RunIntent(p) PROVE phase' # "idle"
  BY <1>2 DEF RunIntent, Proceeding
<1>3. ASSUME NEW p \in Profile, LaunchCatchup(p) PROVE phase' # "idle"
  BY <1>3 DEF LaunchCatchup, Proceeding
<1>4. ASSUME NEW k \in queue, Launch(k) PROVE phase' # "idle"
  BY <1>4 DEF Launch, Proceeding
<1>5. CASE UNCHANGED waiting
  <2>1. CASE UNCHANGED phase \/ Tick \/ Scan \/ RecordDeferrals \/ BeginRetro
    BY <1>5, <2>1 DEF SweepInTurn, Tick, Scan, RecordDeferrals, BeginRetro
  <2>2. CASE FinishBatch
    BY <1>5, <2>2 DEF FinishBatch, Proceeding
  <2>3. CASE \E p \in Profile : SameDaySummary(p) \/ NoCatchup(p)
    BY <1>5, <2>3 DEF SameDaySummary, NoCatchup, SweepInTurn
  <2>4. CASE Start
    BY <1>5, <2>4 DEF Start, SweepInTurn
  <2>5. QED
    BY <1>1, <1>3, <2>1, <2>2, <2>3, <2>4, SweepFrame
<1>6. QED
  BY <1>1, <1>2, <1>3, <1>4, <1>5, WaitingFrame

LEMMA ListsKept ==
  ASSUME TypeOK, SweepInTurn, [Next]_vars
  PROVE  (phase \in {"idle", "intents", "owed"} => toSweep = {} /\ summed = {})'
<1>1. CASE Stop \/ Crash \/ FinishBatch
  BY <1>1 DEF Stop, Crash, FinishBatch, EndBatch
<1>2. CASE Start \/ Tick \/ Scan
  BY <1>2 DEF Start, Tick, Scan, Proceeding, SweepInTurn
<1>3. CASE RecordDeferrals \/ BeginRetro
  BY <1>3 DEF RecordDeferrals, BeginRetro
<1>4. ASSUME NEW p \in Profile, SameDaySummary(p) \/ NoCatchup(p) \/ LaunchCatchup(p) PROVE phase' = "sweep"
  BY <1>4 DEF SameDaySummary, NoCatchup, LaunchCatchup, Proceeding
<1>5. CASE UNCHANGED <<phase, toSweep, summed, bnow>>
  BY <1>5 DEF SweepInTurn
<1>6. QED
  BY <1>1, <1>2, <1>3, <1>4, <1>5, SweepFrame

(* Nobody leaves a catch-up behind. *)
LEMMA AwaitedKept ==
  ASSUME "crash" \notin Faults, TypeOK, Clocked, SweepInTurn, [Next]_vars, run' # NoRun, run'.kind = "catchup"
  PROVE  waiting' /\ phase' = "sweep" /\ run'.profile \notin toSweep'
<1>1. ASSUME NEW p \in Profile, LaunchCatchup(p), waiting', run'.profile = p
      PROVE  waiting' /\ phase' = "sweep" /\ run'.profile \notin toSweep'
  BY <1>1 DEF LaunchCatchup, Proceeding
<1>2. CASE run # NoRun /\ run.kind = "catchup" /\ run'.profile = run.profile /\ ~Stop
  <2>1. waiting /\ phase = "sweep" /\ run.profile \notin toSweep /\ ~Crash
    BY <1>2 DEF SweepInTurn, Crash
  <2>2. /\ ~RunEnds /\ ~Start /\ ~Tick /\ ~Scan /\ ~RecordDeferrals /\ ~BeginRetro /\ ~FinishBatch
        /\ \A p \in Profile : ~RunIntent(p) /\ ~LaunchCatchup(p) /\ ~SameDaySummary(p) /\ ~NoCatchup(p)
        /\ \A k \in queue : ~Launch(k)
    <3>1. ~RunEnds /\ ~Tick
      BY <1>2, <2>1 DEF RunEnds, Tick
    <3>2. ~Scan /\ ~RecordDeferrals /\ ~BeginRetro /\ ~FinishBatch
      BY <2>1 DEF Scan, RecordDeferrals, BeginRetro, FinishBatch, Proceeding
    <3>3. /\ \A p \in Profile : ~RunIntent(p) /\ ~LaunchCatchup(p) /\ ~SameDaySummary(p) /\ ~NoCatchup(p)
          /\ \A k \in queue : ~Launch(k)
      BY <2>1 DEF RunIntent, LaunchCatchup, SameDaySummary, NoCatchup, Launch, Proceeding
    <3>4. ~Start
      BY <2>1 DEF Start, Clocked
    <3>5. QED
      BY <3>1, <3>2, <3>3, <3>4
  <2>3. UNCHANGED <<phase, toSweep, summed, bnow>> /\ UNCHANGED waiting
    BY <1>2, <2>1, <2>2, SweepFrame, WaitingFrame
  <2>4. QED
    BY <1>2, <2>1, <2>3
<1>3. CASE RunRow
  <2>1. run # NoRun /\ run.kind = "catchup" /\ run'.profile = run.profile
    BY <1>3, RowWritten
  <2>2. CASE Stop
    BY <1>3, <2>1, <2>2 DEF Stop, RunRow, SweepInTurn
  <2>3. QED
    BY <1>2, <2>1, <2>2
<1>4. CASE UNCHANGED run
  <2>1. CASE Stop
    BY <1>4, <2>1 DEF Stop, SweepInTurn
  <2>2. QED
    BY <1>2, <1>4, <2>1
<1>5. QED
  BY <1>1, <1>3, <1>4, CatchupSpawned

LEMMA SweepKept == ASSUME "crash" \notin Faults, TypeOK, Clocked, SweepInTurn, [Next]_vars PROVE SweepInTurn'
BY WaitingKept, ListsKept, AwaitedKept DEF SweepInTurn

LEMMA StartedKept == ASSUME TypeOK, Clocked, Started, [Next]_vars PROVE Started'
<1>0. /\ now \in Int /\ now' \in Int /\ now <= now'
      /\ \A r \in rows : r.at \in Int
      /\ run # NoRun => run.at \in Int
  <2>1. /\ \A r \in rows : r.at \in 0 .. MaxTime
        /\ run # NoRun => run.at \in 0 .. MaxTime
    BY DEF TypeOK
  <2>2. QED
    BY <2>1, ClockSteps, DaemonTickAssumption
<1>1. \A r \in rows' : r.at <= now'
  <2>1. CASE RunRow
    <3>1. rows' = rows \cup {RowOf(run)} /\ RowOf(run).at = run.at /\ run # NoRun
      BY <2>1, RowWritten DEF RowOf
    <3>2. QED
      BY <1>0, <3>1 DEF Started
  <2>2. CASE UNCHANGED rows
    BY <1>0, <2>2 DEF Started
  <2>3. QED
    BY <2>1, <2>2, RowsFrame
<1>2. run' # NoRun => run'.at <= now'
  <2>1. ASSUME NEW p, NEW kind, Spawn(p, kind) PROVE UNCHANGED run \/ run'.at = now
    BY <2>1 DEF Spawn
  <2>2. ASSUME NEW p \in Profile, UserRun(p) PROVE run'.at = now
    BY <2>2 DEF UserRun
  <2>3. ASSUME NEW p \in Profile, RunIntent(p) \/ LaunchCatchup(p) PROVE UNCHANGED run \/ run'.at = now
    BY <2>1, <2>3 DEF RunIntent, LaunchCatchup
  <2>4. ASSUME NEW k \in queue, Launch(k) PROVE UNCHANGED run \/ run'.at = now
    BY <2>1, <2>4 DEF Launch
  <2>5. CASE RunRow
    BY <1>0, <2>5, RowWritten DEF Started
  <2>6. CASE RunEnds \/ Stop
    BY <1>0, <2>6 DEF RunEnds, Stop, Started
  <2>7. run' # NoRun => UNCHANGED run \/ run'.at = now \/ run'.at <= now'
    BY <2>2, <2>3, <2>4, <2>5, <2>6, RunFrame
  <2>8. QED
    BY <1>0, <2>7 DEF Started
<1>3. QED
  BY <1>1, <1>2 DEF Started

(* A row says which day its run started. *)
LEMMA RowDay == ASSUME TypeOK, RowsDated, NEW r \in rows
                PROVE  r.at \in Int /\ DayOf(r.at) \in Int /\ DayOf(r.at) = r.runDate
<1>1. MaxTime \div DayLen \in Int /\ MaxTime \in Int
  BY DaemonTickAssumption
<1>2. r.at \in 0 .. MaxTime /\ r.runDate \in RunDay /\ r.clock \in 0 .. DayLen - 1
  BY DEF TypeOK
<1>3. r.at \in Int /\ r.runDate \in Int
  BY <1>1, <1>2 DEF RunDay
<1>4. DayOf(r.at) = r.runDate
  BY <1>2, <1>3, DayIs DEF RowsDated
<1>5. QED
  BY <1>3, <1>4

(* Before a profile's catch-up is decided. *)
LEMMA BehindTheClock ==
  ASSUME TypeOK, Clocked, SweepInTurn, Started, CatchupsBehind, [Next]_vars,
         NEW r \in rows, r.kind = "catchup",
         phase' \in {"intents", "owed"} \/ (phase' = "sweep" /\ r.profile \in toSweep')
  PROVE  r.at <= bnow'
<1>1. CASE Tick
  BY <1>1 DEF Tick, Started
<1>2. CASE Scan \/ RecordDeferrals
  BY <1>2 DEF Scan, RecordDeferrals, Proceeding, CatchupsBehind
<1>3. CASE Start \/ Stop \/ Crash \/ BeginRetro \/ FinishBatch
  BY <1>3 DEF Start, Stop, Crash, BeginRetro, FinishBatch, EndBatch, Clocked
<1>4. ASSUME NEW p \in Profile, SameDaySummary(p) \/ NoCatchup(p) \/ LaunchCatchup(p) PROVE r.at <= bnow'
  BY <1>4 DEF SameDaySummary, NoCatchup, LaunchCatchup, Proceeding, CatchupsBehind
<1>5. CASE UNCHANGED <<phase, toSweep, summed, bnow>>
  BY <1>5 DEF CatchupsBehind
<1>6. QED
  BY <1>1, <1>2, <1>3, <1>4, <1>5, SweepFrame

(* Once it is known to be due. *)
LEMMA BehindTheDay ==
  ASSUME TypeOK, Clocked, RowsDated, SweepInTurn, CatchupsBehind, [Next]_vars,
         NEW r \in rows, r.kind = "catchup", r.profile \in toSweep' \cap summed'
  PROVE  DayOf(r.at) < DayOf(bnow')
<1>1. CASE Start \/ Tick \/ Scan
  BY <1>1 DEF Start, Tick, Scan, Proceeding, Clocked, SweepInTurn
<1>2. CASE RecordDeferrals \/ Stop \/ Crash \/ FinishBatch
  BY <1>2 DEF RecordDeferrals, Stop, Crash, FinishBatch, EndBatch, Proceeding, SweepInTurn
<1>3. CASE BeginRetro
  BY <1>3 DEF BeginRetro, CatchupsBehind, Today
<1>4. ASSUME NEW p \in Profile, NoCatchup(p) \/ LaunchCatchup(p) PROVE DayOf(r.at) < DayOf(bnow')
  BY <1>4 DEF NoCatchup, LaunchCatchup, CatchupsBehind, Today
<1>5. ASSUME NEW p \in Profile, SameDaySummary(p) PROVE DayOf(r.at) < DayOf(bnow')
  <2>1. bnow' = bnow /\ phase = "sweep" /\ summed' = summed \cup {p} /\ toSweep' \subseteq toSweep
    BY <1>5 DEF SameDaySummary, Proceeding
  <2>2. CASE r.profile \in summed
    BY <2>1, <2>2 DEF CatchupsBehind, Today
  <2>3. CASE r.profile \notin summed
    <3>1. r.profile = p /\ ~HasCatchup(p)
      BY <1>5, <2>1, <2>3 DEF SameDaySummary
    <3>2. r.runDate # Today
      BY <3>1 DEF HasCatchup, HasCatchupRun
    <3>3. r.at <= bnow
      BY <2>1, <3>1 DEF CatchupsBehind
    <3>4. r.at \in Int /\ DayOf(r.at) \in Int /\ DayOf(r.at) = r.runDate
      BY RowDay
    <3>5. bnow \in Int /\ DayOf(bnow) \in Int
      BY ClockSteps, DayBounds
    <3>6. DayOf(r.at) <= DayOf(bnow)
      BY <3>3, <3>4, <3>5, DayGrows
    <3>7. QED
      BY <2>1, <3>2, <3>4, <3>5, <3>6 DEF Today
  <2>4. QED
    BY <2>2, <2>3
<1>6. CASE UNCHANGED <<phase, toSweep, summed, bnow>>
  BY <1>6 DEF CatchupsBehind, Today
<1>7. QED
  BY <1>1, <1>2, <1>3, <1>4, <1>5, <1>6, SweepFrame

(* In flight. *)
LEMMA BehindTheRun ==
  ASSUME TypeOK, Clocked, RowsDated, SweepInTurn, CatchupsBehind, [Next]_vars,
         NEW r \in rows, r.kind = "catchup",
         run' # NoRun, run'.kind = "catchup", ~run'.written, run'.profile = r.profile
  PROVE  DayOf(r.at) < DayOf(run'.at)
<1>1. CASE UNCHANGED run
  BY <1>1 DEF CatchupsBehind
<1>2. CASE RunRow
  BY <1>2, RowWritten
<1>3. ASSUME NEW p \in Profile, LaunchCatchup(p), run'.profile = p, run'.at = now
      PROVE  DayOf(r.at) < DayOf(run'.at)
  <2>1. DayOf(r.at) < Today
    BY <1>3 DEF LaunchCatchup, CatchupsBehind
  <2>2. bnow \in Int /\ now \in Int /\ bnow <= now
    BY ClockSteps DEF Clocked
  <2>3. DayOf(bnow) <= DayOf(now) /\ DayOf(bnow) \in Int /\ DayOf(now) \in Int /\ DayOf(r.at) \in Int
    BY <2>2, DayGrows, DayBounds, RowDay
  <2>4. QED
    BY <1>3, <2>1, <2>3 DEF Today
<1>4. QED
  BY <1>1, <1>2, <1>3, CatchupSpawned

LEMMA BehindKept ==
  ASSUME TypeOK, Clocked, RowsDated, SweepInTurn, Started, CatchupsBehind, [Next]_vars
  PROVE  CatchupsBehind'
<1>1. ASSUME NEW r \in rows, r.kind = "catchup"
      PROVE  /\ phase' \in {"intents", "owed"} \/ (phase' = "sweep" /\ r.profile \in toSweep') => r.at <= bnow'
             /\ r.profile \in toSweep' \cap summed' => DayOf(r.at) < Today'
             /\ run' # NoRun /\ run'.kind = "catchup" /\ ~run'.written /\ run'.profile = r.profile
                  => DayOf(r.at) < DayOf(run'.at)
  BY <1>1, BehindTheClock, BehindTheDay, BehindTheRun DEF Today
<1>2. CASE RunRow
  <2>1. /\ rows' = rows \cup {RowOf(run)} /\ run'.written = TRUE /\ run # NoRun
        /\ RowOf(run).kind = run.kind /\ RowOf(run).profile = run.profile
    BY <1>2, RowWritten DEF RowOf
  <2>2. UNCHANGED <<phase, toSweep, summed, bnow>>
    BY <1>2 DEF RunRow, batchVars
  <2>3. run.kind = "catchup" => phase = "sweep" /\ run.profile \notin toSweep
    BY <2>1 DEF SweepInTurn
  <2>4. ASSUME NEW r \in rows', r.kind = "catchup", r \notin rows
        PROVE  phase' = "sweep" /\ r.profile \notin toSweep'
    BY <2>1, <2>2, <2>3, <2>4
  <2>5. QED
    BY <1>1, <2>1, <2>4 DEF CatchupsBehind
<1>3. CASE UNCHANGED rows
  BY <1>1, <1>3 DEF CatchupsBehind
<1>4. QED
  BY <1>2, <1>3, RowsFrame

LEMMA OneKept ==
  ASSUME TypeOK, RowsDated, CatchupsBehind, OneCatchupPerDay, [Next]_vars PROVE OneCatchupPerDay'
<1>1. CASE RunRow
  <2>1. /\ rows' = rows \cup {RowOf(run)} /\ ~run.written /\ run # NoRun
        /\ RowOf(run).kind = run.kind /\ RowOf(run).profile = run.profile /\ RowOf(run).at = run.at
    BY <1>1, RowWritten DEF RowOf
  <2>2. ASSUME NEW r \in rows, r.kind = "catchup", run.kind = "catchup", r.profile = run.profile
        PROVE  DayOf(r.at) # DayOf(run.at)
    <3>1. DayOf(r.at) < DayOf(run.at)
      BY <2>1, <2>2 DEF CatchupsBehind
    <3>2. DayOf(r.at) \in Int /\ DayOf(run.at) \in Int
      BY <1>1, RowDay, RowWritten, DayBounds
    <3>3. QED
      BY <3>1, <3>2
  <2>3. QED
    BY <2>1, <2>2 DEF OneCatchupPerDay
<1>2. CASE UNCHANGED rows
  BY <1>2 DEF OneCatchupPerDay
<1>3. QED
  BY <1>1, <1>2, RowsFrame

LEMMA CatchupInvHolds == ASSUME UtcOffset = 0, "crash" \notin Faults PROVE Spec => []CatchupInv
<1>1. Init => CatchupInv
  BY InitHolds DEF Init, CatchupInv, SweepInTurn, Started, CatchupsBehind, OneCatchupPerDay
<1>2. CatchupInv /\ [Next]_vars => CatchupInv'
  BY InvKept, SweepKept, StartedKept, BehindKept, OneKept DEF CatchupInv, DayInv, LedgerInv
<1>3. QED
  BY <1>1, <1>2, PTL DEF Spec

(* sweep.ts:223-229: at most one catch-up of a profile on one calendar day, *)
(* across restarts, however long the batch waits between the question and   *)
(* the launch; and deferrals are closed for a reason and tried again.  It   *)
(* is refuted where UTC is another day, and for a daemon that dies under a  *)
(* catch-up whose row is not written yet.                                   *)
THEOREM RetroHolds == UtcOffset = 0 /\ "crash" \notin Faults => (Spec => []RetroSound)
<1> SUFFICES ASSUME UtcOffset = 0, "crash" \notin Faults PROVE Spec => []RetroSound
  OBVIOUS
<1>1. DeferralInv /\ CatchupInv => RetroSound
  BY DeferralParts DEF CatchupInv, RetroSound
<1>2. QED
  BY <1>1, DeferralInvHolds, CatchupInvHolds, PTL
=============================================================================
