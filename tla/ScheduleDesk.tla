----------------------------- MODULE ScheduleDesk ----------------------------
(***************************************************************************)
(* "Skip next", "Pause" and "Pause all" of the Operate page                *)
(* (ui/src/features/operate) against the daemon that launches the slots.   *)
(* Each button reads profile.json, changes it and puts the whole document  *)
(* back; the daemon reads it once per tick and then works through what was *)
(* owed by that reading.                                                   *)
(***************************************************************************)
EXTENDS Naturals, FiniteSets

CONSTANTS
  Profile,
  NoSlot,
  Slots,       \* schedule.times, as times of a day
  Grace,       \* schedule.graceMinutes
  LastTime,    \* the last time of a day
  MaxDate,     \* bound: days
  MaxPresses,  \* bound: buttons pressed, and changes from elsewhere
  MaxPutFails  \* bound: requests that fail

(* The day has a midnight, a slot is a time, and "no slot" is none.         *)
ASSUME ScheduleDeskAssumption ==
  /\ MaxDate \in Nat \ {0} /\ LastTime \in Nat
  /\ Slots \subseteq Nat /\ Grace \in Nat
  /\ NoSlot \notin Nat /\ NoSlot \notin Nat \X Nat

VARIABLES
  now,      \* [day, time]
  config,   \* config[p]: the schedule in p's profile.json
  batch,    \* what the daemon's tick found owed and has yet to launch
  history,  \* the slots that were run
  missed,   \* the slots recorded as missed
  listed,   \* listed[p]: the next slot the page shows, 0 for none, NoSlot without a row
  changes,  \* changes that have read profile.json and have yet to put it back
  said,     \* the slots the page has called skipped
  paused,   \* the profiles the page has called paused, until they are resumed
  presses, putFails,
  why  \* observability: why[p], why the page may be wrong

schedVars == <<now, config, batch, history, missed, listed, changes, said, paused, presses, putFails, why>>

Slot == Profile \X (1 .. MaxDate) \X Slots
Schedule == [enabled : BOOLEAN, skip : ((1 .. MaxDate) \X Slots) \cup {NoSlot}]

----------------------------------------------------------------------------
(* core/schedule                                                           *)

(* Mutant of Skips: the choice is not looked at.                           *)
SkipsNothing(p, slot) == FALSE

Skips(p, slot) == config[p].skip = <<now.day, slot>>

Considered(p, slot) == config[p].enabled /\ ~Skips(p, slot) /\ <<p, now.day, slot>> \notin history

(* isRunOwed, and deriveExpiredUnserved. *)
Owed == {<<p, now.day, s>> : p \in Profile, s \in {s \in Slots : s <= now.time /\ now.time <= s + Grace}}
Expired == {<<p, now.day, s>> : p \in Profile, s \in {s \in Slots : s + Grace < now.time}}

(* nextFireAt: of today only, and strictly to come; a skip is not looked at. *)
NextFireAt(p) ==
  LET ahead == {s \in Slots : s > now.time}
  IN  IF ahead = {} THEN 0 ELSE CHOOSE s \in ahead : \A o \in ahead : s <= o

----------------------------------------------------------------------------
(* The daemon                                                              *)

Scan ==
  /\ batch = {}
  /\ batch' = {x \in Owed : Considered(x[1], x[3])}
  /\ missed' = missed \cup {x \in Expired : Considered(x[1], x[3])}
  /\ batch' # {} \/ missed' # missed
  /\ UNCHANGED <<now, config, history, listed, changes, said, paused, presses, putFails, why>>

(* An entry of the batch: its grace is looked at again, profile.json is not. *)
LaunchSlot(x) ==
  /\ x \in batch /\ \A y \in batch : x[3] <= y[3]
  /\ batch' = batch \ {x}
  /\ IF x[2] = now.day /\ now.time <= x[3] + Grace
     THEN /\ history' = history \cup {x}
          /\ why' = [why EXCEPT ![x[1]] = @ \cup (IF Considered(x[1], x[3]) THEN {} ELSE {"batch"})]
     ELSE UNCHANGED <<history, why>>
  /\ UNCHANGED <<now, config, missed, listed, changes, said, paused, presses, putFails>>

Wait ==
  /\ now.time < LastTime \/ now.day < MaxDate
  /\ now' = IF now.time < LastTime THEN [now EXCEPT !.time = @ + 1] ELSE [day |-> now.day + 1, time |-> 0]
  /\ UNCHANGED <<config, batch, history, missed, listed, changes, said, paused, presses, putFails, why>>

----------------------------------------------------------------------------
(* The page                                                                *)

(* GET /api/daemon: only enabled schedules have a row. *)
Refresh ==
  /\ listed' = [p \in Profile |-> IF config[p].enabled THEN NextFireAt(p) ELSE NoSlot]
  /\ UNCHANGED <<now, config, batch, history, missed, changes, said, paused, presses, putFails, why>>

InFlight(p, kind) == \E patch \in changes : patch.prof = p /\ patch.kind = kind

(* readProfileConfig *)
Base(p) == config[p]

Patch(p, kind, slot) == [prof |-> p, kind |-> kind, day |-> now.day, slot |-> slot, base |-> Base(p)]

Pressed(new) ==
  /\ presses < MaxPresses
  /\ presses' = presses + 1
  /\ changes' = changes \cup new
  /\ UNCHANGED <<now, config, batch, history, missed, listed, said, paused, putFails, why>>

SkipNext(p) == listed[p] \notin {NoSlot, 0} /\ ~InFlight(p, "skip") /\ Pressed({Patch(p, "skip", listed[p])})
Pause(p) == listed[p] # NoSlot /\ ~InFlight(p, "pause") /\ Pressed({Patch(p, "pause", 0)})
PauseAll == (\A p \in Profile : ~InFlight(p, "all")) /\ Pressed({Patch(p, "all", 0) : p \in Profile})

(* Mutant of PatchedConfig: a skip writes the schedule anew.                      *)
PatchedAnew(patch) == IF patch.kind = "skip" THEN [enabled |-> TRUE, skip |-> <<patch.day, patch.slot>>]
                      ELSE [patch.base EXCEPT !.enabled = FALSE]

(* patchProfileConfig's PUT: the whole document, as it was read, changed.   *)
PatchedConfig(patch) == IF patch.kind = "skip" THEN [patch.base EXCEPT !.skip = <<patch.day, patch.slot>>]
                  ELSE [patch.base EXCEPT !.enabled = FALSE]

Undoes(patch, p) ==
  (IF config[p] # patch.base THEN {"crossed"} ELSE {})
  \cup (IF patch.kind = "skip" /\ config[p].skip \notin {NoSlot, <<patch.day, patch.slot>>} THEN {"again"} ELSE {})
  \cup (IF patch.kind = "skip" /\ <<p, patch.day, patch.slot>> \in history \cup missed THEN {"late"} ELSE {})

Put(patch, answered) ==
  LET p == patch.prof
  IN  /\ answered \/ putFails < MaxPutFails
      /\ config' = [config EXCEPT ![p] = PatchedConfig(patch)]
      /\ changes' = changes \ {patch}
      /\ why' = [why EXCEPT ![p] = @ \cup Undoes(patch, p)]
      /\ putFails' = IF answered THEN putFails ELSE putFails + 1
      /\ said' = IF answered /\ patch.kind = "skip" THEN said \cup {<<p, patch.day, patch.slot>>} ELSE said
      /\ paused' = IF answered /\ patch.kind # "skip" THEN paused \cup {p} ELSE paused
  /\ UNCHANGED <<now, batch, history, missed, listed, presses>>

(* One of the requests fails: "Couldn't pause", or a profile in the list of *)
(* what "Pause all" could not pause.                                        *)
PutFails(patch) ==
  /\ putFails < MaxPutFails
  /\ changes' = changes \ {patch}
  /\ putFails' = putFails + 1
  /\ UNCHANGED <<now, config, batch, history, missed, listed, said, paused, presses, why>>

(* The schedule is switched on again, in the settings or with `config set`. *)
Resume(p) ==
  /\ presses < MaxPresses /\ ~config[p].enabled
  /\ presses' = presses + 1
  /\ config' = [config EXCEPT ![p].enabled = TRUE]
  /\ paused' = paused \ {p}
  /\ UNCHANGED <<now, batch, history, missed, listed, changes, said, putFails, why>>

ScheduleInit ==
  /\ now = [day |-> 1, time |-> 0]
  /\ config \in [Profile -> [enabled : BOOLEAN, skip : {NoSlot}]]
  /\ batch = {} /\ history = {} /\ missed = {}
  /\ listed = [p \in Profile |-> IF config[p].enabled THEN NextFireAt(p) ELSE NoSlot]
  /\ changes = {} /\ said = {} /\ paused = {}
  /\ presses = 0 /\ putFails = 0
  /\ why = [p \in Profile |-> {}]

ScheduleNext ==
  \/ Scan \/ Wait \/ Refresh \/ PauseAll
  \/ \E x \in batch : LaunchSlot(x)
  \/ \E p \in Profile : SkipNext(p) \/ Pause(p) \/ Resume(p)
  \/ \E patch \in changes : PutFails(patch) \/ \E answered \in BOOLEAN : Put(patch, answered)

ScheduleSpec == ScheduleInit /\ [][ScheduleNext]_schedVars

----------------------------------------------------------------------------
ScheduleTypeOK ==
  /\ now \in [day : 1 .. MaxDate, time : 0 .. LastTime]
  /\ config \in [Profile -> Schedule]
  /\ batch \subseteq Slot /\ history \subseteq Slot /\ missed \subseteq Slot /\ said \subseteq Slot
  /\ paused \subseteq Profile
  /\ listed \in [Profile -> Slots \cup {0, NoSlot}]

(* A slot the page has called skipped is neither run nor recorded as       *)
(* missed, unless the user skipped another one since (there is room for one *)
(* only: the first is run after all, or counted as missed), the page was   *)
(* out of date and the slot had passed, another change of the profile      *)
(* crossed this one, or the daemon was working through an older reading.   *)
SkipHonoured == \A x \in said \cap (history \cup missed) : why[x[1]] # {}

(* No run of a paused profile is launched, unless a change that had read   *)
(* profile.json before the pause put its schedule back, or the daemon was  *)
(* working through an older reading.                                       *)
PauseHonouredStep ==
  \A x \in history' \ history : x[1] \in paused => why'[x[1]] \cap {"crossed", "batch"} # {}
PauseHonoured == [][PauseHonouredStep]_schedVars

(* All of it: skipped slots are skipped. *)
ScheduleSound == ScheduleTypeOK /\ SkipHonoured
=============================================================================
