----------------------------- MODULE RunIntents -----------------------------
(***************************************************************************)
(* "Run now": the board queues a run request, the daemon claims it and     *)
(* spawns the run, the run writes its row, and the daemon attaches that    *)
(* row to the request (src/app/features/intents,                           *)
(* src/adapters/db/sqlite/intents, src/cli/wire/daemon.ts, the intent pass *)
(* of src/ops/daemon/daemon.ts, src/adapters/db/sqlite/runs).  The board   *)
(* server, the daemon, each run and the user's own `jobbunny run` are      *)
(* processes that share the profile databases; a step is one SQL           *)
(* statement, or one savepoint (a concurrent write makes it fail whole).   *)
(*                                                                         *)
(* Of time the code asks only whether a request is over INTENT_EXPIRY_MS   *)
(* old, whether a run's heartbeat is over RUN_HEARTBEAT_STALE_MS old and   *)
(* which of two runs started first; these answers are the state.           *)
(***************************************************************************)
EXTENDS Naturals, Sequences, FiniteSets

CONSTANTS
  Profile,
  NoRun,        \* "no process holds the run lock", "no run attached"
  MaxIntents,   \* bound: requests made
  MaxRuns,      \* bound: run processes started
  MaxStarts,    \* bound: daemon starts
  CanCrash      \* run processes and the daemon may die at any point

ASSUME RunIntentsAssumption ==
  /\ MaxIntents \in Nat /\ MaxRuns \in Nat /\ MaxStarts \in Nat
  /\ CanCrash \in BOOLEAN /\ NoRun \notin Nat

VARIABLES
  intents,   \* the run_intents rows, in id order
  runs,      \* the runs rows, in id order
  posting,   \* profiles with a POST past its running-run guard
  deleting,  \* requests with a DELETE that has read a pending row
  lock,      \* the run process past the run lock, or NoRun
  born,      \* run processes started so far: the order of startedAt
  dpc,       \* the daemon's place in its intent pass
  todo,      \* requests the pass read and has not handled
  current,   \* the request the pass is working on
  since,     \* processes started when the pass claimed it
  dstarts,   \* daemon starts so far
  spawned,   \* observability: how often each request was spawned
  told       \* observability: requests whose user was told "cancelled"

dbVars == <<intents, runs>>
boardVars == <<posting, deleting, told>>
daemonVars == <<dpc, todo, current, since, dstarts, spawned>>
vars == <<dbVars, boardVars, lock, born, daemonVars>>

Intent == 1 .. MaxIntents
NoIntent == 0

TypeOK ==
  /\ intents \in Seq([profile : Profile, aged : BOOLEAN,
                      status : {"pending", "claimed", "cancelled"},
                      run : Nat \cup {NoRun}])
  /\ runs \in Seq([profile : Profile, at : 1 .. MaxRuns, by : Intent \cup {NoIntent},
                   status : {"running", "ended", "crashed"},
                   beat : {"none", "fresh", "stale"}])
  /\ posting \subseteq Profile /\ deleting \subseteq Intent /\ told \subseteq Intent
  /\ lock \in [profile : Profile, at : 1 .. MaxRuns, by : Intent \cup {NoIntent},
               row : Nat] \cup {NoRun}
  /\ born \in 0 .. MaxRuns
  /\ dpc \in {"down", "idle", "loop", "spawn", "await", "attach"}
  /\ todo \subseteq Intent /\ current \in Intent \cup {NoIntent}
  /\ dpc \in {"down", "idle", "loop"} <=> current = NoIntent
  /\ since \in 0 .. MaxRuns /\ dstarts \in 0 .. MaxStarts
  /\ spawned \in [Intent -> Nat]

Init ==
  /\ intents = <<>> /\ runs = <<>>
  /\ posting = {} /\ deleting = {} /\ told = {}
  /\ lock = NoRun /\ born = 0
  /\ dpc = "down" /\ todo = {} /\ current = NoIntent /\ since = 0 /\ dstarts = 0
  /\ spawned = [i \in Intent |-> 0]

----------------------------------------------------------------------------
(* Derived statuses: neither is ever stored by a reader *)

(* deriveIntentStatus *)
IntentStatus(i) ==
  IF intents[i].status = "pending" /\ intents[i].aged THEN "expired"
  ELSE intents[i].status

(* deriveStatus: a running row with no heartbeat, or an old one. *)
RunStatus(n) ==
  IF runs[n].status = "running" /\ runs[n].beat # "fresh" THEN "crashed"
  ELSE runs[n].status

RunsOf(p) == {n \in DOMAIN runs : runs[n].profile = p}

Newest(S) == CHOOSE n \in S : \A m \in S : m <= n

Pending(p) == {i \in DOMAIN intents : intents[i].profile = p
                                       /\ intents[i].status = "pending"}

----------------------------------------------------------------------------
(* The board *)

(* POST: refused while the newest run reads as running; otherwise           *)
(* openIntents is awaited.                                                  *)
PostGuard(p) ==
  /\ p \notin posting
  /\ Len(intents) < MaxIntents
  /\ RunsOf(p) # {} => RunStatus(Newest(RunsOf(p))) # "running"
  /\ posting' = posting \cup {p}
  /\ UNCHANGED <<dbVars, deleting, told, lock, born, daemonVars>>

Fresh(p) == [profile |-> p, aged |-> FALSE, status |-> "pending", run |-> NoRun]

Cancelling(S) ==
  [i \in DOMAIN intents |->
     IF i \in S THEN [intents[i] EXCEPT !.status = "cancelled"] ELSE intents[i]]

(* request: an open request that has not expired is returned as it is; an   *)
(* expired one is cancelled and a new one queued, in one savepoint.         *)
Request(p) ==
  /\ p \in posting
  /\ posting' = posting \ {p}
  /\ IF \E i \in Pending(p) : IntentStatus(i) = "pending"
       THEN UNCHANGED intents
       ELSE /\ Len(intents) < MaxIntents
            /\ intents' = Append(Cancelling(Pending(p)), Fresh(p))
  /\ UNCHANGED <<runs, deleting, told, lock, born, daemonVars>>

(* DELETE: the row is read, ... *)
CancelRead(i) ==
  /\ i \in DOMAIN intents \ (deleting \cup told)
  /\ intents[i].status = "pending"
  /\ deleting' = deleting \cup {i}
  /\ UNCHANGED <<dbVars, posting, told, lock, born, daemonVars>>

(* ... then updated if still pending; "cancelled" is answered either way.   *)
CancelWrite(i) ==
  /\ i \in deleting
  /\ deleting' = deleting \ {i}
  /\ intents' = IF intents[i].status = "pending" THEN Cancelling({i}) ELSE intents
  /\ told' = told \cup {i}
  /\ UNCHANGED <<runs, posting, lock, born, daemonVars>>

----------------------------------------------------------------------------
(* Run processes *)

Born(p, i) == [profile |-> p, at |-> born + 1, by |-> i, row |-> 0]

(* A process starts (its startedAt is taken) and acquires the run lock; one *)
(* that is refused ends at once.                                            *)
Run(p, i) ==
  /\ born < MaxRuns
  /\ born' = born + 1
  /\ lock' = IF lock = NoRun THEN Born(p, i) ELSE lock

UserRun(p) ==
  /\ lock = NoRun /\ Run(p, NoIntent)
  /\ UNCHANGED <<dbVars, boardVars, daemonVars>>

(* startRun, after the preflight; rows of dead runs are marked first. *)
StartRun ==
  /\ lock # NoRun /\ lock.row = 0
  /\ runs' = Append([n \in DOMAIN runs |->
                       IF runs[n].profile = lock.profile /\ RunStatus(n) = "crashed"
                         THEN [runs[n] EXCEPT !.status = "crashed"] ELSE runs[n]],
                    [profile |-> lock.profile, at |-> lock.at, by |-> lock.by,
                     status |-> "running", beat |-> "none"])
  /\ lock' = [lock EXCEPT !.row = Len(runs) + 1]
  /\ UNCHANGED <<intents, boardVars, born, daemonVars>>

(* The first heartbeat comes with the first stage, after the pre-run        *)
(* routines; later ones with each stage and each batch of log lines.        *)
RunBeats ==
  /\ lock # NoRun /\ lock.row # 0
  /\ runs[lock.row].beat # "fresh"
  /\ runs' = [runs EXCEPT ![lock.row].beat = "fresh"]
  /\ UNCHANGED <<intents, boardVars, lock, born, daemonVars>>

(* What the exit of the locked process means to a daemon awaiting it. *)
Exits ==
  /\ lock' = NoRun
  /\ dpc' = IF dpc = "await" THEN "attach" ELSE dpc

(* finishRun and exit; a preflight that fails exits without a row. *)
RunEnds ==
  /\ lock # NoRun
  /\ runs' = IF lock.row = 0 THEN runs ELSE [runs EXCEPT ![lock.row].status = "ended"]
  /\ Exits
  /\ UNCHANGED <<intents, boardVars, born, todo, current, since, dstarts, spawned>>

RunCrashes ==
  /\ CanCrash /\ lock # NoRun
  /\ Exits
  /\ UNCHANGED <<dbVars, boardVars, born, todo, current, since, dstarts, spawned>>

(* RUN_HEARTBEAT_STALE_MS with no heartbeat: the run is dead, or silent in  *)
(* a long stage.                                                            *)
RowStales(n) ==
  /\ runs[n].status = "running" /\ runs[n].beat = "fresh"
  /\ runs' = [runs EXCEPT ![n].beat = "stale"]
  /\ UNCHANGED <<intents, boardVars, lock, born, daemonVars>>

----------------------------------------------------------------------------
(* The daemon's intent pass *)

DaemonStarts ==
  /\ dpc = "down" /\ dstarts < MaxStarts
  /\ dpc' = "idle" /\ dstarts' = dstarts + 1
  /\ UNCHANGED <<dbVars, boardVars, lock, born, todo, current, since, spawned>>

(* Stopped or crashed: the pass is forgotten; its child goes on. *)
DaemonEnds ==
  /\ CanCrash /\ dpc # "down"
  /\ dpc' = "down" /\ todo' = {} /\ current' = NoIntent /\ since' = 0
  /\ UNCHANGED <<dbVars, boardVars, lock, born, dstarts, spawned>>

(* readIntents: pending and not expired; they are handled oldest first. *)
ReadIntents ==
  /\ dpc = "idle"
  /\ todo' = {i \in DOMAIN intents : IntentStatus(i) = "pending"}
  /\ dpc' = "loop"
  /\ UNCHANGED <<dbVars, boardVars, lock, born, current, since, dstarts, spawned>>

PassEnds ==
  /\ dpc = "loop" /\ todo = {}
  /\ dpc' = "idle"
  /\ UNCHANGED <<dbVars, boardVars, lock, born, todo, current, since, dstarts, spawned>>

Oldest == CHOOSE i \in todo : \A j \in todo : i <= j

(* Mutants of Claim: the update does not ask for a pending row; the pass    *)
(* alone remembers what it took.                                            *)
ClaimUnconditional ==
  /\ dpc = "loop" /\ todo # {}
  /\ todo' = todo \ {Oldest}
  /\ intents' = [intents EXCEPT ![Oldest].status = "claimed"]
  /\ dpc' = "spawn" /\ current' = Oldest /\ since' = born
  /\ UNCHANGED <<runs, boardVars, lock, born, dstarts, spawned>>
ClaimInMemory ==
  /\ dpc = "loop" /\ todo # {}
  /\ todo' = todo \ {Oldest}
  /\ dpc' = "spawn" /\ current' = Oldest /\ since' = born
  /\ UNCHANGED <<dbVars, boardVars, lock, born, dstarts, spawned>>

(* claim: one conditional update; a row no longer pending is passed over.   *)
(* `since` is taken right after it.                                         *)
Claim ==
  /\ dpc = "loop" /\ todo # {}
  /\ todo' = todo \ {Oldest}
  /\ IF intents[Oldest].status = "pending"
       THEN /\ intents' = [intents EXCEPT ![Oldest].status = "claimed"]
            /\ dpc' = "spawn" /\ current' = Oldest /\ since' = born
       ELSE UNCHANGED <<intents, dpc, current, since>>
  /\ UNCHANGED <<runs, boardVars, lock, born, dstarts, spawned>>

SpawnIntent ==
  /\ dpc = "spawn"
  /\ Run(intents[current].profile, current)
  /\ dpc' = IF lock = NoRun THEN "await" ELSE "attach"
  /\ spawned' = [spawned EXCEPT ![current] = @ + 1]
  /\ UNCHANGED <<dbVars, boardVars, todo, current, since, dstarts>>

(* Mutant of StartedSince: the newest run, whenever it started. *)
StartedEver == RunsOf(intents[current].profile)

StartedSince == {n \in RunsOf(intents[current].profile) : runs[n].at > since}

(* Mutant of AttachRun: the pass keeps working on the request. *)
AttachRunStays ==
  /\ dpc = "attach"
  /\ intents' = IF StartedSince = {} \/ intents[current].status # "claimed" THEN intents
                ELSE [intents EXCEPT ![current].run = Newest(StartedSince)]
  /\ dpc' = "loop"
  /\ UNCHANGED <<runs, boardVars, lock, born, todo, current, since, dstarts, spawned>>

(* attachIntentRun: the newest run of the profile started since, if any. *)
AttachRun ==
  /\ dpc = "attach"
  /\ intents' = IF StartedSince = {} \/ intents[current].status # "claimed" THEN intents
                ELSE [intents EXCEPT ![current].run = Newest(StartedSince)]
  /\ dpc' = "loop" /\ current' = NoIntent /\ since' = 0
  /\ UNCHANGED <<runs, boardVars, lock, born, todo, dstarts, spawned>>

----------------------------------------------------------------------------
(* INTENT_EXPIRY_MS pass over an open request: twenty ticks, so no daemon   *)
(* is up, or it is busy with a child.                                       *)
IntentAges(i) ==
  /\ intents[i].status = "pending" /\ ~intents[i].aged
  /\ dpc \in {"down", "await"}
  /\ intents' = [intents EXCEPT ![i].aged = TRUE]
  /\ UNCHANGED <<runs, boardVars, lock, born, daemonVars>>

BoardStep ==
  \/ \E p \in Profile : PostGuard(p) \/ Request(p)
  \/ \E i \in Intent : CancelRead(i) \/ CancelWrite(i)

RunStep ==
  \/ \E p \in Profile : UserRun(p)
  \/ StartRun \/ RunBeats \/ RunEnds \/ RunCrashes

DaemonStep ==
  DaemonStarts \/ DaemonEnds \/ ReadIntents \/ PassEnds \/ Claim \/ SpawnIntent \/ AttachRun

Next ==
  \/ BoardStep \/ RunStep \/ DaemonStep
  \/ \E i \in DOMAIN intents : IntentAges(i)
  \/ \E n \in DOMAIN runs : RowStales(n)

Spec == Init /\ [][Next]_vars

----------------------------------------------------------------------------
(* Properties *)

(* ports/run_intents.ts: what the board promises of its requests, across    *)
(* re-requests, cancellations and daemon restarts.                          *)
Promise == INSTANCE IntentPromise WITH
  Id      <- Intent,
  owner   <- [i \in DOMAIN intents |-> intents[i].profile],
  open    <- {i \in DOMAIN intents : intents[i].status = "pending"},
  taken   <- {i \in DOMAIN intents : intents[i].status = "claimed"},
  started <- {i \in Intent : spawned[i] > 0}

PromiseKept == Promise!Spec

(* A request starts at most one run, even when the daemon dies between the  *)
(* claim and the spawn or the run lock refuses the child.                   *)
SpawnedOnce == \A i \in Intent : spawned[i] <= 1

(* The run the board shows for a request is of its own profile and is shown *)
(* for no other request: a run in progress when a request was claimed, an   *)
(* earlier request's included, is never passed off as the one it started.   *)
NoSharedRun ==
  \A i \in DOMAIN intents : intents[i].run # NoRun =>
    /\ runs[intents[i].run].profile = intents[i].profile
    /\ \A j \in DOMAIN intents : j # i => intents[j].run # intents[i].run

----------------------------------------------------------------------------
(* Promises of the code's comments that the code does not keep.  No run     *)
(* checks them; README.md says under which constants TLC refutes each.      *)

(* ports/run_intents.ts:13,33: a request whose user was answered            *)
(* "cancelled" was cancelled before it was claimed, and does not run.       *)
CancelHonoured == \A i \in told : spawned[i] = 0

(* ports/run_intents.ts:47: attachRun "back-writes the spawned run's id":   *)
(* the attached run is the one the request spawned.                         *)
AttachedIsOwn ==
  \A i \in DOMAIN intents : intents[i].run # NoRun => runs[intents[i].run].by = i

(* ports/run_intents.ts:53-56: a request over ten minutes old reads as      *)
(* expired, "the honest conclusion is that no daemon is running": it is not *)
(* run after that.                                                          *)
ExpiredNeverClaimed == [][Claim /\ current' # NoIntent => ~intents[Oldest].aged]_vars

(* features/intents/routes.ts: no request is accepted while a run of the    *)
(* profile, which has its row, is in progress.                              *)
NoRequestDuringRun ==
  [][\A p \in Profile : PostGuard(p)
       => ~(lock # NoRun /\ lock.profile = p /\ lock.row # 0)]_vars

(* All the invariants: a request is spawned once, with a run of its own.    *)
IntentsSound == TypeOK /\ SpawnedOnce /\ NoSharedRun
=============================================================================
