--------------------------- MODULE ServeLifecycle ---------------------------
(***************************************************************************)
(* `jobbunny serve start` and `serve stop`, from a terminal or from the    *)
(* board (src/cli/commands/serve/start.ts and lifecycle.ts,                *)
(* src/cli/wire/board_daemon_control.ts), the daemon they manage, and the  *)
(* run child it supervises (src/ops/daemon/supervise).  They share one     *)
(* file, the daemon pidfile (src/ops/daemon/pidfile.ts), and signals.      *)
(*                                                                         *)
(* Each element of Starter is one `serve start`, which creates at most one *)
(* daemon; each element of Stopper is one `serve stop`.  A start or stop   *)
(* asked for on the board runs inside the board server's own process.      *)
(*                                                                         *)
(* A step is what one process does without another one being able to act   *)
(* in between that matters: one file-system call, or a synchronous         *)
(* stretch of the daemon's event loop (updateDaemonPidfile is synchronous).*)
(* The only thing the code asks of lastTickAt is whether it is over five   *)
(* minutes old and whether it changed since a starter read it, so these    *)
(* two answers are the state.                                              *)
(***************************************************************************)
EXTENDS Naturals, FiniteSets

CONSTANTS
  Starter,     \* `serve start` invocations
  Stopper,     \* `serve stop` invocations
  BoardStart,  \* the starters that the board server runs in its process
  Board,       \* the board server
  NoFile,      \* "there is no pidfile"
  NoPid,       \* "no process"
  Faults       \* which of FaultKinds the environment may do

FaultKinds == {"crash", "spawn", "stall", "slowBoot", "unkillable"}

Pid == [who : Starter \cup {Board}, role : {"starter", "daemon", "run"}]

Pidfile == [pid : Pid, aged : BOOLEAN, inFlight : Pid \cup {NoPid}]

ASSUME ServeLifecycleAssumption ==
  /\ BoardStart \subseteq Starter
  /\ Board \notin Starter
  /\ NoPid \notin Pid /\ NoFile \notin Pidfile
  /\ Faults \subseteq FaultKinds

VARIABLES
  file,      \* the pidfile: whose pid, lastTickAt over five minutes old, inFlight
  same,      \* starters for which lastTickAt is the one they observed
  spc,       \* where each starter is
  dpc,       \* where the daemon of each starter is
  running,   \* starters whose daemon's run child is a live process
  boardUp,   \* the board server is a live process
  tpc,       \* where each stopper is
  onBoard,   \* the stoppers that the board server runs in its process
  target,    \* the pid a stopper read
  child,     \* the inFlight pid a stopper read
  before,    \* observability: daemons alive when a stopper read the pidfile
  causes     \* observability: the unsound steps taken so far

stopVars == <<tpc, onBoard, target, child, before>>
vars == <<file, same, spc, dpc, running, boardUp, stopVars, causes>>

StarterPid(s) == [who |-> IF s \in BoardStart THEN Board ELSE s, role |-> "starter"]
DaemonPid(s)  == [who |-> s, role |-> "daemon"]
RunPid(s)     == [who |-> s, role |-> "run"]
BoardPid      == [who |-> Board, role |-> "starter"]

StarterSteps == {"idle", "acquire", "judge", "wait", "final", "release", "reacquire",
                 "spawn", "confirm", "refused", "failed", "started", "dead"}
StarterEnds  == {"refused", "failed", "started", "dead"}
Ticking      == {"ready", "spawned", "waiting"}
StopperSteps == {"idle", "kill", "reread", "killChild", "release",
                 "nothing", "stale", "failed", "stopped", "dead"}
CauseKinds   == {"bootWindow", "overlap", "stealRace", "stalled", "lateRelease",
                 "spawnGap", "bootCrash"}

TypeOK ==
  /\ file \in Pidfile \cup {NoFile}
  /\ same \subseteq Starter
  /\ spc \in [Starter -> StarterSteps]
  /\ dpc \in [Starter -> {"none", "booting", "dead"} \cup Ticking]
  /\ running \subseteq Starter
  /\ boardUp \in BOOLEAN
  /\ tpc \in [Stopper -> StopperSteps] /\ onBoard \subseteq Stopper
  /\ target \in [Stopper -> Pid \cup {NoPid}]
  /\ child \in [Stopper -> Pid \cup {NoPid}]
  /\ before \in [Stopper -> SUBSET Starter]
  /\ causes \subseteq CauseKinds

LiveDaemons == {s \in Starter : dpc[s] \in Ticking \cup {"booting"}}
Booted      == {s \in Starter : dpc[s] \in Ticking}

(* process.kill(pid, 0) *)
Alive(p) ==
  CASE p = BoardPid         -> boardUp
    [] p.role = "daemon"    -> p.who \in LiveDaemons
    [] p.role = "run"       -> p.who \in running
    [] OTHER                -> spc[p.who] \notin StarterEnds \cup {"idle"}

Init ==
  /\ file = NoFile /\ same = {}
  /\ spc = [s \in Starter |-> "idle"] /\ dpc = [s \in Starter |-> "none"]
  /\ running = {} /\ boardUp = TRUE
  /\ tpc = [x \in Stopper |-> "idle"] /\ onBoard = {}
  /\ target = [x \in Stopper |-> NoPid] /\ child = [x \in Stopper |-> NoPid]
  /\ before = [x \in Stopper |-> {}]
  /\ causes = {}

StartTo(s, step) == spc' = [spc EXCEPT ![s] = step]
StopTo(x, step)  == tpc' = [tpc EXCEPT ![x] = step]
DaemonTo(s, step) == dpc' = [dpc EXCEPT ![s] = step]

----------------------------------------------------------------------------
(* The pidfile *)

(* acquireDaemonPidfile: a new lastTickAt, and nothing in flight. *)
Create(p) ==
  /\ file' = [pid |-> p, aged |-> FALSE, inFlight |-> NoPid]
  /\ same' = {}

(* Mutant of IsStale: only the heartbeat is looked at. *)
IsStaleByAge == file # NoFile => file.aged

(* isDaemonPidfileStale *)
IsStale == file # NoFile => ~Alive(file.pid) \/ file.aged

(* lastTickAt is there and is not the one s observed. *)
Changed(s) == file # NoFile /\ s \notin same

(* updateDaemonPidfile writes the heartbeat, or nothing when there is no    *)
(* pidfile.                                                                 *)
Heartbeat(pid) ==
  IF file = NoFile
    THEN UNCHANGED <<file, same>>
    ELSE file' = [file EXCEPT !.pid = pid, !.aged = FALSE] /\ same' = {}

(* Mutant of InFlight: the update creates a missing pidfile. *)
InFlightCreating(p) ==
  file' = IF file = NoFile THEN [pid |-> NoPid, aged |-> FALSE, inFlight |-> p]
          ELSE [file EXCEPT !.inFlight = p]

InFlight(p) == file' = IF file = NoFile THEN file ELSE [file EXCEPT !.inFlight = p]

----------------------------------------------------------------------------
(* runServeStartParent *)

Begin(s) ==
  /\ spc[s] = "idle" /\ (s \in BoardStart => boardUp)
  /\ StartTo(s, "acquire")
  /\ UNCHANGED <<file, same, dpc, running, boardUp, stopVars, causes>>

(* Mutant of Acquire: the create is not exclusive. *)
AcquireOverwriting(s) ==
  /\ spc[s] = "acquire"
  /\ Create(StarterPid(s))
  /\ StartTo(s, "spawn")
  /\ UNCHANGED <<dpc, running, boardUp, stopVars, causes>>

Acquire(s) ==
  /\ spc[s] = "acquire" /\ file = NoFile
  /\ Create(StarterPid(s))
  /\ StartTo(s, "spawn")
  /\ UNCHANGED <<dpc, running, boardUp, stopVars, causes>>

AcquireBusy(s) ==
  /\ spc[s] = "acquire" /\ file # NoFile
  /\ StartTo(s, "judge")
  /\ UNCHANGED <<file, same, dpc, running, boardUp, stopVars, causes>>

Refuse(s) ==
  /\ spc[s] = "judge" /\ ~IsStale
  /\ StartTo(s, "refused")
  /\ UNCHANGED <<file, same, dpc, running, boardUp, stopVars, causes>>

(* A live pid with an old heartbeat is given 35 s, a dead one none. *)
JudgeStale(s) ==
  /\ spc[s] = "judge" /\ IsStale
  /\ same' = IF file = NoFile THEN same \ {s} ELSE same \cup {s}
  /\ StartTo(s, IF file # NoFile /\ Alive(file.pid) THEN "wait" ELSE "final")
  /\ UNCHANGED <<file, dpc, running, boardUp, stopVars, causes>>

(* The 35 s are over: a daemon that is not stalled has beaten in them. *)
Waited(s) ==
  /\ spc[s] = "wait"
  /\ "stall" \in Faults \/ Booted = {} \/ file = NoFile \/ Changed(s)
  /\ StartTo(s, IF Changed(s) THEN "refused" ELSE "final")
  /\ UNCHANGED <<file, same, dpc, running, boardUp, stopVars, causes>>

FinalCheck(s) ==
  /\ spc[s] = "final"
  /\ StartTo(s, IF Changed(s) THEN "refused" ELSE "release")
  /\ UNCHANGED <<file, same, dpc, running, boardUp, stopVars, causes>>

(* A stop has read the pidfile and is not done. *)
Interrupted == \E x \in Stopper : tpc[x] \in {"kill", "reread", "killChild", "release"}

(* The unconditional unlink. *)
Release(s) ==
  /\ spc[s] = "release"
  /\ file' = NoFile
  /\ StartTo(s, "reacquire")
  /\ causes' = causes
       \cup (IF Changed(s) THEN {"stealRace"} ELSE {})
       \cup (IF Booted # {} /\ ~Changed(s) THEN {"stalled"} ELSE {})
       \cup (IF LiveDaemons # Booted THEN {"bootWindow"} ELSE {})
       \cup (IF Interrupted THEN {"overlap"} ELSE {})
  /\ UNCHANGED <<same, dpc, running, boardUp, stopVars>>

Reacquire(s) ==
  /\ spc[s] = "reacquire"
  /\ \/ file = NoFile /\ Create(StarterPid(s)) /\ StartTo(s, "spawn")
     \/ file # NoFile /\ StartTo(s, "failed") /\ UNCHANGED <<file, same>>
  /\ UNCHANGED <<dpc, running, boardUp, stopVars, causes>>

Spawn(s) ==
  /\ spc[s] = "spawn"
  /\ DaemonTo(s, "booting")
  /\ StartTo(s, "confirm")
  /\ UNCHANGED <<file, same, running, boardUp, stopVars, causes>>

(* Opening the log or spawning throws.  The board catches it and removes    *)
(* its own placeholder; a terminal's process ends and leaves it.            *)
SpawnThrows(s) ==
  /\ "spawn" \in Faults
  /\ spc[s] = "spawn"
  /\ file' = IF s \in BoardStart /\ file # NoFile /\ file.pid = BoardPid
               THEN NoFile ELSE file
  /\ StartTo(s, "failed")
  /\ UNCHANGED <<same, dpc, running, boardUp, stopVars, causes>>

(* The pidfile names another start, or its daemon, than s.  Two starts from *)
(* the board have one pid; whose placeholder it is then shows in who is     *)
(* between the create and the daemon's own pid.                             *)
Anothers(s) ==
  /\ file # NoFile
  /\ \/ file.pid \notin {StarterPid(s), DaemonPid(s)}
     \/ \E r \in Starter \ {s} :
          file.pid = StarterPid(r) /\ (spc[r] = "spawn" \/ dpc[r] = "booting")

(* Two seconds later: unless it boots slowly the child has written its pid, *)
(* or is dead, and then the pidfile is removed, whoever's it is by now.     *)
Confirm(s) ==
  /\ spc[s] = "confirm"
  /\ dpc[s] # "booting" \/ "slowBoot" \in Faults
  /\ \/ s \in LiveDaemons /\ StartTo(s, "started") /\ UNCHANGED <<file, causes>>
     \/ /\ s \notin LiveDaemons
        /\ file' = NoFile
        /\ causes' = causes
             \cup (IF Anothers(s) THEN {"lateRelease"} ELSE {})
             \cup (IF Interrupted THEN {"overlap"} ELSE {})
        /\ StartTo(s, "failed")
  /\ UNCHANGED <<same, dpc, running, boardUp, stopVars>>

----------------------------------------------------------------------------
(* The daemon child and the run it supervises *)

(* runServeStartChild: its own pid first, and the immediate first tick's    *)
(* heartbeat in the same synchronous stretch.                               *)
Boot(s) ==
  /\ dpc[s] = "booting"
  /\ Heartbeat(DaemonPid(s))
  /\ DaemonTo(s, "ready")
  /\ UNCHANGED <<spc, running, boardUp, stopVars, causes>>

(* Every 30 s, also while a child is awaited.  The pid is left alone. *)
Beat(s) ==
  /\ dpc[s] \in {"ready", "waiting"} /\ file # NoFile
  /\ Heartbeat(file.pid)
  /\ UNCHANGED <<spc, dpc, running, boardUp, stopVars, causes>>

(* createSpawnRun: the child is spawned, ... *)
SpawnRun(s) ==
  /\ dpc[s] = "ready" /\ s \notin running
  /\ running' = running \cup {s}
  /\ DaemonTo(s, "spawned")
  /\ UNCHANGED <<file, same, spc, boardUp, stopVars, causes>>

(* Mutant of NoteInFlight: it is not written down. *)
NoteInFlightNot(s) ==
  /\ dpc[s] = "spawned"
  /\ DaemonTo(s, "waiting")
  /\ UNCHANGED <<file, same, spc, running, boardUp, stopVars, causes>>

(* ... then noted in the pidfile. *)
NoteInFlight(s) ==
  /\ dpc[s] = "spawned"
  /\ InFlight(RunPid(s))
  /\ DaemonTo(s, "waiting")
  /\ UNCHANGED <<same, spc, running, boardUp, stopVars, causes>>

RunExits(s) ==
  /\ s \in running
  /\ running' = running \ {s}
  /\ UNCHANGED <<file, same, spc, dpc, boardUp, stopVars, causes>>

(* The exit event: clearInFlight. *)
Reap(s) ==
  /\ dpc[s] = "waiting" /\ s \notin running
  /\ InFlight(NoPid)
  /\ DaemonTo(s, "ready")
  /\ UNCHANGED <<same, spc, running, boardUp, stopVars, causes>>

----------------------------------------------------------------------------
(* runServeStop and stopBoardDaemon *)

(* Mutant of ReadPidfile: the board does not look whose pid it is. *)
ReadPidfileUnguarded(x, board) ==
  /\ tpc[x] = "idle" /\ (board => boardUp)
  /\ onBoard' = IF board THEN onBoard \cup {x} ELSE onBoard
  /\ target' = [target EXCEPT ![x] = IF file = NoFile THEN NoPid ELSE file.pid]
  /\ before' = [before EXCEPT ![x] = LiveDaemons]
  /\ StopTo(x, IF file = NoFile THEN "nothing" ELSE "kill")
  /\ UNCHANGED <<file, same, spc, dpc, running, boardUp, child, causes>>

(* No pidfile: nothing to stop.  The board never goes on with its own pid. *)
ReadPidfile(x, board) ==
  /\ tpc[x] = "idle" /\ (board => boardUp)
  /\ onBoard' = IF board THEN onBoard \cup {x} ELSE onBoard
  /\ target' = [target EXCEPT ![x] = IF file = NoFile THEN NoPid ELSE file.pid]
  /\ before' = [before EXCEPT ![x] = LiveDaemons]
  /\ StopTo(x, CASE file = NoFile -> "nothing"
                 [] file # NoFile /\ board /\ file.pid = BoardPid -> "stale"
                 [] OTHER -> "kill")
  /\ UNCHANGED <<file, same, spc, dpc, running, boardUp, child, causes>>

(* The process that runs x is alive. *)
Here(x) == x \in onBoard => boardUp

(* What the death of p changes. *)
Dies(p) ==
  /\ dpc' = IF p.role = "daemon" THEN [dpc EXCEPT ![p.who] = "dead"] ELSE dpc
  /\ running' = IF p.role = "run" THEN running \ {p.who} ELSE running
  /\ boardUp' = (boardUp /\ p # BoardPid)
  /\ spc' = [s \in Starter |->
               IF StarterPid(s) = p /\ spc[s] \notin StarterEnds \cup {"idle"}
                 THEN "dead" ELSE spc[s]]

(* killAndConfirmDead of the recorded pid.  A daemon dies of SIGTERM        *)
(* between two stretches of its event loop, or later of SIGKILL; one that   *)
(* dies between spawn and note leaves a child nobody knows of.              *)
KillTarget(x) ==
  /\ tpc[x] = "kill" /\ Here(x)
  /\ target[x].role = "daemon" /\ dpc[target[x].who] = "spawned" => "stall" \in Faults
  /\ Dies(target[x])
  /\ StopTo(x, "reread")
  /\ causes' = causes
       \cup (IF target[x].role = "starter" THEN {"bootWindow"} ELSE {})
       \cup (IF target[x].role = "daemon" /\ dpc[target[x].who] = "spawned"
               THEN {"spawnGap"} ELSE {})
  /\ UNCHANGED <<file, same, onBoard, target, child, before>>

(* It survives SIGKILL (uninterruptible sleep): reported, nothing removed. *)
Survives(x) ==
  /\ "unkillable" \in Faults /\ Here(x)
  /\ \/ tpc[x] = "kill" /\ Alive(target[x])
     \/ tpc[x] = "killChild" /\ Alive(child[x])
  /\ StopTo(x, "failed")
  /\ UNCHANGED <<file, same, spc, dpc, running, boardUp, onBoard, target, child, before, causes>>

(* Mutant of Reread: the child is taken from the first read, before the     *)
(* daemon was dead; it could still spawn.                                   *)
RereadNot(x) ==
  /\ tpc[x] = "reread" /\ Here(x)
  /\ child' = child
  /\ StopTo(x, "release")
  /\ UNCHANGED <<file, same, spc, dpc, running, boardUp, onBoard, target, before, causes>>

Reread(x) ==
  /\ tpc[x] = "reread" /\ Here(x)
  /\ child' = [child EXCEPT ![x] = IF file = NoFile THEN NoPid ELSE file.inFlight]
  /\ StopTo(x, IF file # NoFile /\ file.inFlight # NoPid THEN "killChild" ELSE "release")
  /\ UNCHANGED <<file, same, spc, dpc, running, boardUp, onBoard, target, before, causes>>

KillChild(x) ==
  /\ tpc[x] = "killChild" /\ Here(x)
  /\ Dies(child[x])
  /\ StopTo(x, "release")
  /\ UNCHANGED <<file, same, onBoard, target, child, before, causes>>

(* The pidfile goes, whoever's it is by now. *)
Unlink(x) ==
  /\ tpc[x] = "release" /\ Here(x)
  /\ file' = NoFile
  /\ StopTo(x, "stopped")
  /\ causes' = IF file # NoFile /\ file.pid # target[x]
                 THEN causes \cup {"overlap"} ELSE causes
  /\ UNCHANGED <<same, spc, dpc, running, boardUp, onBoard, target, child, before>>

----------------------------------------------------------------------------
(* The environment *)

(* Five minutes without a heartbeat: nobody alive writes it, or whoever     *)
(* does is stalled (suspended host, blocked event loop).  A parent's own    *)
(* placeholder lives for two seconds.                                       *)
AgeOut ==
  /\ file # NoFile /\ ~file.aged
  /\ Booted = {} \/ "stall" \in Faults
  /\ \A s \in Starter : spc[s] \notin {"spawn", "confirm"}
  /\ file' = [file EXCEPT !.aged = TRUE]
  /\ UNCHANGED <<same, spc, dpc, running, boardUp, stopVars, causes>>

DaemonCrash(s) ==
  /\ "crash" \in Faults
  /\ s \in LiveDaemons
  /\ DaemonTo(s, "dead")
  /\ causes' = CASE dpc[s] = "spawned" -> causes \cup {"spawnGap"}
                 [] dpc[s] = "booting" -> causes \cup {"bootCrash"}
                 [] OTHER -> causes
  /\ UNCHANGED <<file, same, spc, running, boardUp, stopVars>>

Start(s) == \/ Begin(s) \/ Acquire(s) \/ AcquireBusy(s) \/ Refuse(s) \/ JudgeStale(s)
            \/ Waited(s) \/ FinalCheck(s) \/ Release(s) \/ Reacquire(s)
            \/ Spawn(s) \/ SpawnThrows(s) \/ Confirm(s)

Daemon(s) == Boot(s) \/ Beat(s) \/ SpawnRun(s) \/ NoteInFlight(s) \/ Reap(s)

Stop(x) == \/ \E board \in BOOLEAN : ReadPidfile(x, board)
           \/ KillTarget(x) \/ Survives(x) \/ Reread(x)
           \/ KillChild(x) \/ Unlink(x)

Next ==
  \/ \E s \in Starter : Start(s) \/ Daemon(s) \/ RunExits(s) \/ DaemonCrash(s)
  \/ \E x \in Stopper : Stop(x)
  \/ AgeOut

Spec == Init /\ [][Next]_vars

----------------------------------------------------------------------------
(* Properties *)

(* pidfile.ts:189-191: the exclusive create is "the actual mutual-exclusion *)
(* guarantee": there is at most one daemon.                                 *)
OneDaemon == Cardinality(LiveDaemons) <= 1

(* Every way to a second daemon is one of the recorded causes: a stop or a  *)
(* steal in the window where the pidfile names a parent and not its child,  *)
(* a stop overlapping a start, two starts stealing over each other, a       *)
(* stalled daemon taken for dead, a failed start's late unlink.             *)
OneDaemonUnlessCause == causes \subseteq {"bootCrash"} => OneDaemon

(* A daemon that ticks is the one the pidfile names, and the run it awaits  *)
(* is the one in flight there: `serve stop` can find both.                  *)
FindableUnlessCause ==
  causes \subseteq {"bootCrash"} => \A s \in Booted :
    /\ file # NoFile /\ file.pid = DaemonPid(s)
    /\ dpc[s] = "waiting" => file.inFlight = RunPid(s)

(* lifecycle.ts:69-70: "a dead daemon cannot spawn or write to the pidfile  *)
(* again, so its last write is authoritative": when stop reports "daemon    *)
(* stopped", every daemon alive when it was asked, and its run, are dead.   *)
StopIsComplete ==
  \A x \in Stopper : tpc[x] = "stopped" =>
    \A s \in before[x] : s \notin LiveDaemons /\ s \notin running

(* Only the recorded causes make an incomplete stop. *)
StopCompleteUnlessCause == causes \subseteq {"bootCrash"} => StopIsComplete

(* A stop asked for on the board never kills the board server, whose pid   *)
(* the pidfile holds while a daemon started from the board boots            *)
(* (board_daemon_control.ts:113-120).                                       *)
BoardStopSparesBoard ==
  [][boardUp /\ ~boardUp' => \E x \in Stopper \ onBoard : tpc[x] # tpc'[x]]_vars

(* "already running", which the board shows as success, is only said when a *)
(* daemon is alive or on its way; a daemon that crashes before its first    *)
(* tick leaves the board's own pid behind, which is alive.                  *)
RefusedMeansRunning ==
  [][\A s \in Starter : Refuse(s) /\ causes = {} =>
       LiveDaemons # {} \/ \E r \in Starter : spc[r] \in {"spawn", "confirm"}]_vars

----------------------------------------------------------------------------
(* Promises of the code's comments that the code does not keep.  No run     *)
(* checks them; README.md says under which constants TLC refutes each.      *)

(* pidfile.ts:7-8: inFlight is there "so `serve stop` can find and kill an  *)
(* in-progress run even if the daemon itself has died".                     *)
StopFindsOrphans ==
  [][\A x \in Stopper : Unlink(x) /\ LiveDaemons = {} /\ causes' = {}
       => running = {}]_vars

(* No stop kills the board server, whoever asked for it. *)
BoardSurvives == boardUp

(* All the invariants: a second daemon, one nobody finds and a stop that    *)
(* left something alive come only from the named races.                     *)
DaemonsSound == TypeOK /\ OneDaemonUnlessCause /\ FindableUnlessCause /\ StopCompleteUnlessCause

(* What a step never does: the board stop itself, or a start be refused     *)
(* with no daemon running.                                                  *)
StopsSound == BoardStopSparesBoard /\ RefusedMeansRunning
=============================================================================
