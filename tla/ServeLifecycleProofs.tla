------------------------ MODULE ServeLifecycleProofs -----------------------
(***************************************************************************)
(* `serve start` and `serve stop` for any number of starts, stops and      *)
(* faults: whatever goes wrong with the one daemon has one of the recorded *)
(* causes, and a stop asked for on the board spares the board.  Below it,  *)
(* a profile's life, for any number of directories and requests: it is     *)
(* buried idle, made on purpose and served from its own files, but for the *)
(* recorded causes, and a saved document is kept.  And the machine they    *)
(* run on: a saved token is in .env and reaches those who read it, and the *)
(* switch of the login item is true, but for the recorded causes.          *)
(***************************************************************************)
EXTENDS ServeLifecycle, ProfileLife, MachineSetup, FiniteSetTheorems, SequenceTheorems,
        WellFoundedInduction, TLAPS

(* No cause but a daemon that crashes before its first tick. *)
Clean == causes \subseteq {"bootCrash"}

(* A stop that has read the pidfile and is not done, or is. *)
Engaged  == {"kill", "reread", "killChild", "release"}
PastKill == {"reread", "killChild", "release", "stopped"}

(* The pid in a pidfile is a start's or a booted daemon's, a start's own    *)
(* once it has created the file; what is in flight is a run.                *)
FileShape ==
  file # NoFile =>
    /\ file.pid.role \in {"starter", "daemon"}
    /\ file.pid.role = "daemon" =>
         file.pid.who \in Starter /\ dpc[file.pid.who] \in Ticking \cup {"dead"}
    /\ file.pid.role = "starter" /\ file.pid.who # Board =>
         spc[file.pid.who] \in StarterEnds \cup {"spawn", "confirm"}
    /\ file.inFlight # NoPid => file.inFlight.role = "run"

(* A daemon is there only when its start has spawned it, and a run only     *)
(* when its daemon has.                                                     *)
DaemonShape ==
  \A s \in Starter :
    /\ dpc[s] # "none" => spc[s] \in StarterEnds \cup {"confirm"}
    /\ dpc[s] \in {"none", "booting", "ready"} => s \notin running

(* What a stop has read. *)
StopShape ==
  \A x \in Stopper :
    /\ tpc[x] = "idle" => x \notin onBoard
    /\ tpc[x] \in Engaged \cup {"stopped"} =>
         /\ target[x] \in Pid /\ target[x].role \in {"starter", "daemon"}
         /\ target[x].role = "daemon" =>
              target[x].who \in Starter /\ dpc[target[x].who] \in Ticking \cup {"dead"}
    /\ tpc[x] = "killChild" => child[x] \in Pid /\ child[x].role = "run"
    /\ tpc[x] = "kill" /\ x \in onBoard => target[x] # BoardPid

Shape == TypeOK /\ FileShape /\ DaemonShape /\ StopShape

(* Who has the pidfile: the start that created it, then its daemon. *)
Holders == {s \in Starter : spc[s] = "spawn" \/ s \in LiveDaemons}
Held ==
  /\ \A s, t \in Holders : s = t
  /\ \A s \in Starter :
       /\ spc[s] = "spawn" => file # NoFile /\ file.pid = StarterPid(s) /\ ~file.aged
       /\ dpc[s] = "booting" => file # NoFile /\ file.pid = StarterPid(s)
       /\ dpc[s] \in Ticking => file # NoFile /\ file.pid = DaemonPid(s)
       /\ dpc[s] = "waiting" => file.inFlight = RunPid(s)

(* A start that judged the pidfile there is now has judged no other start's *)
(* that is about to spawn.                                                  *)
JudgedStale ==
  file # NoFile /\ (\E s \in same : spc[s] \in {"wait", "final", "release"})
    => \A r \in Starter : spc[r] # "spawn"

(* The orphan of a daemon whose pidfile is still there is in flight in it. *)
OrphanNoted ==
  \A s \in running : dpc[s] = "dead" /\ file # NoFile /\ file.pid = DaemonPid(s)
    => file.inFlight = RunPid(s)

(* A stop that is past its first kill read the pid of the daemon, which is  *)
(* dead; the daemon's run, as long as it lives, is what it goes on to kill. *)
StopSees ==
  \A x \in Stopper :
    /\ tpc[x] \in PastKill =>
         /\ target[x].role = "daemon" /\ dpc[target[x].who] = "dead"
         /\ before[x] \subseteq {target[x].who}
    /\ tpc[x] = "kill" /\ target[x].role = "daemon" => before[x] \subseteq {target[x].who}
    /\ \A s \in running :
         tpc[x] \in Engaged \cup {"stopped"} /\ target[x] = DaemonPid(s) /\ dpc[s] = "dead" =>
           /\ tpc[x] \in {"kill", "reread", "killChild"}
           /\ tpc[x] = "killChild" => child[x] = RunPid(s)
           /\ file # NoFile /\ file.pid = DaemonPid(s)

Clear == boardUp /\ Held /\ JudgedStale /\ OrphanNoted /\ StopSees

CleanInv == Clean => Clear

(* Without any cause, the board's pid is in the pidfile only while one of   *)
(* its starts is between the create and the daemon's own pid.               *)
BoardBusy ==
  causes = {} /\ file # NoFile /\ file.pid = BoardPid =>
    \E r \in BoardStart : spc[r] \in {"spawn", "confirm"} \/ dpc[r] = "booting"

ServeInv == Shape /\ CleanInv /\ BoardBusy

----------------------------------------------------------------------------
(* Pids of different processes differ, but for the starts of the board.     *)
LEMMA PidFacts ==
  ASSUME NEW s \in Starter
  PROVE  /\ DaemonPid(s) \in Pid /\ RunPid(s) \in Pid /\ StarterPid(s) \in Pid /\ BoardPid \in Pid
         /\ DaemonPid(s).role = "daemon" /\ DaemonPid(s).who = s
         /\ RunPid(s).role = "run" /\ RunPid(s).who = s
         /\ StarterPid(s).role = "starter" /\ BoardPid.role = "starter" /\ BoardPid.who = Board
         /\ StarterPid(s).who = IF s \in BoardStart THEN Board ELSE s
         /\ s \in BoardStart => StarterPid(s) = BoardPid
         /\ s # Board
  BY ServeLifecycleAssumption DEF Pid, DaemonPid, RunPid, StarterPid, BoardPid

(* A pid is known by its role and whose it is. *)
LEMMA PidIs ==
  ASSUME NEW p \in Pid
  PROVE  /\ p.who \in Starter \cup {Board} /\ p.role \in {"starter", "daemon", "run"}
         /\ \A s \in Starter :
              /\ p = DaemonPid(s) <=> p.role = "daemon" /\ p.who = s
              /\ p = RunPid(s) <=> p.role = "run" /\ p.who = s
         /\ p = BoardPid <=> p.role = "starter" /\ p.who = Board
  BY DEF Pid, DaemonPid, RunPid, BoardPid

(* The records of a pidfile. *)
LEMMA FileTyped ==
  ASSUME TypeOK, file # NoFile
  PROVE  /\ file \in Pidfile
         /\ file.pid \in Pid /\ file.aged \in BOOLEAN /\ file.inFlight \in Pid \cup {NoPid}
  BY DEF TypeOK, Pidfile

LEMMA TypeKept == ASSUME TypeOK, [Next]_vars PROVE TypeOK'
<1> USE DEF TypeOK, stopVars, StarterSteps, StarterEnds, StopperSteps, Ticking, CauseKinds
<1>1. ASSUME NEW s \in Starter, Begin(s) PROVE TypeOK'
  BY <1>1 DEF Begin, StartTo, Pidfile
<1>2. ASSUME NEW s \in Starter, Acquire(s) PROVE TypeOK'
  BY <1>2, PidFacts DEF Acquire, Create, StartTo, Pidfile
<1>3. ASSUME NEW s \in Starter, AcquireBusy(s) PROVE TypeOK'
  BY <1>3 DEF AcquireBusy, StartTo, Pidfile
<1>4. ASSUME NEW s \in Starter, Refuse(s) PROVE TypeOK'
  BY <1>4 DEF Refuse, StartTo, Pidfile
<1>5. ASSUME NEW s \in Starter, JudgeStale(s) PROVE TypeOK'
  BY <1>5 DEF JudgeStale, StartTo, Pidfile
<1>6. ASSUME NEW s \in Starter, Waited(s) PROVE TypeOK'
  BY <1>6 DEF Waited, StartTo, Pidfile
<1>7. ASSUME NEW s \in Starter, FinalCheck(s) PROVE TypeOK'
  BY <1>7 DEF FinalCheck, StartTo, Pidfile
<1>8. ASSUME NEW s \in Starter, Release(s) PROVE TypeOK'
  BY <1>8 DEF Release, StartTo, Pidfile
<1>9. ASSUME NEW s \in Starter, Reacquire(s) PROVE TypeOK'
  <2>1. [pid |-> StarterPid(s), aged |-> FALSE, inFlight |-> NoPid] \in Pidfile
    BY PidFacts DEF Pidfile
  <2>2. file' \in Pidfile \cup {NoFile} /\ same' \subseteq Starter
    BY <1>9, <2>1 DEF Reacquire, Create
  <2>3. QED
    BY <1>9, <2>2 DEF Reacquire, StartTo
<1>10. ASSUME NEW s \in Starter, Spawn(s) PROVE TypeOK'
  BY <1>10 DEF Spawn, DaemonTo, StartTo, Pidfile
<1>11. ASSUME NEW s \in Starter, SpawnThrows(s) PROVE TypeOK'
  BY <1>11 DEF SpawnThrows, StartTo, Pidfile
<1>12. ASSUME NEW s \in Starter, Confirm(s) PROVE TypeOK'
  <2>1. causes' \subseteq CauseKinds
    BY <1>12 DEF Confirm
  <2>2. file' \in Pidfile \cup {NoFile} /\ spc' \in [Starter -> StarterSteps]
    BY <1>12 DEF Confirm, StartTo
  <2>3. QED
    BY <1>12, <2>1, <2>2 DEF Confirm
<1>13. ASSUME NEW s \in Starter, Boot(s) PROVE TypeOK'
  <2>1. file # NoFile => [file EXCEPT !.pid = DaemonPid(s), !.aged = FALSE] \in Pidfile
    BY FileTyped, PidFacts DEF Pidfile
  <2>2. file' \in Pidfile \cup {NoFile} /\ same' \subseteq Starter
    BY <1>13, <2>1 DEF Boot, Heartbeat
  <2>3. QED
    BY <1>13, <2>2 DEF Boot, DaemonTo
<1>14. ASSUME NEW s \in Starter, Beat(s) PROVE TypeOK'
  BY <1>14 DEF Beat, Heartbeat, Pidfile
<1>15. ASSUME NEW s \in Starter, SpawnRun(s) PROVE TypeOK'
  BY <1>15 DEF SpawnRun, DaemonTo, Pidfile
<1>16. ASSUME NEW s \in Starter, NoteInFlight(s) PROVE TypeOK'
  BY <1>16, PidFacts DEF NoteInFlight, InFlight, DaemonTo, Pidfile
<1>17. ASSUME NEW s \in Starter, Reap(s) PROVE TypeOK'
  BY <1>17 DEF Reap, InFlight, DaemonTo, Pidfile
<1>18. ASSUME NEW s \in Starter, RunExits(s) PROVE TypeOK'
  BY <1>18 DEF RunExits, Pidfile
<1>19. ASSUME NEW s \in Starter, DaemonCrash(s) PROVE TypeOK'
  BY <1>19 DEF DaemonCrash, DaemonTo, Pidfile
<1>20. ASSUME NEW x \in Stopper, NEW board \in BOOLEAN, ReadPidfile(x, board) PROVE TypeOK'
  <2>1. target' \in [Stopper -> Pid \cup {NoPid}]
    BY <1>20, FileTyped DEF ReadPidfile
  <2>2. tpc' \in [Stopper -> StopperSteps]
    BY <1>20 DEF ReadPidfile, StopTo
  <2>3. before' \in [Stopper -> SUBSET Starter]
    BY <1>20 DEF ReadPidfile, LiveDaemons
  <2>4. QED
    BY <1>20, <2>1, <2>2, <2>3 DEF ReadPidfile
<1>21. ASSUME NEW x \in Stopper, KillTarget(x) PROVE TypeOK'
  BY <1>21 DEF KillTarget, StopTo, Dies, Pidfile
<1>22. ASSUME NEW x \in Stopper, Survives(x) PROVE TypeOK'
  BY <1>22 DEF Survives, StopTo, Pidfile
<1>23. ASSUME NEW x \in Stopper, Reread(x) PROVE TypeOK'
  BY <1>23 DEF Reread, StopTo, Pidfile
<1>24. ASSUME NEW x \in Stopper, KillChild(x) PROVE TypeOK'
  BY <1>24 DEF KillChild, StopTo, Dies, Pidfile
<1>25. ASSUME NEW x \in Stopper, Unlink(x) PROVE TypeOK'
  BY <1>25 DEF Unlink, StopTo, Pidfile
<1>26. ASSUME AgeOut PROVE TypeOK'
  BY <1>26 DEF AgeOut, Pidfile
<1>27. CASE UNCHANGED vars
  BY <1>27 DEF vars, Pidfile
<1>. QED
  BY <1>1, <1>2, <1>3, <1>4, <1>5, <1>6, <1>7, <1>8, <1>9, <1>10, <1>11,
     <1>12, <1>13, <1>14, <1>15, <1>16, <1>17, <1>18, <1>19, <1>20, <1>21,
     <1>22, <1>23, <1>24, <1>25, <1>26, <1>27 DEF Next, Start, Daemon, Stop

(* What the writes of the pidfile leave in it. *)
LEMMA CreateStep ==
  ASSUME NEW p \in Pid, Create(p)
  PROVE  /\ file' # NoFile /\ file'.pid = p /\ file'.aged = FALSE /\ file'.inFlight = NoPid
         /\ same' = {}
<1>1. [pid |-> p, aged |-> FALSE, inFlight |-> NoPid] \in Pidfile
  BY DEF Pidfile
<1>2. QED
  BY <1>1, ServeLifecycleAssumption DEF Create

LEMMA HeartbeatStep ==
  ASSUME TypeOK, NEW p \in Pid, Heartbeat(p)
  PROVE  /\ file = NoFile => file' = NoFile /\ same' = same
         /\ file # NoFile => /\ file' # NoFile /\ file'.pid = p /\ file'.aged = FALSE
                             /\ file'.inFlight = file.inFlight /\ same' = {}
<1>1. file # NoFile => [file EXCEPT !.pid = p, !.aged = FALSE] \in Pidfile
  BY FileTyped DEF Pidfile
<1>2. CASE file # NoFile
  <2>1. file' = [file EXCEPT !.pid = p, !.aged = FALSE] /\ file \in Pidfile /\ same' = {}
    BY <1>2, FileTyped DEF Heartbeat
  <2>2. file' # NoFile
    BY <1>1, <1>2, <2>1, ServeLifecycleAssumption
  <2>3. QED
    BY <1>2, <2>1, <2>2 DEF Pidfile
<1>3. QED
  BY <1>2 DEF Heartbeat

LEMMA InFlightStep ==
  ASSUME TypeOK, NEW p \in Pid \cup {NoPid}, InFlight(p)
  PROVE  /\ file = NoFile => file' = NoFile
         /\ file # NoFile => /\ file' # NoFile /\ file'.pid = file.pid
                             /\ file'.aged = file.aged /\ file'.inFlight = p
<1>1. file # NoFile => [file EXCEPT !.inFlight = p] \in Pidfile
  BY FileTyped DEF Pidfile
<1>2. CASE file # NoFile
  <2>1. file' = [file EXCEPT !.inFlight = p] /\ file \in Pidfile
    BY <1>2, FileTyped DEF InFlight
  <2>2. file' # NoFile
    BY <1>1, <1>2, <2>1, ServeLifecycleAssumption
  <2>3. QED
    BY <1>2, <2>1, <2>2 DEF Pidfile
<1>3. QED
  BY <1>2 DEF InFlight

LEMMA AgeOutStep ==
  ASSUME TypeOK, AgeOut
  PROVE  /\ file # NoFile /\ file' # NoFile
         /\ file'.pid = file.pid /\ file'.inFlight = file.inFlight
<1>1. file # NoFile /\ file' = [file EXCEPT !.aged = TRUE]
  BY DEF AgeOut
<1>2. file \in Pidfile /\ file' \in Pidfile
  BY <1>1, FileTyped DEF Pidfile
<1>3. QED
  BY <1>1, <1>2, ServeLifecycleAssumption DEF Pidfile

(* The steps that a daemon and a start take only go forward. *)
LEMMA DaemonForward ==
  ASSUME TypeOK, DaemonShape, [Next]_vars, NEW r \in Starter
  PROVE  /\ dpc[r] \in Ticking \cup {"dead"} => dpc'[r] \in Ticking \cup {"dead"}
         /\ dpc[r] = "dead" => dpc'[r] = "dead"
         /\ spc[r] \in StarterEnds \cup {"spawn", "confirm"} =>
              spc'[r] \in StarterEnds \cup {"spawn", "confirm"}
<1> DEFINE Forward ==
      /\ dpc[r] \in Ticking \cup {"dead"} => dpc'[r] \in Ticking \cup {"dead"}
      /\ dpc[r] = "dead" => dpc'[r] = "dead"
      /\ spc[r] \in StarterEnds \cup {"spawn", "confirm"} =>
           spc'[r] \in StarterEnds \cup {"spawn", "confirm"}
<1> SUFFICES Forward
  OBVIOUS
<1> USE DEF TypeOK, DaemonShape, stopVars, StarterSteps, StarterEnds, Ticking
<1>1. ASSUME NEW s \in Starter, Begin(s) PROVE Forward
  BY <1>1 DEF Begin, StartTo
<1>2. ASSUME NEW s \in Starter, Acquire(s) PROVE Forward
  BY <1>2 DEF Acquire, Create, StartTo
<1>3. ASSUME NEW s \in Starter, AcquireBusy(s) PROVE Forward
  BY <1>3 DEF AcquireBusy, StartTo
<1>4. ASSUME NEW s \in Starter, Refuse(s) PROVE Forward
  BY <1>4 DEF Refuse, StartTo
<1>5. ASSUME NEW s \in Starter, JudgeStale(s) PROVE Forward
  BY <1>5 DEF JudgeStale, StartTo
<1>6. ASSUME NEW s \in Starter, Waited(s) PROVE Forward
  BY <1>6 DEF Waited, StartTo
<1>7. ASSUME NEW s \in Starter, FinalCheck(s) PROVE Forward
  BY <1>7 DEF FinalCheck, StartTo
<1>8. ASSUME NEW s \in Starter, Release(s) PROVE Forward
  BY <1>8 DEF Release, StartTo
<1>9. ASSUME NEW s \in Starter, Reacquire(s) PROVE Forward
  BY <1>9 DEF Reacquire, Create, StartTo
<1>10. ASSUME NEW s \in Starter, Spawn(s) PROVE Forward
  BY <1>10 DEF Spawn, DaemonTo, StartTo
<1>11. ASSUME NEW s \in Starter, SpawnThrows(s) PROVE Forward
  BY <1>11 DEF SpawnThrows, StartTo
<1>12. ASSUME NEW s \in Starter, Confirm(s) PROVE Forward
  BY <1>12 DEF Confirm, StartTo
<1>13. ASSUME NEW s \in Starter, Boot(s) PROVE Forward
  BY <1>13 DEF Boot, Heartbeat, DaemonTo
<1>14. ASSUME NEW s \in Starter, Beat(s) PROVE Forward
  BY <1>14 DEF Beat, Heartbeat
<1>15. ASSUME NEW s \in Starter, SpawnRun(s) PROVE Forward
  BY <1>15 DEF SpawnRun, DaemonTo
<1>16. ASSUME NEW s \in Starter, NoteInFlight(s) PROVE Forward
  BY <1>16 DEF NoteInFlight, InFlight, DaemonTo
<1>17. ASSUME NEW s \in Starter, Reap(s) PROVE Forward
  BY <1>17 DEF Reap, InFlight, DaemonTo
<1>18. ASSUME NEW s \in Starter, RunExits(s) PROVE Forward
  BY <1>18 DEF RunExits
<1>19. ASSUME NEW s \in Starter, DaemonCrash(s) PROVE Forward
  BY <1>19 DEF DaemonCrash, DaemonTo
<1>20. ASSUME NEW x \in Stopper, NEW board \in BOOLEAN, ReadPidfile(x, board) PROVE Forward
  BY <1>20 DEF ReadPidfile, StopTo
<1>21. ASSUME NEW x \in Stopper, KillTarget(x) PROVE Forward
  BY <1>21 DEF KillTarget, StopTo, Dies
<1>22. ASSUME NEW x \in Stopper, Survives(x) PROVE Forward
  BY <1>22 DEF Survives, StopTo
<1>23. ASSUME NEW x \in Stopper, Reread(x) PROVE Forward
  BY <1>23 DEF Reread, StopTo
<1>24. ASSUME NEW x \in Stopper, KillChild(x) PROVE Forward
  BY <1>24 DEF KillChild, StopTo, Dies
<1>25. ASSUME NEW x \in Stopper, Unlink(x) PROVE Forward
  BY <1>25 DEF Unlink, StopTo
<1>26. ASSUME AgeOut PROVE Forward
  BY <1>26 DEF AgeOut
<1>27. CASE UNCHANGED vars
  BY <1>27 DEF vars
<1>. QED
  BY <1>1, <1>2, <1>3, <1>4, <1>5, <1>6, <1>7, <1>8, <1>9, <1>10, <1>11,
     <1>12, <1>13, <1>14, <1>15, <1>16, <1>17, <1>18, <1>19, <1>20, <1>21,
     <1>22, <1>23, <1>24, <1>25, <1>26, <1>27 DEF Next, Start, Daemon, Stop

LEMMA DaemonShapeKept == ASSUME Shape, [Next]_vars PROVE DaemonShape'
<1> USE DEF Shape, TypeOK, DaemonShape, stopVars, StarterSteps, StarterEnds, Ticking
<1>1. ASSUME NEW s \in Starter, Begin(s) PROVE DaemonShape'
  BY <1>1 DEF Begin, StartTo
<1>2. ASSUME NEW s \in Starter, Acquire(s) PROVE DaemonShape'
  BY <1>2 DEF Acquire, StartTo
<1>3. ASSUME NEW s \in Starter, AcquireBusy(s) PROVE DaemonShape'
  BY <1>3 DEF AcquireBusy, StartTo
<1>4. ASSUME NEW s \in Starter, Refuse(s) PROVE DaemonShape'
  BY <1>4 DEF Refuse, StartTo
<1>5. ASSUME NEW s \in Starter, JudgeStale(s) PROVE DaemonShape'
  BY <1>5 DEF JudgeStale, StartTo
<1>6. ASSUME NEW s \in Starter, Waited(s) PROVE DaemonShape'
  BY <1>6 DEF Waited, StartTo
<1>7. ASSUME NEW s \in Starter, FinalCheck(s) PROVE DaemonShape'
  BY <1>7 DEF FinalCheck, StartTo
<1>8. ASSUME NEW s \in Starter, Release(s) PROVE DaemonShape'
  BY <1>8 DEF Release, StartTo
<1>9. ASSUME NEW s \in Starter, Reacquire(s) PROVE DaemonShape'
  BY <1>9 DEF Reacquire, StartTo
<1>10. ASSUME NEW s \in Starter, Spawn(s) PROVE DaemonShape'
  BY <1>10 DEF Spawn, DaemonTo, StartTo
<1>11. ASSUME NEW s \in Starter, SpawnThrows(s) PROVE DaemonShape'
  BY <1>11 DEF SpawnThrows, StartTo
<1>12. ASSUME NEW s \in Starter, Confirm(s) PROVE DaemonShape'
  BY <1>12 DEF Confirm, StartTo
<1>13. ASSUME NEW s \in Starter, Boot(s) PROVE DaemonShape'
  BY <1>13 DEF Boot, DaemonTo
<1>14. ASSUME NEW s \in Starter, Beat(s) PROVE DaemonShape'
  BY <1>14 DEF Beat
<1>15. ASSUME NEW s \in Starter, SpawnRun(s) PROVE DaemonShape'
  BY <1>15 DEF SpawnRun, DaemonTo
<1>16. ASSUME NEW s \in Starter, NoteInFlight(s) PROVE DaemonShape'
  BY <1>16 DEF NoteInFlight, DaemonTo
<1>17. ASSUME NEW s \in Starter, Reap(s) PROVE DaemonShape'
  BY <1>17 DEF Reap, DaemonTo
<1>18. ASSUME NEW s \in Starter, RunExits(s) PROVE DaemonShape'
  BY <1>18 DEF RunExits
<1>19. ASSUME NEW s \in Starter, DaemonCrash(s) PROVE DaemonShape'
  <2>1. dpc' = [dpc EXCEPT ![s] = "dead"] /\ dpc[s] # "none" /\ UNCHANGED <<spc, running>>
    BY <1>19 DEF DaemonCrash, DaemonTo, LiveDaemons
  <2>2. QED
    BY <2>1
<1>20. ASSUME NEW x \in Stopper, NEW board \in BOOLEAN, ReadPidfile(x, board) PROVE DaemonShape'
  BY <1>20 DEF ReadPidfile, StopTo
<1>21. ASSUME NEW x \in Stopper, KillTarget(x) PROVE DaemonShape'
  <2>1. \/ dpc' = dpc /\ UNCHANGED running
        \/ /\ target[x].who \in Starter /\ dpc[target[x].who] # "none"
           /\ dpc' = [dpc EXCEPT ![target[x].who] = "dead"] /\ UNCHANGED running
    BY <1>21 DEF KillTarget, Dies, StopShape, Engaged
  <2>2. \A r \in Starter : spc[r] \in StarterEnds \cup {"confirm"} => spc'[r] \in StarterEnds \cup {"confirm"}
    BY <1>21 DEF KillTarget, Dies
  <2>3. QED
    BY <2>1, <2>2
<1>22. ASSUME NEW x \in Stopper, Survives(x) PROVE DaemonShape'
  BY <1>22 DEF Survives, StopTo
<1>23. ASSUME NEW x \in Stopper, Reread(x) PROVE DaemonShape'
  BY <1>23 DEF Reread, StopTo
<1>24. ASSUME NEW x \in Stopper, KillChild(x) PROVE DaemonShape'
  <2>1. child[x].role = "run" /\ child[x] \in Pid
    BY <1>24 DEF KillChild, StopShape
  <2>2. dpc' = dpc /\ running' \subseteq running
    BY <1>24, <2>1 DEF KillChild, Dies
  <2>3. \A r \in Starter : spc[r] \in StarterEnds \cup {"confirm"} => spc'[r] \in StarterEnds \cup {"confirm"}
    BY <1>24 DEF KillChild, Dies
  <2>4. QED
    BY <2>2, <2>3
<1>25. ASSUME NEW x \in Stopper, Unlink(x) PROVE DaemonShape'
  BY <1>25 DEF Unlink, StopTo
<1>26. ASSUME AgeOut PROVE DaemonShape'
  BY <1>26 DEF AgeOut
<1>27. CASE UNCHANGED vars
  BY <1>27 DEF vars
<1>. QED
  BY <1>1, <1>2, <1>3, <1>4, <1>5, <1>6, <1>7, <1>8, <1>9, <1>10, <1>11,
     <1>12, <1>13, <1>14, <1>15, <1>16, <1>17, <1>18, <1>19, <1>20, <1>21,
     <1>22, <1>23, <1>24, <1>25, <1>26, <1>27 DEF Next, Start, Daemon, Stop

LEMMA FileShapeKept == ASSUME Shape, [Next]_vars PROVE FileShape'
<1> USE DEF Shape, FileShape, stopVars, StarterEnds, Ticking
<1>0. /\ \A r \in Starter : dpc[r] \in Ticking \cup {"dead"} => dpc'[r] \in Ticking \cup {"dead"}
      /\ \A r \in Starter : spc[r] \in StarterEnds \cup {"spawn", "confirm"} =>
           spc'[r] \in StarterEnds \cup {"spawn", "confirm"}
  BY DaemonForward
<1>a. file # NoFile => file.pid \in Pid /\ file.pid.who \in Starter \cup {Board}
  BY FileTyped, PidIs
<1>b. NoPid \in Pid \cup {NoPid} /\ spc \in [Starter -> StarterSteps] /\ dpc \in [Starter -> {"none", "booting", "dead"} \cup Ticking]
  BY DEF TypeOK
<1>1. ASSUME NEW s \in Starter, Begin(s) PROVE FileShape'
  BY <1>1, <1>0, <1>a, <1>b DEF Begin, StartTo
<1>2. ASSUME NEW s \in Starter, Acquire(s) PROVE FileShape'
  <2>1. StarterPid(s) \in Pid /\ StarterPid(s).role = "starter" /\ StarterPid(s).who \in {s, Board}
    BY PidFacts
  <2>2. CASE Create(StarterPid(s)) /\ StartTo(s, "spawn")
    <3>1. file' # NoFile /\ file'.pid = StarterPid(s) /\ file'.inFlight = NoPid
      BY <2>1, <2>2, CreateStep
    <3>2. spc'[s] = "spawn"
      BY <2>2, <1>b DEF StartTo
    <3>3. QED
      BY <2>1, <3>1, <3>2
  <2>3. CASE file # NoFile /\ UNCHANGED file
    BY <1>2, <1>0, <1>a, <2>3 DEF Acquire
  <2>4. QED
    BY <1>2, <2>2, <2>3 DEF Acquire
<1>3. ASSUME NEW s \in Starter, AcquireBusy(s) PROVE FileShape'
  BY <1>3, <1>0, <1>a, <1>b DEF AcquireBusy, StartTo
<1>4. ASSUME NEW s \in Starter, Refuse(s) PROVE FileShape'
  BY <1>4, <1>0, <1>a, <1>b DEF Refuse, StartTo
<1>5. ASSUME NEW s \in Starter, JudgeStale(s) PROVE FileShape'
  BY <1>5, <1>0, <1>a, <1>b DEF JudgeStale, StartTo
<1>6. ASSUME NEW s \in Starter, Waited(s) PROVE FileShape'
  BY <1>6, <1>0, <1>a, <1>b DEF Waited, StartTo
<1>7. ASSUME NEW s \in Starter, FinalCheck(s) PROVE FileShape'
  BY <1>7, <1>0, <1>a, <1>b DEF FinalCheck, StartTo
<1>8. ASSUME NEW s \in Starter, Release(s) PROVE FileShape'
  BY <1>8, <1>0, <1>a, <1>b DEF Release, StartTo
<1>9. ASSUME NEW s \in Starter, Reacquire(s) PROVE FileShape'
  <2>1. StarterPid(s) \in Pid /\ StarterPid(s).role = "starter" /\ StarterPid(s).who \in {s, Board}
    BY PidFacts
  <2>2. CASE Create(StarterPid(s)) /\ StartTo(s, "spawn")
    <3>1. file' # NoFile /\ file'.pid = StarterPid(s) /\ file'.inFlight = NoPid
      BY <2>1, <2>2, CreateStep
    <3>2. spc'[s] = "spawn"
      BY <2>2, <1>b DEF StartTo
    <3>3. QED
      BY <2>1, <3>1, <3>2
  <2>3. CASE file # NoFile /\ UNCHANGED file
    BY <1>9, <1>0, <1>a, <2>3 DEF Reacquire
  <2>4. QED
    BY <1>9, <2>2, <2>3 DEF Reacquire
<1>10. ASSUME NEW s \in Starter, Spawn(s) PROVE FileShape'
  BY <1>10, <1>0, <1>a, <1>b DEF Spawn, DaemonTo, StartTo
<1>11. ASSUME NEW s \in Starter, SpawnThrows(s) PROVE FileShape'
  BY <1>11, <1>0, <1>a, <1>b DEF SpawnThrows, StartTo
<1>12. ASSUME NEW s \in Starter, Confirm(s) PROVE FileShape'
  BY <1>12, <1>0, <1>a, <1>b DEF Confirm, StartTo
<1>13. ASSUME NEW s \in Starter, Boot(s) PROVE FileShape'
  <2>1. DaemonPid(s) \in Pid /\ DaemonPid(s).role = "daemon" /\ DaemonPid(s).who = s
    BY PidFacts
  <2>2. dpc'[s] = "ready"
    BY <1>13, <1>b DEF Boot, DaemonTo
  <2>3. file # NoFile => file' # NoFile /\ file'.pid = DaemonPid(s) /\ file'.inFlight = file.inFlight
    BY <1>13, <2>1, HeartbeatStep DEF Boot
  <2>4. file = NoFile => file' = NoFile
    BY <1>13, <2>1, HeartbeatStep DEF Boot
  <2>5. QED
    BY <2>1, <2>2, <2>3, <2>4
<1>14. ASSUME NEW s \in Starter, Beat(s) PROVE FileShape'
  BY <1>14, <1>0, <1>a, <1>b, HeartbeatStep DEF Beat
<1>15. ASSUME NEW s \in Starter, SpawnRun(s) PROVE FileShape'
  BY <1>15, <1>0, <1>a, <1>b DEF SpawnRun, DaemonTo
<1>16. ASSUME NEW s \in Starter, NoteInFlight(s) PROVE FileShape'
  BY <1>16, <1>0, <1>a, <1>b, InFlightStep, PidFacts DEF NoteInFlight, DaemonTo
<1>17. ASSUME NEW s \in Starter, Reap(s) PROVE FileShape'
  BY <1>17, <1>0, <1>a, <1>b, InFlightStep DEF Reap, DaemonTo
<1>18. ASSUME NEW s \in Starter, RunExits(s) PROVE FileShape'
  BY <1>18, <1>0, <1>a, <1>b DEF RunExits
<1>19. ASSUME NEW s \in Starter, DaemonCrash(s) PROVE FileShape'
  BY <1>19, <1>0, <1>a, <1>b DEF DaemonCrash, DaemonTo
<1>20. ASSUME NEW x \in Stopper, NEW board \in BOOLEAN, ReadPidfile(x, board) PROVE FileShape'
  BY <1>20, <1>0, <1>a, <1>b DEF ReadPidfile, StopTo
<1>21. ASSUME NEW x \in Stopper, KillTarget(x) PROVE FileShape'
  BY <1>21, <1>0, <1>a, <1>b DEF KillTarget, StopTo, Dies
<1>22. ASSUME NEW x \in Stopper, Survives(x) PROVE FileShape'
  BY <1>22, <1>0, <1>a, <1>b DEF Survives, StopTo
<1>23. ASSUME NEW x \in Stopper, Reread(x) PROVE FileShape'
  BY <1>23, <1>0, <1>a, <1>b DEF Reread, StopTo
<1>24. ASSUME NEW x \in Stopper, KillChild(x) PROVE FileShape'
  BY <1>24, <1>0, <1>a, <1>b DEF KillChild, StopTo, Dies
<1>25. ASSUME NEW x \in Stopper, Unlink(x) PROVE FileShape'
  BY <1>25, <1>0, <1>a, <1>b DEF Unlink, StopTo
<1>26. ASSUME AgeOut PROVE FileShape'
  BY <1>26, <1>0, <1>a, <1>b, AgeOutStep DEF AgeOut
<1>27. CASE UNCHANGED vars
  BY <1>27, <1>0, <1>a, <1>b DEF vars
<1>. QED
  BY <1>1, <1>2, <1>3, <1>4, <1>5, <1>6, <1>7, <1>8, <1>9, <1>10, <1>11,
     <1>12, <1>13, <1>14, <1>15, <1>16, <1>17, <1>18, <1>19, <1>20, <1>21,
     <1>22, <1>23, <1>24, <1>25, <1>26, <1>27 DEF Next, Start, Daemon, Stop

LEMMA StopShapeKept == ASSUME Shape, [Next]_vars PROVE StopShape'
<1> USE DEF Shape, StopShape, stopVars, Ticking, Engaged
<1>0. \A r \in Starter : dpc[r] \in Ticking \cup {"dead"} => dpc'[r] \in Ticking \cup {"dead"}
  BY DaemonForward
<1>a. file # NoFile => file.pid \in Pid /\ file.inFlight \in Pid \cup {NoPid}
  BY FileTyped
<1>t. /\ tpc \in [Stopper -> StopperSteps] /\ target \in [Stopper -> Pid \cup {NoPid}]
      /\ child \in [Stopper -> Pid \cup {NoPid}] /\ onBoard \subseteq Stopper
  BY DEF TypeOK
<1>1. ASSUME NEW s \in Starter, Begin(s) PROVE StopShape'
  BY <1>1, <1>0, <1>a, <1>t DEF Begin, StartTo
<1>2. ASSUME NEW s \in Starter, Acquire(s) PROVE StopShape'
  BY <1>2, <1>0, <1>a, <1>t DEF Acquire, StartTo
<1>3. ASSUME NEW s \in Starter, AcquireBusy(s) PROVE StopShape'
  BY <1>3, <1>0, <1>a, <1>t DEF AcquireBusy, StartTo
<1>4. ASSUME NEW s \in Starter, Refuse(s) PROVE StopShape'
  BY <1>4, <1>0, <1>a, <1>t DEF Refuse, StartTo
<1>5. ASSUME NEW s \in Starter, JudgeStale(s) PROVE StopShape'
  BY <1>5, <1>0, <1>a, <1>t DEF JudgeStale, StartTo
<1>6. ASSUME NEW s \in Starter, Waited(s) PROVE StopShape'
  BY <1>6, <1>0, <1>a, <1>t DEF Waited, StartTo
<1>7. ASSUME NEW s \in Starter, FinalCheck(s) PROVE StopShape'
  BY <1>7, <1>0, <1>a, <1>t DEF FinalCheck, StartTo
<1>8. ASSUME NEW s \in Starter, Release(s) PROVE StopShape'
  BY <1>8, <1>0, <1>a, <1>t DEF Release, StartTo
<1>9. ASSUME NEW s \in Starter, Reacquire(s) PROVE StopShape'
  BY <1>9, <1>0, <1>a, <1>t DEF Reacquire, StartTo
<1>10. ASSUME NEW s \in Starter, Spawn(s) PROVE StopShape'
  BY <1>10, <1>0, <1>a, <1>t DEF Spawn, DaemonTo, StartTo
<1>11. ASSUME NEW s \in Starter, SpawnThrows(s) PROVE StopShape'
  BY <1>11, <1>0, <1>a, <1>t DEF SpawnThrows, StartTo
<1>12. ASSUME NEW s \in Starter, Confirm(s) PROVE StopShape'
  BY <1>12, <1>0, <1>a, <1>t DEF Confirm, StartTo
<1>13. ASSUME NEW s \in Starter, Boot(s) PROVE StopShape'
  BY <1>13, <1>0, <1>a, <1>t DEF Boot, DaemonTo
<1>14. ASSUME NEW s \in Starter, Beat(s) PROVE StopShape'
  BY <1>14, <1>0, <1>a, <1>t DEF Beat
<1>15. ASSUME NEW s \in Starter, SpawnRun(s) PROVE StopShape'
  BY <1>15, <1>0, <1>a, <1>t DEF SpawnRun, DaemonTo
<1>16. ASSUME NEW s \in Starter, NoteInFlight(s) PROVE StopShape'
  BY <1>16, <1>0, <1>a, <1>t DEF NoteInFlight, DaemonTo
<1>17. ASSUME NEW s \in Starter, Reap(s) PROVE StopShape'
  BY <1>17, <1>0, <1>a, <1>t DEF Reap, DaemonTo
<1>18. ASSUME NEW s \in Starter, RunExits(s) PROVE StopShape'
  BY <1>18, <1>0, <1>a, <1>t DEF RunExits
<1>19. ASSUME NEW s \in Starter, DaemonCrash(s) PROVE StopShape'
  BY <1>19, <1>0, <1>a, <1>t DEF DaemonCrash, DaemonTo
<1>20. ASSUME NEW x \in Stopper, NEW board \in BOOLEAN, ReadPidfile(x, board) PROVE StopShape'
  <2>1. CASE file = NoFile
    BY <1>20, <1>0, <1>t, <2>1 DEF ReadPidfile, StopTo
  <2>2. CASE file # NoFile
    <3>1. /\ tpc' = [tpc EXCEPT ![x] = IF board /\ file.pid = BoardPid THEN "stale" ELSE "kill"]
          /\ target' = [target EXCEPT ![x] = file.pid] /\ child' = child /\ dpc' = dpc
          /\ onBoard' = IF board THEN onBoard \cup {x} ELSE onBoard
          /\ tpc[x] = "idle"
      BY <1>20, <2>2 DEF ReadPidfile, StopTo
    <3>2. QED
      BY <1>0, <1>a, <1>t, <2>2, <3>1 DEF FileShape
  <2>3. QED
    BY <2>1, <2>2
<1>21. ASSUME NEW x \in Stopper, KillTarget(x) PROVE StopShape'
  BY <1>21, <1>0, <1>a, <1>t DEF KillTarget, StopTo, Dies
<1>22. ASSUME NEW x \in Stopper, Survives(x) PROVE StopShape'
  BY <1>22, <1>0, <1>a, <1>t DEF Survives, StopTo
<1>23. ASSUME NEW x \in Stopper, Reread(x) PROVE StopShape'
  <2>1. /\ tpc' = [tpc EXCEPT ![x] = IF file # NoFile /\ file.inFlight # NoPid THEN "killChild" ELSE "release"]
        /\ child' = [child EXCEPT ![x] = IF file = NoFile THEN NoPid ELSE file.inFlight]
        /\ UNCHANGED <<target, dpc, onBoard>> /\ tpc[x] = "reread"
    BY <1>23 DEF Reread, StopTo
  <2>2. QED
    BY <1>0, <1>a, <1>t, <2>1 DEF FileShape
<1>24. ASSUME NEW x \in Stopper, KillChild(x) PROVE StopShape'
  BY <1>24, <1>0, <1>a, <1>t DEF KillChild, StopTo, Dies
<1>25. ASSUME NEW x \in Stopper, Unlink(x) PROVE StopShape'
  BY <1>25, <1>0, <1>a, <1>t DEF Unlink, StopTo
<1>26. ASSUME AgeOut PROVE StopShape'
  BY <1>26, <1>0, <1>a, <1>t DEF AgeOut
<1>27. CASE UNCHANGED vars
  BY <1>27, <1>0, <1>a, <1>t DEF vars
<1>. QED
  BY <1>1, <1>2, <1>3, <1>4, <1>5, <1>6, <1>7, <1>8, <1>9, <1>10, <1>11,
     <1>12, <1>13, <1>14, <1>15, <1>16, <1>17, <1>18, <1>19, <1>20, <1>21,
     <1>22, <1>23, <1>24, <1>25, <1>26, <1>27 DEF Next, Start, Daemon, Stop

(* The recorded causes only grow. *)
LEMMA CausesGrow == ASSUME [Next]_vars PROVE causes \subseteq causes'
<1> USE DEF stopVars
<1>1. ASSUME NEW s \in Starter, Begin(s) PROVE causes \subseteq causes'
  BY <1>1 DEF Begin, StartTo
<1>2. ASSUME NEW s \in Starter, Acquire(s) PROVE causes \subseteq causes'
  BY <1>2 DEF Acquire, StartTo
<1>3. ASSUME NEW s \in Starter, AcquireBusy(s) PROVE causes \subseteq causes'
  BY <1>3 DEF AcquireBusy, StartTo
<1>4. ASSUME NEW s \in Starter, Refuse(s) PROVE causes \subseteq causes'
  BY <1>4 DEF Refuse, StartTo
<1>5. ASSUME NEW s \in Starter, JudgeStale(s) PROVE causes \subseteq causes'
  BY <1>5 DEF JudgeStale, StartTo
<1>6. ASSUME NEW s \in Starter, Waited(s) PROVE causes \subseteq causes'
  BY <1>6 DEF Waited, StartTo
<1>7. ASSUME NEW s \in Starter, FinalCheck(s) PROVE causes \subseteq causes'
  BY <1>7 DEF FinalCheck, StartTo
<1>8. ASSUME NEW s \in Starter, Release(s) PROVE causes \subseteq causes'
  BY <1>8 DEF Release, StartTo
<1>9. ASSUME NEW s \in Starter, Reacquire(s) PROVE causes \subseteq causes'
  BY <1>9 DEF Reacquire, StartTo
<1>10. ASSUME NEW s \in Starter, Spawn(s) PROVE causes \subseteq causes'
  BY <1>10 DEF Spawn, DaemonTo, StartTo
<1>11. ASSUME NEW s \in Starter, SpawnThrows(s) PROVE causes \subseteq causes'
  BY <1>11 DEF SpawnThrows, StartTo
<1>12. ASSUME NEW s \in Starter, Confirm(s) PROVE causes \subseteq causes'
  BY <1>12 DEF Confirm, StartTo
<1>13. ASSUME NEW s \in Starter, Boot(s) PROVE causes \subseteq causes'
  BY <1>13 DEF Boot, DaemonTo
<1>14. ASSUME NEW s \in Starter, Beat(s) PROVE causes \subseteq causes'
  BY <1>14 DEF Beat
<1>15. ASSUME NEW s \in Starter, SpawnRun(s) PROVE causes \subseteq causes'
  BY <1>15 DEF SpawnRun, DaemonTo
<1>16. ASSUME NEW s \in Starter, NoteInFlight(s) PROVE causes \subseteq causes'
  BY <1>16 DEF NoteInFlight, DaemonTo
<1>17. ASSUME NEW s \in Starter, Reap(s) PROVE causes \subseteq causes'
  BY <1>17 DEF Reap, DaemonTo
<1>18. ASSUME NEW s \in Starter, RunExits(s) PROVE causes \subseteq causes'
  BY <1>18 DEF RunExits
<1>19. ASSUME NEW s \in Starter, DaemonCrash(s) PROVE causes \subseteq causes'
  BY <1>19 DEF DaemonCrash, DaemonTo
<1>20. ASSUME NEW x \in Stopper, NEW board \in BOOLEAN, ReadPidfile(x, board) PROVE causes \subseteq causes'
  BY <1>20 DEF ReadPidfile, StopTo
<1>21. ASSUME NEW x \in Stopper, KillTarget(x) PROVE causes \subseteq causes'
  BY <1>21 DEF KillTarget, StopTo, Dies
<1>22. ASSUME NEW x \in Stopper, Survives(x) PROVE causes \subseteq causes'
  BY <1>22 DEF Survives, StopTo
<1>23. ASSUME NEW x \in Stopper, Reread(x) PROVE causes \subseteq causes'
  BY <1>23 DEF Reread, StopTo
<1>24. ASSUME NEW x \in Stopper, KillChild(x) PROVE causes \subseteq causes'
  BY <1>24 DEF KillChild, StopTo, Dies
<1>25. ASSUME NEW x \in Stopper, Unlink(x) PROVE causes \subseteq causes'
  BY <1>25 DEF Unlink, StopTo
<1>26. ASSUME AgeOut PROVE causes \subseteq causes'
  BY <1>26 DEF AgeOut
<1>27. CASE UNCHANGED vars
  BY <1>27 DEF vars
<1>. QED
  BY <1>1, <1>2, <1>3, <1>4, <1>5, <1>6, <1>7, <1>8, <1>9, <1>10, <1>11,
     <1>12, <1>13, <1>14, <1>15, <1>16, <1>17, <1>18, <1>19, <1>20, <1>21,
     <1>22, <1>23, <1>24, <1>25, <1>26, <1>27 DEF Next, Start, Daemon, Stop

----------------------------------------------------------------------------
(* The steps that remove the pidfile do so, without a recorded cause, when  *)
(* nobody has it.                                                           *)
LEMMA ReleaseStep ==
  ASSUME Shape, Clear, NEW s \in Starter, Release(s), Clean'
  PROVE  Holders = {} /\ ~Interrupted
<1>1. ~Changed(s) /\ Booted = {} /\ LiveDaemons = Booted /\ ~Interrupted
  BY DEF Release, Clean
<1>2. CASE file = NoFile
  BY <1>1, <1>2 DEF Clear, Held, Holders
<1>3. CASE file # NoFile
  <2>1. s \in same /\ spc[s] = "release"
    BY <1>1, <1>3 DEF Changed, Release
  <2>2. \A r \in Starter : spc[r] # "spawn"
    BY <1>3, <2>1 DEF Clear, JudgedStale
  <2>3. QED
    BY <1>1, <2>2 DEF Holders
<1>4. QED
  BY <1>1, <1>2, <1>3

LEMMA ConfirmStep ==
  ASSUME Shape, Clear, NEW s \in Starter, Confirm(s), s \notin LiveDaemons, Clean'
  PROVE  Holders = {} /\ ~Interrupted /\ file' = NoFile
<1>1. ~Anothers(s) /\ ~Interrupted /\ spc[s] = "confirm" /\ file' = NoFile
  BY DEF Confirm, Clean
<1>2. SUFFICES ASSUME NEW r \in Holders PROVE FALSE
  BY <1>1
<1>3. r \in Starter /\ r # s
  BY <1>1, <1>2 DEF Holders
<1>4. file # NoFile /\ file.pid \in {StarterPid(r), DaemonPid(r)}
  BY <1>2 DEF Clear, Held, Holders, LiveDaemons
<1>5. CASE spc[r] = "spawn" \/ dpc[r] = "booting"
  BY <1>1, <1>3, <1>4, <1>5 DEF Anothers, Clear, Held
<1>6. CASE dpc[r] \in Ticking
  <2>1. file.pid = DaemonPid(r)
    BY <1>3, <1>6 DEF Clear, Held
  <2>2. file.pid \in {StarterPid(s), DaemonPid(s)}
    BY <1>1, <1>4 DEF Anothers
  <2>3. QED
    BY <1>3, <2>1, <2>2, PidFacts
<1>7. QED
  BY <1>2, <1>5, <1>6 DEF Holders, LiveDaemons

LEMMA UnlinkStep ==
  ASSUME Shape, Clear, NEW x \in Stopper, Unlink(x), Clean'
  PROVE  Holders = {} /\ (file # NoFile => file.pid = target[x])
<1>1. file # NoFile => file.pid = target[x]
  BY DEF Unlink, Clean
<1>2. target[x].role = "daemon" /\ dpc[target[x].who] = "dead"
  BY DEF Unlink, Clear, StopSees, PastKill
<1>3. SUFFICES ASSUME NEW r \in Holders PROVE FALSE
  BY <1>1
<1>4. CASE dpc[r] \in Ticking
  BY <1>1, <1>2, <1>3, <1>4, PidFacts DEF Clear, Held, Holders, Ticking
<1>5. CASE spc[r] = "spawn" \/ dpc[r] = "booting"
  BY <1>1, <1>2, <1>3, <1>5, PidFacts DEF Clear, Held, Holders
<1>6. QED
  BY <1>3, <1>4, <1>5 DEF Holders, LiveDaemons

(* What the signals of a stop do. *)
LEMMA NobodyElseDies ==
  ASSUME TypeOK, NEW p \in Pid, p.role # "starter", Dies(p)
  PROVE  spc' = spc /\ boardUp' = boardUp
<1>1. \A s \in Starter : StarterPid(s) # p
  BY PidFacts
<1>2. p # BoardPid
  BY DEF BoardPid
<1>3. QED
  BY <1>1, <1>2 DEF Dies, TypeOK

LEMMA KillStep ==
  ASSUME Shape, NEW x \in Stopper, KillTarget(x), Clean'
  PROVE  /\ target[x] \in Pid /\ target[x].role = "daemon" /\ target[x].who \in Starter
         /\ dpc[target[x].who] \in {"ready", "waiting", "dead"}
         /\ dpc' = [dpc EXCEPT ![target[x].who] = "dead"]
         /\ tpc[x] = "kill" /\ tpc' = [tpc EXCEPT ![x] = "reread"]
         /\ UNCHANGED <<file, same, spc, running, boardUp, onBoard, target, child, before>>
<1>1. /\ target[x] \in Pid /\ target[x].role \in {"starter", "daemon"}
      /\ target[x].role = "daemon" =>
           target[x].who \in Starter /\ dpc[target[x].who] \in Ticking \cup {"dead"}
  BY DEF KillTarget, Shape, StopShape, Engaged
<1>2. target[x].role # "starter" /\ (target[x].role = "daemon" => dpc[target[x].who] # "spawned")
  BY DEF KillTarget, Clean
<1>3. Dies(target[x])
  BY DEF KillTarget
<1>4. spc' = spc /\ boardUp' = boardUp
  BY <1>1, <1>2, <1>3, NobodyElseDies DEF Shape
<1>5. running' = running /\ dpc' = [dpc EXCEPT ![target[x].who] = "dead"]
  BY <1>1, <1>2, <1>3 DEF Dies
<1>6. QED
  BY <1>1, <1>2, <1>4, <1>5 DEF KillTarget, StopTo, Ticking

LEMMA KillChildStep ==
  ASSUME Shape, NEW x \in Stopper, KillChild(x)
  PROVE  /\ running' = running \ {child[x].who}
         /\ tpc[x] = "killChild" /\ tpc' = [tpc EXCEPT ![x] = "release"]
         /\ UNCHANGED <<file, same, spc, dpc, boardUp, onBoard, target, child, before, causes>>
<1>1. child[x] \in Pid /\ child[x].role = "run" /\ Dies(child[x])
  BY DEF KillChild, Shape, StopShape
<1>2. spc' = spc /\ boardUp' = boardUp
  BY <1>1, NobodyElseDies DEF Shape
<1>3. running' = running \ {child[x].who} /\ dpc' = dpc
  BY <1>1 DEF Dies
<1>4. QED
  BY <1>2, <1>3 DEF KillChild, StopTo

LEMMA HeldKept == ASSUME Shape, Clear, [Next]_vars, Clean' PROVE Held'
<1> USE DEF Clear, Held, Holders, LiveDaemons, Ticking, stopVars
<1>t. spc \in [Starter -> StarterSteps] /\ dpc \in [Starter -> {"none", "booting", "dead"} \cup Ticking]
  BY DEF Shape, TypeOK
<1>d. \A s \in Starter : dpc[s] # "none" => spc[s] \in StarterEnds \cup {"confirm"}
  BY DEF Shape, DaemonShape
<1>a. TypeOK /\ (file # NoFile => file.pid \in Pid)
  BY FileTyped DEF Shape
<1>1. ASSUME NEW s \in Starter, Begin(s) PROVE Held'
  BY <1>1, <1>t DEF Begin, StartTo
<1>2. ASSUME NEW s \in Starter, Acquire(s) PROVE Held'
  <2>1. CASE Create(StarterPid(s)) /\ file = NoFile
    <3>1. file' # NoFile /\ file'.pid = StarterPid(s) /\ file'.aged = FALSE
      BY <2>1, PidFacts, CreateStep
    <3>2. spc' = [spc EXCEPT ![s] = "spawn"] /\ dpc' = dpc
      BY <1>2, <2>1 DEF Acquire, StartTo
    <3>3. QED
      BY <2>1, <3>1, <3>2
  <2>2. CASE file # NoFile
    BY <1>2, <1>t, <2>2 DEF Acquire, StartTo
  <2>3. QED
    BY <1>2, <2>1, <2>2 DEF Acquire
<1>3. ASSUME NEW s \in Starter, AcquireBusy(s) PROVE Held'
  BY <1>3, <1>t DEF AcquireBusy, StartTo
<1>4. ASSUME NEW s \in Starter, Refuse(s) PROVE Held'
  BY <1>4, <1>t DEF Refuse, StartTo
<1>5. ASSUME NEW s \in Starter, JudgeStale(s) PROVE Held'
  BY <1>5, <1>t DEF JudgeStale, StartTo
<1>6. ASSUME NEW s \in Starter, Waited(s) PROVE Held'
  BY <1>6, <1>t DEF Waited, StartTo
<1>7. ASSUME NEW s \in Starter, FinalCheck(s) PROVE Held'
  BY <1>7, <1>t DEF FinalCheck, StartTo
<1>8. ASSUME NEW s \in Starter, Release(s) PROVE Held'
  <2>1. Holders = {}
    BY <1>8, ReleaseStep
  <2>2. QED
    BY <1>8, <2>1 DEF Release, StartTo, StopTo
<1>9. ASSUME NEW s \in Starter, Reacquire(s) PROVE Held'
  <2>1. CASE Create(StarterPid(s)) /\ file = NoFile
    <3>1. file' # NoFile /\ file'.pid = StarterPid(s) /\ file'.aged = FALSE
      BY <2>1, PidFacts, CreateStep
    <3>2. spc' = [spc EXCEPT ![s] = "spawn"] /\ dpc' = dpc
      BY <1>9, <2>1 DEF Reacquire, StartTo
    <3>3. QED
      BY <2>1, <3>1, <3>2
  <2>2. CASE file # NoFile
    BY <1>9, <1>t, <2>2 DEF Reacquire, StartTo
  <2>3. QED
    BY <1>9, <2>1, <2>2 DEF Reacquire
<1>10. ASSUME NEW s \in Starter, Spawn(s) PROVE Held'
  BY <1>10, <1>t, <1>d DEF Spawn, DaemonTo, StartTo
<1>11. ASSUME NEW s \in Starter, SpawnThrows(s) PROVE Held'
  <2>1. spc' = [spc EXCEPT ![s] = "failed"] /\ dpc' = dpc /\ dpc[s] = "none"
    BY <1>11, <1>t, <1>d DEF SpawnThrows, StartTo, StarterEnds
  <2>2. \A r \in Holders : r = s
    BY <1>11 DEF SpawnThrows
  <2>3. QED
    BY <1>t, <2>1, <2>2
<1>12. ASSUME NEW s \in Starter, Confirm(s) PROVE Held'
  <2>1. CASE s \in LiveDaemons
    BY <1>12, <1>t, <2>1 DEF Confirm, StartTo
  <2>2. CASE s \notin LiveDaemons
    <3>1. Holders = {}
      BY <1>12, <2>2, ConfirmStep
    <3>2. dpc' = dpc /\ spc' = [spc EXCEPT ![s] = "failed"]
      BY <1>12, <2>2 DEF Confirm, StartTo
    <3>3. QED
      BY <1>t, <3>1, <3>2
  <2>3. QED
    BY <2>1, <2>2
<1>13. ASSUME NEW s \in Starter, Boot(s) PROVE Held'
  <2>1. file # NoFile /\ \A r \in Holders : r = s
    BY <1>13 DEF Boot
  <2>2. file' # NoFile /\ file'.pid = DaemonPid(s)
    BY <1>13, <1>a, <2>1, PidFacts, HeartbeatStep DEF Boot
  <2>3. dpc' = [dpc EXCEPT ![s] = "ready"] /\ spc' = spc
    BY <1>13 DEF Boot, DaemonTo
  <2>4. spc[s] # "spawn"
    BY <1>13, <1>d DEF Boot, StarterEnds
  <2>5. QED
    BY <1>t, <2>1, <2>2, <2>3, <2>4
<1>14. ASSUME NEW s \in Starter, Beat(s) PROVE Held'
  <2>1. /\ file # NoFile /\ file' # NoFile /\ file'.pid = file.pid
        /\ file'.aged = FALSE /\ file'.inFlight = file.inFlight
    BY <1>14, <1>a, HeartbeatStep DEF Beat
  <2>2. dpc' = dpc /\ spc' = spc
    BY <1>14 DEF Beat
  <2>3. QED
    BY <2>1, <2>2
<1>15. ASSUME NEW s \in Starter, SpawnRun(s) PROVE Held'
  BY <1>15, <1>t DEF SpawnRun, DaemonTo
<1>16. ASSUME NEW s \in Starter, NoteInFlight(s) PROVE Held'
  <2>1. file # NoFile /\ \A r \in Holders : r = s
    BY <1>16 DEF NoteInFlight
  <2>2. /\ file' # NoFile /\ file'.pid = file.pid /\ file'.aged = file.aged
        /\ file'.inFlight = RunPid(s)
    BY <1>16, <1>a, <2>1, PidFacts, InFlightStep DEF NoteInFlight
  <2>3. dpc' = [dpc EXCEPT ![s] = "waiting"] /\ spc' = spc /\ dpc[s] = "spawned"
    BY <1>16 DEF NoteInFlight, DaemonTo
  <2>4. QED
    BY <1>t, <2>1, <2>2, <2>3
<1>17. ASSUME NEW s \in Starter, Reap(s) PROVE Held'
  <2>1. file # NoFile /\ \A r \in Holders : r = s
    BY <1>17 DEF Reap
  <2>2. file' # NoFile /\ file'.pid = file.pid /\ file'.aged = file.aged
    BY <1>17, <1>a, <2>1, InFlightStep DEF Reap
  <2>3. dpc' = [dpc EXCEPT ![s] = "ready"] /\ spc' = spc /\ dpc[s] = "waiting"
    BY <1>17 DEF Reap, DaemonTo
  <2>4. QED
    BY <1>t, <2>1, <2>2, <2>3
<1>18. ASSUME NEW s \in Starter, RunExits(s) PROVE Held'
  BY <1>18, <1>t DEF RunExits
<1>19. ASSUME NEW s \in Starter, DaemonCrash(s) PROVE Held'
  BY <1>19, <1>t DEF DaemonCrash, DaemonTo
<1>20. ASSUME NEW x \in Stopper, NEW board \in BOOLEAN, ReadPidfile(x, board) PROVE Held'
  BY <1>20, <1>t DEF ReadPidfile, StopTo
<1>21. ASSUME NEW x \in Stopper, KillTarget(x) PROVE Held'
  <2>1. /\ UNCHANGED <<file, spc>>
        /\ dpc' = [dpc EXCEPT ![target[x].who] = "dead"]
    BY <1>21, KillStep
  <2>2. QED
    BY <1>t, <2>1
<1>22. ASSUME NEW x \in Stopper, Survives(x) PROVE Held'
  BY <1>22, <1>t DEF Survives, StopTo
<1>23. ASSUME NEW x \in Stopper, Reread(x) PROVE Held'
  BY <1>23, <1>t DEF Reread, StopTo
<1>24. ASSUME NEW x \in Stopper, KillChild(x) PROVE Held'
  <2>1. UNCHANGED <<file, spc, dpc>>
    BY <1>24, KillChildStep
  <2>2. QED
    BY <2>1
<1>25. ASSUME NEW x \in Stopper, Unlink(x) PROVE Held'
  <2>1. Holders = {}
    BY <1>25, UnlinkStep
  <2>2. QED
    BY <1>25, <2>1 DEF Unlink, StartTo, StopTo
<1>26. ASSUME AgeOut PROVE Held'
  <2>1. /\ file # NoFile /\ file' # NoFile
        /\ file'.pid = file.pid /\ file'.inFlight = file.inFlight
    BY <1>26, <1>a, AgeOutStep
  <2>2. dpc' = dpc /\ spc' = spc /\ \A r \in Starter : spc[r] # "spawn"
    BY <1>26 DEF AgeOut
  <2>3. QED
    BY <2>1, <2>2
<1>27. CASE UNCHANGED vars
  BY <1>27, <1>t DEF vars
<1>. QED
  BY <1>1, <1>2, <1>3, <1>4, <1>5, <1>6, <1>7, <1>8, <1>9, <1>10, <1>11,
     <1>12, <1>13, <1>14, <1>15, <1>16, <1>17, <1>18, <1>19, <1>20, <1>21,
     <1>22, <1>23, <1>24, <1>25, <1>26, <1>27 DEF Next, Start, Daemon, Stop

LEMMA JudgedStaleKept == ASSUME Shape, Clear, [Next]_vars, Clean' PROVE JudgedStale'
<1> USE DEF JudgedStale, stopVars
<1>t. /\ spc \in [Starter -> StarterSteps] /\ file \in Pidfile \cup {NoFile} /\ same \subseteq Starter
      /\ JudgedStale
  BY DEF Shape, TypeOK, Clear
<1>a. TypeOK /\ (file # NoFile => file.pid \in Pid)
  BY FileTyped DEF Shape
<1>1. ASSUME NEW s \in Starter, Begin(s) PROVE JudgedStale'
  BY <1>1, <1>t DEF Begin, StartTo
<1>2. ASSUME NEW s \in Starter, Acquire(s) PROVE JudgedStale'
  <2>1. same' = {}
    BY <1>2 DEF Acquire, Create
  <2>2. QED
    BY <2>1
<1>3. ASSUME NEW s \in Starter, AcquireBusy(s) PROVE JudgedStale'
  BY <1>3, <1>t DEF AcquireBusy, StartTo
<1>4. ASSUME NEW s \in Starter, Refuse(s) PROVE JudgedStale'
  BY <1>4, <1>t DEF Refuse, StartTo
<1>5. ASSUME NEW s \in Starter, JudgeStale(s) PROVE JudgedStale'
  <2>1. CASE file = NoFile
    BY <1>5, <2>1 DEF JudgeStale
  <2>2. CASE file # NoFile
    <3>1. SUFFICES \A r \in Starter : spc[r] # "spawn"
      BY <1>5, <1>t DEF JudgeStale, StartTo
    <3>2. SUFFICES ASSUME NEW r \in Starter, spc[r] = "spawn" PROVE FALSE
      OBVIOUS
    <3>3. file.pid = StarterPid(r) /\ ~file.aged
      BY <3>2 DEF Clear, Held
    <3>4. Alive(file.pid)
      <4>1. CASE r \in BoardStart
        BY <3>3, <4>1, PidFacts DEF Alive, Clear
      <4>2. CASE r \notin BoardStart
        <5>1. file.pid # BoardPid /\ file.pid.role = "starter" /\ file.pid.who = r
          BY <3>3, <4>2, PidFacts
        <5>2. QED
          BY <3>2, <5>1 DEF Alive, StarterEnds
      <4>3. QED
        BY <4>1, <4>2
    <3>5. QED
      BY <1>5, <2>2, <3>3, <3>4 DEF JudgeStale, IsStale
  <2>3. QED
    BY <2>1, <2>2
<1>6. ASSUME NEW s \in Starter, Waited(s) PROVE JudgedStale'
  BY <1>6, <1>t DEF Waited, StartTo
<1>7. ASSUME NEW s \in Starter, FinalCheck(s) PROVE JudgedStale'
  BY <1>7, <1>t DEF FinalCheck, StartTo
<1>8. ASSUME NEW s \in Starter, Release(s) PROVE JudgedStale'
  BY <1>8, <1>t DEF Release, StartTo
<1>9. ASSUME NEW s \in Starter, Reacquire(s) PROVE JudgedStale'
  <2>1. CASE Create(StarterPid(s))
    BY <2>1 DEF Create
  <2>2. CASE ~Create(StarterPid(s))
    BY <1>9, <1>t, <2>2 DEF Reacquire, StartTo
  <2>3. QED
    BY <2>1, <2>2
<1>10. ASSUME NEW s \in Starter, Spawn(s) PROVE JudgedStale'
  BY <1>10, <1>t DEF Spawn, DaemonTo, StartTo
<1>11. ASSUME NEW s \in Starter, SpawnThrows(s) PROVE JudgedStale'
  BY <1>11, <1>t DEF SpawnThrows, StartTo
<1>12. ASSUME NEW s \in Starter, Confirm(s) PROVE JudgedStale'
  BY <1>12, <1>t DEF Confirm, StartTo
<1>13. ASSUME NEW s \in Starter, Boot(s) PROVE JudgedStale'
  <2>1. spc' = spc /\ (file = NoFile => file' = NoFile) /\ (file # NoFile => same' = {})
    BY <1>13, <1>a, PidFacts, HeartbeatStep DEF Boot
  <2>2. QED
    BY <2>1
<1>14. ASSUME NEW s \in Starter, Beat(s) PROVE JudgedStale'
  <2>1. same' = {}
    BY <1>14, <1>a, HeartbeatStep DEF Beat
  <2>2. QED
    BY <2>1
<1>15. ASSUME NEW s \in Starter, SpawnRun(s) PROVE JudgedStale'
  BY <1>15, <1>t DEF SpawnRun, DaemonTo
<1>16. ASSUME NEW s \in Starter, NoteInFlight(s) PROVE JudgedStale'
  <2>1. UNCHANGED <<spc, same>> /\ (file = NoFile => file' = NoFile)
    BY <1>16, <1>a, PidFacts, InFlightStep DEF NoteInFlight
  <2>2. QED
    BY <1>t, <2>1
<1>17. ASSUME NEW s \in Starter, Reap(s) PROVE JudgedStale'
  <2>1. UNCHANGED <<spc, same>> /\ (file = NoFile => file' = NoFile)
    BY <1>17, <1>a, InFlightStep DEF Reap
  <2>2. QED
    BY <1>t, <2>1
<1>18. ASSUME NEW s \in Starter, RunExits(s) PROVE JudgedStale'
  BY <1>18, <1>t DEF RunExits
<1>19. ASSUME NEW s \in Starter, DaemonCrash(s) PROVE JudgedStale'
  BY <1>19, <1>t DEF DaemonCrash, DaemonTo
<1>20. ASSUME NEW x \in Stopper, NEW board \in BOOLEAN, ReadPidfile(x, board) PROVE JudgedStale'
  BY <1>20, <1>t DEF ReadPidfile, StopTo
<1>21. ASSUME NEW x \in Stopper, KillTarget(x) PROVE JudgedStale'
  <2>1. UNCHANGED <<file, same, spc>>
    BY <1>21, KillStep
  <2>2. QED
    BY <1>t, <2>1
<1>22. ASSUME NEW x \in Stopper, Survives(x) PROVE JudgedStale'
  BY <1>22, <1>t DEF Survives, StopTo
<1>23. ASSUME NEW x \in Stopper, Reread(x) PROVE JudgedStale'
  BY <1>23, <1>t DEF Reread, StopTo
<1>24. ASSUME NEW x \in Stopper, KillChild(x) PROVE JudgedStale'
  <2>1. UNCHANGED <<file, same, spc>>
    BY <1>24, KillChildStep
  <2>2. QED
    BY <1>t, <2>1
<1>25. ASSUME NEW x \in Stopper, Unlink(x) PROVE JudgedStale'
  BY <1>25, <1>t DEF Unlink, StopTo
<1>26. ASSUME AgeOut PROVE JudgedStale'
  BY <1>26, <1>t DEF AgeOut
<1>27. CASE UNCHANGED vars
  BY <1>27, <1>t DEF vars
<1>. QED
  BY <1>1, <1>2, <1>3, <1>4, <1>5, <1>6, <1>7, <1>8, <1>9, <1>10, <1>11,
     <1>12, <1>13, <1>14, <1>15, <1>16, <1>17, <1>18, <1>19, <1>20, <1>21,
     <1>22, <1>23, <1>24, <1>25, <1>26, <1>27 DEF Next, Start, Daemon, Stop

(* A start or a stop kills the board only through the pid of a placeholder. *)
LEMMA BoardUpKept == ASSUME Shape, Clear, [Next]_vars, Clean' PROVE boardUp'
<1> USE DEF Clear, stopVars
<1>1. ASSUME NEW s \in Starter, Begin(s) PROVE boardUp'
  BY <1>1 DEF Begin, StartTo
<1>2. ASSUME NEW s \in Starter, Acquire(s) PROVE boardUp'
  BY <1>2 DEF Acquire, StartTo
<1>3. ASSUME NEW s \in Starter, AcquireBusy(s) PROVE boardUp'
  BY <1>3 DEF AcquireBusy, StartTo
<1>4. ASSUME NEW s \in Starter, Refuse(s) PROVE boardUp'
  BY <1>4 DEF Refuse, StartTo
<1>5. ASSUME NEW s \in Starter, JudgeStale(s) PROVE boardUp'
  BY <1>5 DEF JudgeStale, StartTo
<1>6. ASSUME NEW s \in Starter, Waited(s) PROVE boardUp'
  BY <1>6 DEF Waited, StartTo
<1>7. ASSUME NEW s \in Starter, FinalCheck(s) PROVE boardUp'
  BY <1>7 DEF FinalCheck, StartTo
<1>8. ASSUME NEW s \in Starter, Release(s) PROVE boardUp'
  BY <1>8 DEF Release, StartTo
<1>9. ASSUME NEW s \in Starter, Reacquire(s) PROVE boardUp'
  BY <1>9 DEF Reacquire, StartTo
<1>10. ASSUME NEW s \in Starter, Spawn(s) PROVE boardUp'
  BY <1>10 DEF Spawn, DaemonTo, StartTo
<1>11. ASSUME NEW s \in Starter, SpawnThrows(s) PROVE boardUp'
  BY <1>11 DEF SpawnThrows, StartTo
<1>12. ASSUME NEW s \in Starter, Confirm(s) PROVE boardUp'
  BY <1>12 DEF Confirm, StartTo
<1>13. ASSUME NEW s \in Starter, Boot(s) PROVE boardUp'
  BY <1>13 DEF Boot, DaemonTo
<1>14. ASSUME NEW s \in Starter, Beat(s) PROVE boardUp'
  BY <1>14 DEF Beat
<1>15. ASSUME NEW s \in Starter, SpawnRun(s) PROVE boardUp'
  BY <1>15 DEF SpawnRun, DaemonTo
<1>16. ASSUME NEW s \in Starter, NoteInFlight(s) PROVE boardUp'
  BY <1>16 DEF NoteInFlight, DaemonTo
<1>17. ASSUME NEW s \in Starter, Reap(s) PROVE boardUp'
  BY <1>17 DEF Reap, DaemonTo
<1>18. ASSUME NEW s \in Starter, RunExits(s) PROVE boardUp'
  BY <1>18 DEF RunExits
<1>19. ASSUME NEW s \in Starter, DaemonCrash(s) PROVE boardUp'
  BY <1>19 DEF DaemonCrash, DaemonTo
<1>20. ASSUME NEW x \in Stopper, NEW board \in BOOLEAN, ReadPidfile(x, board) PROVE boardUp'
  BY <1>20 DEF ReadPidfile, StopTo
<1>21. ASSUME NEW x \in Stopper, KillTarget(x) PROVE boardUp'
  BY <1>21, KillStep
<1>22. ASSUME NEW x \in Stopper, Survives(x) PROVE boardUp'
  BY <1>22 DEF Survives, StopTo
<1>23. ASSUME NEW x \in Stopper, Reread(x) PROVE boardUp'
  BY <1>23 DEF Reread, StopTo
<1>24. ASSUME NEW x \in Stopper, KillChild(x) PROVE boardUp'
  BY <1>24, KillChildStep
<1>25. ASSUME NEW x \in Stopper, Unlink(x) PROVE boardUp'
  BY <1>25 DEF Unlink, StopTo
<1>26. ASSUME AgeOut PROVE boardUp'
  BY <1>26 DEF AgeOut
<1>27. CASE UNCHANGED vars
  BY <1>27 DEF vars
<1>. QED
  BY <1>1, <1>2, <1>3, <1>4, <1>5, <1>6, <1>7, <1>8, <1>9, <1>10, <1>11,
     <1>12, <1>13, <1>14, <1>15, <1>16, <1>17, <1>18, <1>19, <1>20, <1>21,
     <1>22, <1>23, <1>24, <1>25, <1>26, <1>27 DEF Next, Start, Daemon, Stop

LEMMA OrphanNotedKept == ASSUME Shape, Clear, [Next]_vars, Clean' PROVE OrphanNoted'
<1> USE DEF OrphanNoted, stopVars
<1>t. /\ dpc \in [Starter -> {"none", "booting", "dead"} \cup Ticking] /\ running \subseteq Starter
      /\ TypeOK /\ OrphanNoted /\ (file # NoFile => file.pid \in Pid)
  BY FileTyped DEF Shape, TypeOK, Clear
<1>d. \A s \in Starter : dpc[s] = "none" \/ dpc[s] = "booting" \/ dpc[s] = "ready" => s \notin running
  BY DEF Shape, DaemonShape
<1>p. \A r, s \in Starter : (DaemonPid(r) = DaemonPid(s) => r = s) /\ StarterPid(r) # DaemonPid(s)
  BY PidFacts
<1>h. \A s \in Starter :
        /\ dpc[s] \in Ticking => file # NoFile /\ file.pid = DaemonPid(s)
        /\ dpc[s] = "waiting" => file.inFlight = RunPid(s)
  BY DEF Clear, Held
<1>1. ASSUME NEW s \in Starter, Begin(s) PROVE OrphanNoted'
  BY <1>1, <1>t DEF Begin, StartTo
<1>2. ASSUME NEW s \in Starter, Acquire(s) PROVE OrphanNoted'
  <2>1. CASE Create(StarterPid(s))
    <3>1. file'.pid = StarterPid(s)
      BY <2>1, PidFacts, CreateStep
    <3>2. running' \subseteq Starter
      BY <1>2, <1>t DEF Acquire
    <3>3. QED
      BY <3>1, <3>2, <1>p
  <2>2. CASE file # NoFile
    BY <1>2, <1>t, <2>2 DEF Acquire
  <2>3. QED
    BY <1>2, <2>1, <2>2 DEF Acquire
<1>3. ASSUME NEW s \in Starter, AcquireBusy(s) PROVE OrphanNoted'
  BY <1>3, <1>t DEF AcquireBusy, StartTo
<1>4. ASSUME NEW s \in Starter, Refuse(s) PROVE OrphanNoted'
  BY <1>4, <1>t DEF Refuse, StartTo
<1>5. ASSUME NEW s \in Starter, JudgeStale(s) PROVE OrphanNoted'
  BY <1>5, <1>t DEF JudgeStale, StartTo
<1>6. ASSUME NEW s \in Starter, Waited(s) PROVE OrphanNoted'
  BY <1>6, <1>t DEF Waited, StartTo
<1>7. ASSUME NEW s \in Starter, FinalCheck(s) PROVE OrphanNoted'
  BY <1>7, <1>t DEF FinalCheck, StartTo
<1>8. ASSUME NEW s \in Starter, Release(s) PROVE OrphanNoted'
  BY <1>8, <1>t DEF Release, StartTo
<1>9. ASSUME NEW s \in Starter, Reacquire(s) PROVE OrphanNoted'
  <2>1. CASE Create(StarterPid(s))
    <3>1. file'.pid = StarterPid(s)
      BY <2>1, PidFacts, CreateStep
    <3>2. running' \subseteq Starter
      BY <1>9, <1>t DEF Reacquire
    <3>3. QED
      BY <3>1, <3>2, <1>p
  <2>2. CASE file # NoFile
    BY <1>9, <1>t, <2>2 DEF Reacquire
  <2>3. QED
    BY <1>9, <2>1, <2>2 DEF Reacquire
<1>10. ASSUME NEW s \in Starter, Spawn(s) PROVE OrphanNoted'
  BY <1>10, <1>t DEF Spawn, DaemonTo, StartTo
<1>11. ASSUME NEW s \in Starter, SpawnThrows(s) PROVE OrphanNoted'
  BY <1>11, <1>t DEF SpawnThrows, StartTo
<1>12. ASSUME NEW s \in Starter, Confirm(s) PROVE OrphanNoted'
  BY <1>12, <1>t DEF Confirm, StartTo
<1>13. ASSUME NEW s \in Starter, Boot(s) PROVE OrphanNoted'
  <2>1. file' # NoFile => file'.pid = DaemonPid(s)
    BY <1>13, <1>t, PidFacts, HeartbeatStep DEF Boot
  <2>2. dpc'[s] = "ready" /\ running' = running
    BY <1>13, <1>t DEF Boot, DaemonTo
  <2>3. QED
    BY <1>t, <1>p, <2>1, <2>2
<1>14. ASSUME NEW s \in Starter, Beat(s) PROVE OrphanNoted'
  <2>1. file # NoFile /\ file'.pid = file.pid /\ file'.inFlight = file.inFlight
    BY <1>14, <1>t, HeartbeatStep DEF Beat
  <2>2. UNCHANGED <<dpc, running>>
    BY <1>14 DEF Beat
  <2>3. QED
    BY <1>t, <2>1, <2>2
<1>15. ASSUME NEW s \in Starter, SpawnRun(s) PROVE OrphanNoted'
  BY <1>15, <1>t DEF SpawnRun, DaemonTo
<1>16. ASSUME NEW s \in Starter, NoteInFlight(s) PROVE OrphanNoted'
  <2>1. file'.pid = DaemonPid(s)
    BY <1>16, <1>t, <1>h, PidFacts, InFlightStep DEF NoteInFlight, Ticking
  <2>2. dpc'[s] = "waiting" /\ running' = running
    BY <1>16, <1>t DEF NoteInFlight, DaemonTo
  <2>3. QED
    BY <1>t, <1>p, <2>1, <2>2
<1>17. ASSUME NEW s \in Starter, Reap(s) PROVE OrphanNoted'
  <2>1. file'.pid = DaemonPid(s)
    BY <1>17, <1>t, <1>h, InFlightStep DEF Reap, Ticking
  <2>2. dpc'[s] = "ready" /\ running' = running
    BY <1>17, <1>t DEF Reap, DaemonTo
  <2>3. QED
    BY <1>t, <1>p, <2>1, <2>2
<1>18. ASSUME NEW s \in Starter, RunExits(s) PROVE OrphanNoted'
  BY <1>18, <1>t DEF RunExits
<1>19. ASSUME NEW s \in Starter, DaemonCrash(s) PROVE OrphanNoted'
  <2>1. /\ UNCHANGED <<file, running>> /\ dpc' = [dpc EXCEPT ![s] = "dead"]
        /\ dpc[s] \in {"booting", "ready", "waiting"}
    BY <1>19, <1>t DEF DaemonCrash, DaemonTo, LiveDaemons, Ticking, Clean
  <2>2. s \in running => file.inFlight = RunPid(s)
    BY <1>d, <1>h, <2>1
  <2>3. QED
    BY <1>t, <2>1, <2>2
<1>20. ASSUME NEW x \in Stopper, NEW board \in BOOLEAN, ReadPidfile(x, board) PROVE OrphanNoted'
  BY <1>20, <1>t DEF ReadPidfile, StopTo
<1>21. ASSUME NEW x \in Stopper, KillTarget(x) PROVE OrphanNoted'
  <2>1. /\ UNCHANGED <<file, running>> /\ dpc' = [dpc EXCEPT ![target[x].who] = "dead"]
        /\ target[x].who \in Starter /\ dpc[target[x].who] \in {"ready", "waiting", "dead"}
    BY <1>21, KillStep
  <2>2. QED
    BY <1>t, <1>d, <1>h, <2>1
<1>22. ASSUME NEW x \in Stopper, Survives(x) PROVE OrphanNoted'
  BY <1>22, <1>t DEF Survives, StopTo
<1>23. ASSUME NEW x \in Stopper, Reread(x) PROVE OrphanNoted'
  BY <1>23, <1>t DEF Reread, StopTo
<1>24. ASSUME NEW x \in Stopper, KillChild(x) PROVE OrphanNoted'
  <2>1. UNCHANGED <<file, dpc>> /\ running' \subseteq running
    BY <1>24, KillChildStep
  <2>2. QED
    BY <1>t, <2>1
<1>25. ASSUME NEW x \in Stopper, Unlink(x) PROVE OrphanNoted'
  BY <1>25, <1>t DEF Unlink, StopTo
<1>26. ASSUME AgeOut PROVE OrphanNoted'
  <2>1. file # NoFile /\ file'.pid = file.pid /\ file'.inFlight = file.inFlight
    BY <1>26, <1>t, AgeOutStep
  <2>2. UNCHANGED <<dpc, running>>
    BY <1>26 DEF AgeOut
  <2>3. QED
    BY <1>t, <2>1, <2>2
<1>27. CASE UNCHANGED vars
  BY <1>27, <1>t DEF vars
<1>. QED
  BY <1>1, <1>2, <1>3, <1>4, <1>5, <1>6, <1>7, <1>8, <1>9, <1>10, <1>11,
     <1>12, <1>13, <1>14, <1>15, <1>16, <1>17, <1>18, <1>19, <1>20, <1>21,
     <1>22, <1>23, <1>24, <1>25, <1>26, <1>27 DEF Next, Start, Daemon, Stop

LEMMA StopSeesKept == ASSUME Shape, Clear, [Next]_vars, Clean' PROVE StopSees'
<1> USE DEF StopSees, stopVars
<1>t. /\ dpc \in [Starter -> {"none", "booting", "dead"} \cup Ticking] /\ running \subseteq Starter
      /\ tpc \in [Stopper -> StopperSteps] /\ target \in [Stopper -> Pid \cup {NoPid}]
      /\ child \in [Stopper -> Pid \cup {NoPid}] /\ before \in [Stopper -> SUBSET Starter]
      /\ TypeOK /\ StopSees /\ (file # NoFile => file.pid \in Pid)
  BY FileTyped DEF Shape, TypeOK, Clear
<1>e. \A x \in Stopper :
        /\ tpc[x] \in Engaged \cup {"stopped"} =>
             /\ target[x] \in Pid
             /\ target[x].role = "daemon" =>
                  target[x].who \in Starter /\ dpc[target[x].who] \in Ticking \cup {"dead"}
        /\ tpc[x] \in Engaged => Interrupted
  BY DEF Shape, StopShape, Interrupted, Engaged
<1>f. \A r \in Starter : dpc[r] = "dead" => dpc'[r] = "dead"
  BY DaemonForward DEF Shape
<1>d. \A s \in Starter : dpc[s] = "none" \/ dpc[s] = "booting" \/ dpc[s] = "ready" => s \notin running
  BY DEF Shape, DaemonShape
<1>p. \A r, s \in Starter : /\ DaemonPid(r) = DaemonPid(s) => r = s
                            /\ DaemonPid(r).role = "daemon" /\ DaemonPid(r).who = r
                            /\ StarterPid(r).role = "starter" /\ BoardPid.role = "starter"
                            /\ RunPid(r) # NoPid /\ RunPid(r).who = r
  BY PidFacts, ServeLifecycleAssumption
<1>h. \A s \in Starter :
        /\ dpc[s] = "booting" => file # NoFile /\ file.pid = StarterPid(s)
        /\ dpc[s] \in Ticking => file # NoFile /\ file.pid = DaemonPid(s)
  BY DEF Clear, Held
<1> USE DEF Engaged, PastKill
<1>1. ASSUME NEW s \in Starter, Begin(s) PROVE StopSees'
  BY <1>1, <1>t, <1>f DEF Begin, StartTo
<1>2. ASSUME NEW s \in Starter, Acquire(s) PROVE StopSees'
  <2>1. file = NoFile /\ UNCHANGED <<dpc, running, tpc, target, child, before>>
    BY <1>2 DEF Acquire
  <2>2. QED
    BY <1>t, <2>1
<1>3. ASSUME NEW s \in Starter, AcquireBusy(s) PROVE StopSees'
  BY <1>3, <1>t, <1>f DEF AcquireBusy, StartTo
<1>4. ASSUME NEW s \in Starter, Refuse(s) PROVE StopSees'
  BY <1>4, <1>t, <1>f DEF Refuse, StartTo
<1>5. ASSUME NEW s \in Starter, JudgeStale(s) PROVE StopSees'
  BY <1>5, <1>t, <1>f DEF JudgeStale, StartTo
<1>6. ASSUME NEW s \in Starter, Waited(s) PROVE StopSees'
  BY <1>6, <1>t, <1>f DEF Waited, StartTo
<1>7. ASSUME NEW s \in Starter, FinalCheck(s) PROVE StopSees'
  BY <1>7, <1>t, <1>f DEF FinalCheck, StartTo
<1>8. ASSUME NEW s \in Starter, Release(s) PROVE StopSees'
  <2>1. UNCHANGED <<dpc, running, tpc, target, child, before>> /\ ~Interrupted
    BY <1>8, ReleaseStep DEF Release
  <2>2. QED
    BY <1>t, <1>e, <2>1
<1>9. ASSUME NEW s \in Starter, Reacquire(s) PROVE StopSees'
  <2>1. UNCHANGED <<dpc, running, tpc, target, child, before>> /\ (file = NoFile \/ UNCHANGED file)
    BY <1>9 DEF Reacquire
  <2>2. QED
    BY <1>t, <2>1
<1>10. ASSUME NEW s \in Starter, Spawn(s) PROVE StopSees'
  BY <1>10, <1>t, <1>f DEF Spawn, DaemonTo, StartTo
<1>11. ASSUME NEW s \in Starter, SpawnThrows(s) PROVE StopSees'
  <2>1. /\ UNCHANGED <<dpc, running, tpc, target, child, before>>
        /\ file' = file \/ file.pid = BoardPid
    BY <1>11 DEF SpawnThrows
  <2>2. QED
    BY <1>t, <1>p, <2>1
<1>12. ASSUME NEW s \in Starter, Confirm(s) PROVE StopSees'
  <2>1. UNCHANGED <<dpc, running, tpc, target, child, before>> /\ (file' = file \/ ~Interrupted)
    BY <1>12, ConfirmStep DEF Confirm
  <2>2. QED
    BY <1>t, <1>e, <2>1
<1>13. ASSUME NEW s \in Starter, Boot(s) PROVE StopSees'
  <2>1. /\ UNCHANGED <<running, tpc, target, child, before>> /\ file.pid = StarterPid(s)
        /\ dpc' = [dpc EXCEPT ![s] = "ready"]
    BY <1>13, <1>h DEF Boot, DaemonTo
  <2>2. QED
    BY <1>t, <1>f, <1>p, <2>1
<1>14. ASSUME NEW s \in Starter, Beat(s) PROVE StopSees'
  <2>1. UNCHANGED <<dpc, running, tpc, target, child, before>>
    BY <1>14 DEF Beat
  <2>2. file # NoFile /\ file' # NoFile /\ file'.pid = file.pid
    BY <1>14, <1>t, HeartbeatStep DEF Beat
  <2>3. QED
    BY <1>t, <2>1, <2>2
<1>15. ASSUME NEW s \in Starter, SpawnRun(s) PROVE StopSees'
  BY <1>15, <1>t, <1>f DEF SpawnRun, DaemonTo
<1>16. ASSUME NEW s \in Starter, NoteInFlight(s) PROVE StopSees'
  <2>1. UNCHANGED <<running, tpc, target, child, before>> /\ dpc' = [dpc EXCEPT ![s] = "waiting"]
    BY <1>16 DEF NoteInFlight, DaemonTo
  <2>2. file # NoFile /\ file' # NoFile /\ file'.pid = file.pid
    BY <1>16, <1>t, <1>h, PidFacts, InFlightStep DEF NoteInFlight, Ticking
  <2>3. QED
    BY <1>t, <1>f, <2>1, <2>2
<1>17. ASSUME NEW s \in Starter, Reap(s) PROVE StopSees'
  <2>1. UNCHANGED <<running, tpc, target, child, before>> /\ dpc' = [dpc EXCEPT ![s] = "ready"]
    BY <1>17 DEF Reap, DaemonTo
  <2>2. file # NoFile /\ file' # NoFile /\ file'.pid = file.pid
    BY <1>17, <1>t, <1>h, InFlightStep DEF Reap, Ticking
  <2>3. QED
    BY <1>t, <1>f, <2>1, <2>2
<1>18. ASSUME NEW s \in Starter, RunExits(s) PROVE StopSees'
  BY <1>18, <1>t, <1>f DEF RunExits
<1>19. ASSUME NEW s \in Starter, DaemonCrash(s) PROVE StopSees'
  <2>1. /\ UNCHANGED <<file, running, tpc, target, child, before>> /\ dpc' = [dpc EXCEPT ![s] = "dead"]
        /\ dpc[s] \in {"booting", "ready", "waiting"}
    BY <1>19, <1>t DEF DaemonCrash, DaemonTo, LiveDaemons, Ticking, Clean
  <2>2. s \in running => file # NoFile /\ file.pid = DaemonPid(s)
    BY <1>d, <1>h, <2>1 DEF Ticking
  <2>3. ASSUME NEW x \in Stopper, target[x] = DaemonPid(s) PROVE tpc[x] \notin PastKill
    BY <1>t, <1>p, <2>1, <2>3
  <2>4. QED
    BY <1>t, <1>f, <2>1, <2>2, <2>3
<1>20. ASSUME NEW x \in Stopper, NEW board \in BOOLEAN, ReadPidfile(x, board) PROVE StopSees'
  <2>1. /\ UNCHANGED <<file, dpc, running, child>>
        /\ target' = [target EXCEPT ![x] = IF file = NoFile THEN NoPid ELSE file.pid]
        /\ before' = [before EXCEPT ![x] = LiveDaemons]
        /\ \/ tpc' = [tpc EXCEPT ![x] = "nothing"]
           \/ tpc' = [tpc EXCEPT ![x] = "stale"]
           \/ tpc' = [tpc EXCEPT ![x] = "kill"] /\ file # NoFile
    BY <1>20 DEF ReadPidfile, StopTo
  <2>2. file # NoFile /\ file.pid.role = "daemon" => LiveDaemons \subseteq {file.pid.who}
    BY <1>h, <1>p DEF LiveDaemons
  <2>3. QED
    BY <1>t, <2>1, <2>2
<1>21. ASSUME NEW x \in Stopper, KillTarget(x) PROVE StopSees'
  <2>1. /\ UNCHANGED <<file, running, target, child, before>>
        /\ dpc' = [dpc EXCEPT ![target[x].who] = "dead"] /\ target[x].who \in Starter
        /\ dpc[target[x].who] \in {"ready", "waiting", "dead"} /\ target[x].role = "daemon"
        /\ tpc[x] = "kill" /\ tpc' = [tpc EXCEPT ![x] = "reread"]
    BY <1>21, KillStep
  <2> DEFINE s == target[x].who
  <2>2. s \in running /\ dpc[s] # "dead" => file # NoFile /\ file.pid = DaemonPid(s)
    BY <1>d, <1>h, <2>1 DEF Ticking
  <2>3. ASSUME NEW y \in Stopper, target[y] = DaemonPid(s), dpc[s] # "dead" PROVE tpc[y] \notin PastKill
    BY <1>t, <1>p, <2>1, <2>3
  <2>4. QED
    BY <1>t, <1>f, <2>1, <2>2, <2>3
<1>22. ASSUME NEW x \in Stopper, Survives(x) PROVE StopSees'
  BY <1>22, <1>t, <1>f DEF Survives, StopTo
<1>23. ASSUME NEW x \in Stopper, Reread(x) PROVE StopSees'
  <2>1. /\ UNCHANGED <<file, dpc, running, target, before>> /\ tpc[x] = "reread"
        /\ child' = [child EXCEPT ![x] = IF file = NoFile THEN NoPid ELSE file.inFlight]
        /\ tpc' = [tpc EXCEPT ![x] = IF file # NoFile /\ file.inFlight # NoPid
                                       THEN "killChild" ELSE "release"]
    BY <1>23 DEF Reread, StopTo
  <2>2. \A s \in running : dpc[s] = "dead" /\ file # NoFile /\ file.pid = DaemonPid(s)
          => file.inFlight = RunPid(s) /\ file.inFlight # NoPid
    BY <1>t, <1>p DEF Clear, OrphanNoted
  <2>3. QED
    BY <1>t, <2>1, <2>2
<1>24. ASSUME NEW x \in Stopper, KillChild(x) PROVE StopSees'
  <2>1. /\ UNCHANGED <<file, dpc, target, child, before>> /\ running' = running \ {child[x].who}
        /\ tpc[x] = "killChild" /\ tpc' = [tpc EXCEPT ![x] = "release"]
    BY <1>24, KillChildStep
  <2>2. QED
    BY <1>t, <1>p, <2>1
<1>25. ASSUME NEW x \in Stopper, Unlink(x) PROVE StopSees'
  <2>1. /\ UNCHANGED <<dpc, running, target, child, before>> /\ tpc[x] = "release"
        /\ tpc' = [tpc EXCEPT ![x] = "stopped"]
    BY <1>25 DEF Unlink, StopTo
  <2>2. file # NoFile => file.pid = target[x]
    BY <1>25, UnlinkStep
  <2>3. QED
    BY <1>t, <2>1, <2>2
<1>26. ASSUME AgeOut PROVE StopSees'
  <2>1. file # NoFile /\ file' # NoFile /\ file'.pid = file.pid
    BY <1>26, <1>t, AgeOutStep
  <2>2. UNCHANGED <<dpc, running, tpc, target, child, before>>
    BY <1>26 DEF AgeOut
  <2>3. QED
    BY <1>t, <2>1, <2>2
<1>27. CASE UNCHANGED vars
  BY <1>27, <1>t, <1>f DEF vars
<1>. QED
  BY <1>1, <1>2, <1>3, <1>4, <1>5, <1>6, <1>7, <1>8, <1>9, <1>10, <1>11,
     <1>12, <1>13, <1>14, <1>15, <1>16, <1>17, <1>18, <1>19, <1>20, <1>21,
     <1>22, <1>23, <1>24, <1>25, <1>26, <1>27 DEF Next, Start, Daemon, Stop

(* Without any cause the board's pid stays only while one of its starts is  *)
(* on the way: the start that fails removes it, the daemon that boots       *)
(* replaces it.                                                             *)
LEMMA BoardBusyKept == ASSUME ServeInv, [Next]_vars, causes' = {} PROVE BoardBusy'
<1> USE DEF BoardBusy, stopVars
<1>c. causes = {} /\ Clear /\ Shape /\ BoardBusy
  BY CausesGrow DEF ServeInv, CleanInv, Clean
<1>k. Clean'
  BY DEF Clean
<1>t. /\ spc \in [Starter -> StarterSteps]
      /\ dpc \in [Starter -> {"none", "booting", "dead"} \cup Ticking]
      /\ TypeOK /\ BoardStart \subseteq Starter /\ (file # NoFile => file.pid \in Pid)
  BY <1>c, FileTyped, ServeLifecycleAssumption DEF Shape, TypeOK
<1>h. \A r \in Starter : dpc[r] \in Ticking => file # NoFile /\ file.pid # BoardPid
  BY <1>c, PidFacts DEF Clear, Held
<1>p. \A r \in Starter : /\ StarterPid(r) = BoardPid => r \in BoardStart
                         /\ DaemonPid(r) # BoardPid
  BY PidFacts
<1>1. ASSUME NEW s \in Starter, Begin(s) PROVE BoardBusy'
  BY <1>1, <1>c, <1>t DEF Begin, StartTo
<1>2. ASSUME NEW s \in Starter, Acquire(s) PROVE BoardBusy'
  <2>1. file'.pid = StarterPid(s)
    BY <1>2, PidFacts, CreateStep DEF Acquire
  <2>2. spc'[s] = "spawn"
    BY <1>2, <1>t DEF Acquire, StartTo
  <2>3. QED
    BY <1>p, <2>1, <2>2
<1>3. ASSUME NEW s \in Starter, AcquireBusy(s) PROVE BoardBusy'
  BY <1>3, <1>c, <1>t DEF AcquireBusy, StartTo
<1>4. ASSUME NEW s \in Starter, Refuse(s) PROVE BoardBusy'
  BY <1>4, <1>c, <1>t DEF Refuse, StartTo
<1>5. ASSUME NEW s \in Starter, JudgeStale(s) PROVE BoardBusy'
  BY <1>5, <1>c, <1>t DEF JudgeStale, StartTo
<1>6. ASSUME NEW s \in Starter, Waited(s) PROVE BoardBusy'
  BY <1>6, <1>c, <1>t DEF Waited, StartTo
<1>7. ASSUME NEW s \in Starter, FinalCheck(s) PROVE BoardBusy'
  BY <1>7, <1>c, <1>t DEF FinalCheck, StartTo
<1>8. ASSUME NEW s \in Starter, Release(s) PROVE BoardBusy'
  BY <1>8, <1>c, <1>t DEF Release, StartTo
<1>9. ASSUME NEW s \in Starter, Reacquire(s) PROVE BoardBusy'
  <2>1. CASE file = NoFile
    <3>1. file'.pid = StarterPid(s)
      BY <1>9, <2>1, PidFacts, CreateStep DEF Reacquire
    <3>2. spc'[s] = "spawn"
      BY <1>9, <1>t, <2>1 DEF Reacquire, StartTo
    <3>3. QED
      BY <1>p, <3>1, <3>2
  <2>2. CASE file # NoFile
    BY <1>9, <1>c, <1>t, <2>2 DEF Reacquire, StartTo
  <2>3. QED
    BY <2>1, <2>2
<1>10. ASSUME NEW s \in Starter, Spawn(s) PROVE BoardBusy'
  BY <1>10, <1>c, <1>t DEF Spawn, DaemonTo, StartTo
<1>11. ASSUME NEW s \in Starter, SpawnThrows(s) PROVE BoardBusy'
  <2>1. s \in BoardStart => ~(file' # NoFile /\ file'.pid = BoardPid)
    BY <1>11 DEF SpawnThrows
  <2>2. s \notin BoardStart => file' = file
    BY <1>11 DEF SpawnThrows
  <2>3. spc' = [spc EXCEPT ![s] = "failed"] /\ dpc' = dpc
    BY <1>11 DEF SpawnThrows, StartTo
  <2>4. QED
    BY <1>c, <1>t, <2>1, <2>2, <2>3
<1>12. ASSUME NEW s \in Starter, Confirm(s) PROVE BoardBusy'
  <2>1. CASE s \in LiveDaemons
    <3>1. UNCHANGED <<file, dpc>> /\ spc' = [spc EXCEPT ![s] = "started"]
      BY <1>12, <2>1 DEF Confirm, StartTo
    <3>2. dpc[s] = "booting" \/ file.pid # BoardPid
      BY <1>h, <2>1 DEF LiveDaemons
    <3>3. QED
      BY <1>c, <1>t, <3>1, <3>2
  <2>2. CASE s \notin LiveDaemons
    BY <1>12, <1>c, <1>k, <2>2, ConfirmStep
  <2>3. QED
    BY <2>1, <2>2
<1>13. ASSUME NEW s \in Starter, Boot(s) PROVE BoardBusy'
  <2>1. file' # NoFile => file'.pid = DaemonPid(s)
    BY <1>13, <1>t, PidFacts, HeartbeatStep DEF Boot
  <2>2. QED
    BY <1>p, <2>1
<1>14. ASSUME NEW s \in Starter, Beat(s) PROVE BoardBusy'
  <2>1. UNCHANGED <<spc, dpc>> /\ file # NoFile /\ file'.pid = file.pid
    BY <1>14, <1>t, HeartbeatStep DEF Beat
  <2>2. QED
    BY <1>c, <1>t, <2>1
<1>15. ASSUME NEW s \in Starter, SpawnRun(s) PROVE BoardBusy'
  BY <1>15, <1>c, <1>t DEF SpawnRun, DaemonTo
<1>16. ASSUME NEW s \in Starter, NoteInFlight(s) PROVE BoardBusy'
  <2>1. dpc[s] \in Ticking /\ file # NoFile => file'.pid = file.pid
    BY <1>16, <1>t, PidFacts, InFlightStep DEF NoteInFlight
  <2>2. QED
    BY <1>16, <1>h, <2>1 DEF NoteInFlight, Ticking
<1>17. ASSUME NEW s \in Starter, Reap(s) PROVE BoardBusy'
  <2>1. dpc[s] \in Ticking /\ file # NoFile => file'.pid = file.pid
    BY <1>17, <1>t, InFlightStep DEF Reap
  <2>2. QED
    BY <1>17, <1>h, <2>1 DEF Reap, Ticking
<1>18. ASSUME NEW s \in Starter, RunExits(s) PROVE BoardBusy'
  BY <1>18, <1>c, <1>t DEF RunExits
<1>19. ASSUME NEW s \in Starter, DaemonCrash(s) PROVE BoardBusy'
  <2>1. /\ UNCHANGED <<file, spc>> /\ dpc' = [dpc EXCEPT ![s] = "dead"] /\ dpc[s] # "booting"
    BY <1>19 DEF DaemonCrash, DaemonTo
  <2>2. QED
    BY <1>c, <1>t, <2>1
<1>20. ASSUME NEW x \in Stopper, NEW board \in BOOLEAN, ReadPidfile(x, board) PROVE BoardBusy'
  BY <1>20, <1>c, <1>t DEF ReadPidfile, StopTo
<1>21. ASSUME NEW x \in Stopper, KillTarget(x) PROVE BoardBusy'
  <2>1. /\ UNCHANGED <<file, spc>> /\ dpc' = [dpc EXCEPT ![target[x].who] = "dead"]
        /\ dpc[target[x].who] # "booting"
    BY <1>21, <1>c, <1>k, KillStep
  <2>2. QED
    BY <1>c, <1>t, <2>1
<1>22. ASSUME NEW x \in Stopper, Survives(x) PROVE BoardBusy'
  BY <1>22, <1>c, <1>t DEF Survives, StopTo
<1>23. ASSUME NEW x \in Stopper, Reread(x) PROVE BoardBusy'
  BY <1>23, <1>c, <1>t DEF Reread, StopTo
<1>24. ASSUME NEW x \in Stopper, KillChild(x) PROVE BoardBusy'
  <2>1. UNCHANGED <<file, spc, dpc>>
    BY <1>24, <1>c, KillChildStep
  <2>2. QED
    BY <1>c, <1>t, <2>1
<1>25. ASSUME NEW x \in Stopper, Unlink(x) PROVE BoardBusy'
  BY <1>25, <1>c, <1>t DEF Unlink, StopTo
<1>26. ASSUME AgeOut PROVE BoardBusy'
  <2>1. UNCHANGED <<spc, dpc>> /\ file # NoFile /\ file'.pid = file.pid
    BY <1>26, <1>t, AgeOutStep DEF AgeOut
  <2>2. QED
    BY <1>c, <1>t, <2>1
<1>27. CASE UNCHANGED vars
  BY <1>27, <1>c, <1>t DEF vars
<1>. QED
  BY <1>1, <1>2, <1>3, <1>4, <1>5, <1>6, <1>7, <1>8, <1>9, <1>10, <1>11,
     <1>12, <1>13, <1>14, <1>15, <1>16, <1>17, <1>18, <1>19, <1>20, <1>21,
     <1>22, <1>23, <1>24, <1>25, <1>26, <1>27 DEF Next, Start, Daemon, Stop

----------------------------------------------------------------------------
LEMMA ServeInit == Init => ServeInv
<1> SUFFICES ASSUME Init PROVE ServeInv
  OBVIOUS
<1> USE DEF Init
<1>1. TypeOK
  BY DEF TypeOK, StarterSteps, StopperSteps
<1>2. FileShape /\ DaemonShape /\ StopShape
  BY DEF FileShape, DaemonShape, StopShape, Engaged
<1>3. Held /\ JudgedStale /\ OrphanNoted /\ StopSees
  BY DEF Held, Holders, LiveDaemons, Ticking, JudgedStale, OrphanNoted, StopSees, PastKill, Engaged
<1>4. QED
  BY <1>1, <1>2, <1>3 DEF ServeInv, Shape, CleanInv, Clear, BoardBusy

LEMMA ServeStep == ServeInv /\ [Next]_vars => ServeInv'
<1> SUFFICES ASSUME ServeInv, [Next]_vars PROVE ServeInv'
  OBVIOUS
<1>1. Shape'
  BY TypeKept, FileShapeKept, DaemonShapeKept, StopShapeKept DEF ServeInv, Shape
<1>2. CleanInv'
  <2>1. SUFFICES ASSUME Clean' PROVE Clear'
    BY DEF CleanInv
  <2>2. Shape /\ Clear
    BY <2>1, CausesGrow DEF ServeInv, CleanInv, Clean
  <2>3. QED
    BY <2>1, <2>2, BoardUpKept, HeldKept, JudgedStaleKept, OrphanNotedKept, StopSeesKept DEF Clear
<1>3. BoardBusy'
  <2>1. CASE causes' = {}
    BY <2>1, BoardBusyKept
  <2>2. CASE causes' # {}
    BY <2>2 DEF BoardBusy
  <2>3. QED
    BY <2>1, <2>2
<1>4. QED
  BY <1>1, <1>2, <1>3 DEF ServeInv

(* One holder at most, whom the pidfile names; a stop that is through has   *)
(* seen everybody it was asked about die.                                   *)
LEMMA ServeInvSound == ServeInv => DaemonsSound
<1> SUFFICES ASSUME ServeInv PROVE DaemonsSound
  OBVIOUS
<1>1. TypeOK
  BY DEF ServeInv, Shape
<1>2. ASSUME Clear PROVE OneDaemon
  <2>1. \A s, t \in LiveDaemons : s = t
    BY <1>2 DEF Clear, Held, Holders, LiveDaemons
  <2>2. CASE LiveDaemons = {}
    BY <2>2, FS_EmptySet DEF OneDaemon
  <2>3. CASE LiveDaemons # {}
    <3>1. PICK s : s \in LiveDaemons
      BY <2>3
    <3>2. LiveDaemons = {s}
      BY <2>1, <3>1
    <3>3. Cardinality(LiveDaemons) = 1
      BY <3>2, FS_Singleton
    <3>4. QED
      BY <3>3 DEF OneDaemon
  <2>4. QED
    BY <2>2, <2>3
<1>3. ASSUME Clear, NEW s \in Booted
      PROVE  file # NoFile /\ file.pid = DaemonPid(s) /\ (dpc[s] = "waiting" => file.inFlight = RunPid(s))
  BY <1>3 DEF Clear, Held, Booted
<1>4. ASSUME Clear, NEW x \in Stopper, tpc[x] = "stopped", NEW s \in before[x]
      PROVE  s \notin LiveDaemons /\ s \notin running
  <2>1. target[x].role = "daemon" /\ dpc[target[x].who] = "dead" /\ s = target[x].who
    BY <1>4 DEF Clear, StopSees, PastKill
  <2>2. s \in Starter /\ target[x] \in Pid
    BY <1>4, <2>1 DEF ServeInv, Shape, StopShape, Engaged
  <2>3. target[x] = DaemonPid(s)
    BY <2>1, <2>2, PidIs
  <2>4. s \notin running
    BY <1>4, <2>1, <2>3 DEF Clear, StopSees
  <2>5. QED
    BY <2>1, <2>4 DEF LiveDaemons, Ticking
<1>5. QED
  BY <1>1, <1>2, <1>3, <1>4
     DEF DaemonsSound, OneDaemonUnlessCause, FindableUnlessCause, StopCompleteUnlessCause,
         StopIsComplete, ServeInv, CleanInv, Clean

(* `serve start` and `serve stop`, however many: without a recorded cause   *)
(* there is one daemon, the pidfile names it and the run it awaits, and a   *)
(* stop that reported success left nothing alive.                           *)
THEOREM DaemonsHold == Spec => []DaemonsSound
<1>1. Spec => []ServeInv
  BY ServeInit, ServeStep, PTL DEF Spec
<1>2. QED
  BY <1>1, ServeInvSound, PTL

(* A stop from the board does not kill the board: the pid it goes on with   *)
(* is not the board's.                                                      *)
LEMMA BoardSpared ==
  ASSUME ServeInv, [Next]_vars, boardUp, ~boardUp'
  PROVE  \E x \in Stopper \ onBoard : tpc[x] # tpc'[x]
<1> DEFINE Goal == \E x \in Stopper \ onBoard : tpc[x] # tpc'[x]
<1> SUFFICES Goal
  OBVIOUS
<1> USE DEF stopVars
<1>t. Shape /\ tpc \in [Stopper -> StopperSteps]
  BY DEF ServeInv, Shape, TypeOK
<1>1. ASSUME NEW s \in Starter, Begin(s) PROVE Goal
  BY <1>1 DEF Begin, StartTo
<1>2. ASSUME NEW s \in Starter, Acquire(s) PROVE Goal
  BY <1>2 DEF Acquire, StartTo
<1>3. ASSUME NEW s \in Starter, AcquireBusy(s) PROVE Goal
  BY <1>3 DEF AcquireBusy, StartTo
<1>4. ASSUME NEW s \in Starter, Refuse(s) PROVE Goal
  BY <1>4 DEF Refuse, StartTo
<1>5. ASSUME NEW s \in Starter, JudgeStale(s) PROVE Goal
  BY <1>5 DEF JudgeStale, StartTo
<1>6. ASSUME NEW s \in Starter, Waited(s) PROVE Goal
  BY <1>6 DEF Waited, StartTo
<1>7. ASSUME NEW s \in Starter, FinalCheck(s) PROVE Goal
  BY <1>7 DEF FinalCheck, StartTo
<1>8. ASSUME NEW s \in Starter, Release(s) PROVE Goal
  BY <1>8 DEF Release, StartTo
<1>9. ASSUME NEW s \in Starter, Reacquire(s) PROVE Goal
  BY <1>9 DEF Reacquire, StartTo
<1>10. ASSUME NEW s \in Starter, Spawn(s) PROVE Goal
  BY <1>10 DEF Spawn, DaemonTo, StartTo
<1>11. ASSUME NEW s \in Starter, SpawnThrows(s) PROVE Goal
  BY <1>11 DEF SpawnThrows, StartTo
<1>12. ASSUME NEW s \in Starter, Confirm(s) PROVE Goal
  BY <1>12 DEF Confirm, StartTo
<1>13. ASSUME NEW s \in Starter, Boot(s) PROVE Goal
  BY <1>13 DEF Boot, DaemonTo
<1>14. ASSUME NEW s \in Starter, Beat(s) PROVE Goal
  BY <1>14 DEF Beat
<1>15. ASSUME NEW s \in Starter, SpawnRun(s) PROVE Goal
  BY <1>15 DEF SpawnRun, DaemonTo
<1>16. ASSUME NEW s \in Starter, NoteInFlight(s) PROVE Goal
  BY <1>16 DEF NoteInFlight, DaemonTo
<1>17. ASSUME NEW s \in Starter, Reap(s) PROVE Goal
  BY <1>17 DEF Reap, DaemonTo
<1>18. ASSUME NEW s \in Starter, RunExits(s) PROVE Goal
  BY <1>18 DEF RunExits
<1>19. ASSUME NEW s \in Starter, DaemonCrash(s) PROVE Goal
  BY <1>19 DEF DaemonCrash, DaemonTo
<1>20. ASSUME NEW x \in Stopper, NEW board \in BOOLEAN, ReadPidfile(x, board) PROVE Goal
  BY <1>20 DEF ReadPidfile, StopTo
<1>21. ASSUME NEW x \in Stopper, KillTarget(x) PROVE Goal
  <2>1. target[x] = BoardPid
    BY <1>21 DEF KillTarget, Dies
  <2>2. x \notin onBoard
    BY <1>21, <1>t, <2>1 DEF KillTarget, Shape, StopShape
  <2>3. tpc[x] = "kill" /\ tpc'[x] = "reread"
    BY <1>21, <1>t DEF KillTarget, StopTo
  <2>4. QED
    BY <2>2, <2>3
<1>22. ASSUME NEW x \in Stopper, Survives(x) PROVE Goal
  BY <1>22 DEF Survives, StopTo
<1>23. ASSUME NEW x \in Stopper, Reread(x) PROVE Goal
  BY <1>23 DEF Reread, StopTo
<1>24. ASSUME NEW x \in Stopper, KillChild(x) PROVE Goal
  BY <1>24, <1>t, KillChildStep
<1>25. ASSUME NEW x \in Stopper, Unlink(x) PROVE Goal
  BY <1>25 DEF Unlink, StopTo
<1>26. ASSUME AgeOut PROVE Goal
  BY <1>26 DEF AgeOut
<1>27. CASE UNCHANGED vars
  BY <1>27 DEF vars
<1>. QED
  BY <1>1, <1>2, <1>3, <1>4, <1>5, <1>6, <1>7, <1>8, <1>9, <1>10, <1>11,
     <1>12, <1>13, <1>14, <1>15, <1>16, <1>17, <1>18, <1>19, <1>20, <1>21,
     <1>22, <1>23, <1>24, <1>25, <1>26, <1>27 DEF Next, Start, Daemon, Stop

(* The pid in a pidfile that is not stale is a live daemon's or one of a    *)
(* start on its way to one.                                                 *)
LEMMA RefusedJustly ==
  ASSUME ServeInv, NEW s \in Starter, Refuse(s), causes = {}
  PROVE  LiveDaemons # {} \/ \E r \in Starter : spc[r] \in {"spawn", "confirm"}
<1>1. file # NoFile /\ Alive(file.pid)
  BY DEF Refuse, IsStale
<1>2. file.pid \in Pid /\ FileShape /\ BoardBusy
  BY <1>1, FileTyped DEF ServeInv, Shape
<1>3. CASE file.pid.role = "daemon"
  <2>1. file.pid # BoardPid
    BY <1>3, PidFacts
  <2>2. file.pid.who \in LiveDaemons
    BY <1>1, <1>3, <2>1 DEF Alive
  <2>3. QED
    BY <2>2
<1>4. CASE file.pid = BoardPid
  <2>1. PICK r \in BoardStart : spc[r] \in {"spawn", "confirm"} \/ dpc[r] = "booting"
    BY <1>1, <1>2, <1>4 DEF BoardBusy
  <2>2. QED
    BY <2>1, ServeLifecycleAssumption DEF LiveDaemons
<1>5. CASE file.pid.role = "starter" /\ file.pid # BoardPid
  <2>1. file.pid.who \in Starter /\ file.pid.who # Board
    BY <1>2, <1>5, PidIs
  <2>2. spc[file.pid.who] \notin StarterEnds
    BY <1>1, <1>5 DEF Alive
  <2>3. spc[file.pid.who] \in {"spawn", "confirm"}
    BY <1>1, <1>2, <1>5, <2>1, <2>2 DEF FileShape
  <2>4. QED
    BY <2>1, <2>3
<1>6. QED
  BY <1>1, <1>2, <1>3, <1>4, <1>5 DEF FileShape

(* A stop asked for on the board never kills the board server, and a start  *)
(* is refused only while a daemon is there or on its way.                   *)
THEOREM StopsHold == Spec => StopsSound
<1>1. ServeInv /\ [Next]_vars =>
        [boardUp /\ ~boardUp' => \E x \in Stopper \ onBoard : tpc[x] # tpc'[x]]_vars
  BY BoardSpared
<1>2. ServeInv /\ [Next]_vars =>
        [\A s \in Starter : Refuse(s) /\ causes = {} =>
           LiveDaemons # {} \/ \E r \in Starter : spc[r] \in {"spawn", "confirm"}]_vars
  BY RefusedJustly
<1>3. Spec => []ServeInv
  BY ServeInit, ServeStep, PTL DEF Spec
<1>4. QED
  BY <1>1, <1>2, <1>3, PTL DEF Spec, StopsSound, BoardStopSparesBoard, RefusedMeansRunning

----------------------------------------------------------------------------
(* A profile's life *)

Row == Saved \cup {None, Seed, Legacy}
Directory ==
  [db : BOOLEAN, row : Row, legacy : {None, Legacy, Malformed}, run : {None, "running", "done"},
   intent : {None, "pending", "claimed"}, by : {"opened", "run", "create", "build"}]
ServedRequest == [kind : {"open", "intent", "save"}, early : BOOLEAN]
Removal(dirs) == [at : {"runs", "removing", "renamed"}, gen : dirs \cup {None}]
Build(dirs) == [by : {"create", "build"}, gen : dirs]
RunOf(dirs) == [at : {"scanned", "open", "running"}, gen : dirs \cup {None}, lift : BOOLEAN, found : Row]

(* None is nothing else, and a directory may be there: the hypotheses about *)
(* the constants.                                                           *)
LifeConstants ==
  /\ MaxDirs \in Nat \ {0} /\ MaxSaves \in Nat
  /\ None \notin Nat \cup {"running", "pending"}
  /\ None \notin ServedRequest
  /\ None \notin Removal(Nat) \cup Build(Nat) \cup RunOf(Nat)

LifeShapes ==
  /\ made \in 0 .. MaxDirs /\ dir \in 1 .. made \cup {None}
  /\ tree \in [1 .. MaxDirs -> Directory]
  /\ stores \in 1 .. made \cup {None} /\ intents \in 1 .. made \cup {None}
  /\ removing \in BOOLEAN
  /\ reqs \in [Request -> ServedRequest \cup {None}]
  /\ removal \in Removal(1 .. made) \cup {None}
  /\ build \in Build(1 .. made) \cup {None}
  /\ run \in RunOf(1 .. made) \cup {None}
  /\ run # None => (run.at = "scanned" => ~run.lift) /\ (run.at # "scanned" => run.gen # None)
  /\ saves \in Nat
  /\ removal # None /\ removal.at \in {"removing", "renamed"} <=> removing
  /\ removal # None /\ removal.at = "renamed" => removal.gen # None

(* Who may be at the path unseen, and what else may have crossed a removal. *)
Unseen == cause \cap {"early", "cli"} # {}
Disturbed == cause \cap {"run", "early", "cli"} # {}

(* While the profile is not served, what the board had admitted is known to *)
(* be early, and its handles are closed; and where there is no directory    *)
(* nothing is admitted.                                                     *)
NotServed ==
  /\ removing => \A r \in Request : reqs[r] = None \/ reqs[r].early
  /\ removing /\ ~Unseen => stores = None /\ intents = None
  /\ dir = None /\ ~Unseen => \A r \in Request : reqs[r] = None \/ reqs[r].early

(* A directory says "running" while its run goes on; and a file is lifted   *)
(* for want of a row.                                                       *)
RunRecorded ==
  /\ \A g \in 1 .. MaxDirs : tree[g].run = "running" => run # None /\ run.at = "running" /\ run.gen = g
  /\ run # None /\ run.lift => run.found = None

(* An undisturbed removal is of the directory at the path, which is idle    *)
(* from when the profile stops being served.                                *)
RemovesIdle ==
  removal # None /\ ~Disturbed =>
    /\ removal.at = "runs" => dir # None
    /\ removal.at = "removing" => dir # None /\ dir = removal.gen
    /\ removal.at \in {"removing", "renamed"} =>
         tree[removal.gen].run # "running" /\ tree[removal.gen].intent # "pending"

LifeInv == LifeShapes /\ NotServed /\ RunRecorded /\ RemovesIdle /\ HandlesCurrent /\ MadeOnPurpose

(* What an opening by the path leaves there.                                *)
LEMMA OpensFits ==
  ASSUME LifeConstants, LifeShapes, CanOpen, NEW by \in {"opened", "run", "create", "build"}
  PROVE  /\ Opened \in 1 .. MaxDirs
         /\ dir # None => Opened = dir
         /\ dir = None => Opened = made + 1
         /\ WithDb(Opened, by) \in [1 .. MaxDirs -> Directory]
         /\ \A g \in 1 .. MaxDirs :
              /\ WithDb(Opened, by)[g].run = tree[g].run
              /\ WithDb(Opened, by)[g].intent = tree[g].intent
              /\ WithDb(Opened, by)[g].row = tree[g].row
              /\ WithDb(Opened, by)[g].by = IF dir = None /\ g = Opened THEN by ELSE tree[g].by
<1>1. made \in Nat /\ MaxDirs \in Nat /\ made <= MaxDirs /\ (dir # None => dir \in 1 .. made)
  BY DEF LifeShapes, LifeConstants
<1>2. Opened \in 1 .. MaxDirs /\ (dir # None => Opened = dir) /\ (dir = None => Opened = made + 1)
  BY <1>1 DEF CanOpen, Opened
<1> DEFINE t == WithDb(Opened, by)
           o == tree[Opened]
           n == [o EXCEPT !.db = TRUE, !.by = IF dir = None THEN by ELSE @]
<1>3. tree \in [1 .. MaxDirs -> Directory] /\ o \in Directory
  BY <1>2 DEF LifeShapes
<1>4. t = [tree EXCEPT ![Opened] = n]
  BY DEF WithDb
<1>5. /\ n \in Directory /\ n.run = o.run /\ n.intent = o.intent /\ n.row = o.row
      /\ n.by = IF dir = None THEN by ELSE o.by
  <2>1. PICK b \in {"opened", "run", "create", "build"} : b = IF dir = None THEN by ELSE o.by
    BY <1>3 DEF Directory
  <2>2. PICK m : m = [o EXCEPT !.db = TRUE, !.by = b]
    OBVIOUS
  <2>3. m = [db |-> TRUE, row |-> o.row, legacy |-> o.legacy, run |-> o.run, intent |-> o.intent, by |-> b]
    BY <1>3, <2>2 DEF Directory
  <2>4. n = m
    BY <2>1, <2>2
  <2>5. QED
    BY <1>3, <2>1, <2>3, <2>4 DEF Directory
<1> HIDE DEF n
<1>6. t \in [1 .. MaxDirs -> Directory] /\ \A g \in 1 .. MaxDirs : t[g] = IF g = Opened THEN n ELSE tree[g]
  BY <1>2, <1>3, <1>4, <1>5
<1> HIDE DEF t
<1>7. ASSUME NEW g \in 1 .. MaxDirs
      PROVE  /\ t[g].run = tree[g].run /\ t[g].intent = tree[g].intent /\ t[g].row = tree[g].row
             /\ t[g].by = IF dir = None /\ g = Opened THEN by ELSE tree[g].by
  BY <1>5, <1>6
<1>8. QED
  BY <1>2, <1>6, <1>7 DEF t

(* Opening makes a directory where there is none, and moves nothing else.   *)
LEMMA OpensPath ==
  ASSUME LifeConstants, LifeShapes, NEW by, Open(by)
  PROVE  /\ CanOpen /\ made' \in made .. MaxDirs /\ dir' \in 1 .. made' /\ dir' = Opened
         /\ dir # None => dir' = dir /\ made' = made
         /\ dir = None => dir' = made + 1 /\ made' = made + 1
BY DEF Open, CanOpen, Opened, LifeShapes, LifeConstants

(* One entry of the trees is written.                                       *)
LEMMA EntryFits ==
  ASSUME NEW t \in [1 .. MaxDirs -> Directory], NEW g \in 1 .. MaxDirs, NEW e \in Directory,
         NEW u, u = [t EXCEPT ![g] = e]
  PROVE  /\ u \in [1 .. MaxDirs -> Directory]
         /\ \A h \in 1 .. MaxDirs : u[h] = IF h = g THEN e ELSE t[h]
OBVIOUS

(* Entries as the steps write them.                                         *)
LEMMA RowFits ==
  ASSUME NEW e \in Directory, NEW v \in Row, NEW f, f = [e EXCEPT !.row = v]
  PROVE  f \in Directory /\ f.row = v /\ f.run = e.run /\ f.intent = e.intent /\ f.by = e.by
BY DEF Directory

LEMMA WithFits ==
  ASSUME NEW e \in Directory
  PROVE  /\ LET f == [e EXCEPT !.intent = "pending"] IN
              f \in Directory /\ f.row = e.row /\ f.run = e.run /\ f.by = e.by
         /\ LET f == [e EXCEPT !.db = TRUE] IN
              f \in Directory /\ f.row = e.row /\ f.run = e.run /\ f.by = e.by /\ f.intent = e.intent
         /\ LET f == [e EXCEPT !.run = "done"] IN
              f \in Directory /\ f.row = e.row /\ f.run = "done" /\ f.by = e.by /\ f.intent = e.intent
BY DEF Directory

(* The steps that make a directory which nobody asked for.                  *)
MakesUnasked ==
  \/ RunOpen \/ RunReopen
  \/ \E r \in Request : OpenStore(r) \/ PostIntent(r) \/ SaveDoc(r)

(* What a step may do to the directories.                                   *)
TreeStep ==
  /\ tree' \in [1 .. MaxDirs -> Directory]
  /\ \A g \in 1 .. MaxDirs :
       /\ tree'[g].run = "running" => tree[g].run = "running" \/ (RunBegin /\ g = run.gen)
       /\ tree'[g].intent = "pending" => tree[g].intent = "pending" \/ \E r \in Request : PostIntent(r)
       /\ tree'[g].row \in {tree[g].row} \cup Saved \/ tree[g].row = None
          \/ (SeedWrite /\ g = build.gen) \/ (RunLift /\ g = run.gen)
       /\ \/ tree'[g].by \in {tree[g].by, "create", "build"}
          \/ dir = None /\ g = made + 1 /\ MakesUnasked

(* The seed, or the lift, of a directory is made on purpose.                *)
LEMMA SeedFits ==
  ASSUME LifeConstants, LifeShapes, NEW by \in {"create", "build"}, SeedRead(by)
  PROVE  TreeStep /\ tree'[Opened].by \in {"create", "build"}
<1> DEFINE Dirs == 1 .. MaxDirs
<1>1. tree \in [Dirs -> Directory] /\ MaxDirs \in Nat /\ None \notin {"running", "pending"}
  BY DEF LifeShapes, LifeConstants
<1>2. Saved \subseteq Row /\ Legacy \in Row
  BY DEF Row
<1>3. PICK t, v, b : /\ t = WithDb(Opened, by) /\ v = Lifted(Opened)
                     /\ b = IF t[Opened].by \in {"opened", "run"} THEN by ELSE t[Opened].by
                     /\ Open(by) /\ tree' = [t EXCEPT ![Opened].row = v, ![Opened].by = b]
  BY DEF SeedRead
<1>4. /\ Opened \in Dirs /\ t \in [Dirs -> Directory]
      /\ \A h \in Dirs : /\ t[h].run = tree[h].run /\ t[h].row = tree[h].row
                         /\ t[h].intent = tree[h].intent
                         /\ t[h].by = tree[h].by \/ (dir = None /\ h = Opened /\ t[h].by = by)
  BY <1>3, OpensPath, OpensFits
<1>5. /\ v \in Row /\ b \in {"create", "build"}
      /\ v = tree[Opened].row \/ tree[Opened].row = None
  BY <1>3, <1>4, <1>1, <1>2 DEF Lifted, Directory
<1>6. PICK o \in Directory : o = t[Opened]
  BY <1>4
<1>7. PICK e : e = [o EXCEPT !.row = v, !.by = b]
  OBVIOUS
<1>8. e = [db |-> o.db, row |-> v, legacy |-> o.legacy, run |-> o.run, intent |-> o.intent, by |-> b]
  BY <1>7 DEF Directory
<1>9. e \in Directory /\ e.row = v /\ e.by = b /\ e.run = o.run /\ e.intent = o.intent
  BY <1>5, <1>8 DEF Directory
<1>10. tree' = [t EXCEPT ![Opened] = e]
  BY <1>3, <1>4, <1>6, <1>7
<1>11. tree' \in [Dirs -> Directory] /\ \A h \in Dirs : tree'[h] = IF h = Opened THEN e ELSE t[h]
  BY <1>4, <1>9, <1>10, EntryFits
<1>12. QED
  BY <1>4, <1>5, <1>6, <1>9, <1>11, <1>1 DEF TreeStep

LEMMA TreeKept ==
  ASSUME LifeConstants, LifeShapes, LifeNext
  PROVE  TreeStep
<1> DEFINE Dirs == 1 .. MaxDirs
<1>1. /\ tree \in [Dirs -> Directory] /\ MaxDirs \in Nat /\ None \notin {"running", "pending"}
      /\ made \in Nat /\ made <= MaxDirs /\ dir \in Dirs \cup {None}
      /\ stores \in Dirs \cup {None} /\ intents \in Dirs \cup {None}
      /\ build # None => build.gen \in Dirs
      /\ run # None /\ (run.at # "scanned" \/ run.lift) => run.gen \in Dirs
  BY DEF LifeShapes, LifeConstants, Build, RunOf
<1>2. /\ \A s \in Nat : s < MaxSaves => s + 1 \in Saved
      /\ Saved \subseteq Row /\ Seed \in Row /\ Legacy \in Row
  BY DEF LifeConstants, Saved, Row
<1>3. CASE UNCHANGED tree
  BY <1>1, <1>3 DEF TreeStep
<1>4. ASSUME NEW r \in Request, OpenStore(r), stores = None PROVE TreeStep
  <2>1. Open("opened") /\ tree' = WithDb(Opened, "opened")
    BY <1>4 DEF OpenStore
  <2>2. MakesUnasked
    BY <1>4 DEF MakesUnasked
  <2>3. QED
    BY <2>1, <2>2, <1>1, OpensPath, OpensFits DEF TreeStep
<1>5. ASSUME NEW r \in Request, PostIntent(r) PROVE TreeStep
  <2>0. PICK t : t = IF intents # None THEN tree ELSE WithDb(Opened, "opened")
    OBVIOUS
  <2> PICK g : g = IF intents # None THEN intents ELSE Opened
    OBVIOUS
  <2>1. /\ t \in [Dirs -> Directory] /\ g \in Dirs
        /\ tree' = [t EXCEPT ![g].intent = "pending"]
        /\ \A h \in Dirs : /\ t[h].run = tree[h].run /\ t[h].row = tree[h].row
                           /\ t[h].intent = tree[h].intent
                           /\ t[h].by = tree[h].by \/ (dir = None /\ h = made + 1)
    <3>1. CASE intents # None
      BY <1>1, <1>5, <2>0, <3>1 DEF PostIntent
    <3>2. CASE intents = None
      <4>1. /\ Open("opened") /\ tree' = [WithDb(Opened, "opened") EXCEPT ![Opened].intent = "pending"]
            /\ t = WithDb(Opened, "opened") /\ g = Opened
        BY <1>5, <2>0, <3>2 DEF PostIntent
      <4>2. CanOpen
        BY <4>1, OpensPath
      <4>3. QED
        BY <4>1, <4>2, OpensFits
    <3>3. QED
      BY <3>1, <3>2
  <2>2. PICK e \in Directory : e = [t[g] EXCEPT !.intent = "pending"] /\ e.row = t[g].row /\ e.run = t[g].run /\ e.by = t[g].by
    BY <2>1, WithFits
  <2>3. tree' \in [Dirs -> Directory] /\ \A h \in Dirs : tree'[h] = IF h = g THEN e ELSE t[h]
    BY <2>1, <2>2, EntryFits
  <2>4. MakesUnasked
    BY <1>5 DEF MakesUnasked
  <2>5. QED
    BY <2>1, <2>2, <2>3, <2>4, <1>5, <1>1 DEF TreeStep
<1>6. ASSUME NEW r \in Request, SaveDoc(r) PROVE TreeStep
  <2>1. PICK t, v : /\ t = WithDb(Opened, "opened") /\ v = saves + 1 /\ v \in Saved
                    /\ Open("opened") /\ tree' = [t EXCEPT ![Opened].row = v]
    BY <1>6, <1>2 DEF SaveDoc, LifeShapes
  <2>2. /\ Opened \in Dirs /\ t \in [Dirs -> Directory]
        /\ \A h \in Dirs : /\ t[h].run = tree[h].run /\ t[h].row = tree[h].row
                           /\ t[h].intent = tree[h].intent
                           /\ t[h].by = tree[h].by \/ (dir = None /\ h = made + 1)
    <3>1. CanOpen
      BY <2>1, OpensPath
    <3>2. QED
      BY <2>1, <3>1, OpensFits
  <2>3. PICK o \in Directory : o = t[Opened]
    BY <2>2
  <2> PICK e : e = [o EXCEPT !.row = v]
    OBVIOUS
  <2>7. e \in Directory /\ e.row = v /\ e.run = o.run /\ e.intent = o.intent /\ e.by = o.by
    BY <2>1, <1>2, RowFits
  <2>4. tree' \in [Dirs -> Directory] /\ \A h \in Dirs : tree'[h] = IF h = Opened THEN e ELSE t[h]
    BY <2>1, <2>2, <2>3, <2>7, EntryFits
  <2>5. MakesUnasked
    BY <1>6 DEF MakesUnasked
  <2>6. QED
    BY <2>1, <2>2, <2>3, <2>4, <2>5, <2>7, <1>1 DEF TreeStep
<1>7. ASSUME NEW by \in {"create", "build"}, SeedRead(by) PROVE TreeStep
  BY <1>7, SeedFits
<1>8. CASE SeedWrite
  <2>1. build # None /\ build.gen \in Dirs /\ tree' = [tree EXCEPT ![build.gen].row = Seed]
    BY <1>1, <1>8 DEF SeedWrite
  <2>2. PICK e \in Directory : /\ e = [tree[build.gen] EXCEPT !.row = Seed] /\ e.run = tree[build.gen].run
                               /\ e.intent = tree[build.gen].intent /\ e.by = tree[build.gen].by
    BY <2>1, <1>1, <1>2, RowFits
  <2>3. tree' \in [Dirs -> Directory] /\ \A h \in Dirs : tree'[h] = IF h = build.gen THEN e ELSE tree[h]
    BY <2>1, <2>2, <1>1, EntryFits
  <2>4. QED
    BY <2>2, <2>3, <1>1, <1>8 DEF TreeStep
<1>9. CASE RunOpen \/ RunReopen
  <2>1. Open("run") /\ tree' = WithDb(Opened, "run")
    BY <1>9 DEF RunOpen, RunReopen
  <2>2. MakesUnasked
    BY <1>9 DEF MakesUnasked
  <2>3. QED
    BY <2>1, <2>2, <1>1, OpensPath, OpensFits DEF TreeStep
<1>10. CASE RunLift
  <2>1. run.gen \in Dirs /\ tree' = [tree EXCEPT ![run.gen].row = Legacy]
    BY <1>1, <1>10 DEF RunLift
  <2>2. PICK e \in Directory : /\ e = [tree[run.gen] EXCEPT !.row = Legacy] /\ e.run = tree[run.gen].run
                               /\ e.intent = tree[run.gen].intent /\ e.by = tree[run.gen].by
    BY <2>1, <1>1, <1>2, RowFits
  <2>3. tree' \in [Dirs -> Directory] /\ \A h \in Dirs : tree'[h] = IF h = run.gen THEN e ELSE tree[h]
    BY <2>1, <2>2, <1>1, EntryFits
  <2>4. QED
    BY <2>2, <2>3, <1>1, <1>10 DEF TreeStep
<1>11. CASE RunBegin
  <2>1. PICK o, b : /\ run.gen \in Dirs /\ o = tree[run.gen] /\ o \in Directory
                    /\ b = IF o.intent = "pending" THEN "claimed" ELSE o.intent
                    /\ tree' = [tree EXCEPT ![run.gen].run = "running", ![run.gen].intent = b]
    BY <1>1, <1>11 DEF RunBegin
  <2>2. PICK e : e = [o EXCEPT !.run = "running", !.intent = b]
    OBVIOUS
  <2>3. e = [db |-> o.db, row |-> o.row, legacy |-> o.legacy, run |-> "running", intent |-> b, by |-> o.by]
    BY <2>1, <2>2 DEF Directory
  <2>4. e \in Directory /\ e.row = o.row /\ e.by = o.by /\ e.intent # "pending"
    BY <2>1, <2>3 DEF Directory
  <2>5. tree' = [tree EXCEPT ![run.gen] = e]
    BY <2>1, <2>2, <1>1
  <2>6. tree' \in [Dirs -> Directory] /\ \A h \in Dirs : tree'[h] = IF h = run.gen THEN e ELSE tree[h]
    BY <2>1, <2>4, <2>5, <1>1, EntryFits
  <2>8. QED
    BY <2>1, <2>4, <2>6, <1>1, <1>11 DEF TreeStep
<1>12. CASE RunEnd
  <2>1. run.gen \in Dirs /\ tree' = [tree EXCEPT ![run.gen].run = "done"]
    BY <1>1, <1>12 DEF RunEnd
  <2>2. PICK e \in Directory : /\ e = [tree[run.gen] EXCEPT !.run = "done"] /\ e.run = "done" /\ e.row = tree[run.gen].row
                               /\ e.intent = tree[run.gen].intent /\ e.by = tree[run.gen].by
    BY <2>1, <1>1, WithFits
  <2>3. tree' \in [Dirs -> Directory] /\ \A h \in Dirs : tree'[h] = IF h = run.gen THEN e ELSE tree[h]
    BY <2>1, <2>2, <1>1, EntryFits
  <2>4. QED
    BY <2>2, <2>3, <1>1 DEF TreeStep
<1>13. CASE CheckIntents
  <2>1. CASE UNCHANGED tree
    BY <2>1, <1>3
  <2>2. CASE dir # None /\ tree' = [tree EXCEPT ![dir].db = TRUE]
    <3>1. dir \in Dirs
      BY <1>1, <2>2
    <3>2. PICK e \in Directory : /\ e = [tree[dir] EXCEPT !.db = TRUE] /\ e.run = tree[dir].run /\ e.row = tree[dir].row
                                 /\ e.intent = tree[dir].intent /\ e.by = tree[dir].by
      BY <3>1, <1>1, WithFits
    <3>3. tree' \in [Dirs -> Directory] /\ \A h \in Dirs : tree'[h] = IF h = dir THEN e ELSE tree[h]
      BY <2>2, <3>1, <3>2, <1>1, EntryFits
    <3>5. QED
      BY <3>2, <3>3, <1>1 DEF TreeStep
  <2>3. QED
    BY <1>13, <2>1, <2>2 DEF CheckIntents
<1>14. QED
  <2>1. CASE \E r \in Request : OpenStore(r)
    BY <2>1, <1>3, <1>4 DEF OpenStore
  <2>2. CASE (\E r \in Request, kind \in {"open", "intent", "save"} : Admit(r, kind)) \/ RunScan \/ CheckRuns
             \/ Rename \/ RenameFails \/ Bury \/ CliRemove \/ BoardDies
    BY <2>2, <1>3 DEF Admit, RunScan, CheckRuns, Rename, RenameFails, Bury, CliRemove, BoardDies
  <2>3. QED
    BY <2>1, <2>2, <1>5, <1>6, <1>7, <1>8, <1>9, <1>10, <1>11, <1>12, <1>13 DEF LifeNext

(* Everything a step leaves is of its shape.                                *)
LEMMA ShapesKept ==
  ASSUME LifeConstants, LifeShapes, LifeNext
  PROVE  LifeShapes'
<1> USE DEF LifeShapes, LifeConstants
<1>1. tree' \in [1 .. MaxDirs -> Directory]
  BY TreeKept DEF TreeStep
<1>2. ASSUME NEW by \in {"opened", "run", "create", "build"}, Open(by)
      PROVE  /\ made \in Nat /\ made' \in made .. MaxDirs /\ made' \in 0 .. MaxDirs
             /\ dir' \in 1 .. made' /\ Opened \in 1 .. made'
             /\ 1 .. made \subseteq 1 .. made'
  BY <1>2, OpensPath
<1>3. ASSUME NEW m \in Nat, made <= m
      PROVE  /\ Removal(1 .. made) \subseteq Removal(1 .. m)
             /\ Build(1 .. made) \subseteq Build(1 .. m)
             /\ RunOf(1 .. made) \subseteq RunOf(1 .. m)
  BY <1>3 DEF Removal, Build, RunOf
<1>4. ASSUME NEW r \in Request, Served(r)
      PROVE  reqs' \in [Request -> ServedRequest \cup {None}]
  BY <1>4 DEF Served
<1>5. ASSUME NEW r \in Request, OpenStore(r) PROVE LifeShapes'
  <2>1. CASE stores # None
    BY <1>1, <1>4, <1>5, <2>1 DEF OpenStore
  <2>2. CASE stores = None
    BY <1>1, <1>2, <1>3, <1>4, <1>5, <2>2 DEF OpenStore
  <2>3. QED
    BY <2>1, <2>2
<1>6. ASSUME NEW r \in Request, PostIntent(r) PROVE LifeShapes'
  <2>1. CASE intents # None
    BY <1>1, <1>4, <1>6, <2>1 DEF PostIntent
  <2>2. CASE intents = None
    BY <1>1, <1>2, <1>3, <1>4, <1>6, <2>2 DEF PostIntent
  <2>3. QED
    BY <2>1, <2>2
<1>7. ASSUME NEW r \in Request, SaveDoc(r) PROVE LifeShapes'
  BY <1>1, <1>2, <1>3, <1>4, <1>7 DEF SaveDoc
<1>8. ASSUME NEW r \in Request, NEW kind \in {"open", "intent", "save"}, Admit(r, kind) PROVE LifeShapes'
  BY <1>1, <1>8 DEF Admit, ServedRequest
<1>9. ASSUME NEW by \in {"create", "build"}, SeedRead(by) PROVE LifeShapes'
  <2>1. [by |-> by, gen |-> Opened] \in Build(1 .. made')
    BY <1>2, <1>9 DEF SeedRead, Build
  <2>2. QED
    BY <1>1, <1>2, <1>3, <1>9, <2>1 DEF SeedRead
<1>10. CASE SeedWrite
  BY <1>1, <1>10 DEF SeedWrite
<1>11. CASE RunScan
  <2>1. run' \in RunOf(1 .. made) /\ run'.at = "scanned" /\ ~run'.lift
    BY <1>11 DEF RunScan, RunOf, Row
  <2>2. QED
    BY <1>1, <1>11, <2>1 DEF RunScan
<1>12. CASE RunOpen
  <2>1. PICK w : w = [at |-> "open", gen |-> Opened, lift |-> Lifts(Opened), found |-> tree[Opened].row]
    OBVIOUS
  <2>2. Open("run") /\ (run' = None \/ run' = w)
    BY <1>12, <2>1 DEF RunOpen
  <2>3. Opened \in 1 .. made' /\ Opened \in 1 .. MaxDirs
    BY <1>2, <2>2
  <2>4. tree[Opened].row \in Row
    BY <2>3 DEF Directory
  <2>5. w \in RunOf(1 .. made') /\ w.at = "open" /\ w.gen # None
    BY <2>1, <2>3, <2>4 DEF RunOf, Lifts
  <2>6. QED
    BY <1>1, <1>2, <1>3, <1>12, <2>2, <2>5 DEF RunOpen
<1>13. CASE RunLift \/ RunBegin
  <2>1. /\ run # None /\ run \in RunOf(1 .. made) /\ run.gen # None
        /\ \/ run' = [run EXCEPT !.lift = FALSE]
           \/ run' = [run EXCEPT !.at = "running"] /\ ~run.lift
    BY <1>13 DEF RunLift, RunBegin
  <2>2. /\ run' \in RunOf(1 .. made) /\ run'.gen = run.gen
        /\ ~run'.lift
    BY <2>1 DEF RunOf
  <2>3. QED
    BY <1>1, <1>13, <2>1, <2>2 DEF RunLift, RunBegin
<1>14. CASE RunReopen
  BY <1>1, <1>2, <1>3, <1>14 DEF RunReopen
<1>15. CASE RunEnd
  BY <1>1, <1>15 DEF RunEnd
<1>16. CASE CheckRuns
  <2>1. removal' \in Removal(1 .. made) /\ removal'.at = "runs" /\ ~removing /\ dir # None
    BY <1>16 DEF CheckRuns, Removal, Listed
  <2>2. QED
    BY <1>1, <1>16, <2>1 DEF CheckRuns
<1>17. CASE CheckIntents
  <2>1. CASE EndRemoval /\ UNCHANGED <<stores, reqs, cause>> /\ dir # None
             /\ intents' = IF intents # None THEN intents ELSE dir
    BY <1>1, <1>17, <2>1 DEF CheckIntents, EndRemoval
  <2>2. CASE /\ removing' = TRUE /\ removal' = [at |-> "removing", gen |-> dir]
             /\ stores' = None /\ intents' = None /\ reqs' = Early
    <3>1. removal' \in Removal(1 .. made) /\ removal'.at = "removing"
      BY <2>2 DEF Removal
    <3>2. reqs' \in [Request -> ServedRequest \cup {None}]
      BY <2>2 DEF Early, ServedRequest
    <3>3. removal' # None
      BY <3>1 DEF Removal
    <3>4. QED
      BY <1>1, <1>17, <2>2, <3>1, <3>2, <3>3 DEF CheckIntents
  <2>3. QED
    BY <1>17, <2>1, <2>2 DEF CheckIntents, Released
<1>18. CASE Rename
  <2>1. CASE dir # None /\ removal' = [at |-> "renamed", gen |-> dir] /\ dir' = None /\ UNCHANGED removing
    <3>1. removal' \in Removal(1 .. made) /\ removal'.at = "renamed" /\ removal'.gen # None
      BY <2>1 DEF Removal
    <3>2. removing /\ removing' /\ removal' # None /\ dir' \in 1 .. made' \cup {None}
      BY <1>18, <2>1, <3>1 DEF Rename, Removal
    <3>3. QED
      BY <1>1, <1>18, <2>1, <3>1, <3>2 DEF Rename
  <2>2. CASE EndRemoval /\ UNCHANGED dir
    BY <1>1, <1>18, <2>2 DEF Rename, EndRemoval
  <2>3. QED
    BY <1>18, <2>1, <2>2 DEF Rename
<1>19. CASE RenameFails \/ Bury \/ CliRemove
  <2>1. CASE RenameFails
    BY <1>1, <2>1 DEF RenameFails, EndRemoval
  <2>2. CASE Bury
    BY <1>1, <2>2 DEF Bury, EndRemoval
  <2>3. CASE CliRemove
    BY <1>1, <2>3 DEF CliRemove
  <2>4. QED
    BY <1>19, <2>1, <2>2, <2>3
<1>20. CASE BoardDies
  BY <1>1, <1>20 DEF BoardDies, EndRemoval
<1>21. QED
  BY <1>5, <1>6, <1>7, <1>8, <1>9, <1>10, <1>11, <1>12, <1>13, <1>14, <1>15, <1>16, <1>17, <1>18, <1>19, <1>20
     DEF LifeNext

(* What crossed is remembered.                                              *)
LEMMA CausesStay ==
  ASSUME LifeNext
  PROVE  /\ Unseen => Unseen'
         /\ Disturbed => Disturbed'
<1>1. cause \subseteq cause'
  BY DEF LifeNext, Admit, Served, OpenStore, PostIntent, SaveDoc, SeedRead, SeedWrite, RunScan, RunOpen, RunLift,
         RunBegin, RunReopen, RunEnd, CheckRuns, CheckIntents, Rename, RenameFails, Bury, CliRemove, BoardDies
<1>2. QED
  BY <1>1 DEF Unseen, Disturbed

(* A request served late is remembered as such.                             *)
LEMMA EarlySeen ==
  ASSUME NEW r \in Request, OpenStore(r) \/ PostIntent(r) \/ SaveDoc(r)
  PROVE  /\ reqs[r] # None /\ reqs' = [reqs EXCEPT ![r] = None]
         /\ reqs[r].early => Unseen' /\ Disturbed'
         /\ UNCHANGED <<removing, removal, build, run>>
BY DEF OpenStore, PostIntent, SaveDoc, Served, Unseen, Disturbed

LEMMA NotServedKept ==
  ASSUME LifeConstants, LifeShapes, NotServed, LifeNext
  PROVE  NotServed'
<1>1. reqs \in [Request -> ServedRequest \cup {None}] /\ removing \in BOOLEAN
  BY DEF LifeShapes
<1>2. /\ Unseen => Unseen'
      /\ made \in Nat /\ None \notin Nat /\ None \notin ServedRequest
      /\ dir # None => dir \in 1 .. made
      /\ removal # None /\ removal.at \in {"removing", "renamed"} <=> removing
  BY CausesStay DEF LifeShapes, LifeConstants
<1>3. ASSUME NEW by, Open(by) PROVE dir' # None
  BY <1>2, <1>3, OpensPath
<1>4. ASSUME NEW r \in Request, OpenStore(r) \/ PostIntent(r) \/ SaveDoc(r) PROVE NotServed'
  <2>1. /\ reqs[r] # None /\ reqs' = [reqs EXCEPT ![r] = None]
        /\ reqs[r].early => Unseen'
        /\ UNCHANGED removing
    BY <1>4, EarlySeen
  <2>2. removing => Unseen'
    BY <2>1 DEF NotServed
  <2>3. dir' = None => dir = None
    BY <1>3, <1>4 DEF OpenStore, PostIntent, SaveDoc
  <2>4. \A q \in Request : reqs[q] = None \/ reqs[q].early => reqs'[q] = None \/ reqs'[q].early
    BY <2>1, <1>1
  <2>5. QED
    BY <1>2, <2>1, <2>2, <2>3, <2>4 DEF NotServed
<1>5. ASSUME NEW r \in Request, NEW kind \in {"open", "intent", "save"}, Admit(r, kind) PROVE NotServed'
  BY <1>2, <1>5 DEF Admit, Listed, NotServed
<1>6. CASE (\E by \in {"create", "build"} : SeedRead(by)) \/ RunOpen \/ RunReopen
  BY <1>2, <1>3, <1>6 DEF SeedRead, RunOpen, RunReopen, NotServed
<1>7. CASE SeedWrite \/ RunScan \/ RunLift \/ RunBegin \/ RunEnd
  BY <1>2, <1>7 DEF SeedWrite, RunScan, RunLift, RunBegin, RunEnd, NotServed
<1>8. CASE CheckRuns
  BY <1>2, <1>8 DEF CheckRuns, Listed, NotServed
<1>9. CASE CheckIntents
  <2>1. CASE EndRemoval /\ UNCHANGED <<reqs, cause>>
    BY <1>2, <1>9, <2>1 DEF CheckIntents, EndRemoval, NotServed
  <2>2. CASE reqs' = Early /\ stores' = None /\ intents' = None
    <3>1. \A r \in Request : reqs'[r] = None \/ reqs'[r].early
      BY <1>1, <2>2 DEF Early, ServedRequest
    <3>2. QED
      BY <2>2, <3>1 DEF NotServed
  <2>3. QED
    BY <1>9, <2>1, <2>2 DEF CheckIntents, Released
<1>10. CASE Rename
  <2>1. CASE dir # None /\ dir' = None /\ UNCHANGED <<removing, stores, intents, reqs, cause>>
    <3>1. removing
      BY <1>2, <1>10 DEF Rename
    <3>2. QED
      BY <1>2, <2>1, <3>1 DEF NotServed
  <2>2. CASE EndRemoval /\ UNCHANGED dir
    BY <1>2, <1>10, <2>2 DEF Rename, EndRemoval, NotServed
  <2>3. QED
    BY <1>10, <2>1, <2>2 DEF Rename
<1>11. CASE RenameFails \/ Bury
  BY <1>2, <1>11 DEF RenameFails, Bury, EndRemoval, NotServed
<1>12. CASE CliRemove
  <2>1. Unseen'
    BY <1>12 DEF CliRemove, Unseen
  <2>2. QED
    BY <1>12, <2>1 DEF CliRemove, NotServed
<1>13. CASE BoardDies
  BY <1>13 DEF BoardDies, EndRemoval, NotServed
<1>14. QED
  BY <1>4, <1>5, <1>6, <1>7, <1>8, <1>9, <1>10, <1>11, <1>12, <1>13 DEF LifeNext

LEMMA RunRecordedKept ==
  ASSUME LifeConstants, LifeShapes, RunRecorded, LifeNext
  PROVE  RunRecorded'
<1> DEFINE Dirs == 1 .. MaxDirs
<1>1. /\ TreeStep
      /\ run # None => run \in RunOf(1 .. made)
      /\ None \notin Nat /\ None \notin RunOf(Nat) /\ made \in Nat /\ made <= MaxDirs /\ MaxDirs \in Nat
      /\ None \notin {"running", "pending"}
      /\ tree \in [Dirs -> Directory]
      /\ run # None /\ run.at # "scanned" => run.gen \in Dirs
  BY TreeKept DEF LifeShapes, LifeConstants, RunOf
<1>2. ASSUME UNCHANGED run, ~RunBegin PROVE RunRecorded'
  BY <1>1, <1>2 DEF RunRecorded, TreeStep
<1>3. CASE RunScan
  <2>1. run = None /\ run'.found = None /\ UNCHANGED tree
    BY <1>3 DEF RunScan
  <2>2. QED
    BY <2>1 DEF RunRecorded
<1>4. CASE RunOpen
  <2>1. PICK w : w = [at |-> "open", gen |-> Opened, lift |-> Lifts(Opened), found |-> tree[Opened].row]
    OBVIOUS
  <2>2. run' = None \/ run' = w
    BY <1>4, <2>1 DEF RunOpen
  <2>3. w.lift => w.found = None
    BY <2>1 DEF Lifts
  <2>4. \A g \in Dirs : tree'[g].run # "running"
    BY <1>1, <1>4 DEF RunOpen, RunBegin, RunRecorded, TreeStep
  <2>5. QED
    BY <2>2, <2>3, <2>4 DEF RunRecorded
<1>5. CASE RunLift
  <2>1. /\ run # None /\ run \in RunOf(1 .. made)
        /\ run' = [run EXCEPT !.lift = FALSE]
    BY <1>1, <1>5 DEF RunLift
  <2>2. run' \in RunOf(Nat) /\ run'.at = run.at /\ run'.gen = run.gen /\ ~run'.lift
    <3>1. run \in RunOf(Nat)
      BY <1>1, <2>1 DEF RunOf
    <3>2. QED
      BY <2>1, <3>1 DEF RunOf
  <2>3. ~RunBegin
    BY <1>5 DEF RunBegin, RunLift
  <2>4. QED
    BY <1>1, <2>1, <2>2, <2>3 DEF RunRecorded, TreeStep
<1>6. CASE RunBegin
  <2>1. /\ run # None /\ run \in RunOf(1 .. made) /\ run.at = "open" /\ ~run.lift
        /\ run' = [run EXCEPT !.at = "running"]
    BY <1>1, <1>6 DEF RunBegin
  <2>2. run' \in RunOf(Nat) /\ run'.at = "running" /\ run'.gen = run.gen /\ ~run'.lift
    BY <1>1, <2>1 DEF RunOf
  <2>3. ASSUME NEW g \in Dirs, tree'[g].run = "running" PROVE g = run.gen
    BY <1>1, <2>1, <2>3 DEF RunRecorded, TreeStep
  <2>4. QED
    BY <1>1, <2>2, <2>3 DEF RunRecorded
<1>7. CASE RunEnd
  <2>1. run # None /\ run.gen \in Dirs /\ run' = None /\ tree' = [tree EXCEPT ![run.gen].run = "done"]
    BY <1>1, <1>7 DEF RunEnd
  <2>2. tree'[run.gen].run # "running"
    BY <1>1, <2>1 DEF Directory
  <2>3. \A g \in Dirs : g # run.gen => tree'[g].run # "running"
    BY <1>1, <2>1 DEF RunRecorded
  <2>4. QED
    BY <2>1, <2>2, <2>3 DEF RunRecorded
<1>8. QED
  <2>1. CASE RunScan \/ RunOpen \/ RunLift \/ RunBegin \/ RunEnd
    BY <1>3, <1>4, <1>5, <1>6, <1>7, <2>1
  <2>2. CASE ~(RunScan \/ RunOpen \/ RunLift \/ RunBegin \/ RunEnd)
    <3>1. UNCHANGED run
      BY <2>2 DEF LifeNext, Admit, OpenStore, PostIntent, SaveDoc, SeedRead, SeedWrite, RunReopen, CheckRuns,
                  CheckIntents, Rename, RenameFails, Bury, CliRemove, BoardDies
    <3>2. QED
      BY <1>2, <2>2, <3>1
  <2>3. QED
    BY <2>1, <2>2

LEMMA HandlesKept ==
  ASSUME LifeConstants, LifeShapes, NotServed, HandlesCurrent, LifeNext
  PROVE  HandlesCurrent'
<1>1. /\ Unseen => Unseen'
      /\ None \notin Nat
      /\ dir # None => dir \in Nat
      /\ removal # None /\ removal.at \in {"removing", "renamed"} <=> removing
  BY CausesStay DEF LifeShapes, LifeConstants
<1>2. ASSUME ~Unseen
      PROVE  (stores # None => stores = dir) /\ (intents # None => intents = dir)
  BY <1>2 DEF HandlesCurrent, Unseen
<1>3. ASSUME \/ (stores' # None => stores' = dir') /\ (intents' # None => intents' = dir')
             \/ Unseen'
      PROVE  HandlesCurrent'
  BY <1>3 DEF HandlesCurrent, Unseen
<1>4. ASSUME NEW by, Open(by) PROVE dir' = Opened /\ (dir # None => dir' = dir)
  BY <1>4, OpensPath
<1>5. CASE Unseen
  BY <1>1, <1>3, <1>5
<1>6. ASSUME ~Unseen PROVE HandlesCurrent'
  <2>1. CASE (\E r \in Request : OpenStore(r) \/ PostIntent(r) \/ SaveDoc(r))
             \/ (\E by \in {"create", "build"} : SeedRead(by)) \/ RunOpen \/ RunReopen
    <3>1. /\ stores' \in {stores, Opened} /\ intents' \in {intents, Opened}
          /\ UNCHANGED dir \/ \E by : Open(by)
          /\ stores' # stores \/ intents' # intents => \E by : Open(by)
      BY <2>1 DEF OpenStore, PostIntent, SaveDoc, SeedRead, RunOpen, RunReopen
    <3>2. QED
      BY <1>2, <1>3, <1>4, <1>6, <3>1
  <2>2. CASE (\E r \in Request, kind \in {"open", "intent", "save"} : Admit(r, kind))
             \/ SeedWrite \/ RunScan \/ RunLift \/ RunBegin \/ RunEnd
    BY <1>2, <1>3, <1>6, <2>2 DEF Admit, SeedWrite, RunScan, RunLift, RunBegin, RunEnd
  <2>3. CASE CheckRuns
    BY <1>2, <1>3, <1>6, <2>3 DEF CheckRuns
  <2>4. CASE CheckIntents
    BY <1>2, <1>3, <1>6, <2>4 DEF CheckIntents, Released
  <2>5. CASE Rename
    BY <1>1, <1>2, <1>3, <1>6, <2>5 DEF Rename, NotServed
  <2>6. CASE RenameFails \/ Bury
    BY <1>2, <1>3, <1>6, <2>6 DEF RenameFails, Bury
  <2>7. CASE CliRemove
    BY <1>3, <2>7 DEF CliRemove, Unseen
  <2>8. CASE BoardDies
    BY <1>3, <2>8 DEF BoardDies
  <2>9. QED
    BY <2>1, <2>2, <2>3, <2>4, <2>5, <2>6, <2>7, <2>8 DEF LifeNext
<1>7. QED
  BY <1>5, <1>6

LEMMA MadeKept ==
  ASSUME LifeConstants, LifeShapes, NotServed, MadeOnPurpose, LifeNext
  PROVE  MadeOnPurpose'
<1>1. /\ TreeStep /\ (Disturbed => Disturbed')
      /\ made \in Nat /\ MaxDirs \in Nat /\ made' \in 0 .. MaxDirs
  BY TreeKept, ShapesKept, CausesStay DEF LifeShapes, LifeConstants
<1>2. CASE Disturbed
  BY <1>1, <1>2 DEF MadeOnPurpose, Disturbed
<1>3. CASE ~Disturbed
  <2>1. ASSUME NEW g \in 1 .. made', ~Disturbed' PROVE tree'[g].by \in {"create", "build"}
    <3>1. CASE g \in 1 .. made
      <4>1. tree[g].by \in {"create", "build"}
        BY <1>3, <3>1 DEF MadeOnPurpose, Disturbed
      <4>2. g \in 1 .. MaxDirs /\ g # made + 1
        BY <1>1, <3>1
      <4>3. QED
        BY <1>1, <4>1, <4>2 DEF TreeStep
    <3>2. CASE g \notin 1 .. made
      <4>1. PICK by : Open(by)
        <5>1. made' # made
          BY <1>1, <3>2
        <5>2. QED
          BY <5>1 DEF LifeNext, Admit, OpenStore, PostIntent, SaveDoc, SeedRead, SeedWrite, RunScan, RunOpen, RunLift,
                RunBegin, RunReopen, RunEnd, CheckRuns, CheckIntents, Rename, RenameFails, Bury, CliRemove, BoardDies
      <4>2. dir = None /\ g = made + 1 /\ made' = made + 1
        BY <1>1, <3>2, <4>1, OpensPath
      <4>3. ~MakesUnasked
        <5>1. ~Unseen
          BY <1>3 DEF Disturbed, Unseen
        <5>2. ASSUME NEW r \in Request, OpenStore(r) \/ PostIntent(r) \/ SaveDoc(r) PROVE FALSE
          <6>1. reqs[r] # None /\ (reqs[r].early => Disturbed')
            BY <5>2, EarlySeen
          <6>2. QED
            BY <2>1, <4>2, <5>1, <6>1 DEF NotServed
        <5>3. ASSUME RunOpen \/ RunReopen PROVE FALSE
          BY <2>1, <4>2, <5>3 DEF RunOpen, RunReopen, Disturbed
        <5>4. QED
          BY <5>2, <5>3 DEF MakesUnasked
      <4>4. PICK b \in {"create", "build"} : SeedRead(b)
        <5>1. made' # made
          BY <1>1, <4>2
        <5>2. QED
          BY <4>3, <5>1 DEF LifeNext, MakesUnasked, Admit, SeedWrite, RunScan, RunLift, RunBegin, RunEnd, CheckRuns,
                CheckIntents, Rename, RenameFails, Bury, CliRemove, BoardDies
      <4>5. QED
        BY <4>2, <4>4, SeedFits DEF Opened
    <3>3. QED
      BY <3>1, <3>2
  <2>2. QED
    BY <2>1 DEF MadeOnPurpose, Disturbed
<1>4. QED
  BY <1>2, <1>3

LEMMA RemovesIdleKept ==
  ASSUME LifeConstants, LifeInv, LifeNext
  PROVE  RemovesIdle'
<1> DEFINE Dirs == 1 .. MaxDirs
<1>1. /\ LifeShapes /\ NotServed /\ RunRecorded /\ RemovesIdle /\ HandlesCurrent
      /\ TreeStep
      /\ Disturbed => Disturbed'
      /\ None \notin Nat /\ made \in Nat /\ made <= MaxDirs /\ MaxDirs \in Nat
      /\ dir # None => dir \in Dirs
      /\ removal # None => removal.gen \in Dirs \cup {None} /\ removal.at \in {"runs", "removing", "renamed"}
      /\ removal # None /\ removal.at \in {"removing", "renamed"} <=> removing
      /\ removal # None /\ removal.at = "renamed" => removal.gen # None
  BY TreeKept, CausesStay DEF LifeInv, LifeShapes, LifeConstants, Removal
<1>2. CASE Disturbed'
  BY <1>2 DEF RemovesIdle, Disturbed
<1>3. CASE ~Disturbed'
  <2>1. ~Disturbed /\ ~Unseen
    BY <1>1, <1>3 DEF Disturbed, Unseen
  <2>2. ASSUME UNCHANGED removal, dir # None => dir' = dir PROVE RemovesIdle'
    <3>1. CASE removal = None \/ removal.at = "runs"
      BY <1>1, <2>1, <2>2, <3>1 DEF RemovesIdle
    <3>2. CASE removal # None /\ removal.at # "runs"
      <4>1. PICK g \in Dirs : /\ g = removal.gen /\ tree[g].run # "running" /\ tree[g].intent # "pending"
                              /\ removal.at = "removing" => dir # None /\ dir = g
        BY <1>1, <2>1, <3>2 DEF RemovesIdle
      <4>2. tree'[g].run # "running"
        <5>1. ASSUME RunBegin, g = run.gen PROVE FALSE
          BY <1>3, <3>2, <4>1, <5>1 DEF RunBegin, Disturbed
        <5>2. QED
          BY <1>1, <4>1, <5>1 DEF TreeStep
      <4>3. tree'[g].intent # "pending"
        <5>1. ASSUME NEW r \in Request, PostIntent(r) PROVE FALSE
          <6>1. reqs[r] # None /\ (reqs[r].early => Disturbed')
            BY <5>1, EarlySeen
          <6>2. QED
            BY <1>1, <1>3, <3>2, <6>1 DEF NotServed
        <5>2. QED
          BY <1>1, <4>1, <5>1 DEF TreeStep
      <4>4. QED
        BY <2>2, <3>2, <4>1, <4>2, <4>3 DEF RemovesIdle
    <3>3. QED
      BY <3>1, <3>2
  <2>3. ASSUME NEW by, Open(by) PROVE dir # None => dir' = dir
    BY <1>1, <2>3, OpensPath
  <2>4. CASE (\E r \in Request : OpenStore(r) \/ PostIntent(r) \/ SaveDoc(r))
             \/ (\E by \in {"create", "build"} : SeedRead(by)) \/ RunOpen \/ RunReopen
    BY <2>2, <2>3, <2>4 DEF OpenStore, PostIntent, SaveDoc, SeedRead, RunOpen, RunReopen
  <2>5. CASE (\E r \in Request, kind \in {"open", "intent", "save"} : Admit(r, kind))
             \/ SeedWrite \/ RunScan \/ RunLift \/ RunBegin \/ RunEnd
    BY <2>2, <2>5 DEF Admit, SeedWrite, RunScan, RunLift, RunBegin, RunEnd
  <2>6. CASE CheckRuns
    <3>1. dir # None /\ dir' = dir /\ removal' = [at |-> "runs", gen |-> dir]
      BY <2>6 DEF CheckRuns, Listed
    <3>2. QED
      BY <3>1 DEF RemovesIdle
  <2>7. CASE CheckIntents
    <3>1. CASE removal' = None
      BY <3>1 DEF RemovesIdle
    <3>2. CASE /\ removal' = [at |-> "removing", gen |-> dir]
               /\ cause' = cause \cup (IF run # None THEN {"run"} ELSE {})
               /\ dir = None \/ NothingQueued(IF intents # None THEN intents ELSE dir)
      <4>1. dir # None /\ removal # None /\ removal.at = "runs" /\ dir' = dir
        BY <1>1, <2>1, <2>7 DEF CheckIntents, RemovesIdle
      <4>2. tree[dir].intent # "pending"
        BY <1>1, <2>1, <3>2, <4>1 DEF HandlesCurrent, NothingQueued, Unseen
      <4>3. tree[dir].run # "running" /\ ~RunBegin
        BY <1>1, <1>3, <3>2, <4>1 DEF RunRecorded, Disturbed, RunBegin
      <4>4. ASSUME NEW r \in Request, PostIntent(r) PROVE FALSE
        BY <3>2, <4>1, <4>4, EarlySeen
      <4>5. tree'[dir].intent # "pending" /\ tree'[dir].run # "running"
        BY <1>1, <4>1, <4>2, <4>3, <4>4 DEF TreeStep
      <4>6. QED
        BY <3>2, <4>1, <4>5 DEF RemovesIdle
    <3>3. QED
      BY <2>7, <3>1, <3>2 DEF CheckIntents, EndRemoval
  <2>8. CASE Rename
    <3>1. CASE removal' = None
      BY <3>1 DEF RemovesIdle
    <3>2. CASE dir # None /\ removal' = [at |-> "renamed", gen |-> dir]
      <4>1. /\ dir = removal.gen /\ UNCHANGED tree
            /\ tree[dir].run # "running" /\ tree[dir].intent # "pending"
        BY <1>1, <2>1, <2>8 DEF Rename, RemovesIdle
      <4>2. QED
        BY <3>2, <4>1 DEF RemovesIdle
    <3>3. QED
      BY <2>8, <3>1, <3>2 DEF Rename, EndRemoval
  <2>9. CASE RenameFails \/ Bury \/ BoardDies
    BY <2>9 DEF RenameFails, Bury, BoardDies, EndRemoval, RemovesIdle
  <2>10. CASE CliRemove
    BY <1>3, <2>10 DEF CliRemove, Disturbed
  <2>11. QED
    BY <2>4, <2>5, <2>6, <2>7, <2>8, <2>9, <2>10 DEF LifeNext
<1>4. QED
  BY <1>2, <1>3

LEMMA LifeInvHolds ==
  ASSUME LifeConstants
  PROVE  LifeSpec => []LifeInv
<1>1. ASSUME LifeInit PROVE LifeInv
  <2>1. dir \in {None, 1} /\ made = (IF dir = None THEN 0 ELSE 1) /\ made \in 0 .. MaxDirs
        /\ dir \in 1 .. made \cup {None}
    BY <1>1 DEF LifeInit, LifeConstants
  <2>2. PICK l \in {Legacy, Malformed} :
          tree = [g \in 1 .. MaxDirs |-> IF g = 1 /\ dir = 1 THEN [Empty EXCEPT !.legacy = l, !.by = "create"] ELSE Empty]
    BY <1>1 DEF LifeInit
  <2> PICK e : e = [Empty EXCEPT !.legacy = l, !.by = "create"]
    OBVIOUS
  <2>3. /\ Empty \in Directory /\ Empty.run = None
        /\ e \in Directory /\ e.run = None /\ e.by = "create"
    <3>1. e = [db |-> FALSE, row |-> None, legacy |-> l, run |-> None, intent |-> None, by |-> "create"]
      BY DEF Empty
    <3>2. QED
      BY <3>1 DEF Empty, Directory, Row
  <2>7. /\ tree \in [1 .. MaxDirs -> Directory]
        /\ \A g \in 1 .. MaxDirs : tree[g] \in {e, Empty} /\ (g = 1 /\ dir = 1 => tree[g] = e)
    BY <2>2, <2>3
  <2>8. LifeShapes
    BY <1>1, <2>1, <2>7 DEF LifeInit, LifeShapes
  <2>9. MadeOnPurpose
    <3> SUFFICES ASSUME NEW g \in 1 .. made PROVE tree[g].by = "create"
      BY DEF MadeOnPurpose
    <3>1. dir = 1 /\ g = 1 /\ g \in 1 .. MaxDirs
      BY <2>1 DEF LifeConstants
    <3>2. QED
      BY <2>3, <2>7, <3>1
  <2>4. NotServed /\ HandlesCurrent /\ RemovesIdle
    BY <1>1 DEF LifeInit, NotServed, HandlesCurrent, RemovesIdle
  <2>5. RunRecorded
    BY <1>1, <2>3, <2>7 DEF LifeInit, RunRecorded, LifeConstants
  <2>6. QED
    BY <2>4, <2>5, <2>8, <2>9 DEF LifeInv
<1>2. ASSUME LifeInv, [LifeNext]_lifeVars PROVE LifeInv'
  <2>1. CASE LifeNext
    BY <1>2, <2>1, ShapesKept, NotServedKept, RunRecordedKept, RemovesIdleKept, HandlesKept, MadeKept DEF LifeInv
  <2>2. CASE UNCHANGED lifeVars
    BY <1>2, <2>2 DEF lifeVars, LifeInv, LifeShapes, NotServed, Unseen, Disturbed, RunRecorded, RemovesIdle,
                      HandlesCurrent, MadeOnPurpose
  <2>3. QED
    BY <1>2, <2>1, <2>2
<1>3. QED
  BY <1>1, <1>2, PTL DEF LifeSpec

(* What the board renames away is idle, a directory is made on purpose, and *)
(* the board's handles are on the files at the path, but for the causes     *)
(* (board_remove.ts and remove.ts: the checks are awaited, the rename and   *)
(* the lift are not).                                                       *)
THEOREM LifeHolds == LifeConstants => (LifeSpec => []LifeSound)
<1> SUFFICES ASSUME LifeConstants PROVE LifeSpec => []LifeSound
  OBVIOUS
<1>1. ASSUME LifeInv PROVE LifeSound
  <2>1. LifeTypeOK
    BY <1>1 DEF LifeInv, LifeShapes, LifeTypeOK, Directory, Row
  <2>2. BuriedIdle
    BY <1>1 DEF LifeInv, RemovesIdle, BuriedIdle, Disturbed
  <2>3. QED
    BY <1>1, <2>1, <2>2 DEF LifeInv, LifeSound
<1>2. QED
  BY <1>1, LifeInvHolds, PTL

(* A saved document is never replaced by the file it was lifted from or by  *)
(* the template, unless the save fell between a read and the write that     *)
(* follows it (docs.ts: readText, seedProfileDocs).                         *)
THEOREM SavedKeptHolds == LifeConstants => (LifeSpec => SavedKept)
<1> SUFFICES ASSUME LifeConstants PROVE LifeSpec => SavedKept
  OBVIOUS
<1>1. ASSUME LifeInv, [LifeNext]_lifeVars PROVE [SavedKeptStep]_lifeVars
  <2>1. CASE LifeNext
    <3>1. TreeStep /\ RunRecorded /\ None \notin Nat
      BY <1>1, <2>1, TreeKept DEF LifeInv, LifeConstants
    <3>2. ASSUME NEW g \in 1 .. MaxDirs, tree[g].row \in Saved, tree'[g].row # tree[g].row,
                 tree'[g].row \notin Saved
          PROVE  "crossed" \in cause'
      <4>1. tree[g].row # None
        BY <3>1, <3>2 DEF Saved
      <4>2. (SeedWrite /\ g = build.gen) \/ (RunLift /\ g = run.gen)
        BY <3>1, <3>2, <4>1 DEF TreeStep
      <4>3. QED
        BY <3>1, <4>1, <4>2 DEF SeedWrite, RunLift, RunRecorded
    <3>3. QED
      BY <3>2 DEF SavedKeptStep
  <2>2. QED
    BY <1>1, <2>1
<1>2. QED
  BY <1>1, LifeInvHolds, PTL DEF LifeSpec, SavedKept

----------------------------------------------------------------------------
(* What a machine is set up with                                           *)

Text == Seq(Key \X Value)
Environment == [Key -> Value \cup {Missing}]
Disturbances == {"crossed", "failed", "edited", "duplicate"}
EnvUndisturbed == why \cap Disturbances = {}

SetupShapes ==
  /\ SetupTypeOK
  /\ dotenv \in Text
  /\ env \in [Proc -> Environment \cup {Missing}]
  /\ puts \subseteq [key : Key, value : Value \ {0}, text : Text]
  /\ puts # {} => env["board"] # Missing
  /\ saved \in [Key -> (Value \ {0}) \cup {Missing}]
  /\ switch \in [on : BOOLEAN, asked : {"ok", "conflict", Missing}]
  /\ writes \in 0 .. MaxWrites

(* A saved key is in .env, first and last; the board has it, and so does a  *)
(* daemon that has it at all, unless it was saved since the daemon began.   *)
FileHolds(k) == EnvHasKey(dotenv, k) /\ Lines(dotenv, k) # {} /\ dotenv[Last(dotenv, k)][2] = saved[k]
FileSaved == EnvUndisturbed => \A k \in Key : saved[k] # Missing => FileHolds(k)
BoardSaved ==
  EnvUndisturbed /\ env["board"] # Missing => \A k \in Key : saved[k] # Missing => env["board"][k] = saved[k]
DaemonSaved ==
  EnvUndisturbed /\ "later" \notin why /\ env["daemon"] # Missing =>
    \A k \in Key : saved[k] # Missing => env["daemon"][k] \in {saved[k], Missing}

(* The switch, or what it will be when its answer comes, is what there is.  *)
SwitchKept ==
  why \cap {"reopened", "lost", "outside"} = {} => (switch.on = (item.plist # (switch.asked = "ok")))

SetupInv == SetupShapes /\ FileSaved /\ BoardSaved /\ DaemonSaved /\ SwitchKept

(* A key that is assigned has a first and a last assignment. *)
LEMMA LeastLine ==
  ASSUME NEW S \in SUBSET Nat, S # {}
  PROVE  \E p \in S : \A q \in S : p <= q
<1>1. PICK p \in S : \A q \in S : ~ (<<q, p>> \in OpToRel(<, Nat))
  BY NatLessThanWellFounded, WFMin
<1>2. ASSUME NEW q \in S, ~(p <= q) PROVE FALSE
  <2>1. <<q, p>> \in OpToRel(<, Nat)
    BY <1>2 DEF OpToRel
  <2>2. QED
    BY <1>1, <2>1
<1>3. QED
  BY <1>2

LEMMA GreatestLine ==
  ASSUME NEW n \in Nat, NEW S \in SUBSET (0 .. n), S # {}
  PROVE  \E p \in S : \A q \in S : q <= p
<1> DEFINE U == {m \in Nat : \A q \in S : q <= m}
<1>1. n \in U
  OBVIOUS
<1>2. PICK p \in U : \A m \in U : p <= m
  <2> HIDE DEF U
  <2>1. U \subseteq Nat
    BY DEF U
  <2>2. QED
    BY <1>1, <2>1, LeastLine
<1>3. p \in S
  <2> SUFFICES ASSUME p \notin S PROVE FALSE
    OBVIOUS
  <2>1. \A q \in S : q <= p - 1
    BY <1>2
  <2>2. p - 1 \in Nat
    <3>1. PICK q \in S : TRUE
      OBVIOUS
    <3>2. q \in Nat /\ q <= p - 1 /\ p \in Nat
      BY <2>1, <3>1
    <3>3. QED
      BY <3>2
  <2>3. QED
    BY <1>2, <2>1, <2>2
<1>4. QED
  BY <1>2, <1>3

LEMMA LinesEnd ==
  ASSUME NEW t \in Text, NEW k, Lines(t, k) # {}
  PROVE  /\ First(t, k) \in Lines(t, k) /\ Last(t, k) \in Lines(t, k)
         /\ First(t, k) \in 1 .. Len(t) /\ Last(t, k) \in 1 .. Len(t)
<1>1. Lines(t, k) \in SUBSET (0 .. Len(t)) /\ Lines(t, k) \subseteq 1 .. Len(t) /\ Len(t) \in Nat
  BY DEF Lines, Text
<1>2. \E i \in Lines(t, k) : \A j \in Lines(t, k) : i <= j
  BY <1>1, LeastLine
<1>3. \E i \in Lines(t, k) : \A j \in Lines(t, k) : j <= i
  BY <1>1, GreatestLine
<1>4. First(t, k) \in Lines(t, k)
  BY <1>2 DEF First
<1>5. Last(t, k) \in Lines(t, k)
  BY <1>3 DEF Last
<1>6. QED
  BY <1>1, <1>4, <1>5

(* A key with one line has it first and last. *)
LEMMA OneLine ==
  ASSUME NEW t, NEW k, NEW i, Lines(t, k) = {i}, i \in Nat
  PROVE  First(t, k) = i /\ Last(t, k) = i
<1>1. \A m : (m \in Lines(t, k) /\ \A j \in Lines(t, k) : m <= j) <=> m = i
  OBVIOUS
<1>2. First(t, k) = i
  BY <1>1 DEF First
<1>3. \A m : (m \in Lines(t, k) /\ \A j \in Lines(t, k) : j <= m) <=> m = i
  OBVIOUS
<1>4. Last(t, k) = i
  BY <1>3 DEF Last
<1>5. QED
  BY <1>2, <1>4

LEMMA LineReplaced ==
  ASSUME NEW S, NEW t \in Seq(S), NEW i \in 1 .. Len(t), NEW x \in S
  PROVE  [t EXCEPT ![i] = x] \in Seq(S)
OBVIOUS

(* The line for a key, at the end or in the place of one of its lines. *)
Put(t, k, v, i) == IF i = Len(t) + 1 THEN Append(t, <<k, v>>) ELSE [t EXCEPT ![i] = <<k, v>>]

(* Putting a line for a key leaves the lines of the others as they were.    *)
LEMMA PutLine ==
  ASSUME NEW t \in Text, NEW k \in Key, NEW v \in Value, NEW i \in 1 .. Len(t) + 1,
         i = Len(t) + 1 \/ i \in Lines(t, k)
  PROVE  /\ Put(t, k, v, i) \in Text
         /\ Put(t, k, v, i)[i] = <<k, v>> /\ Lines(Put(t, k, v, i), k) = Lines(t, k) \cup {i}
         /\ \A o \in Key \ {k} : /\ Lines(Put(t, k, v, i), o) = Lines(t, o)
                                 /\ \A j \in Lines(t, o) : Put(t, k, v, i)[j] = t[j]
<1> DEFINE new == Put(t, k, v, i)
<1>1. <<k, v>> \in Key \X Value
  OBVIOUS
<1>2. Len(t) \in Nat /\ DOMAIN t = 1 .. Len(t)
  BY DEF Text
<1>3. new \in Text /\ DOMAIN new = DOMAIN t \cup {i} /\ new[i] = <<k, v>> /\ \A j \in DOMAIN t \ {i} : new[j] = t[j]
  <2>1. CASE i = Len(t) + 1
    <3>1. new = Append(t, <<k, v>>)
      BY <2>1 DEF Put
    <3>2. new \in Text /\ DOMAIN new = 1 .. Len(t) + 1
      BY <1>1, <3>1 DEF Text
    <3>3. new[Len(t) + 1] = <<k, v>> /\ \A j \in 1 .. Len(t) : new[j] = t[j]
      BY <1>1, <3>1 DEF Text
    <3> HIDE DEF new
    <3>4. 1 .. Len(t) + 1 = (1 .. Len(t)) \cup {i}
      BY <1>2, <2>1
    <3>5. \A j \in DOMAIN t \ {i} : j \in 1 .. Len(t)
      BY <1>2
    <3>6. new[i] = <<k, v>>
      BY <2>1, <3>3
    <3>7. QED
      BY <1>2, <3>2, <3>3, <3>4, <3>5, <3>6
  <2>2. CASE i # Len(t) + 1
    <3>1. new = [t EXCEPT ![i] = <<k, v>>] /\ i \in 1 .. Len(t)
      BY <1>2, <2>2 DEF Put
    <3>2. new \in Text
      <4>1. \A S : t \in Seq(S) /\ <<k, v>> \in S => [t EXCEPT ![i] = <<k, v>>] \in Seq(S)
        BY <3>1, LineReplaced
      <4>2. QED
        BY <1>1, <3>1, <4>1 DEF Text
    <3>3. QED
      BY <1>2, <3>1, <3>2 DEF Text
  <2>3. QED
    BY <2>1, <2>2
<1> HIDE DEF new
<1>4. i \in DOMAIN t => t[i][1] = k
  BY <1>2 DEF Lines
<1>5. Lines(new, k) = Lines(t, k) \cup {i}
  BY <1>3, <1>4 DEF Lines
<1>6. ASSUME NEW o \in Key \ {k} PROVE Lines(new, o) = Lines(t, o) /\ \A j \in Lines(t, o) : new[j] = t[j]
  BY <1>3, <1>4 DEF Lines
<1>7. QED
  BY <1>3, <1>5, <1>6 DEF new

LEMMA Upserted ==
  ASSUME NEW t \in Text, NEW k \in Key, NEW v \in Value \ {0}
  PROVE  /\ UpsertEnvLine(t, k, v) \in Text
         /\ \A o \in Key \ {k} : /\ Lines(UpsertEnvLine(t, k, v), o) = Lines(t, o)
                                 /\ \A j \in Lines(t, o) : UpsertEnvLine(t, k, v)[j] = t[j]
         /\ ~(Cardinality(Lines(t, k)) > 1) =>
              \E i \in Nat : Lines(UpsertEnvLine(t, k, v), k) = {i} /\ UpsertEnvLine(t, k, v)[i] = <<k, v>>
<1> DEFINE i == IF Lines(t, k) = {} THEN Len(t) + 1 ELSE First(t, k)
           new == UpsertEnvLine(t, k, v)
<1>1. Len(t) \in Nat /\ DOMAIN t = 1 .. Len(t) /\ Lines(t, k) \subseteq 1 .. Len(t)
  BY DEF Text, Lines
<1>2. i \in 1 .. Len(t) + 1 /\ (i = Len(t) + 1 \/ i \in Lines(t, k)) /\ (i = Len(t) + 1 <=> Lines(t, k) = {})
  <2>1. CASE Lines(t, k) = {}
    BY <1>1, <2>1
  <2>2. CASE Lines(t, k) # {}
    BY <1>1, <2>2, LinesEnd
  <2>3. QED
    BY <2>1, <2>2
<1>3. new = Put(t, k, v, i)
  BY <1>2 DEF UpsertEnvLine, Put
<1> HIDE DEF i, new
<1>4. /\ new \in Text
      /\ new[i] = <<k, v>> /\ Lines(new, k) = Lines(t, k) \cup {i}
      /\ \A o \in Key \ {k} : Lines(new, o) = Lines(t, o) /\ \A j \in Lines(t, o) : new[j] = t[j]
  <2>1. v \in Value
    OBVIOUS
  <2>2. QED
    BY <1>2, <1>3, <2>1, PutLine
<1>5. ASSUME ~(Cardinality(Lines(t, k)) > 1) PROVE Lines(new, k) = {i} /\ i \in Nat
  <2>1. IsFiniteSet(Lines(t, k)) /\ Cardinality(Lines(t, k)) \in Nat
    <3>1. IsFiniteSet(1 .. Len(t))
      BY <1>1, FS_Interval
    <3>2. QED
      BY <1>1, <3>1, FS_Subset, FS_CardinalityType
  <2>2. CASE Lines(t, k) = {}
    BY <1>1, <1>2, <1>4, <2>2
  <2>3. CASE Lines(t, k) # {}
    <3>1. Cardinality(Lines(t, k)) = 1
      BY <1>5, <2>1, <2>3, FS_EmptySet
    <3>2. \E x : Lines(t, k) = {x}
      BY <2>1, <3>1, FS_Singleton
    <3>3. QED
      BY <1>1, <1>2, <1>4, <2>3, <3>2
  <2>4. QED
    BY <2>2, <2>3
<1>6. QED
  BY <1>4, <1>5 DEF new

LEMMA SetupTyped ==
  /\ MaxWrites \in Nat /\ Value \subseteq Nat /\ 0 \in Value /\ Missing \notin Value
  /\ Missing \notin Environment /\ Unset \in Environment
BY SetupAssumption DEF Value, Environment, Unset

(* What a process loads is an environment. *)
LEMMA LoadedTyped ==
  ASSUME dotenv \in Text, NEW e \in Environment
  PROVE  Loaded(e) \in Environment
<1> SUFFICES ASSUME NEW k \in Key, e[k] = Missing, Lines(dotenv, k) # {}
             PROVE  dotenv[Last(dotenv, k)][2] \in Value
  BY DEF Loaded, Environment
<1>1. Last(dotenv, k) \in 1 .. Len(dotenv)
  BY LinesEnd
<1>2. dotenv[Last(dotenv, k)] \in Key \X Value
  BY <1>1 DEF Text
<1>3. QED
  BY <1>2

LEMMA ItemTyped ==
  ASSUME item \in [plist : BOOLEAN, loaded : BOOLEAN, legacy : BOOLEAN], item.loaded => item.plist,
         NEW on \in BOOLEAN, NEW takes \in BOOLEAN
  PROVE  /\ Item(on, takes) \in [plist : BOOLEAN, loaded : BOOLEAN, legacy : BOOLEAN]
         /\ Item(on, takes).loaded => Item(on, takes).plist
         /\ Item(on, takes).plist = IF on THEN item.legacy => item.plist ELSE FALSE
BY DEF Item, Enabled, Disabled

(* The environments after a process began with e, or ended. *)
LEMMA EnvTyped ==
  ASSUME env \in [Proc -> Environment \cup {Missing}], NEW p \in Proc, NEW e \in Environment \cup {Missing}
  PROVE  /\ [env EXCEPT ![p] = e] \in [Proc -> Environment \cup {Missing}]
         /\ [env EXCEPT ![p] = e][p] = e /\ \A o \in Proc \ {p} : [env EXCEPT ![p] = e][o] = env[o]
OBVIOUS

LEMMA TextTyped == ASSUME NEW t \in Text PROVE \A i \in DOMAIN t : t[i] \in Key \X Value
BY DEF Text

SetupRest ==
  /\ item \in [plist : BOOLEAN, loaded : BOOLEAN, legacy : BOOLEAN]
  /\ item.loaded => item.plist
  /\ dotenv \in Text
  /\ env \in [Proc -> Environment \cup {Missing}]
  /\ puts \subseteq [key : Key, value : Value \ {0}, text : Text]
  /\ puts # {} => env["board"] # Missing
  /\ saved \in [Key -> (Value \ {0}) \cup {Missing}]
  /\ switch \in [on : BOOLEAN, asked : {"ok", "conflict", Missing}]
  /\ writes \in 0 .. MaxWrites

LEMMA ShapesAre == SetupShapes <=> SetupRest
<1>1. ASSUME SetupRest PROVE SetupShapes
  <2>1. \A i \in DOMAIN dotenv : dotenv[i] \in Key \X Value
    BY <1>1, TextTyped DEF SetupRest
  <2>2. \A p \in Proc : env[p] \in [Key -> Value \cup {Missing}] \cup {Missing}
    BY <1>1 DEF SetupRest, Environment
  <2>3. QED
    BY <1>1, <2>1, <2>2 DEF SetupRest, SetupShapes, SetupTypeOK
<1>2. QED
  BY <1>1 DEF SetupRest, SetupShapes, SetupTypeOK

LEMMA SetupShapesKept == ASSUME SetupShapes, SetupNext PROVE SetupShapes'
<1> SUFFICES SetupRest'
  BY ShapesAre, PTL
<1> USE SetupTyped
<1>0. SetupRest
  BY ShapesAre
<1>1. /\ item \in [plist : BOOLEAN, loaded : BOOLEAN, legacy : BOOLEAN]
      /\ item.loaded => item.plist
      /\ dotenv \in Text
      /\ env \in [Proc -> Environment \cup {Missing}]
      /\ puts \subseteq [key : Key, value : Value \ {0}, text : Text]
      /\ puts # {} => env["board"] # Missing
      /\ saved \in [Key -> (Value \ {0}) \cup {Missing}]
      /\ switch \in [on : BOOLEAN, asked : {"ok", "conflict", Missing}]
      /\ writes \in 0 .. MaxWrites
  BY <1>0 DEF SetupRest
<1>2. Proc = {"board", "daemon", "run"}
  BY DEF Proc
<1>3. writes < MaxWrites => writes + 1 \in 0 .. MaxWrites /\ writes + 3 \in Value \ {0}
  BY <1>1 DEF Value
<1>4. ASSUME NEW k \in Key, Save(k) PROVE SetupRest'
  <2>1. [key |-> k, value |-> writes + 3, text |-> dotenv] \in [key : Key, value : Value \ {0}, text : Text]
    BY <1>1, <1>3, <1>4 DEF Save
  <2>2. QED
    BY <1>1, <1>3, <1>4, <2>1 DEF Save, SetupRest
<1>5. ASSUME NEW k \in Key, EditFile(k) PROVE SetupRest'
  <2>1. dotenv' \in Text
    <3>1. CASE Lines(dotenv, k) = {}
      <4>1. Put(dotenv, k, writes + 3, Len(dotenv) + 1) \in Text
        BY <1>1, <1>3, <1>5, PutLine DEF EditFile, Text
      <4>2. QED
        BY <1>5, <3>1, <4>1 DEF EditFile, Put
    <3>2. CASE Lines(dotenv, k) # {}
      <4>1. Last(dotenv, k) \in Lines(dotenv, k) /\ Last(dotenv, k) \in 1 .. Len(dotenv) /\ Len(dotenv) \in Nat
        BY <1>1, <3>2, LinesEnd DEF Text
      <4>2. Put(dotenv, k, writes + 3, Last(dotenv, k)) \in Text
        BY <1>1, <1>3, <1>5, <4>1, PutLine DEF EditFile
      <4>3. Last(dotenv, k) # Len(dotenv) + 1
        BY <4>1
      <4>4. QED
        BY <1>5, <3>2, <4>2, <4>3 DEF EditFile, Put
    <3>3. QED
      BY <3>1, <3>2
  <2>2. saved' \in [Key -> (Value \ {0}) \cup {Missing}]
    BY <1>1, <1>3, <1>5 DEF EditFile
  <2>3. QED
    BY <1>1, <1>3, <1>5, <2>1, <2>2 DEF EditFile, SetupRest
<1>6. ASSUME NEW put \in puts PROVE
        /\ put.key \in Key /\ put.value \in Value \ {0} /\ put.text \in Text
        /\ UpsertEnvLine(put.text, put.key, put.value) \in Text
  <2>1. put \in [key : Key, value : Value \ {0}, text : Text]
    BY <1>1
  <2>2. put.key \in Key /\ put.value \in Value \ {0} /\ put.text \in Text
    BY <2>1
  <2>3. QED
    BY <2>2, Upserted
<1>7. ASSUME NEW put \in puts, SaveEnds(put) PROVE SetupRest'
  <2>1. put.key \in Key /\ put.value \in Value \ {0} /\ dotenv' \in Text
    BY <1>6, <1>7 DEF SaveEnds
  <2>2. env["board"] \in Environment
    BY <1>1, <1>2
  <2>3. BoardEnv(put) \in Environment
    BY <2>1, <2>2 DEF BoardEnv, Environment
  <2>4. env' \in [Proc -> Environment \cup {Missing}] /\ env'["board"] # Missing
    BY <1>1, <1>2, <1>7, <2>3, EnvTyped DEF SaveEnds
  <2>5. saved' \in [Key -> (Value \ {0}) \cup {Missing}]
    BY <1>1, <1>7, <2>1 DEF SaveEnds
  <2>6. QED
    BY <1>1, <1>7, <2>1, <2>4, <2>5 DEF SaveEnds, SetupRest
<1>8. ASSUME NEW put \in puts, NEW written \in BOOLEAN, SaveFails(put, written) PROVE SetupRest'
  <2>1. dotenv' \in Text
    BY <1>1, <1>6, <1>8 DEF SaveFails
  <2>2. QED
    BY <1>1, <1>8, <2>1 DEF SaveFails, SetupRest
<1>9. ASSUME NEW p \in Proc, NEW e \in Environment \cup {Missing}, p = "board" => e # Missing \/ puts' = {},
             env' = [env EXCEPT ![p] = e], UNCHANGED <<dotenv, saved, item, writes>>, puts' \subseteq puts,
             switch' \in [on : BOOLEAN, asked : {"ok", "conflict", Missing}]
      PROVE  SetupRest'
  <2>1. env' \in [Proc -> Environment \cup {Missing}] /\ env'[p] = e /\ \A o \in Proc \ {p} : env'[o] = env[o]
    BY <1>1, <1>9, EnvTyped
  <2>2. puts' # {} => env'["board"] # Missing
    BY <1>1, <1>2, <1>9, <2>1
  <2>3. QED
    BY <1>1, <1>9, <2>1, <2>2 DEF SetupRest
<1>10. \A e \in Environment : Loaded(e) \in Environment
  BY <1>1, LoadedTyped
<1>11. CASE StartBoard
  BY <1>1, <1>2, <1>9, <1>10, <1>11 DEF StartBoard
<1>12. CASE StopBoard
  BY <1>1, <1>2, <1>9, <1>12 DEF StopBoard
<1>13. CASE StartDaemon(Unset) \/ StartDaemonHere
  <2>1. PICK e \in Environment : StartDaemon(e)
    BY <1>1, <1>2, <1>13 DEF StartDaemonHere
  <2>2. QED
    BY <1>1, <1>2, <1>9, <1>10, <2>1 DEF StartDaemon
<1>14. CASE StopDaemon
  BY <1>1, <1>2, <1>9, <1>14 DEF StopDaemon
<1>15. CASE BeginRun
  BY <1>1, <1>2, <1>9, <1>10, <1>15 DEF BeginRun
<1>16. CASE EndRun
  BY <1>1, <1>2, <1>9, <1>16 DEF EndRun
<1>17. ASSUME NEW takes \in BOOLEAN, ClickSwitch(takes) PROVE SetupRest'
  <2>1. (~switch.on) \in BOOLEAN
    OBVIOUS
  <2>2. item' = Item(~switch.on, takes)
    BY <1>17 DEF ClickSwitch
  <2>3. item' \in [plist : BOOLEAN, loaded : BOOLEAN, legacy : BOOLEAN] /\ (item'.loaded => item'.plist)
    BY <1>1, <2>1, <2>2, ItemTyped
  <2>4. QED
    BY <1>1, <1>3, <1>17, <2>3 DEF ClickSwitch, SetupRest
<1>18. ASSUME NEW on \in BOOLEAN, NEW takes \in BOOLEAN, Autostart(on, takes) PROVE SetupRest'
  <2>1. item' \in [plist : BOOLEAN, loaded : BOOLEAN, legacy : BOOLEAN] /\ (item'.loaded => item'.plist)
    BY <1>1, <1>18, ItemTyped DEF Autostart
  <2>2. QED
    BY <1>1, <1>3, <1>18, <2>1 DEF Autostart, SetupRest
<1>19. CASE SwitchAnswered
  BY <1>1, <1>19 DEF SwitchAnswered, SwitchAfter, SetupRest
<1>20. CASE SwitchFails
  BY <1>1, <1>20 DEF SwitchFails, SetupRest
<1>21. CASE OpenPage
  BY <1>1, <1>21 DEF OpenPage, SetupRest
<1>22. CASE Login
  <2>1. item' \in [plist : BOOLEAN, loaded : BOOLEAN, legacy : BOOLEAN] /\ (item'.loaded => item'.plist)
    BY <1>1, <1>22 DEF Login
  <2>2. env' \in [Proc -> Environment \cup {Missing}] /\ (env["board"] # Missing => env'["board"] # Missing)
    <3>1. Loaded(Unset) \in Environment
      BY <1>10
    <3>2. QED
      BY <1>1, <1>2, <1>22, <3>1, EnvTyped DEF Login
  <2>3. QED
    BY <1>1, <1>22, <2>1, <2>2 DEF Login, SetupRest
<1>23. QED
  BY <1>4, <1>5, <1>7, <1>8, <1>11, <1>12, <1>13, <1>14, <1>15, <1>16, <1>17, <1>18, <1>19, <1>20, <1>21, <1>22 DEF SetupNext

(* While nothing disturbs .env, what a process loads from it is as saved.   *)
LEMMA LoadedSaved ==
  ASSUME SetupShapes, FileSaved, EnvUndisturbed, NEW e \in Environment, NEW k \in Key, saved[k] # Missing
  PROVE  Loaded(e)[k] = IF e[k] = Missing THEN saved[k] ELSE e[k]
BY DEF FileSaved, FileHolds, Loaded

LEMMA UnsetIs == \A k \in Key : Unset[k] = Missing
BY DEF Unset

LEMMA FileKept == ASSUME SetupShapes, FileSaved, SetupNext PROVE FileSaved'
<1> USE SetupTyped
<1>1. SetupRest
  BY ShapesAre
<1>2. ASSUME UNCHANGED <<dotenv, saved>>, Disturbances \cap why \subseteq why' PROVE FileSaved'
  <2>1. EnvUndisturbed' => EnvUndisturbed
    BY <1>2 DEF EnvUndisturbed
  <2>2. \A k \in Key : FileHolds(k) => FileHolds(k)'
    BY <1>2 DEF FileHolds, EnvHasKey, First, Last, Lines
  <2>3. QED
    BY <1>2, <2>1, <2>2 DEF FileSaved
<1>3. ASSUME NEW k \in Key, EditFile(k) PROVE FileSaved'
  BY <1>3 DEF EditFile, FileSaved, EnvUndisturbed, Disturbances
<1>4. ASSUME NEW put \in puts, SaveEnds(put) PROVE FileSaved'
  <2> SUFFICES ASSUME EnvUndisturbed', NEW o \in Key, saved'[o] # Missing PROVE FileHolds(o)'
    BY DEF FileSaved
  <2>1. EnvUndisturbed /\ dotenv = put.text /\ ~(Cardinality(Lines(put.text, put.key)) > 1)
    BY <1>4 DEF SaveEnds, EnvUndisturbed, Disturbances
  <2>2. put \in [key : Key, value : Value \ {0}, text : Text]
    BY <1>1 DEF SetupRest
  <2>3. put.key \in Key /\ put.value \in Value \ {0} /\ dotenv \in Text
    BY <2>1, <2>2
  <2>4. dotenv' = UpsertEnvLine(dotenv, put.key, put.value) /\ saved' = [saved EXCEPT ![put.key] = put.value]
    BY <1>4, <2>1 DEF SaveEnds
  <2>5. saved'[put.key] = put.value /\ \A k \in Key \ {put.key} : saved'[k] = saved[k]
    BY <1>1, <2>3, <2>4 DEF SetupRest
  <2> DEFINE k == put.key  v == put.value
  <2>9. /\ \A p \in Key \ {k} : Lines(dotenv', p) = Lines(dotenv, p) /\ \A j \in Lines(dotenv, p) : dotenv'[j] = dotenv[j]
        /\ \E i \in Nat : Lines(dotenv', k) = {i} /\ dotenv'[i] = <<k, v>>
    <3>1. k \in Key /\ v \in Value \ {0} /\ dotenv' = UpsertEnvLine(dotenv, k, v) /\ ~(Cardinality(Lines(dotenv, k)) > 1)
      BY <2>1, <2>3, <2>4
    <3>2. \A x \in Key, w \in Value \ {0} :
            /\ \A p \in Key \ {x} : /\ Lines(UpsertEnvLine(dotenv, x, w), p) = Lines(dotenv, p)
                                   /\ \A j \in Lines(dotenv, p) : UpsertEnvLine(dotenv, x, w)[j] = dotenv[j]
            /\ ~(Cardinality(Lines(dotenv, x)) > 1) =>
                 \E i \in Nat : /\ Lines(UpsertEnvLine(dotenv, x, w), x) = {i}
                               /\ UpsertEnvLine(dotenv, x, w)[i] = <<x, w>>
      BY <2>3, Upserted
    <3> HIDE DEF k, v
    <3>3. QED
      BY <3>1, <3>2
  <2>6. CASE o = put.key
    <3>1. PICK i \in Nat : Lines(dotenv', o) = {i} /\ dotenv'[i] = <<o, put.value>>
      BY <2>9, <2>6
    <3>2. First(dotenv', o) = i /\ Last(dotenv', o) = i
      BY <3>1, OneLine
    <3>3. dotenv'[i][2] = saved'[o] /\ dotenv'[i][2] # 0 /\ Lines(dotenv', o) # {}
      BY <2>3, <2>5, <2>6, <3>1
    <3>4. QED
      BY <3>2, <3>3 DEF FileHolds, EnvHasKey, Lines, First, Last
  <2>7. CASE o # put.key
    <3>1. Lines(dotenv', o) = Lines(dotenv, o) /\ \A j \in Lines(dotenv, o) : dotenv'[j] = dotenv[j]
      BY <2>9, <2>7
    <3>2. FileHolds(o) /\ saved'[o] = saved[o]
      BY <2>1, <2>5, <2>7 DEF FileSaved
    <3>3. First(dotenv', o) = First(dotenv, o) /\ Last(dotenv', o) = Last(dotenv, o)
      BY <3>1 DEF First, Last
    <3>4. First(dotenv, o) \in Lines(dotenv, o) /\ Last(dotenv, o) \in Lines(dotenv, o)
      BY <2>3, <3>2, LinesEnd DEF FileHolds
    <3>5. Lines(dotenv', o) # {} /\ dotenv'[First(dotenv', o)][2] # 0 /\ dotenv'[Last(dotenv', o)][2] = saved'[o]
      BY <3>1, <3>2, <3>3, <3>4 DEF FileHolds, EnvHasKey
    <3>6. QED
      BY <3>5 DEF FileHolds, EnvHasKey, Lines, First, Last
  <2>8. QED
    BY <2>6, <2>7
<1>5. ASSUME NEW put \in puts, NEW written \in BOOLEAN, SaveFails(put, written) PROVE FileSaved'
  <2>1. CASE written
    BY <1>5, <2>1 DEF SaveFails, FileSaved, EnvUndisturbed, Disturbances
  <2>2. CASE ~written
    BY <1>2, <1>5, <2>2 DEF SaveFails
  <2>3. QED
    BY <2>1, <2>2
<1>6. ASSUME NEW k \in Key, Save(k) PROVE FileSaved'
  BY <1>2, <1>6 DEF Save
<1>7. CASE StartBoard \/ StopBoard \/ StopDaemon \/ BeginRun \/ EndRun \/ SwitchAnswered \/ SwitchFails \/ OpenPage
  BY <1>2, <1>7 DEF StartBoard, StopBoard, StopDaemon, BeginRun, EndRun, SwitchAnswered, SwitchFails, OpenPage
<1>8. CASE StartDaemon(Unset) \/ StartDaemonHere \/ Login
  BY <1>2, <1>8 DEF StartDaemon, StartDaemonHere, Login, Disturbances
<1>9. ASSUME NEW takes \in BOOLEAN, ClickSwitch(takes) \/ \E on \in BOOLEAN : Autostart(on, takes) PROVE FileSaved'
  BY <1>2, <1>9 DEF ClickSwitch, Autostart
<1>10. QED
  BY <1>3, <1>4, <1>5, <1>6, <1>7, <1>8, <1>9 DEF SetupNext

LEMMA BoardKept == ASSUME SetupShapes, FileSaved, BoardSaved, SetupNext PROVE BoardSaved'
<1> USE SetupTyped
<1>1. SetupRest
  BY ShapesAre
<1>2. ASSUME saved' = saved, env' # env => env'["board"] \in {env["board"], Missing}, Disturbances \cap why \subseteq why'
      PROVE  BoardSaved'
  BY <1>2 DEF BoardSaved, EnvUndisturbed
<1>3. ASSUME NEW k \in Key, EditFile(k) PROVE BoardSaved'
  BY <1>3 DEF EditFile, BoardSaved, EnvUndisturbed, Disturbances
<1>4. ASSUME NEW put \in puts, SaveEnds(put) PROVE BoardSaved'
  <2> SUFFICES ASSUME EnvUndisturbed', NEW o \in Key, saved'[o] # Missing PROVE env'["board"][o] = saved'[o]
    BY DEF BoardSaved
  <2>1. EnvUndisturbed
    BY <1>4 DEF SaveEnds, EnvUndisturbed
  <2>2. put \in [key : Key, value : Value \ {0}, text : Text] /\ env["board"] # Missing /\ "board" \in Proc
    BY <1>1 DEF SetupRest, Proc
  <2>3. put.key \in Key /\ env["board"] \in Environment
    BY <1>1, <2>2 DEF SetupRest
  <2>4. env'["board"] = [env["board"] EXCEPT ![put.key] = put.value] /\ saved' = [saved EXCEPT ![put.key] = put.value]
    BY <1>1, <1>4, <2>2 DEF SaveEnds, BoardEnv, SetupRest
  <2>5. CASE o = put.key
    BY <1>1, <2>3, <2>4, <2>5 DEF SetupRest, Environment
  <2>6. CASE o # put.key
    <3>1. saved'[o] = saved[o] /\ env'["board"][o] = env["board"][o]
      BY <1>1, <2>3, <2>4, <2>6 DEF SetupRest, Environment
    <3>2. QED
      BY <2>1, <2>2, <3>1 DEF BoardSaved
  <2>7. QED
    BY <2>5, <2>6
<1>5. ASSUME NEW put \in puts, NEW written \in BOOLEAN, SaveFails(put, written) PROVE BoardSaved'
  BY <1>2, <1>5 DEF SaveFails
<1>6. ASSUME NEW k \in Key, Save(k) PROVE BoardSaved'
  BY <1>2, <1>6 DEF Save
<1>7. CASE StartBoard
  <2> SUFFICES ASSUME EnvUndisturbed', NEW o \in Key, saved'[o] # Missing PROVE env'["board"][o] = saved'[o]
    BY DEF BoardSaved
  <2>1. EnvUndisturbed /\ saved' = saved
    BY <1>7 DEF StartBoard, EnvUndisturbed
  <2>2. env'["board"] = Loaded(Unset)
    BY <1>1, <1>7 DEF StartBoard, SetupRest, Proc
  <2>3. QED
    BY <2>1, <2>2, LoadedSaved, UnsetIs
<1>8. CASE StopBoard
  <2>1. env'["board"] = Missing
    BY <1>1, <1>8 DEF StopBoard, SetupRest, Proc
  <2>2. QED
    BY <2>1 DEF BoardSaved
<1>9. ASSUME NEW p \in {"daemon", "run"}, NEW e, env' = [env EXCEPT ![p] = e], saved' = saved,
             Disturbances \cap why \subseteq why'
      PROVE  BoardSaved'
  <2>1. env'["board"] = env["board"]
    BY <1>1, <1>9 DEF SetupRest, Proc
  <2>2. QED
    BY <1>2, <1>9, <2>1
<1>10. CASE StopDaemon \/ BeginRun \/ EndRun
  BY <1>9, <1>10 DEF StopDaemon, BeginRun, EndRun
<1>11. CASE StartDaemon(Unset) \/ StartDaemonHere
  BY <1>9, <1>11 DEF StartDaemon, StartDaemonHere, Disturbances
<1>12. CASE Login
  BY <1>2, <1>9, <1>12 DEF Login, Disturbances
<1>13. CASE SwitchAnswered \/ SwitchFails \/ OpenPage
  BY <1>2, <1>13 DEF SwitchAnswered, SwitchFails, OpenPage
<1>14. ASSUME NEW takes \in BOOLEAN, ClickSwitch(takes) \/ \E on \in BOOLEAN : Autostart(on, takes) PROVE BoardSaved'
  BY <1>2, <1>14 DEF ClickSwitch, Autostart
<1>15. QED
  BY <1>3, <1>4, <1>5, <1>6, <1>7, <1>8, <1>10, <1>11, <1>12, <1>13, <1>14 DEF SetupNext

LEMMA DaemonKept ==
  ASSUME SetupShapes, FileSaved, BoardSaved, DaemonSaved, SetupNext PROVE DaemonSaved'
<1> USE SetupTyped
<1>1. SetupRest
  BY ShapesAre
<1>2. ASSUME saved' = saved, env' # env => env'["daemon"] \in {env["daemon"], Missing},
             (Disturbances \cup {"later"}) \cap why \subseteq why'
      PROVE  DaemonSaved'
  BY <1>2 DEF DaemonSaved, EnvUndisturbed
<1>3. ASSUME NEW k \in Key, EditFile(k) PROVE DaemonSaved'
  BY <1>3 DEF EditFile, DaemonSaved, EnvUndisturbed, Disturbances
<1>4. ASSUME NEW put \in puts, SaveEnds(put) PROVE DaemonSaved'
  <2> SUFFICES ASSUME EnvUndisturbed', "later" \notin why', env'["daemon"] # Missing, NEW o \in Key, saved'[o] # Missing
               PROVE  env'["daemon"][o] \in {saved'[o], Missing}
    BY DEF DaemonSaved
  <2>1. EnvUndisturbed /\ "later" \notin why /\ Stale(put.key) = {}
    BY <1>4 DEF SaveEnds, EnvUndisturbed, Stale
  <2>2. put.key \in Key
    BY <1>1 DEF SetupRest
  <2>3. env'["daemon"] = env["daemon"] /\ saved' = [saved EXCEPT ![put.key] = put.value]
    BY <1>1, <1>4 DEF SaveEnds, SetupRest, Proc
  <2>4. CASE o = put.key
    BY <2>1, <2>3, <2>4 DEF Stale
  <2>5. CASE o # put.key
    <3>1. saved'[o] = saved[o]
      BY <1>1, <2>2, <2>3, <2>5 DEF SetupRest
    <3>2. QED
      BY <2>1, <2>3, <3>1 DEF DaemonSaved
  <2>6. QED
    BY <2>4, <2>5
<1>5. ASSUME NEW put \in puts, NEW written \in BOOLEAN, SaveFails(put, written) PROVE DaemonSaved'
  BY <1>2, <1>5 DEF SaveFails
<1>6. ASSUME NEW k \in Key, Save(k) PROVE DaemonSaved'
  BY <1>2, <1>6 DEF Save
<1>7. ASSUME NEW p \in {"board", "run"}, NEW e, env' = [env EXCEPT ![p] = e], saved' = saved, why \subseteq why'
      PROVE  DaemonSaved'
  <2>1. env'["daemon"] = env["daemon"]
    BY <1>1, <1>7 DEF SetupRest, Proc
  <2>2. QED
    BY <1>2, <1>7, <2>1
<1>8. CASE StartBoard \/ StopBoard \/ BeginRun \/ EndRun
  BY <1>7, <1>8 DEF StartBoard, StopBoard, BeginRun, EndRun
<1>9. CASE StopDaemon
  <2>1. env'["daemon"] = Missing
    BY <1>1, <1>9 DEF StopDaemon, SetupRest, Proc
  <2>2. QED
    BY <2>1 DEF DaemonSaved
<1>10. ASSUME NEW e \in Environment, env' = [env EXCEPT !["daemon"] = Loaded(e)], saved' = saved, Disturbances \cap why \subseteq why',
              e = Unset \/ e = env["board"]
       PROVE  DaemonSaved'
  <2> SUFFICES ASSUME EnvUndisturbed', NEW o \in Key, saved'[o] # Missing
               PROVE  env'["daemon"][o] \in {saved'[o], Missing}
    BY DEF DaemonSaved
  <2>1. EnvUndisturbed /\ saved[o] # Missing
    BY <1>10 DEF EnvUndisturbed
  <2>2. env'["daemon"] = Loaded(e)
    BY <1>1, <1>10 DEF SetupRest, Proc
  <2>3. e[o] \in {Missing, saved[o]}
    BY <1>10, <2>1, UnsetIs DEF BoardSaved
  <2>4. QED
    BY <1>10, <2>1, <2>2, <2>3, LoadedSaved
<1>11. CASE StartDaemon(Unset)
  BY <1>10, <1>11 DEF StartDaemon, Disturbances
<1>12. CASE StartDaemonHere
  <2>1. env["board"] \in Environment
    BY <1>1, <1>12 DEF StartDaemonHere, SetupRest, Proc
  <2>2. QED
    BY <1>10, <1>12, <2>1 DEF StartDaemonHere, StartDaemon, Disturbances
<1>13. CASE Login
  <2>1. CASE item.plist /\ env["daemon"] = Missing
    BY <1>10, <1>13, <2>1 DEF Login, Disturbances
  <2>2. CASE ~(item.plist /\ env["daemon"] = Missing)
    BY <1>2, <1>13, <2>2 DEF Login
  <2>3. QED
    BY <2>1, <2>2
<1>14. CASE SwitchAnswered \/ SwitchFails \/ OpenPage
  BY <1>2, <1>14 DEF SwitchAnswered, SwitchFails, OpenPage
<1>15. ASSUME NEW takes \in BOOLEAN, ClickSwitch(takes) \/ \E on \in BOOLEAN : Autostart(on, takes) PROVE DaemonSaved'
  BY <1>2, <1>15 DEF ClickSwitch, Autostart
<1>16. QED
  BY <1>3, <1>4, <1>5, <1>6, <1>8, <1>9, <1>11, <1>12, <1>13, <1>14, <1>15 DEF SetupNext

LEMMA SwitchStays == ASSUME SetupShapes, SwitchKept, SetupNext PROVE SwitchKept'
<1> USE SetupTyped
<1>1. SetupRest
  BY ShapesAre
<1>2. ASSUME UNCHANGED switch, item'.plist = item.plist, why \subseteq why' \cup {"later"} PROVE SwitchKept'
  BY <1>2 DEF SwitchKept
<1>3. ASSUME NEW takes \in BOOLEAN, ClickSwitch(takes) PROVE SwitchKept'
  <2>1. (~switch.on) \in BOOLEAN /\ switch.on \in BOOLEAN /\ item.legacy \in BOOLEAN /\ item.plist \in BOOLEAN
    BY <1>1 DEF SetupRest
  <2>2. item'.plist = IF ~switch.on THEN item.legacy => item.plist ELSE FALSE
    BY <1>1, <1>3, <2>1, ItemTyped DEF ClickSwitch, SetupRest
  <2>3. switch'.on = switch.on /\ switch'.asked = IF ~switch.on /\ item.legacy THEN "conflict" ELSE "ok"
    BY <1>1, <1>3 DEF ClickSwitch, SetupRest
  <2>4. switch.asked # "ok" /\ why' = why
    BY <1>3, SetupAssumption DEF ClickSwitch
  <2>5. QED
    BY <2>1, <2>2, <2>3, <2>4 DEF SwitchKept
<1>4. CASE SwitchAnswered
  BY <1>1, <1>4, SetupAssumption DEF SwitchAnswered, SwitchAfter, SwitchKept, SetupRest
<1>5. CASE SwitchFails \/ OpenPage \/ StopBoard \/ \E on \in BOOLEAN, takes \in BOOLEAN : Autostart(on, takes)
  BY <1>5 DEF SwitchFails, OpenPage, StopBoard, Autostart, SwitchKept
<1>6. CASE Login
  BY <1>1, <1>2, <1>6 DEF Login, SetupRest
<1>7. ASSUME NEW k \in Key, Save(k) \/ EditFile(k) PROVE SwitchKept'
  BY <1>2, <1>7 DEF Save, EditFile
<1>8. ASSUME NEW put \in puts, SaveEnds(put) \/ \E written \in BOOLEAN : SaveFails(put, written) PROVE SwitchKept'
  BY <1>2, <1>8 DEF SaveEnds, SaveFails
<1>9. CASE StartBoard \/ StartDaemon(Unset) \/ StartDaemonHere \/ StopDaemon \/ BeginRun \/ EndRun
  BY <1>2, <1>9 DEF StartBoard, StartDaemon, StartDaemonHere, StopDaemon, BeginRun, EndRun
<1>10. QED
  BY <1>3, <1>4, <1>5, <1>6, <1>7, <1>8, <1>9 DEF SetupNext

LEMMA SetupStarts == ASSUME SetupInit PROVE SetupInv
<1>1. SetupRest
  <2>1. dotenv \in Text
    <3>1. dotenv \in Seq(Key \X (0 .. 2))
      BY SetupAssumption DEF SetupInit
    <3>2. \A i \in 1 .. Len(dotenv) : dotenv[i] \in Key \X Value
      <4>1. 0 .. 2 \subseteq Value
        BY SetupTyped DEF Value
      <4>2. \A i \in 1 .. Len(dotenv) : dotenv[i] \in Key \X (0 .. 2)
        BY <3>1
      <4>3. QED
        BY <4>1, <4>2
    <3>3. dotenv \in [1 .. Len(dotenv) -> Key \X Value] /\ Len(dotenv) \in Nat
      BY <3>1, <3>2
    <3>4. QED
      BY <3>3, SeqDef DEF Text
  <2>2. env \in [Proc -> Environment \cup {Missing}] /\ saved \in [Key -> (Value \ {0}) \cup {Missing}] /\ puts = {}
    BY DEF SetupInit
  <2>3. item \in [plist : BOOLEAN, loaded : BOOLEAN, legacy : BOOLEAN] /\ ~item.loaded
    BY DEF SetupInit
  <2>4. switch \in [on : BOOLEAN, asked : {"ok", "conflict", Missing}] /\ writes \in 0 .. MaxWrites
    BY SetupTyped DEF SetupInit
  <2>5. QED
    BY <2>1, <2>2, <2>3, <2>4 DEF SetupRest
<1>2. \A k \in Key : saved[k] = Missing
  BY DEF SetupInit
<1>3. switch.on = FALSE /\ item.plist = FALSE /\ switch.asked # "ok"
  BY SetupAssumption DEF SetupInit
<1>4. QED
  BY <1>1, <1>2, <1>3, ShapesAre DEF SetupInv, FileSaved, BoardSaved, DaemonSaved, SwitchKept

LEMMA SetupInvHolds == SetupSpec => []SetupInv
<1>1. SetupInit => SetupInv
  BY SetupStarts
<1>2. SetupInv /\ [SetupNext]_setupVars => SetupInv'
  <2>1. ASSUME SetupInv, SetupNext PROVE SetupInv'
    BY <2>1, SetupShapesKept, FileKept, BoardKept, DaemonKept, SwitchStays DEF SetupInv
  <2>2. ASSUME SetupInv, UNCHANGED setupVars PROVE SetupInv'
    <3>1. SetupShapes'
      BY <2>2 DEF SetupInv, SetupShapes, SetupTypeOK, setupVars
    <3>2. FileSaved'
      <4>1. \A k \in Key : FileHolds(k) => FileHolds(k)'
        BY <2>2 DEF FileHolds, EnvHasKey, First, Last, Lines, setupVars
      <4>2. QED
        BY <2>2, <4>1 DEF SetupInv, FileSaved, EnvUndisturbed, setupVars
    <3>3. BoardSaved' /\ DaemonSaved' /\ SwitchKept'
      BY <2>2 DEF SetupInv, BoardSaved, DaemonSaved, SwitchKept, EnvUndisturbed, setupVars
    <3>4. QED
      BY <3>1, <3>2, <3>3 DEF SetupInv
  <2>3. QED
    BY <2>1, <2>2
<1>3. QED
  BY <1>1, <1>2, PTL DEF SetupSpec

(* A token that was saved is in .env for the card of the secrets, for       *)
(* `jobbunny setup`, for the next process and for the board's doctor, and   *)
(* the switch shows the login item, but for the causes that are named: for  *)
(* any keys, first .env, saves, hand edits, clicks and failures.            *)
THEOREM MachineHolds == SetupSpec => []MachineSound
<1>1. SetupInv => MachineSound
  <2> SUFFICES ASSUME SetupInv PROVE MachineSound
    OBVIOUS
  <2>0. SetupRest
    BY ShapesAre DEF SetupInv
  <2>1. SavedEverywhere
    <3> SUFFICES ASSUME NEW k \in Key, saved[k] # Missing, EnvUndisturbed
                 PROVE  /\ HasEnvValue(dotenv, k) /\ EnvHasKey(dotenv, k)
                        /\ Loaded(Unset)[k] = saved[k]
                        /\ env["board"] # Missing => DoctorSays(k)
      BY DEF SavedEverywhere, EnvUndisturbed, Disturbances
    <3>1. FileHolds(k)
      BY DEF SetupInv, FileSaved
    <3>2. HasEnvValue(dotenv, k) /\ EnvHasKey(dotenv, k)
      <4>1. First(dotenv, k) \in Lines(dotenv, k)
        BY <2>0, <3>1, LinesEnd DEF FileHolds, SetupRest
      <4>2. QED
        BY <3>1, <4>1 DEF FileHolds, EnvHasKey, HasEnvValue
    <3>3. Loaded(Unset)[k] = saved[k]
      BY LoadedSaved, SetupTyped, UnsetIs DEF SetupInv
    <3>4. ASSUME env["board"] # Missing PROVE DoctorSays(k)
      <4>1. env["board"][k] = saved[k] /\ saved[k] \in Value \ {0}
        BY <2>0, <3>4 DEF SetupInv, BoardSaved, SetupRest
      <4>2. QED
        BY <4>1, SetupTyped DEF DoctorSays
    <3>5. QED
      BY <3>2, <3>3, <3>4
  <2>2. SwitchTrue
    <3>1. switch.asked = Missing => switch.asked # "ok"
      BY SetupAssumption
    <3>2. switch.on \in BOOLEAN /\ item.plist \in BOOLEAN
      BY <2>0 DEF SetupRest
    <3>3. QED
      BY <3>1, <3>2 DEF SetupInv, SwitchKept, SwitchTrue
  <2>3. QED
    BY <2>1, <2>2 DEF MachineSound, SetupInv, SetupShapes
<1>2. QED
  BY <1>1, SetupInvHolds, PTL

(* A run of a daemon that was started after the last save of a token uses   *)
(* the token as it was saved, but for the causes that are named.            *)
THEOREM RunsUseSaved == SetupSpec => RunUsesSaved
<1>1. SetupInv /\ [SetupNext]_setupVars => [RunUsesSavedStep]_setupVars
  <2> SUFFICES ASSUME SetupInv, BeginRun, EnvUndisturbed, "later" \notin why, NEW k \in Key, saved[k] # Missing
               PROVE  env'["run"][k] = saved[k]
    BY DEF RunUsesSavedStep, EnvUndisturbed, Disturbances
  <2>1. SetupRest
    BY ShapesAre DEF SetupInv
  <2>2. env["daemon"] \in Environment /\ env'["run"] = Loaded(env["daemon"])
    BY <2>1 DEF BeginRun, SetupRest, Proc
  <2>3. env["daemon"][k] \in {saved[k], Missing}
    BY DEF BeginRun, SetupInv, DaemonSaved
  <2>4. QED
    BY <2>2, <2>3, LoadedSaved DEF SetupInv
<1>2. QED
  BY <1>1, SetupInvHolds, PTL DEF SetupSpec, RunUsesSaved
=============================================================================
