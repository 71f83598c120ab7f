------------------------------ MODULE RunLock ------------------------------
(***************************************************************************)
(* The cross-process run lock (src/ops/scheduling/run_lock.ts) that every  *)
(* `jobbunny run` takes before it starts a pipeline, because all profiles  *)
(* share one Chrome session.                                               *)
(*                                                                         *)
(* The lock is a file.  Each element of Proc is one `jobbunny run`         *)
(* process: it attempts the lock once in its life (src/cli/commands/run.ts *)
(* acquires, runs, and releases in a `finally`).  A step of the model is   *)
(* one file-system call, because other processes may run between any two.  *)
(* Node's writeFileSync(flag 'wx') is two of them: an exclusive create     *)
(* that leaves an empty file, and the write of the record into it.         *)
(*                                                                         *)
(* Time is abstracted to the one question the code asks of it: whether a   *)
(* record has grown older than maxAgeMs (4 hours).                         *)
(***************************************************************************)
EXTENDS Naturals, FiniteSets

CONSTANTS
  Proc,     \* the run processes
  NoFile,   \* "the lock file does not exist"
  Faults    \* which of "crash", "torn", "age", "recycle" the environment may do

FaultKinds == {"crash", "torn", "age", "recycle"}

ASSUME RunLockAssumption ==
  /\ Faults \subseteq FaultKinds
  /\ NoFile \notin Proc
  /\ NoFile \notin [pid : Proc, written : BOOLEAN, aged : BOOLEAN]

VARIABLES
  file,      \* NoFile, or the lock file: its creator, whether the record has
             \* been written yet, and whether that record is over maxAgeMs
  pc,        \* where each process is in acquire / pipeline / release
  attempt,   \* the acquire loop's counter, 1 or 2
  seen,      \* whose file a process judged stale, kept to compare with the
             \* file its unlink finally removes
  recycled,  \* dead processes whose pid an unrelated process now has
  causes     \* observability: the unsound steps taken so far

vars == <<file, pc, attempt, seen, recycled, causes>>

LockFile == [pid : Proc, written : BOOLEAN, aged : BOOLEAN]

Steps == {"start", "create", "write", "read", "unlink", "last",
          "pipeline", "relRead", "relUnlink", "refused", "done", "dead"}

CauseKinds == {"torn", "stealRace", "agedLive", "failOpen"}

TypeOK ==
  /\ file \in LockFile \cup {NoFile}
  /\ pc \in [Proc -> Steps]
  /\ attempt \in [Proc -> 1..2]
  /\ seen \in [Proc -> Proc \cup {NoFile}]
  /\ recycled \subseteq Proc
  /\ causes \subseteq CauseKinds

Running == {p \in Proc : pc[p] = "pipeline"}

Exited == {p \in Proc : pc[p] \in {"refused", "done", "dead"}}

(* Mutant of PidIsAlive: EPERM ("exists, owned by someone else") read as dead. *)
PidIsAliveOnlyIfOurs(p) == p \in recycled

(* pidIsAlive: process.kill(pid, 0) answers for whoever has the pid now. *)
PidIsAlive(p) == p \notin Exited \/ p \in recycled

(* readLockInfo returns undefined for a missing file and for one whose      *)
(* content is not a complete record.                                        *)
Readable(f) == f # NoFile /\ f.written

Creator(f) == IF f = NoFile THEN NoFile ELSE f.pid

(* An unreadable or absent record is always stale; a readable one when its  *)
(* process is gone or it is over maxAgeMs.                                  *)
IsStale(f) == Readable(f) => ~PidIsAlive(f.pid) \/ f.aged

Init ==
  /\ file = NoFile
  /\ pc = [p \in Proc |-> "start"]
  /\ attempt = [p \in Proc |-> 1]
  /\ seen = [p \in Proc |-> NoFile]
  /\ recycled = {}
  /\ causes = {}

Goto(p, step) == pc' = [pc EXCEPT ![p] = step]

----------------------------------------------------------------------------
(* acquireRunLock *)

(* `jobbunny run` reaches acquireLock. *)
Begin(p) ==
  /\ pc[p] = "start"
  /\ Goto(p, "create")
  /\ UNCHANGED <<file, attempt, seen, recycled, causes>>

(* Mutant of CreateFile: the flag is 'w', so an existing file is overwritten. *)
CreateFileOverwriting(p) ==
  /\ pc[p] = "create"
  /\ file' = [pid |-> p, written |-> TRUE, aged |-> FALSE]
  /\ Goto(p, "pipeline")
  /\ UNCHANGED <<attempt, seen, recycled, causes>>

(* The exclusive create succeeds.  Where another process cannot observe the *)
(* gap between create and write, both happen at once.                       *)
CreateFile(p) ==
  /\ pc[p] = "create"
  /\ file = NoFile
  /\ file' = [pid |-> p, written |-> "torn" \notin Faults, aged |-> FALSE]
  /\ Goto(p, IF "torn" \in Faults THEN "write" ELSE "pipeline")
  /\ UNCHANGED <<attempt, seen, recycled, causes>>

(* The write goes to the file descriptor: a file unlinked since is not the  *)
(* one on the path any more, and stays as it is.                            *)
WriteRecord(p) ==
  /\ pc[p] = "write"
  /\ file' = IF file # NoFile /\ file.pid = p
               THEN [file EXCEPT !.written = TRUE] ELSE file
  /\ Goto(p, "pipeline")
  /\ UNCHANGED <<attempt, seen, recycled, causes>>

(* The exclusive create fails with EEXIST. *)
CreateFails(p) ==
  /\ pc[p] = "create"
  /\ file # NoFile
  /\ Goto(p, "read")
  /\ UNCHANGED <<file, attempt, seen, recycled, causes>>

(* Mutant of Refuse: a busy lock is polled instead of reported. *)
RefuseByPolling(p) ==
  /\ pc[p] = "read"
  /\ ~IsStale(file)
  /\ Goto(p, "create")
  /\ UNCHANGED <<file, attempt, seen, recycled, causes>>

(* The record is readable and fresh: report heldBy. *)
Refuse(p) ==
  /\ pc[p] = "read"
  /\ ~IsStale(file)
  /\ Goto(p, "refused")
  /\ UNCHANGED <<file, attempt, seen, recycled, causes>>

(* The record is judged stale; the unlink comes next. *)
JudgeStale(p) ==
  /\ pc[p] = "read"
  /\ IsStale(file)
  /\ seen' = [seen EXCEPT ![p] = Creator(file)]
  /\ causes' = causes
       \cup (IF file # NoFile /\ ~file.written THEN {"torn"} ELSE {})
       \cup (IF Readable(file) /\ file.aged /\ file.pid \notin Exited
               THEN {"agedLive"} ELSE {})
  /\ Goto(p, "unlink")
  /\ UNCHANGED <<file, attempt, recycled>>

(* Mutant of Steal: the loop has no bound of its own. *)
StealUnbounded(p) ==
  /\ pc[p] = "unlink"
  /\ file' = NoFile
  /\ attempt' = [attempt EXCEPT ![p] = @ + 1]
  /\ Goto(p, "create")
  /\ UNCHANGED <<seen, recycled, causes>>

(* unlinkSync(lockPath) removes whatever is on the path now. *)
Steal(p) ==
  /\ pc[p] = "unlink"
  /\ file' = NoFile
  /\ causes' = IF file # NoFile /\ file.pid # seen[p]
                 THEN causes \cup {"stealRace"} ELSE causes
  /\ IF attempt[p] = 1
       THEN attempt' = [attempt EXCEPT ![p] = 2] /\ Goto(p, "create")
       ELSE UNCHANGED attempt /\ Goto(p, "last")
  /\ UNCHANGED <<seen, recycled>>

(* Both attempts lost: report the present holder, or success if there is    *)
(* none to report.                                                          *)
LastRead(p) ==
  /\ pc[p] = "last"
  /\ Goto(p, IF Readable(file) THEN "refused" ELSE "pipeline")
  /\ causes' = IF Readable(file) THEN causes ELSE causes \cup {"failOpen"}
  /\ UNCHANGED <<file, attempt, seen, recycled>>

----------------------------------------------------------------------------
(* releaseRunLock *)

(* Mutant of Finish: the release is not in a `finally`, so a throw skips it. *)
FinishWithoutFinally(p) ==
  /\ pc[p] = "pipeline"
  /\ \E step \in {"relRead", "done"} : Goto(p, step)
  /\ UNCHANGED <<file, attempt, seen, recycled, causes>>

(* The pipeline is over, however it ended: the `finally` releases. *)
Finish(p) ==
  /\ pc[p] = "pipeline"
  /\ Goto(p, "relRead")
  /\ UNCHANGED <<file, attempt, seen, recycled, causes>>

(* Only a record that is still ours is removed. *)
ReleaseRead(p) ==
  /\ pc[p] = "relRead"
  /\ Goto(p, IF Readable(file) /\ file.pid = p THEN "relUnlink" ELSE "done")
  /\ UNCHANGED <<file, attempt, seen, recycled, causes>>

ReleaseUnlink(p) ==
  /\ pc[p] = "relUnlink"
  /\ file' = NoFile
  /\ Goto(p, "done")
  /\ UNCHANGED <<attempt, seen, recycled, causes>>

----------------------------------------------------------------------------
(* The environment *)

(* A SIGKILL, a power cut: the process never reaches its own cleanup. *)
Crash(p) ==
  /\ "crash" \in Faults
  /\ pc[p] \notin {"start", "refused", "done", "dead"}
  /\ Goto(p, "dead")
  /\ UNCHANGED <<file, attempt, seen, recycled, causes>>

(* An unrelated process is given a dead holder's pid. *)
RecyclePid(p) ==
  /\ "recycle" \in Faults
  /\ pc[p] = "dead"
  /\ p \notin recycled
  /\ recycled' = recycled \cup {p}
  /\ UNCHANGED <<file, pc, attempt, seen, causes>>

(* Four hours pass over the record (a suspended host's clock also counts). *)
AgeOut ==
  /\ "age" \in Faults
  /\ Readable(file)
  /\ ~file.aged
  /\ file' = [file EXCEPT !.aged = TRUE]
  /\ UNCHANGED <<pc, attempt, seen, recycled, causes>>

Acquire(p) == \/ CreateFile(p) \/ WriteRecord(p) \/ CreateFails(p)
              \/ Refuse(p) \/ JudgeStale(p) \/ Steal(p) \/ LastRead(p)

Release(p) == Finish(p) \/ ReleaseRead(p) \/ ReleaseUnlink(p)

Next ==
  \/ \E p \in Proc : Begin(p) \/ Acquire(p) \/ Release(p)
  \/ \E p \in Proc : Crash(p) \/ RecyclePid(p)
  \/ AgeOut

Spec == Init /\ [][Next]_vars

(* A process that has entered acquire or release runs synchronous code; it  *)
(* goes on unless it is killed.  No fairness for Begin: nobody has to start *)
(* a run; none for Finish, a pipeline's own bound being elsewhere.          *)
FairSpec ==
  Spec /\ \A p \in Proc : /\ WF_vars(Acquire(p))
                          /\ WF_vars(ReleaseRead(p) \/ ReleaseUnlink(p))

----------------------------------------------------------------------------
(* Properties *)

(* run_lock.ts:2-5: two `jobbunny run` invocations are unable to execute a  *)
(* pipeline at the same time.                                               *)
MutualExclusion == \A p, q \in Running : p = q

(* Every way the exclusion can be lost is one of the four recorded causes:  *)
(* a half-created file read as corrupt, an unlink that removes a file other *)
(* than the one judged stale, an age-based steal from a process that is     *)
(* still alive, and the final "nobody holds it, so it is ours".             *)
ExclusionUnlessCause == causes = {} => MutualExclusion

(* A process that finished normally leaves no lock file of its own behind,  *)
(* whatever the others did to the file in the meantime.                     *)
NoLeak == \A p \in Proc : pc[p] = "done" => file = NoFile \/ file.pid # p

(* Release never takes away another process's lock, unless the releasing    *)
(* process had itself been robbed.                                          *)
ReleaseOwn ==
  [][\A p \in Proc : ReleaseUnlink(p) /\ file # NoFile /\ file.pid # p
                       => causes # {}]_vars

(* The retry is bounded ("cannot spin forever"): every acquire is answered, *)
(* whatever the other processes do.                                         *)
AcquireTerminates ==
  \A p \in Proc : pc[p] = "create" ~> pc[p] \in {"pipeline", "refused", "dead"}

(* All the invariants: exclusion but for the four causes, and no lock file  *)
(* left behind.                                                             *)
LockSound == TypeOK /\ ExclusionUnlessCause /\ NoLeak
=============================================================================
