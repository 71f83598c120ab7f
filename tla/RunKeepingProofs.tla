-------------------------- MODULE RunKeepingProofs --------------------------
(***************************************************************************)
(* What is kept around a run, for any parameters: the lock that lets one   *)
(* pipeline in at a time, the cleanup that removes what old runs left, and *)
(* the pages of the board that write what a run reads or show what it made *)
(* (the schedule, the jobs, the searches, the wizard of a new profile).    *)
(***************************************************************************)
EXTENDS RunLock, Retention, ScheduleDesk, JobDesk, SearchUrls, SetupWizard,
        FiniteSetTheorems, FunctionTheorems, WellFoundedInduction, TLAPS

(* The run lock, for any number of run processes and any combination of    *)
(* faults.                                                                 *)

(* The steps at which a process believes the lock file is its own. *)
Owning == {"write", "pipeline", "relRead", "relUnlink"}

(* As long as no cause occurred, a process that believes it owns the file   *)
(* does: the file is there and it is the one the process created.           *)
OwnersOwn ==
  causes = {} => \A p \in Proc : pc[p] \in Owning => file # NoFile /\ file.pid = p

(* As long as no cause occurred, a process about to unlink judged the file  *)
(* of a process that is gone (or found no file at all).                     *)
JudgedGone ==
  causes = {} => \A p \in Proc : pc[p] = "unlink" /\ seen[p] # NoFile
                                   => seen[p] \in Exited

ExclusionInv == TypeOK /\ OwnersOwn /\ JudgedGone

(* A record not written yet belongs to a process that is about to write it, *)
(* or died before it could.                                                 *)
TornOwner == file # NoFile /\ ~file.written => pc[file.pid] \in {"write", "dead"}

LeakInv == TypeOK /\ TornOwner /\ NoLeak

----------------------------------------------------------------------------
LEMMA TypeInvariant == Spec => []TypeOK
<1>1. Init => TypeOK
  BY DEF Init, TypeOK, Steps
<1>2. TypeOK /\ [Next]_vars => TypeOK'
  <2> SUFFICES ASSUME TypeOK, [Next]_vars PROVE TypeOK'
    OBVIOUS
  <2> USE DEF TypeOK, LockFile, Steps, CauseKinds, Goto
  <2>1. ASSUME NEW p \in Proc, Begin(p) PROVE TypeOK'
    BY <2>1 DEF Begin
  <2>2. ASSUME NEW p \in Proc, CreateFile(p) PROVE TypeOK'
    BY <2>2 DEF CreateFile
  <2>3. ASSUME NEW p \in Proc, WriteRecord(p) PROVE TypeOK'
    BY <2>3 DEF WriteRecord
  <2>4. ASSUME NEW p \in Proc, CreateFails(p) PROVE TypeOK'
    BY <2>4 DEF CreateFails
  <2>5. ASSUME NEW p \in Proc, Refuse(p) PROVE TypeOK'
    BY <2>5 DEF Refuse
  <2>6. ASSUME NEW p \in Proc, JudgeStale(p) PROVE TypeOK'
    BY <2>6 DEF JudgeStale, Creator
  <2>7. ASSUME NEW p \in Proc, Steal(p) PROVE TypeOK'
    BY <2>7 DEF Steal
  <2>8. ASSUME NEW p \in Proc, LastRead(p) PROVE TypeOK'
    BY <2>8 DEF LastRead
  <2>9. ASSUME NEW p \in Proc, Release(p) PROVE TypeOK'
    BY <2>9 DEF Release, Finish, ReleaseRead, ReleaseUnlink
  <2>10. ASSUME NEW p \in Proc, Crash(p) \/ RecyclePid(p) PROVE TypeOK'
    BY <2>10 DEF Crash, RecyclePid
  <2>11. CASE AgeOut
    BY <2>11 DEF AgeOut, Readable
  <2>12. CASE UNCHANGED vars
    BY <2>12 DEF vars
  <2>13. QED
    BY <2>1, <2>2, <2>3, <2>4, <2>5, <2>6, <2>7, <2>8, <2>9, <2>10, <2>11, <2>12
       DEF Next, Acquire
<1>3. QED
  BY <1>1, <1>2, PTL DEF Spec

----------------------------------------------------------------------------
(* Gone is gone: no step brings an exited process back, so a judgement      *)
(* "that process is dead" cannot go out of date.                            *)
LEMMA ExitedStays ==
  ASSUME TypeOK, [Next]_vars, NEW q \in Exited
  PROVE  q \in Exited'
<1> USE DEF Exited, TypeOK, Goto
<1>1. ASSUME NEW p \in Proc, Begin(p) PROVE q \in Exited'
  BY <1>1 DEF Begin
<1>2. ASSUME NEW p \in Proc, Acquire(p) PROVE q \in Exited'
  BY <1>2 DEF Acquire, CreateFile, WriteRecord, CreateFails, Refuse, JudgeStale,
              Steal, LastRead
<1>3. ASSUME NEW p \in Proc, Release(p) PROVE q \in Exited'
  BY <1>3 DEF Release, Finish, ReleaseRead, ReleaseUnlink
<1>4. ASSUME NEW p \in Proc, Crash(p) \/ RecyclePid(p) PROVE q \in Exited'
  BY <1>4 DEF Crash, RecyclePid
<1>5. CASE AgeOut
  BY <1>5 DEF AgeOut
<1>6. CASE UNCHANGED vars
  BY <1>6 DEF vars
<1>7. QED
  BY <1>1, <1>2, <1>3, <1>4, <1>5, <1>6 DEF Next

(* The one step of the argument that matters: when no cause is recorded, an *)
(* unlink removes nothing, or the file of a process that is gone -- so the  *)
(* file of nobody who believes it owns the lock.                            *)
LEMMA StealRemovesTheDead ==
  ASSUME ExclusionInv, NEW p \in Proc, Steal(p), causes' = {},
         NEW q \in Proc, pc[q] \in Owning
  PROVE  FALSE
<1>1. causes = {} /\ (file = NoFile \/ file.pid = seen[p])
  BY DEF Steal
<1>2. file # NoFile /\ file.pid = q
  BY <1>1 DEF ExclusionInv, OwnersOwn
<1>3. seen[p] \in Exited
  BY <1>1, <1>2, RunLockAssumption DEF ExclusionInv, JudgedGone, Steal
<1>4. QED
  BY <1>1, <1>2, <1>3 DEF Exited, Owning

(* A record is never mistaken for "no file". *)
LEMMA RecordIsAFile == \A f \in LockFile : f # NoFile
BY RunLockAssumption DEF LockFile

(* No step but AgeOut and the recorded ones disturbs a believed owner.      *)
LEMMA OwnersOwnPreserved ==
  ASSUME ExclusionInv, [Next]_vars
  PROVE  OwnersOwn'
<1> SUFFICES ASSUME causes' = {}, NEW q \in Proc, pc'[q] \in Owning
             PROVE  file' # NoFile /\ file'.pid = q
  BY DEF OwnersOwn
<1> USE DEF ExclusionInv, TypeOK, Owning, Goto
<1>1. ASSUME NEW p \in Proc, Begin(p) PROVE file' # NoFile /\ file'.pid = q
  BY <1>1 DEF Begin, OwnersOwn
<1>2. ASSUME NEW p \in Proc, CreateFile(p) PROVE file' # NoFile /\ file'.pid = q
  <2>1. causes = {} /\ file = NoFile /\ file' \in LockFile /\ file'.pid = p
    BY <1>2 DEF CreateFile, LockFile
  <2>2. q = p
    BY <1>2, <2>1 DEF CreateFile, OwnersOwn
  <2>3. QED
    BY <2>1, <2>2, RecordIsAFile
<1>3. ASSUME NEW p \in Proc, WriteRecord(p) PROVE file' # NoFile /\ file'.pid = q
  <2>1. file # NoFile /\ file.pid = q
    BY <1>3 DEF WriteRecord, OwnersOwn
  <2>2. file' \in LockFile /\ file'.pid = file.pid
    BY <1>3, <2>1 DEF WriteRecord, LockFile
  <2>3. QED
    BY <2>1, <2>2, RecordIsAFile
<1>4. ASSUME NEW p \in Proc, CreateFails(p) \/ Refuse(p)
      PROVE  file' # NoFile /\ file'.pid = q
  BY <1>4 DEF CreateFails, Refuse, OwnersOwn
<1>5. ASSUME NEW p \in Proc, JudgeStale(p) PROVE file' # NoFile /\ file'.pid = q
  BY <1>5 DEF JudgeStale, OwnersOwn
<1>6. ASSUME NEW p \in Proc, Steal(p) PROVE file' # NoFile /\ file'.pid = q
  <2>1. pc[q] \in Owning
    BY <1>6 DEF Steal
  <2>2. QED
    BY <1>6, <2>1, StealRemovesTheDead
<1>7. ASSUME NEW p \in Proc, LastRead(p) PROVE file' # NoFile /\ file'.pid = q
  BY <1>7 DEF LastRead, OwnersOwn
<1>8. ASSUME NEW p \in Proc, Finish(p) \/ ReleaseRead(p)
      PROVE  file' # NoFile /\ file'.pid = q
  BY <1>8 DEF Finish, ReleaseRead, OwnersOwn
<1>9. ASSUME NEW p \in Proc, ReleaseUnlink(p) PROVE file' # NoFile /\ file'.pid = q
  BY <1>9 DEF ReleaseUnlink, OwnersOwn
<1>10. ASSUME NEW p \in Proc, Crash(p) \/ RecyclePid(p)
       PROVE  file' # NoFile /\ file'.pid = q
  BY <1>10 DEF Crash, RecyclePid, OwnersOwn
<1>11. CASE AgeOut
  <2>1. file \in LockFile /\ file.pid = q
    BY <1>11 DEF AgeOut, Readable, OwnersOwn
  <2>2. file' \in LockFile /\ file'.pid = file.pid
    BY <1>11, <2>1 DEF AgeOut, LockFile
  <2>3. QED
    BY <2>1, <2>2, RecordIsAFile
<1>12. CASE UNCHANGED vars
  BY <1>12 DEF vars, OwnersOwn
<1>13. QED
  BY <1>1, <1>2, <1>3, <1>4, <1>5, <1>6, <1>7, <1>8, <1>9, <1>10, <1>11, <1>12
     DEF Next, Acquire, Release

(* A judgement made without a cause is about a process that is gone, and    *)
(* stays true until the unlink it leads to.                                 *)
LEMMA JudgedGonePreserved ==
  ASSUME ExclusionInv, [Next]_vars
  PROVE  JudgedGone'
<1> SUFFICES ASSUME causes' = {}, NEW q \in Proc, pc'[q] = "unlink", seen'[q] # NoFile
             PROVE  seen'[q] \in Exited'
  BY DEF JudgedGone
<1>1. ASSUME causes = {}, pc[q] = "unlink", seen'[q] = seen[q]
      PROVE  seen'[q] \in Exited'
  BY <1>1, ExitedStays DEF ExclusionInv, JudgedGone
<1> USE DEF ExclusionInv, TypeOK, Goto
<1>2. ASSUME NEW p \in Proc, JudgeStale(p), p = q PROVE seen'[q] \in Exited'
  <2>1. file # NoFile /\ seen'[q] = file.pid /\ file.written /\ causes = {}
    BY <1>2 DEF JudgeStale, Creator
  <2>2. file.pid \in Exited \/ (file.aged /\ file.pid \notin Exited)
    BY <1>2, <2>1 DEF JudgeStale, IsStale, PidIsAlive, Readable
  <2>3. file.pid \in Exited
    BY <1>2, <2>1, <2>2 DEF JudgeStale, Readable
  <2>4. QED
    BY <2>1, <2>3, ExitedStays
<1>3. ASSUME NEW p \in Proc, JudgeStale(p), p # q PROVE seen'[q] \in Exited'
  BY <1>1, <1>3 DEF JudgeStale
<1>4. ASSUME NEW p \in Proc, Begin(p) PROVE seen'[q] \in Exited'
  BY <1>1, <1>4 DEF Begin
<1>5. ASSUME NEW p \in Proc, CreateFile(p) \/ WriteRecord(p) \/ CreateFails(p) \/ Refuse(p)
      PROVE  seen'[q] \in Exited'
  BY <1>1, <1>5 DEF CreateFile, WriteRecord, CreateFails, Refuse
<1>6. ASSUME NEW p \in Proc, Steal(p) \/ LastRead(p) PROVE seen'[q] \in Exited'
  BY <1>1, <1>6 DEF Steal, LastRead
<1>7. ASSUME NEW p \in Proc, Release(p) PROVE seen'[q] \in Exited'
  BY <1>1, <1>7 DEF Release, Finish, ReleaseRead, ReleaseUnlink
<1>8. ASSUME NEW p \in Proc, Crash(p) \/ RecyclePid(p) PROVE seen'[q] \in Exited'
  BY <1>1, <1>8 DEF Crash, RecyclePid
<1>9. CASE AgeOut
  BY <1>1, <1>9 DEF AgeOut
<1>10. CASE UNCHANGED vars
  BY <1>1, <1>10 DEF vars
<1>11. QED
  BY <1>2, <1>3, <1>4, <1>5, <1>6, <1>7, <1>8, <1>9, <1>10 DEF Next, Acquire

(* run_lock.ts's mutual exclusion, for any number of processes and any      *)
(* faults, as long as none of the four recorded causes has occurred: those  *)
(* four are the only ways to lose it.                                       *)
THEOREM ExclusionHolds == Spec => []ExclusionUnlessCause
<1>1. Init => OwnersOwn /\ JudgedGone
  BY DEF Init, OwnersOwn, JudgedGone, Owning
<1>2. TypeOK /\ TypeOK' /\ OwnersOwn /\ JudgedGone /\ [Next]_vars
        => OwnersOwn' /\ JudgedGone'
  BY OwnersOwnPreserved, JudgedGonePreserved DEF ExclusionInv
<1>3. OwnersOwn => ExclusionUnlessCause
  BY DEF OwnersOwn, ExclusionUnlessCause, MutualExclusion, Running, Owning
<1>4. QED
  BY <1>1, <1>2, <1>3, TypeInvariant, PTL DEF Spec

----------------------------------------------------------------------------
(* A process that ran to its end leaves no lock of its own: the `finally`   *)
(* of run.ts releases whatever acquire took, torn or stolen as it may be.   *)
THEOREM NoLeakHolds == Spec => []NoLeak
<1>1. Init => TornOwner /\ NoLeak
  BY DEF Init, TornOwner, NoLeak
<1>2. TypeOK /\ TornOwner /\ NoLeak /\ [Next]_vars => TornOwner' /\ NoLeak'
  <2> SUFFICES ASSUME TypeOK, TornOwner, NoLeak, [Next]_vars
               PROVE  TornOwner' /\ NoLeak'
    OBVIOUS
  <2> USE RunLockAssumption DEF TypeOK, LockFile, TornOwner, NoLeak, Goto
  <2>1. ASSUME NEW p \in Proc, Begin(p) PROVE TornOwner' /\ NoLeak'
    BY <2>1 DEF Begin
  <2>2. ASSUME NEW p \in Proc, CreateFile(p) PROVE TornOwner' /\ NoLeak'
    BY <2>2 DEF CreateFile
  <2>3. ASSUME NEW p \in Proc, WriteRecord(p) PROVE TornOwner' /\ NoLeak'
    <3>1. CASE file # NoFile /\ file.pid = p
      <4>1. file' = [pid |-> p, written |-> TRUE, aged |-> file.aged]
        BY <2>3, <3>1 DEF WriteRecord
      <4>2. QED
        BY <2>3, <4>1 DEF WriteRecord
    <3>2. CASE ~(file # NoFile /\ file.pid = p)
      BY <2>3, <3>2 DEF WriteRecord
    <3>3. QED
      BY <3>1, <3>2
  <2>4. ASSUME NEW p \in Proc, CreateFails(p) \/ Refuse(p) \/ JudgeStale(p)
        PROVE  TornOwner' /\ NoLeak'
    BY <2>4 DEF CreateFails, Refuse, JudgeStale
  <2>5. ASSUME NEW p \in Proc, Steal(p) PROVE TornOwner' /\ NoLeak'
    BY <2>5 DEF Steal
  <2>6. ASSUME NEW p \in Proc, LastRead(p) PROVE TornOwner' /\ NoLeak'
    BY <2>6 DEF LastRead
  <2>7. ASSUME NEW p \in Proc, Finish(p) PROVE TornOwner' /\ NoLeak'
    BY <2>7 DEF Finish
  <2>8. ASSUME NEW p \in Proc, ReleaseRead(p) PROVE TornOwner' /\ NoLeak'
    BY <2>8 DEF ReleaseRead, Readable
  <2>9. ASSUME NEW p \in Proc, ReleaseUnlink(p) PROVE TornOwner' /\ NoLeak'
    BY <2>9 DEF ReleaseUnlink
  <2>10. ASSUME NEW p \in Proc, Crash(p) \/ RecyclePid(p) PROVE TornOwner' /\ NoLeak'
    BY <2>10 DEF Crash, RecyclePid
  <2>11. CASE AgeOut
    <3>1. file' = [pid |-> file.pid, written |-> TRUE, aged |-> TRUE]
      BY <2>11 DEF AgeOut, Readable
    <3>2. QED
      BY <2>11, <3>1 DEF AgeOut, Readable
  <2>12. CASE UNCHANGED vars
    BY <2>12 DEF vars
  <2>13. QED
    BY <2>1, <2>2, <2>3, <2>4, <2>5, <2>6, <2>7, <2>8, <2>9, <2>10, <2>11, <2>12
       DEF Next, Acquire, Release
<1>3. QED
  BY <1>1, <1>2, TypeInvariant, PTL DEF Spec

(* Release takes away another process's lock only after the releasing       *)
(* process has itself been robbed.                                          *)
THEOREM ReleaseOwnHolds == Spec => ReleaseOwn
<1>1. TypeOK /\ OwnersOwn /\ JudgedGone /\ [Next]_vars
        => [\A p \in Proc : ReleaseUnlink(p) /\ file # NoFile /\ file.pid # p
                              => causes # {}]_vars
  BY DEF OwnersOwn, Owning, ReleaseUnlink
<1>2. Init => OwnersOwn /\ JudgedGone
  BY DEF Init, OwnersOwn, JudgedGone, Owning
<1>3. TypeOK /\ TypeOK' /\ OwnersOwn /\ JudgedGone /\ [Next]_vars
        => OwnersOwn' /\ JudgedGone'
  BY OwnersOwnPreserved, JudgedGonePreserved DEF ExclusionInv
<1>4. QED
  BY <1>1, <1>2, <1>3, TypeInvariant, PTL DEF Spec, ReleaseOwn

(* The three together, as the runs check them.                              *)
THEOREM LockHolds == Spec => []LockSound
BY TypeInvariant, ExclusionHolds, NoLeakHolds, PTL DEF LockSound

-----------------------------------------------------------------------------
(* The cleanup routine: it spares what goes on, and the preview is of the  *)
(* rule in the form, for every setting, any number of runs, cleanups and   *)
(* edits.                                                                  *)

RunRecord == [day : Int \cup {None}, going : BOOLEAN, row : BOOLEAN, ckpt : BOOLEAN]
CleanerRecord == [next : {"runs", "ckpts"}, today : Int]

Shapes ==
  /\ day \in Int /\ ttl \in [runs : Nat, ckpts : Nat]
  /\ runs \in [Run -> RunRecord]
  /\ cleaner \in [Cleaner -> CleanerRecord \cup {None}]

(* A run that goes on began today or yesterday. *)
GoingIsRecent == \A r \in Started : runs[r].going => runs[r].day >= day - 1

(* No cleanup is ahead of the day it took as its own. *)
CleanerInThePast == \A c \in Cleaner : cleaner[c] # None => cleaner[c].today <= day

(* While no request failed and nothing was saved, the stored rule is the    *)
(* one the form began with, and an answer to the rule in the form is still  *)
(* to come unless the one shown is that.                                    *)
Unspoilt == cause \cap {"failed", "saved"} = {}
Pending ==
  Unspoilt =>
    /\ result # None => result.base = saved
    /\ ~timer => draft \in asked \/ result = None \/ result.draft = draft

Retained == Shapes /\ GoingIsRecent /\ CleanerInThePast /\ LiveSpared
Shown == RetentionTypeOK /\ PreviewOfDraft /\ Pending
CleanupInv == Retained /\ Shown

----------------------------------------------------------------------------
(* A day a going run is filed under is never pruned but with a setting of 0. *)
LEMMA GoingNotPrunable ==
  ASSUME NEW d \in Int, NEW today \in Int, NEW later \in Int, NEW days \in Nat,
         today <= later, d >= later - 1, Prunable(d, today, days)
  PROVE  days = 0
BY DEF Prunable

LEMMA RetainedKept == Retained /\ [RetentionNext]_retentionVars => Retained'
<1> SUFFICES ASSUME Retained, [RetentionNext]_retentionVars PROVE Retained'
  OBVIOUS
<1> USE RetentionAssumption DEF Retained, Shapes, GoingIsRecent, CleanerInThePast, LiveSpared, Started
<1>1. CASE StartRun
  <2>1. PICK r \in Run : /\ runs[r].day = None
                         /\ runs' = [runs EXCEPT ![r] = [day |-> day, going |-> TRUE, row |-> TRUE, ckpt |-> FALSE]]
    BY <1>1 DEF StartRun
  <2>2. runs' \in [Run -> RunRecord]
    BY <2>1 DEF RunRecord
  <2>3. runs'[r] = [day |-> day, going |-> TRUE, row |-> TRUE, ckpt |-> FALSE] /\ \A q \in Run \ {r} : runs'[q] = runs[q]
    BY <2>1
  <2>4. QED
    BY <1>1, <2>2, <2>3 DEF StartRun
<1>2. CASE CallRoutine
  <2>1. cleaner' \in [Cleaner -> CleanerRecord \cup {None}]
    BY <1>2 DEF CallRoutine, CleanerRecord
  <2>2. \A c \in Cleaner : cleaner'[c] = cleaner[c] \/ cleaner'[c] = [next |-> "runs", today |-> day]
    BY <1>2 DEF CallRoutine
  <2>3. ASSUME NEW c \in Cleaner, cleaner'[c] # None PROVE cleaner'[c].today <= day
    <3>1. CASE cleaner'[c] = cleaner[c]
      BY <2>3, <3>1
    <3>2. CASE cleaner'[c] = [next |-> "runs", today |-> day]
      BY <3>2
    <3>3. QED
      BY <2>2, <3>1, <3>2
  <2>4. QED
    BY <1>2, <2>1, <2>3 DEF CallRoutine
<1>3. CASE Midnight
  <2>1. day' = day + 1 /\ \A r \in Started : runs[r].going => runs[r].day = day
    BY <1>3 DEF Midnight
  <2>2. CleanerInThePast'
    BY <1>3 DEF Midnight, CleanerRecord
  <2>3. QED
    BY <1>3, <2>1, <2>2 DEF Midnight
<1>4. CASE Edit \/ Ask \/ \E d \in 0..MaxEdits : Answer(d)
  BY <1>4 DEF Edit, Ask, Answer, kept
<1>5. CASE Save \/ \E d \in 0..MaxEdits : AnswerLost(d)
  BY <1>5 DEF Save, AnswerLost, kept
<1>6. ASSUME NEW r \in Run, Assemble(r) PROVE Retained'
  <2>1. runs' = [runs EXCEPT ![r].ckpt = TRUE] \/ runs' = [runs EXCEPT ![r].going = FALSE]
    BY <1>6 DEF Assemble
  <2>2. /\ runs' \in [Run -> RunRecord]
        /\ \A q \in Run : /\ runs'[q].day = runs[q].day /\ runs'[q].row = runs[q].row
                          /\ runs'[q].going => runs[q].going
    <3>1. CASE runs' = [runs EXCEPT ![r].ckpt = TRUE]
      BY <3>1 DEF RunRecord
    <3>2. CASE runs' = [runs EXCEPT ![r].going = FALSE]
      BY <3>2 DEF RunRecord
    <3>3. QED
      BY <2>1, <3>1, <3>2
  <2>3. QED
    BY <1>6, <2>2 DEF Assemble
<1>7. ASSUME NEW r \in Run, EndRun(r) PROVE Retained'
  <2>1. runs' = [runs EXCEPT ![r].going = FALSE]
    BY <1>7 DEF EndRun
  <2>2. runs' \in [Run -> RunRecord]
    BY <2>1 DEF RunRecord
  <2>3. \A q \in Run : /\ runs'[q].day = runs[q].day /\ runs'[q].row = runs[q].row
                       /\ runs'[q].going => runs[q].going
    BY <2>1 DEF RunRecord
  <2>4. cleaner' = cleaner \/ cleaner' = [cleaner EXCEPT !["post-sync"] = [next |-> "runs", today |-> day]]
    BY <1>7 DEF EndRun
  <2>5. cleaner' \in [Cleaner -> CleanerRecord \cup {None}]
    BY <2>4 DEF CleanerRecord
  <2>6. \A c \in Cleaner : cleaner'[c] = cleaner[c] \/ cleaner'[c] = [next |-> "runs", today |-> day]
    BY <2>4
  <2>7. QED
    BY <1>7, <2>2, <2>3, <2>5, <2>6 DEF EndRun
<1>8. ASSUME NEW c \in Cleaner, PruneRuns(c) PROVE Retained'
  <2>1. /\ cleaner[c] # None /\ cleaner' = [cleaner EXCEPT ![c].next = "ckpts"]
        /\ day' = day /\ ttl' = ttl
    BY <1>8 DEF PruneRuns
  <2>2. cleaner[c] \in CleanerRecord /\ cleaner[c].today \in Int /\ cleaner[c].today <= day
    BY <2>1 DEF CleanerRecord
  <2>3. cleaner'[c] = [cleaner[c] EXCEPT !.next = "ckpts"] /\ \A b \in Cleaner \ {c} : cleaner'[b] = cleaner[b]
    BY <2>1
  <2>4. cleaner'[c] \in CleanerRecord /\ cleaner'[c].today = cleaner[c].today
    BY <2>2, <2>3 DEF CleanerRecord
  <2>5. cleaner' \in [Cleaner -> CleanerRecord \cup {None}]
    BY <2>1, <2>4, <2>3
  <2>6. CleanerInThePast'
    BY <2>1, <2>2, <2>3, <2>4
  <2> DEFINE Gone == {r \in Started : runs[r].row /\ Prunable(runs[r].day, cleaner[c].today, ttl.runs)}
  <2>7. CASE UNCHANGED <<runs, cause>>
    BY <1>8, <2>1, <2>5, <2>6, <2>7
  <2>8. CASE /\ runs' = [r \in Run |-> IF r \in Gone THEN [runs[r] EXCEPT !.row = FALSE] ELSE runs[r]]
             /\ cause' = cause \cup (IF ttl.runs = 0 /\ (\E r \in Gone : runs[r].going) THEN {"zero"} ELSE {})
    <3>1. runs' \in [Run -> RunRecord]
      BY <2>8 DEF RunRecord
    <3>2. \A q \in Run : /\ runs'[q].day = runs[q].day /\ runs'[q].going = runs[q].going
                         /\ q \notin Gone => runs'[q].row = runs[q].row
      BY <2>8 DEF RunRecord
    <3>3. ASSUME NEW q \in Gone, runs[q].going PROVE ttl.runs = 0
      <4>1. q \in Run /\ runs[q].day # None /\ runs[q] \in RunRecord
        BY <3>3
      <4>2. runs[q].day \in Int /\ runs[q].day >= day - 1 /\ ttl.runs \in Nat
        BY <3>3, <4>1 DEF RunRecord
      <4>3. Prunable(runs[q].day, cleaner[c].today, ttl.runs)
        BY <3>3
      <4>4. QED
        BY <2>2, <4>2, <4>3, GoingNotPrunable
    <3>4. LiveSpared'
      <4> SUFFICES ASSUME NEW q \in Run, runs'[q].day # None, runs'[q].going PROVE runs'[q].row \/ "zero" \in cause'
        OBVIOUS
      <4>1. CASE q \in Gone
        BY <4>1, <2>8, <3>2, <3>3
      <4>2. CASE q \notin Gone
        BY <4>2, <2>8, <3>2
      <4>3. QED
        BY <4>1, <4>2
    <3>5. GoingIsRecent'
      BY <2>1, <3>2
    <3>6. QED
      BY <2>1, <2>5, <2>6, <3>1, <3>4, <3>5
  <2>9. QED
    BY <1>8, <2>7, <2>8 DEF PruneRuns
<1>9. ASSUME NEW c \in Cleaner, PruneCheckpoints(c) PROVE Retained'
  <2>1. cleaner' = [cleaner EXCEPT ![c] = None] /\ day' = day /\ ttl' = ttl /\ cause' = cause
    BY <1>9 DEF PruneCheckpoints
  <2>2. /\ runs' \in [Run -> RunRecord]
        /\ \A q \in Run : runs'[q].day = runs[q].day /\ runs'[q].row = runs[q].row /\ runs'[q].going = runs[q].going
    <3>1. CASE runs' = runs
      BY <3>1
    <3>2. CASE runs' = [r \in Run |-> IF r \in Started /\ Prunable(runs[r].day, cleaner[c].today, ttl.ckpts)
                                     THEN [runs[r] EXCEPT !.ckpt = FALSE] ELSE runs[r]]
      BY <3>2 DEF RunRecord
    <3>3. QED
      BY <1>9, <3>1, <3>2 DEF PruneCheckpoints
  <2>3. cleaner' \in [Cleaner -> CleanerRecord \cup {None}]
    BY <2>1
  <2>4. \A b \in Cleaner : cleaner'[b] = cleaner[b] \/ cleaner'[b] = None
    BY <2>1
  <2>5. QED
    BY <2>1, <2>2, <2>3, <2>4
<1>10. CASE UNCHANGED retentionVars
  BY <1>10 DEF retentionVars
<1>11. QED
  BY <1>1, <1>2, <1>3, <1>4, <1>5, <1>6, <1>7, <1>8, <1>9, <1>10 DEF RetentionNext, Cleanup

LEMMA TypeKept == Shapes /\ RetentionTypeOK /\ [RetentionNext]_retentionVars => RetentionTypeOK'
<1> SUFFICES ASSUME Shapes, RetentionTypeOK, [RetentionNext]_retentionVars PROVE RetentionTypeOK'
  OBVIOUS
<1> DEFINE Dated == \A r \in Run : runs[r].day # None => runs[r].day \in 1..day
<1> DEFINE Strip == /\ {draft, saved} \cup asked \subseteq 0..MaxEdits
                    /\ result = None \/ result \in [draft : 0..MaxEdits, base : 0..MaxEdits, run : BOOLEAN]
<1>1. day \in 1..MaxDay /\ Dated /\ Strip
  BY DEF RetentionTypeOK, Started
<1>2. day' \in 1..MaxDay /\ day' >= day
  <2>1. CASE Midnight
    BY <1>1, <2>1, RetentionAssumption DEF Midnight
  <2>2. CASE day' = day
    BY <1>1, <2>2, RetentionAssumption
  <2>3. QED
    BY <2>1, <2>2 DEF RetentionNext, StartRun, CallRoutine, Edit, Ask, Save, Assemble, EndRun,
         Cleanup, PruneRuns, PruneCheckpoints, Answer, AnswerLost, kept, retentionVars
<1>3. \A r \in Run : runs'[r].day = runs[r].day \/ runs'[r].day = day
  <2>1. CASE StartRun
    BY <2>1 DEF StartRun, Shapes
  <2>2. CASE \E r \in Run : Assemble(r) \/ EndRun(r)
    BY <2>2 DEF Assemble, EndRun, Shapes, RunRecord
  <2>3. ASSUME NEW c \in Cleaner, PruneRuns(c)
        PROVE  \A r \in Run : runs'[r].day = runs[r].day
    BY <2>3 DEF PruneRuns, Shapes, RunRecord
  <2>4. ASSUME NEW c \in Cleaner, PruneCheckpoints(c)
        PROVE  \A r \in Run : runs'[r].day = runs[r].day
    BY <2>4 DEF PruneCheckpoints, Shapes, RunRecord
  <2>5. CASE UNCHANGED runs
    BY <2>5
  <2>6. QED
    BY <2>1, <2>2, <2>3, <2>4, <2>5 DEF RetentionNext, CallRoutine, Midnight, Edit, Ask, Save,
         Cleanup, Answer, AnswerLost, kept, retentionVars
<1>4. Dated'
  BY <1>1, <1>2, <1>3, RetentionAssumption
<1>5. Strip'
  <2>1. CASE Edit \/ Ask \/ Save
    BY <1>1, <2>1, RetentionAssumption DEF Edit, Ask, Save
  <2>2. ASSUME NEW d \in 0..MaxEdits, Answer(d) PROVE Strip'
    <3>1. asked' \subseteq asked /\ draft' = draft /\ saved' = saved
      BY <2>2 DEF Answer
    <3>2. CASE result' = result
      BY <1>1, <3>1, <3>2
    <3>3. CASE result' = [draft |-> d, base |-> saved, run |-> Hits # {}]
      BY <1>1, <3>1, <3>3
    <3>4. QED
      BY <2>2, <3>2, <3>3 DEF Answer
  <2>3. ASSUME NEW d \in 0..MaxEdits, AnswerLost(d) PROVE Strip'
    BY <1>1, <2>3 DEF AnswerLost
  <2>4. CASE UNCHANGED strip
    BY <1>1, <2>4 DEF strip
  <2>5. QED
    BY <2>1, <2>2, <2>3, <2>4 DEF RetentionNext, StartRun, CallRoutine, Midnight, Assemble, EndRun,
         Cleanup, PruneRuns, PruneCheckpoints, retentionVars, strip
<1>6. QED
  BY <1>2, <1>4, <1>5 DEF RetentionTypeOK, Started

(* While nothing failed and nothing was saved, the answer of the rule in    *)
(* the form is shown or on its way.                                         *)
LEMMA PendingKept == Pending /\ [RetentionNext]_retentionVars => Pending'
<1> SUFFICES ASSUME Pending, [RetentionNext]_retentionVars PROVE Pending'
  OBVIOUS
<1> USE DEF Pending, Unspoilt
<1>1. cause \subseteq cause'
  BY DEF RetentionNext, StartRun, CallRoutine, Midnight, Edit, Ask, Save, Assemble, EndRun,
       Cleanup, PruneRuns, PruneCheckpoints, Answer, AnswerLost, retentionVars
<1>2. CASE Edit \/ Ask
  BY <1>1, <1>2 DEF Edit, Ask
<1>3. CASE Save \/ \E d \in 0..MaxEdits : AnswerLost(d)
  BY <1>3 DEF Save, AnswerLost
<1>4. ASSUME NEW d \in 0..MaxEdits, Answer(d) PROVE Pending'
  <2>1. asked' = asked \ {d} /\ UNCHANGED <<draft, saved, timer, cause>>
    BY <1>4 DEF Answer
  <2>2. CASE Takes(d)
    <3>1. d = draft /\ result' = [draft |-> d, base |-> saved, run |-> Hits # {}]
      BY <1>4, <2>2 DEF Answer, Takes
    <3>2. QED
      BY <2>1, <3>1
  <2>3. CASE ~Takes(d)
    <3>1. result' = result /\ (d # draft \/ timer)
      BY <1>4, <2>3 DEF Answer, Takes
    <3>2. QED
      BY <2>1, <3>1
  <2>4. QED
    BY <2>2, <2>3
<1>5. CASE UNCHANGED strip
  BY <1>1, <1>5 DEF strip
<1>6. QED
  BY <1>2, <1>3, <1>4, <1>5 DEF RetentionNext, StartRun, CallRoutine, Midnight, Assemble, EndRun,
       Cleanup, PruneRuns, PruneCheckpoints, retentionVars, strip

(* A cleanup by hand, too, spares the row of a run that goes on past        *)
(* midnight, unless the setting is zero days (cleanup.ts, the prunes of the *)
(* SQLite stores); what the preview strip shows once nothing is pending is  *)
(* of the rule in the form (RulePreviewStrip.tsx).                          *)
THEOREM CleanupHolds == RetentionSpec => []CleanupSound
<1>1. RetentionInit => CleanupInv
  <2> SUFFICES ASSUME RetentionInit PROVE CleanupInv
    OBVIOUS
  <2>1. \A r \in Run : runs[r] = [day |-> None, going |-> FALSE, row |-> FALSE, ckpt |-> FALSE]
    BY DEF RetentionInit
  <2>2. Shapes
    BY <2>1, RetentionAssumption DEF RetentionInit, Shapes, RunRecord
  <2>3. GoingIsRecent /\ CleanerInThePast /\ LiveSpared /\ Started = {}
    BY <2>1 DEF RetentionInit, GoingIsRecent, CleanerInThePast, LiveSpared, Started
  <2>4. Shown
    BY <2>3, RetentionAssumption DEF RetentionInit, Shown, RetentionTypeOK, PreviewOfDraft, Pending
  <2>5. QED
    BY <2>2, <2>3, <2>4 DEF CleanupInv, Retained
<1>2. CleanupInv /\ [RetentionNext]_retentionVars => CleanupInv'
  <2>1. Pending => PreviewOfDraft
    BY DEF Pending, PreviewOfDraft, Unspoilt
  <2>2. (Pending => PreviewOfDraft)'
    BY DEF Pending, PreviewOfDraft, Unspoilt
  <2>3. QED
    BY <2>2, RetainedKept, TypeKept, PendingKept DEF CleanupInv, Retained, Shown
<1>3. CleanupInv => CleanupSound
  BY DEF CleanupInv, CleanupSound, Retained, Shown
<1>4. QED
  BY <1>1, <1>2, <1>3, PTL DEF RetentionSpec

----------------------------------------------------------------------------
(* The schedule page *)

Change ==
  [prof : Profile, kind : {"skip", "pause", "all"}, day : 1 .. MaxDate, slot : Slots \cup {0}, base : Schedule]

SchedShapes ==
  /\ ScheduleTypeOK
  /\ changes \subseteq Change
  /\ \A patch \in changes : patch.kind = "skip" => patch.slot \in Slots
  /\ why \in [Profile -> SUBSET {"batch", "crossed", "again", "late"}]

(* What the page has called skipped is what profile.json says is skipped,   *)
(* and is neither run nor missed so far.                                    *)
SkipStored ==
  \A x \in said : why[x[1]] = {} => config[x[1]].skip = <<x[2], x[3]>> /\ x \notin history \cup missed

(* What it has called paused is switched off.                               *)
PauseStored == \A p \in paused : "crossed" \notin why[p] => ~config[p].enabled

SchedInv == SchedShapes /\ SkipStored /\ PauseStored

(* The next slot is the least one ahead. *)
LEMMA NextFireTyped == ASSUME NEW p, now.time \in Nat PROVE NextFireAt(p) \in Slots \cup {0}
<1> DEFINE ahead == {s \in Slots : s > now.time}
<1>1. CASE ahead = {}
  BY <1>1 DEF NextFireAt
<1>2. CASE ahead # {}
  <2>1. \E s \in ahead : \A o \in ahead : s <= o
    <3>1. ahead \subseteq Nat
      BY ScheduleDeskAssumption
    <3>2. PICK s \in ahead : \A o \in ahead : ~(<<o, s>> \in OpToRel(<, Nat))
      BY <1>2, <3>1, NatLessThanWellFounded, WFMin
    <3>3. \A o \in ahead : ~(o < s)
      BY <3>1, <3>2 DEF OpToRel
    <3>4. QED
      BY <3>1, <3>3
  <2>2. NextFireAt(p) \in ahead
    BY <1>2, <2>1 DEF NextFireAt
  <2>3. QED
    BY <2>2
<1>3. QED
  BY <1>1, <1>2

(* A change that is put back is one of the changes, and what it leaves.     *)
LEMMA PatchedTyped ==
  ASSUME SchedShapes, NEW patch \in changes
  PROVE  /\ patch \in Change /\ patch.prof \in Profile /\ PatchedConfig(patch) \in Schedule
         /\ patch.kind = "skip" =>
              /\ PatchedConfig(patch).enabled = patch.base.enabled
              /\ PatchedConfig(patch).skip = <<patch.day, patch.slot>>
              /\ <<patch.prof, patch.day, patch.slot>> \in Slot
         /\ patch.kind # "skip" => PatchedConfig(patch).skip = patch.base.skip /\ ~PatchedConfig(patch).enabled
<1>1. patch \in Change /\ patch.base \in Schedule /\ patch.day \in 1 .. MaxDate
  BY DEF SchedShapes, Change
<1>2. CASE patch.kind = "skip"
  <2>1. patch.slot \in Slots
    BY <1>2 DEF SchedShapes
  <2>2. QED
    BY <1>1, <1>2, <2>1 DEF PatchedConfig, Schedule, Slot, Change
<1>3. CASE patch.kind # "skip"
  BY <1>1, <1>3 DEF PatchedConfig, Schedule, Change
<1>4. QED
  BY <1>2, <1>3

(* What is owed, or expired, is of today. *)
LEMMA TodayTyped ==
  ASSUME SchedShapes, NEW x \in Owed \cup Expired
  PROVE  x \in Slot /\ x = <<x[1], now.day, x[3]>> /\ x[2] = now.day /\ x[1] \in Profile
BY DEF Owed, Expired, Slot, SchedShapes, ScheduleTypeOK

LEMMA SchedShapesKept == ASSUME SchedShapes, ScheduleNext PROVE SchedShapes'
<1> USE ScheduleDeskAssumption
<1>1. CASE Scan
  <2>1. batch' \subseteq Slot /\ missed' \subseteq Slot
    BY <1>1, TodayTyped DEF Scan, SchedShapes, ScheduleTypeOK
  <2>2. QED
    BY <1>1, <2>1 DEF Scan, SchedShapes, ScheduleTypeOK
<1>2. CASE Wait
  <2>1. now' \in [day : 1 .. MaxDate, time : 0 .. LastTime]
    BY <1>2 DEF Wait, SchedShapes, ScheduleTypeOK
  <2>2. QED
    BY <1>2, <2>1 DEF Wait, SchedShapes, ScheduleTypeOK
<1>3. CASE Refresh
  <2>1. listed' \in [Profile -> Slots \cup {0, NoSlot}]
    BY <1>3, NextFireTyped DEF Refresh, SchedShapes, ScheduleTypeOK
  <2>2. QED
    BY <1>3, <2>1 DEF Refresh, SchedShapes, ScheduleTypeOK
<1>4. \A p \in Profile, kind \in {"skip", "pause", "all"}, slot \in Slots \cup {0} :
        Patch(p, kind, slot) \in Change /\ Patch(p, kind, slot).kind = kind /\ Patch(p, kind, slot).slot = slot
  BY DEF Patch, Base, Change, SchedShapes, ScheduleTypeOK
<1>5. ASSUME NEW new, Pressed(new), \A patch \in new : patch \in Change /\ (patch.kind = "skip" => patch.slot \in Slots)
      PROVE  SchedShapes'
  BY <1>5 DEF Pressed, SchedShapes, ScheduleTypeOK
<1>6. CASE PauseAll
  <2>1. \A patch \in {Patch(p, "all", 0) : p \in Profile} : patch \in Change /\ patch.kind # "skip"
    BY <1>4
  <2>2. QED
    BY <1>5, <1>6, <2>1 DEF PauseAll
<1>7. ASSUME NEW x \in batch, LaunchSlot(x) PROVE SchedShapes'
  <2>1. x \in Slot /\ x[1] \in Profile
    BY <1>7 DEF SchedShapes, ScheduleTypeOK, Slot
  <2>2. QED
    BY <1>7, <2>1 DEF LaunchSlot, SchedShapes, ScheduleTypeOK
<1>8. ASSUME NEW p \in Profile, SkipNext(p) PROVE SchedShapes'
  <2>1. listed[p] \in Slots
    BY <1>8 DEF SkipNext, SchedShapes, ScheduleTypeOK
  <2>2. \A patch \in {Patch(p, "skip", listed[p])} : patch \in Change /\ (patch.kind = "skip" => patch.slot \in Slots)
    <3>1. listed[p] \in Slots \cup {0}
      BY <2>1
    <3>2. Patch(p, "skip", listed[p]) \in Change /\ Patch(p, "skip", listed[p]).slot = listed[p]
      BY <3>1 DEF Patch, Base, Change, SchedShapes, ScheduleTypeOK
    <3>3. QED
      BY <2>1, <3>2
  <2>3. Pressed({Patch(p, "skip", listed[p])})
    BY <1>8 DEF SkipNext
  <2>4. QED
    BY <1>5, <2>2, <2>3
<1>9. ASSUME NEW p \in Profile, Pause(p) PROVE SchedShapes'
  <2>1. \A patch \in {Patch(p, "pause", 0)} : patch \in Change /\ (patch.kind = "skip" => patch.slot \in Slots)
    BY <1>4
  <2>2. QED
    BY <1>5, <1>9, <2>1 DEF Pause
<1>10. ASSUME NEW p \in Profile, Resume(p) PROVE SchedShapes'
  <2>1. config' \in [Profile -> Schedule]
    <3>1. config[p] \in Schedule
      BY DEF SchedShapes, ScheduleTypeOK
    <3>2. [config[p] EXCEPT !.enabled = TRUE] \in Schedule
      BY <3>1 DEF Schedule
    <3>3. config' = [config EXCEPT ![p] = [config[p] EXCEPT !.enabled = TRUE]]
      BY <1>10 DEF Resume
    <3>4. QED
      BY <3>2, <3>3 DEF SchedShapes, ScheduleTypeOK
  <2>2. QED
    BY <1>10, <2>1 DEF Resume, SchedShapes, ScheduleTypeOK
<1>11. ASSUME NEW patch \in changes, PutFails(patch) PROVE SchedShapes'
  BY <1>11 DEF PutFails, SchedShapes, ScheduleTypeOK
<1>12. ASSUME NEW patch \in changes, NEW answered \in BOOLEAN, Put(patch, answered) PROVE SchedShapes'
  <2>1. /\ patch.prof \in Profile /\ PatchedConfig(patch) \in Schedule
        /\ patch.kind = "skip" => <<patch.prof, patch.day, patch.slot>> \in Slot
    BY PatchedTyped
  <2>2. config' \in [Profile -> Schedule] /\ why' \in [Profile -> SUBSET {"batch", "crossed", "again", "late"}]
    BY <1>12, <2>1 DEF Put, Undoes, SchedShapes, ScheduleTypeOK
  <2>3. said' \subseteq Slot /\ paused' \subseteq Profile /\ changes' \subseteq changes
    BY <1>12, <2>1 DEF Put, SchedShapes, ScheduleTypeOK
  <2>4. QED
    BY <1>12, <2>2, <2>3 DEF Put, SchedShapes, ScheduleTypeOK
<1>13. QED
  BY <1>1, <1>2, <1>3, <1>6, <1>7, <1>8, <1>9, <1>10, <1>11, <1>12 DEF ScheduleNext

LEMMA SkipStoredKept == ASSUME SchedInv, ScheduleNext PROVE SkipStored'
<1>1. SchedShapes /\ SkipStored
  BY DEF SchedInv
<1>2. \A x \in said : x \in Slot /\ x[1] \in Profile /\ x = <<x[1], x[2], x[3]>>
  BY <1>1 DEF SchedShapes, ScheduleTypeOK, Slot
<1>3. CASE Scan
  <2>1. ASSUME NEW x \in said, why[x[1]] = {}, x \in missed' PROVE FALSE
    <3>1. x \notin missed /\ config[x[1]].skip = <<x[2], x[3]>>
      BY <1>1, <2>1 DEF SkipStored
    <3>2. x \in Expired /\ Considered(x[1], x[3])
      BY <1>3, <2>1, <3>1 DEF Scan
    <3>3. x[2] = now.day
      BY <1>1, <3>2, TodayTyped
    <3>4. QED
      BY <3>1, <3>2, <3>3 DEF Considered, Skips
  <2>2. QED
    BY <1>1, <1>3, <2>1 DEF Scan, SkipStored
<1>4. ASSUME NEW x \in batch, LaunchSlot(x) PROVE SkipStored'
  <2>1. x[1] \in Profile
    BY <1>1 DEF SchedShapes, ScheduleTypeOK, Slot
  <2>2. \A p \in Profile : why[p] \subseteq why'[p]
    BY <1>1, <1>4, <2>1 DEF LaunchSlot, SchedShapes
  <2>3. ASSUME NEW y \in said, why'[y[1]] = {}, y \in history' PROVE FALSE
    <3>1. y \notin history /\ config[y[1]].skip = <<y[2], y[3]>>
      BY <1>1, <1>2, <2>2, <2>3 DEF SkipStored
    <3>2. y = x /\ x[2] = now.day
      BY <1>4, <2>3, <3>1 DEF LaunchSlot
    <3>3. Considered(x[1], x[3])
      BY <1>1, <1>4, <2>1, <2>3, <3>1, <3>2 DEF LaunchSlot, SchedShapes
    <3>4. QED
      BY <3>1, <3>2, <3>3 DEF Considered, Skips
  <2>4. said' = said /\ config' = config /\ missed' = missed
    BY <1>4 DEF LaunchSlot
  <2>5. QED
    BY <1>1, <1>2, <2>2, <2>3, <2>4 DEF SkipStored
<1>5. ASSUME NEW patch \in changes, NEW answered \in BOOLEAN, Put(patch, answered) PROVE SkipStored'
  <2> DEFINE p == patch.prof
             s == <<p, patch.day, patch.slot>>
  <2>1. /\ p \in Profile /\ patch \in Change
        /\ patch.kind = "skip" => PatchedConfig(patch).skip = <<patch.day, patch.slot>>
        /\ patch.kind # "skip" => PatchedConfig(patch).skip = patch.base.skip
    BY <1>1, PatchedTyped
  <2>2. /\ config' = [config EXCEPT ![p] = PatchedConfig(patch)]
        /\ why' = [why EXCEPT ![p] = @ \cup Undoes(patch, p)]
        /\ history' = history /\ missed' = missed
        /\ said' \subseteq said \cup (IF patch.kind = "skip" THEN {s} ELSE {})
    BY <1>5 DEF Put
  <2>3. \A q \in Profile : why[q] \subseteq why'[q] /\ (q # p => config'[q] = config[q])
    BY <1>1, <2>1, <2>2 DEF SchedShapes, ScheduleTypeOK
  <2>4. ASSUME NEW x \in said', why'[x[1]] = {}
        PROVE  config'[x[1]].skip = <<x[2], x[3]>> /\ x \notin history \cup missed
    <3>1. CASE x[1] # p
      <4>1. x \in said
        BY <2>2, <3>1
      <4>2. QED
        BY <1>1, <1>2, <2>3, <2>4, <3>1, <4>1 DEF SkipStored
    <3>2. CASE x[1] = p
      <4>1. why[p] = {} /\ Undoes(patch, p) = {} /\ config'[p] = PatchedConfig(patch)
        BY <1>1, <2>1, <2>2, <2>4, <3>2 DEF SchedShapes, ScheduleTypeOK
      <4>2. config[p] = patch.base
        BY <4>1 DEF Undoes
      <4>3. CASE patch.kind # "skip"
        <5>1. x \in said
          BY <2>2, <4>3
        <5>2. QED
          BY <1>1, <2>1, <3>2, <4>1, <4>2, <4>3, <5>1 DEF SkipStored
      <4>4. CASE patch.kind = "skip"
        <5>1. config[p].skip \in {NoSlot, <<patch.day, patch.slot>>} /\ s \notin history \cup missed
          BY <4>1, <4>4 DEF Undoes
        <5>2. CASE x = s
          BY <2>1, <4>1, <4>4, <5>1, <5>2
        <5>3. CASE x # s
          <6>1. x \in said
            BY <2>2, <5>3
          <6>2. config[p].skip = <<x[2], x[3]>> /\ x \notin history \cup missed
            BY <1>1, <3>2, <4>1, <6>1 DEF SkipStored
          <6>3. <<x[2], x[3]>> # NoSlot
            <7>1. x[2] \in Nat /\ x[3] \in Nat
              <8>1. x \in Slot
                BY <1>2, <6>1
              <8>2. x[2] \in 1 .. MaxDate /\ x[3] \in Slots
                BY <8>1 DEF Slot
              <8>3. x[2] \in Nat
                BY <8>2
              <8>4. x[3] \in Nat
                BY <8>2, ScheduleDeskAssumption
              <8>5. QED
                BY <8>3, <8>4
            <7>2. QED
              BY <7>1, ScheduleDeskAssumption
          <6>4. QED
            BY <2>1, <3>2, <4>1, <4>4, <5>1, <6>2, <6>3
        <5>4. QED
          BY <5>2, <5>3
      <4>5. QED
        BY <4>3, <4>4
    <3>3. QED
      BY <3>1, <3>2
  <2>5. QED
    BY <2>2, <2>4 DEF SkipStored
<1>6. ASSUME NEW p \in Profile, Resume(p) PROVE SkipStored'
  <2>1. \A q \in Profile : config'[q].skip = config[q].skip
    BY <1>1, <1>6 DEF Resume, SchedShapes, ScheduleTypeOK, Schedule
  <2>2. QED
    BY <1>1, <1>2, <1>6, <2>1 DEF Resume, SkipStored
<1>7. ASSUME UNCHANGED <<said, why, config, history, missed>> PROVE SkipStored'
  BY <1>1, <1>7 DEF SkipStored
<1>8. ASSUME NEW new, Pressed(new) PROVE SkipStored'
  BY <1>7, <1>8 DEF Pressed
<1>9. CASE Wait \/ Refresh \/ PauseAll \/ \E patch \in changes : PutFails(patch)
  BY <1>7, <1>8, <1>9 DEF Wait, Refresh, PauseAll, PutFails
<1>10. CASE \E p \in Profile : SkipNext(p) \/ Pause(p)
  BY <1>8, <1>10 DEF SkipNext, Pause
<1>11. QED
  BY <1>3, <1>4, <1>5, <1>6, <1>9, <1>10 DEF ScheduleNext

LEMMA PauseStoredKept == ASSUME SchedInv, ScheduleNext PROVE PauseStored'
<1>1. SchedShapes /\ PauseStored
  BY DEF SchedInv
<1>2. paused \subseteq Profile
  BY <1>1 DEF SchedShapes, ScheduleTypeOK
<1>3. ASSUME NEW x \in batch, LaunchSlot(x) PROVE PauseStored'
  <2>1. \A p \in Profile : why[p] \subseteq why'[p]
    BY <1>1, <1>3 DEF LaunchSlot, SchedShapes
  <2>2. QED
    BY <1>1, <1>2, <1>3, <2>1 DEF LaunchSlot, PauseStored
<1>4. ASSUME NEW patch \in changes, NEW answered \in BOOLEAN, Put(patch, answered) PROVE PauseStored'
  <2> DEFINE p == patch.prof
  <2>1. /\ p \in Profile
        /\ patch.kind = "skip" => PatchedConfig(patch).enabled = patch.base.enabled
        /\ patch.kind # "skip" => ~PatchedConfig(patch).enabled
    BY <1>1, PatchedTyped
  <2>2. /\ config'[p] = PatchedConfig(patch)
        /\ why'[p] = why[p] \cup Undoes(patch, p)
        /\ \A q \in Profile \ {p} : config'[q] = config[q] /\ why'[q] = why[q]
        /\ paused' \subseteq paused \cup (IF patch.kind # "skip" THEN {p} ELSE {})
    BY <1>1, <1>4, <2>1 DEF Put, SchedShapes, ScheduleTypeOK
  <2>3. ASSUME p \in paused', "crossed" \notin why'[p] PROVE ~config'[p].enabled
    <3>1. CASE patch.kind = "skip"
      <4>1. p \in paused /\ "crossed" \notin why[p] /\ config[p] = patch.base
        BY <2>2, <2>3, <3>1 DEF Undoes
      <4>2. QED
        BY <1>1, <2>1, <2>2, <3>1, <4>1 DEF PauseStored
    <3>2. CASE patch.kind # "skip"
      BY <2>1, <2>2, <3>2
    <3>3. QED
      BY <3>1, <3>2
  <2>4. QED
    BY <1>1, <1>2, <2>1, <2>2, <2>3 DEF PauseStored
<1>5. ASSUME NEW p \in Profile, Resume(p) PROVE PauseStored'
  BY <1>1, <1>2, <1>5 DEF Resume, PauseStored, SchedShapes, ScheduleTypeOK
<1>6. ASSUME UNCHANGED <<paused, why, config>> PROVE PauseStored'
  BY <1>1, <1>6 DEF PauseStored
<1>7. ASSUME NEW new, Pressed(new) PROVE PauseStored'
  BY <1>6, <1>7 DEF Pressed
<1>8. CASE Scan \/ Wait \/ Refresh \/ PauseAll \/ \E patch \in changes : PutFails(patch)
  BY <1>6, <1>7, <1>8 DEF Scan, Wait, Refresh, PauseAll, PutFails
<1>9. CASE \E p \in Profile : SkipNext(p) \/ Pause(p)
  BY <1>7, <1>9 DEF SkipNext, Pause
<1>10. QED
  BY <1>3, <1>4, <1>5, <1>8, <1>9 DEF ScheduleNext

LEMMA SchedInvHolds == ScheduleSpec => []SchedInv
<1>1. ScheduleInit => SchedInv
  <2> SUFFICES ASSUME ScheduleInit PROVE SchedInv
    OBVIOUS
  <2>1. listed \in [Profile -> Slots \cup {0, NoSlot}]
    BY NextFireTyped DEF ScheduleInit
  <2>2. ScheduleTypeOK
    BY <2>1, ScheduleDeskAssumption DEF ScheduleInit, ScheduleTypeOK, Schedule
  <2>3. QED
    BY <2>2 DEF ScheduleInit, SchedInv, SchedShapes, SkipStored, PauseStored
<1>2. SchedInv /\ [ScheduleNext]_schedVars => SchedInv'
  <2> SUFFICES ASSUME SchedInv, [ScheduleNext]_schedVars PROVE SchedInv'
    OBVIOUS
  <2>1. CASE ScheduleNext
    BY <2>1, SchedShapesKept, SkipStoredKept, PauseStoredKept DEF SchedInv
  <2>2. CASE UNCHANGED schedVars
    BY <2>2 DEF schedVars, SchedInv, SchedShapes, ScheduleTypeOK, SkipStored, PauseStored
  <2>3. QED
    BY <2>1, <2>2
<1>3. QED
  BY <1>1, <1>2, PTL DEF ScheduleSpec

(* A slot the page has called skipped is neither run nor recorded as missed,*)
(* but for the causes (operate.api.ts puts the whole document back; scan.ts *)
(* reads it once a tick).                                                   *)
THEOREM ScheduleHolds == ScheduleSpec => []ScheduleSound
<1>1. SchedInv => ScheduleSound
  BY DEF SchedInv, SchedShapes, SkipStored, ScheduleSound, SkipHonoured
<1>2. QED
  BY <1>1, SchedInvHolds, PTL

(* No run of a paused profile is launched, unless a change that had read    *)
(* profile.json before the pause put its schedule back, or the daemon was   *)
(* working through an older reading (daemon.ts: runTick).                   *)
THEOREM PauseHolds == ScheduleSpec => PauseHonoured
<1>1. SchedInv /\ [ScheduleNext]_schedVars => [PauseHonouredStep]_schedVars
  <2> SUFFICES ASSUME SchedInv, ScheduleNext PROVE PauseHonouredStep
    OBVIOUS
  <2>1. SUFFICES ASSUME NEW x \in history' \ history, x[1] \in paused
                 PROVE  why'[x[1]] \cap {"crossed", "batch"} # {}
    BY DEF PauseHonouredStep
  <2>2. LaunchSlot(x) /\ x \in batch
    <3>1. ASSUME NEW y \in batch, LaunchSlot(y) PROVE y = x
      BY <2>1, <3>1 DEF LaunchSlot
    <3>2. ASSUME NEW new, Pressed(new) PROVE FALSE
      BY <2>1, <3>2 DEF Pressed
    <3>3. QED
      BY <2>1, <3>1, <3>2 DEF ScheduleNext, Scan, Wait, Refresh, PauseAll, SkipNext, Pause, Resume, PutFails, Put
  <2>3. /\ x[1] \in Profile /\ why'[x[1]] = why[x[1]] \cup (IF Considered(x[1], x[3]) THEN {} ELSE {"batch"})
    BY <2>1, <2>2 DEF LaunchSlot, SchedInv, SchedShapes, ScheduleTypeOK, Slot
  <2>4. CASE Considered(x[1], x[3])
    BY <2>1, <2>3, <2>4 DEF Considered, SchedInv, PauseStored
  <2>5. CASE ~Considered(x[1], x[3])
    BY <2>3, <2>5
  <2>6. QED
    BY <2>4, <2>5
<1>2. QED
  BY <1>1, SchedInvHolds, PTL DEF ScheduleSpec, PauseHonoured
----------------------------------------------------------------------------
(* The jobs page                                                           *)

(* The values chosen for a job, and rows, answers and patches made of them. *)
Own(j) == {n \in Value : n = 0 \/ owner[n] = j}
OwnRow(j) == [Field -> Own(j)]
OwnAnswer(j) == [row : OwnRow(j), order : Nat]
OwnPatch(j) ==
  [job : {j}, field : Field, value : Own(j), base : OwnRow(j), at : Nat, answer : OwnRow(j) \cup {Absent}, rival : BOOLEAN]

(* The values in use are the first ones. *)
UsedTo(k) == k \in 0 .. (MaxTyped + outside) /\ \A n \in Value : owner[n] # Absent <=> n \in 1 .. k

(* Whatever is stored, cached or on its way for a job was chosen for it. *)
OwnShapes ==
  /\ row \in [Job -> Row] /\ \A j \in Job : row[j] \in OwnRow(j)
  /\ list = [j \in DOMAIN list |-> list[j]] /\ DOMAIN list \subseteq Job /\ \A j \in DOMAIN list : list[j] \in OwnRow(j)
  /\ detail = [j \in Job |-> detail[j]] /\ \A j \in Job : detail[j] \in OwnRow(j) \cup {Absent}
  /\ fetch = [j \in Job |-> fetch[j]] /\ \A j \in Job : fetch[j] \in OwnAnswer(j) \cup {Absent}
  /\ text # Absent => text \in Own(sel) /\ sel \in Job /\ detail[sel] # Absent
  /\ \A p \in patches : p.job \in Job /\ p \in OwnPatch(p.job) /\ (p.at = 0 \/ p.answer # Absent)

DeskShapes ==
  /\ open \subseteq Job /\ sel \in Job \cup {Absent}
  /\ owner \in [Value \cup {MaxTyped + MaxOutside + 1} -> Job \cup {Absent}]
  /\ outside \in 0 .. MaxOutside /\ \E k \in Nat : UsedTo(k)
  /\ order \in [Job -> Nat] /\ shown \in [Job -> Nat]
  /\ flagged \subseteq Job \X Field
  /\ stale = [j \in Job |-> stale[j]]

JobShapes == OwnShapes /\ DeskShapes

LEMMA ValueTyped == Value = 0 .. MaxTyped + MaxOutside /\ Value \subseteq Nat /\ Absent \notin Value /\ 0 \in Value
BY JobDeskAssumption DEF Value

LEMMA OwnTyped ==
  /\ \A j : Own(j) \subseteq Value /\ 0 \in Own(j) /\ OwnRow(j) \subseteq Row
  /\ \A j : Absent \notin OwnRow(j) /\ Absent \notin OwnAnswer(j) /\ Absent \notin Own(j)
<1>1. \A j : Own(j) \subseteq Value /\ 0 \in Own(j)
  BY ValueTyped DEF Own
<1>2. \A j : OwnRow(j) \subseteq Row
  BY <1>1 DEF OwnRow, Row
<1>3. \A j : OwnAnswer(j) \subseteq [row : Row, order : Nat]
  BY <1>2 DEF OwnAnswer
<1>4. QED
  BY <1>1, <1>2, <1>3, JobDeskAssumption, ValueTyped

(* The next value to be chosen is the one after those in use. *)
LEMMA NewIsNext ==
  ASSUME DeskShapes, NEW k \in Nat, UsedTo(k)
  PROVE  New = k + 1 /\ \A n \in Value : owner[n] # Absent => n < New
<1>1. {n \in Value : owner[n] # Absent} = 1 .. k
  <2>1. 1 .. k \subseteq Value
    BY ValueTyped, JobDeskAssumption DEF UsedTo, DeskShapes
  <2>2. QED
    BY <2>1, ValueTyped DEF UsedTo
<1>2. Cardinality(1 .. k) = k
  <2>1. Cardinality(1 .. k) = IF 1 > k THEN 0 ELSE k - 1 + 1
    BY FS_Interval
  <2>2. QED
    BY <2>1
<1>3. New = k + 1
  BY <1>1, <1>2 DEF New
<1>4. \A n \in Value : owner[n] # Absent => n < k + 1
  BY DEF UsedTo
<1>5. QED
  BY <1>3, <1>4

(* Choosing a value leaves those chosen before as they are. *)
Chosen(j) ==
  /\ New \in Value /\ New <= MaxTyped + outside'
  /\ owner' = [owner EXCEPT ![New] = j]

LEMMA ChosenGrows ==
  ASSUME DeskShapes, NEW j \in Job, Chosen(j), outside' \in 0 .. MaxOutside, outside <= outside'
  PROVE  /\ \A i \in Job : Own(i) \subseteq Own(i)'
         /\ New \in Own(j)' /\ New \notin Own(j)
         /\ owner' \in [Value \cup {MaxTyped + MaxOutside + 1} -> Job \cup {Absent}]
         /\ \E k \in Nat : UsedTo(k)'
<1>1. PICK k \in Nat : UsedTo(k)
  BY DEF DeskShapes
<1>2. New = k + 1 /\ owner[k + 1] = Absent /\ k + 1 \in Value /\ k + 1 # 0
  BY <1>1, NewIsNext DEF UsedTo, Chosen
<1>3. owner' = [owner EXCEPT ![k + 1] = j]
  BY <1>2 DEF Chosen
<1>35. k + 1 <= MaxTyped + outside'
  BY <1>2 DEF Chosen
<1>4. owner'[k + 1] = j /\ \A n \in Value \ {k + 1} : owner'[n] = owner[n]
  BY <1>2, <1>3 DEF DeskShapes
<1>5. ASSUME NEW i \in Job PROVE Own(i) \subseteq Own(i)'
  BY <1>2, <1>4, JobDeskAssumption DEF Own
<1>6. New \in Own(j)' /\ New \notin Own(j)
  BY <1>2, <1>4, JobDeskAssumption DEF Own
<1>7. owner' \in [Value \cup {MaxTyped + MaxOutside + 1} -> Job \cup {Absent}]
  BY <1>3 DEF DeskShapes
<1>8. UsedTo(k + 1)'
  <2>1. k + 1 \in 0 .. (MaxTyped + outside')
    <3>1. outside' \in Nat
      BY JobDeskAssumption
    <3>2. MaxTyped \in Nat
      BY JobDeskAssumption
    <3>3. ASSUME NEW x \in Nat, k + 1 <= MaxTyped + x PROVE k + 1 \in 0 .. (MaxTyped + x)
      BY <3>2, <3>3
    <3>4. QED
      BY <1>35, <3>1, <3>3
  <2>2. ASSUME NEW n \in Value PROVE owner'[n] # Absent <=> n \in 1 .. k + 1
    BY <1>1, <1>4, JobDeskAssumption, ValueTyped DEF UsedTo
  <2>3. QED
    BY <2>1, <2>2 DEF UsedTo
<1>9. QED
  BY <1>5, <1>6, <1>7, <1>8

(* With the values, what is made of them grows. *)
LEMMA MadeGrows ==
  ASSUME \A i \in Job : Own(i) \subseteq Own(i)'
  PROVE  \A i \in Job : OwnRow(i) \subseteq OwnRow(i)' /\ OwnAnswer(i) \subseteq OwnAnswer(i)' /\ OwnPatch(i) \subseteq OwnPatch(i)'
<1>1. \A i \in Job : OwnRow(i) \subseteq OwnRow(i)'
  BY DEF OwnRow
<1>2. \A i \in Job : OwnAnswer(i) \subseteq OwnAnswer(i)'
  BY <1>1 DEF OwnAnswer
<1>3. ASSUME NEW i \in Job PROVE OwnPatch(i) \subseteq OwnPatch(i)'
  BY <1>1, i \in {i} DEF OwnPatch
<1>4. QED
  BY <1>1, <1>2, <1>3

LEMMA OwnerKept ==
  ASSUME DeskShapes, owner' = owner, outside' \in 0 .. MaxOutside, outside <= outside'
  PROVE  (\A i \in Job : Own(i) \subseteq Own(i)') /\ \E k \in Nat : UsedTo(k)'
<1>1. PICK k \in Nat : UsedTo(k)
  BY DEF DeskShapes
<1>2. outside \in Nat /\ outside' \in Nat /\ MaxTyped \in Nat
  BY JobDeskAssumption DEF DeskShapes
<1>3. ASSUME NEW x \in Nat, outside <= x PROVE k \in 0 .. (MaxTyped + x)
  BY <1>1, <1>2, <1>3 DEF UsedTo
<1>4. UsedTo(k)'
  BY <1>1, <1>2, <1>3 DEF UsedTo
<1>5. QED
  BY <1>4 DEF Own

LEMMA FirstOfTyped == ASSUME NEW js, js \subseteq Job PROVE FirstOf(js) \in js \cup {Absent}
<1>1. CASE js = {}
  BY <1>1 DEF FirstOf
<1>2. CASE js # {}
  <2> DEFINE ranked == [Job -> 1 .. Cardinality(Job)]
             rank == Rank(Job)
             order2 == {rank[j] : j \in js}
  <2>1. \E f \in ranked : \A a, b \in Job : a # b => f[a] # f[b]
    <3>1. ExistsBijection(1 .. Cardinality(Job), Job)
      BY JobDeskAssumption, FS_CardinalityType
    <3>2. ExistsBijection(Job, 1 .. Cardinality(Job))
      BY <3>1, Fun_ExistsBijSymmetric
    <3>3. QED
      BY <3>2 DEF ExistsBijection, Bijection, Injection, IsInjective
  <2>2. rank \in ranked
    <3>1. rank = CHOOSE f \in ranked : \A a, b \in Job : a # b => f[a] # f[b]
      BY DEF Rank
    <3>2. QED
      BY <2>1, <3>1
  <2>3. order2 \subseteq Nat /\ order2 # {}
    <3>1. \A j \in js : rank[j] \in 1 .. Cardinality(Job)
      BY <2>2
    <3>2. QED
      BY <1>2, <3>1
  <2>4. PICK m \in order2 : \A n \in order2 : ~(<<n, m>> \in OpToRel(<, Nat))
    BY <2>3, NatLessThanWellFounded, WFMin
  <2>5. \E j \in js : \A o \in js : rank[j] <= rank[o]
    <3>1. \A n \in order2 : ~(n < m)
      BY <2>3, <2>4 DEF OpToRel
    <3>2. PICK j \in js : rank[j] = m
      OBVIOUS
    <3>3. \A o \in js : rank[o] \in order2 /\ rank[o] \in Nat
      BY <2>3
    <3>4. m \in Nat
      BY <2>3
    <3>5. \A o \in js : rank[j] <= rank[o]
      <4>1. TAKE o \in js
      <4>2. rank[o] \in Nat /\ ~(rank[o] < m)
        BY <3>1, <3>3
      <4>3. QED
        BY <3>2, <3>4, <4>2
    <3>6. QED
      BY <3>5
  <2>6. FirstOf(js) = CHOOSE j \in js : \A o \in js : rank[j] <= rank[o]
    BY <1>2 DEF FirstOf
  <2>7. QED
    BY <2>5, <2>6
<1>3. QED
  BY <1>1, <1>2

(* What the panel takes its text from. *)
LEMMA SeededTyped ==
  ASSUME OwnShapes, NEW j \in Job \cup {Absent}, NEW d, \A i \in Job : d[i] \in OwnRow(i) \cup {Absent},
         Seeded(j, d) # Absent
  PROVE  Seeded(j, d) \in Own(j) /\ j \in Job /\ d[j] # Absent
<1>1. j # Absent /\ d[j] # Absent /\ j \in Job
  BY DEF Seeded
<1>2. d[j]["notes"] \in Own(j)
  BY <1>1 DEF OwnRow, Field
<1>3. QED
  BY <1>1, <1>2 DEF Seeded, OwnShapes

LEMMA TrackingTyped == ASSUME OwnShapes, NEW j \in Job PROVE Tracking(j) \in OwnRow(j)
<1>1. [f \in Field |-> 0] \in OwnRow(j)
  BY OwnTyped DEF OwnRow
<1>2. QED
  BY <1>1 DEF Tracking, OwnShapes

LEMMA WrittenTyped ==
  ASSUME OwnShapes, \A i \in Job : Own(i) \subseteq Own(i)', NEW j \in Job, NEW r \in OwnRow(j)', WrittenBoth(j, r)
  PROVE  /\ list' = [i \in DOMAIN list' |-> list'[i]] /\ DOMAIN list' \subseteq Job
         /\ \A i \in DOMAIN list' : list'[i] \in OwnRow(i)'
         /\ detail' = [i \in Job |-> detail'[i]]
         /\ \A i \in Job : detail'[i] \in OwnRow(i)' \cup {Absent}
         /\ \A i \in Job : detail'[i] = IF i = j /\ detail[j] # Absent THEN r ELSE detail[i]
         /\ \A i \in Job : detail'[i] = Absent <=> detail[i] = Absent
<1>1. \A i \in Job : OwnRow(i) \subseteq OwnRow(i)'
  BY MadeGrows
<1>2. /\ list = [i \in DOMAIN list |-> list[i]] /\ DOMAIN list \subseteq Job /\ \A i \in DOMAIN list : list[i] \in OwnRow(i)
      /\ detail = [i \in Job |-> detail[i]] /\ \A i \in Job : detail[i] \in OwnRow(i) \cup {Absent}
  BY DEF OwnShapes
<1>3. \A i \in Job : detail'[i] = IF i = j /\ detail[j] # Absent THEN r ELSE detail[i]
  BY <1>2 DEF WrittenBoth
<1>4. detail' = [i \in Job |-> detail'[i]]
  BY <1>2 DEF WrittenBoth
<1>5. /\ DOMAIN list' = DOMAIN list /\ list' = [i \in DOMAIN list' |-> list'[i]]
      /\ \A i \in DOMAIN list : list'[i] = IF i = j THEN r ELSE list[i]
  BY <1>2 DEF WrittenBoth
<1>6. r # Absent
  <2>1. \A n \in Own(j)' : n \in Value
    BY DEF Own
  <2>2. r \in Row
    BY <2>1 DEF OwnRow, Row
  <2>3. QED
    BY <2>2, JobDeskAssumption
<1>7. QED
  BY <1>1, <1>2, <1>3, <1>4, <1>5, <1>6

LEMMA ContestedTyped ==
  ASSUME OwnShapes, NEW rivals, rivals \subseteq patches, NEW p \in Contested(rivals)
  PROVE  p.job \in Job /\ p \in OwnPatch(p.job) /\ (p.at = 0 \/ p.answer # Absent)
<1>1. CASE p \in patches
  BY <1>1 DEF OwnShapes
<1>2. ASSUME NEW q \in patches, p = [q EXCEPT !.rival = TRUE] PROVE p.job \in Job /\ p \in OwnPatch(p.job) /\ (p.at = 0 \/ p.answer # Absent)
  <2>1. q.job \in Job /\ q \in OwnPatch(q.job) /\ (q.at = 0 \/ q.answer # Absent)
    BY DEF OwnShapes
  <2>2. p.job = q.job /\ p \in OwnPatch(q.job) /\ p.at = q.at /\ p.answer = q.answer
    BY <1>2, <2>1 DEF OwnPatch
  <2>3. QED
    BY <2>1, <2>2
<1>3. QED
  BY <1>1, <1>2 DEF Contested

(* A patch on its way, and both caches with it. *)
LEMMA MutatedTyped ==
  ASSUME JobShapes, \A i \in Job : Own(i) \subseteq Own(i)',
         NEW j \in Job, NEW field \in Field, NEW value \in Own(j)', NEW late \in SUBSET (Job \X Field),
         Mutated(j, field, value, late)
  PROVE  /\ list' = [i \in DOMAIN list' |-> list'[i]] /\ DOMAIN list' \subseteq Job
         /\ \A i \in DOMAIN list' : list'[i] \in OwnRow(i)'
         /\ detail' = [i \in Job |-> detail'[i]]
         /\ \A i \in Job : detail'[i] \in OwnRow(i)' \cup {Absent}
         /\ \A i \in Job : detail'[i] = Absent <=> detail[i] = Absent
         /\ fetch' = [i \in Job |-> fetch'[i]] /\ \A i \in Job : fetch'[i] \in OwnAnswer(i)' \cup {Absent}
         /\ \A p \in patches' : p.job \in Job /\ p \in OwnPatch(p.job)' /\ (p.at = 0 \/ p.answer # Absent)
         /\ flagged' \subseteq Job \X Field
<1>1. OwnShapes /\ DeskShapes
  BY DEF JobShapes
<1>2. \A i \in Job : OwnRow(i) \subseteq OwnRow(i)' /\ OwnAnswer(i) \subseteq OwnAnswer(i)' /\ OwnPatch(i) \subseteq OwnPatch(i)'
  BY MadeGrows
<1> DEFINE base == Tracking(j)
           rivals == Rivals(j, field)
           patch == [job |-> j, field |-> field, value |-> value, base |-> base, at |-> 0, answer |-> Absent,
                     rival |-> rivals # {} \/ base[field] # row[j][field]]
           written == [base EXCEPT ![field] = value]
<1>3. /\ patches' = {patch} \cup Contested(rivals)
      /\ flagged' = flagged \cup late \cup (IF rivals = {} THEN {} ELSE {<<j, field>>})
      /\ fetch' = [fetch EXCEPT ![j] = Absent]
      /\ WrittenBoth(j, written)
  BY DEF Mutated
<1>4. base \in OwnRow(j)'
  BY <1>1, <1>2, TrackingTyped
<1>5. written \in OwnRow(j)'
  <2> HIDE DEF base
  <2>1. QED
    BY <1>4 DEF OwnRow
<1>6. patch \in OwnPatch(j)' /\ patch.job = j /\ patch.at = 0
  <2> HIDE DEF base, rivals
  <2>1. QED
    BY <1>4 DEF OwnPatch
<1>7. \A p \in Contested(rivals) : p.job \in Job /\ p \in OwnPatch(p.job)' /\ (p.at = 0 \/ p.answer # Absent)
  <2>1. rivals \subseteq patches
    BY DEF Rivals
  <2>2. QED
    BY <1>1, <1>2, <2>1, ContestedTyped
<1>8. \A p \in patches' : p.job \in Job /\ p \in OwnPatch(p.job)' /\ (p.at = 0 \/ p.answer # Absent)
  <2> HIDE DEF patch, rivals
  <2>1. QED
    BY <1>3, <1>6, <1>7
<1>9. fetch' = [i \in Job |-> fetch'[i]] /\ \A i \in Job : fetch'[i] \in OwnAnswer(i)' \cup {Absent}
  BY <1>1, <1>2, <1>3 DEF OwnShapes
<1>10. flagged' \subseteq Job \X Field
  BY <1>1, <1>3 DEF DeskShapes
<1>11. QED
  <2> HIDE DEF written
  <2>1. QED
    BY <1>1, <1>3, <1>5, <1>8, <1>9, <1>10, WrittenTyped

LEMMA JobShapesKept == ASSUME JobShapes, JobsNext PROVE JobShapes'
<1>1. OwnShapes /\ DeskShapes
  BY DEF JobShapes
<1>2. \A n : UNCHANGED <<owner, outside>> =>
        (\A i \in Job : Own(i) \subseteq Own(i)') /\ (\E k \in Nat : UsedTo(k)')
  BY <1>1, OwnerKept DEF DeskShapes
<1>3. (\A i \in Job : Own(i) \subseteq Own(i)') =>
        \A i \in Job : OwnRow(i) \subseteq OwnRow(i)' /\ OwnAnswer(i) \subseteq OwnAnswer(i)' /\ OwnPatch(i) \subseteq OwnPatch(i)'
  BY MadeGrows
<1>4. CASE ReadList
  <2> DEFINE next == IF sel # Absent /\ sel \in open THEN sel ELSE FirstOf(open)
  <2>1. next \in Job \cup {Absent}
    BY <1>1, FirstOfTyped DEF DeskShapes
  <2>2. /\ list' = [j \in open |-> row[j]] /\ sel' = next /\ text' = Seeded(next, detail)
        /\ flagged' = flagged \cup SeededLate(next, detail)
        /\ UNCHANGED <<row, open, detail, fetch, patches, owner, order, shown, outside, stale>>
    BY <1>4 DEF ReadList
  <2>3. text' # Absent => text' \in Own(next) /\ next \in Job /\ detail[next] # Absent
    <3> HIDE DEF next
    <3>1. QED
      BY <1>1, <2>1, <2>2, SeededTyped DEF OwnShapes
  <2>4. flagged' \subseteq Job \X Field
    <3>1. SeededLate(next, detail) # {} => text' # Absent
      BY <2>2 DEF SeededLate
    <3>2. SeededLate(next, detail) \subseteq {<<next, "notes">>}
      BY DEF SeededLate
    <3>3. QED
      <4> HIDE DEF next
      <4>1. QED
        BY <1>1, <2>2, <2>3, <3>1, <3>2 DEF DeskShapes, Field
  <2>5. OwnShapes'
    <3> HIDE DEF next
    <3>1. QED
      BY <1>1, <1>2, <1>3, <2>1, <2>2, <2>3 DEF OwnShapes, DeskShapes
  <2>6. DeskShapes'
    <3> HIDE DEF next
    <3>1. QED
      BY <1>1, <1>2, <2>1, <2>2, <2>4 DEF DeskShapes
  <2>7. QED
    BY <2>5, <2>6 DEF JobShapes
<1>5. CASE AskDetail
  <2>1. /\ sel \in Job /\ fetch' = [fetch EXCEPT ![sel] = [row |-> row[sel], order |-> order[sel]]]
        /\ UNCHANGED <<row, open, list, detail, sel, text, patches, owner, order, shown, outside, flagged, stale>>
    BY <1>1, <1>5 DEF AskDetail, DeskShapes
  <2>2. [row |-> row[sel], order |-> order[sel]] \in OwnAnswer(sel)
    BY <1>1, <2>1 DEF OwnShapes, DeskShapes, OwnAnswer
  <2>3. fetch' = [i \in Job |-> fetch'[i]] /\ \A i \in Job : fetch'[i] \in OwnAnswer(i) \cup {Absent}
    BY <1>1, <2>1, <2>2 DEF OwnShapes
  <2>4. OwnShapes'
    BY <1>1, <1>2, <1>3, <2>1, <2>3 DEF OwnShapes
  <2>5. DeskShapes'
    BY <1>1, <1>2, <2>1 DEF DeskShapes
  <2>6. QED
    BY <2>4, <2>5 DEF JobShapes
<1>6. ASSUME NEW j \in Job, DetailAnswered(j) PROVE JobShapes'
  <2>1. PICK d : d = [detail EXCEPT ![j] = fetch[j].row]
    OBVIOUS
  <2>2. /\ fetch[j] # Absent /\ detail' = d /\ fetch' = [fetch EXCEPT ![j] = Absent]
        /\ text' = Seeded(sel, d) /\ flagged' = flagged \cup SeededLate(sel, d)
        /\ shown' = [shown EXCEPT ![j] = fetch[j].order]
        /\ stale' = [stale EXCEPT ![j] = CauseAfter(j, fetch[j].order)]
        /\ UNCHANGED <<row, open, list, sel, patches, owner, order, outside>>
    BY <1>6, <2>1 DEF DetailAnswered
  <2>3. fetch[j] \in OwnAnswer(j) /\ fetch[j].row \in OwnRow(j) /\ fetch[j].order \in Nat
    BY <1>1, <2>2 DEF OwnShapes, OwnAnswer
  <2>4. d = [i \in Job |-> d[i]] /\ \A i \in Job : d[i] \in OwnRow(i) \cup {Absent}
    BY <1>1, <2>1, <2>3 DEF OwnShapes
  <2>5. text' # Absent => text' \in Own(sel) /\ sel \in Job /\ d[sel] # Absent
    BY <1>1, <2>2, <2>4, SeededTyped DEF DeskShapes
  <2>6. flagged' \subseteq Job \X Field
    <3>1. SeededLate(sel, d) # {} => text' # Absent
      BY <2>2 DEF SeededLate
    <3>2. SeededLate(sel, d) \subseteq {<<sel, "notes">>}
      BY DEF SeededLate
    <3>3. QED
      BY <1>1, <2>2, <2>5, <3>1, <3>2 DEF DeskShapes, Field
  <2>7. OwnShapes'
    BY <1>1, <1>2, <1>3, <2>2, <2>4, <2>5 DEF OwnShapes
  <2>8. DeskShapes'
    BY <1>1, <1>2, <2>2, <2>3, <2>6 DEF DeskShapes
  <2>9. QED
    BY <2>7, <2>8 DEF JobShapes
<1>7. ASSUME NEW j \in Job, New <= MaxTyped + outside, owner' = [owner EXCEPT ![New] = j], outside' = outside
      PROVE  /\ \A i \in Job : Own(i) \subseteq Own(i)'
             /\ New \in Own(j)'
             /\ owner' \in [Value \cup {MaxTyped + MaxOutside + 1} -> Job \cup {Absent}]
             /\ \E k \in Nat : UsedTo(k)'
  <2>1. New \in Nat
    BY <1>1, NewIsNext DEF DeskShapes
  <2>2. New \in Value
    <3>1. outside <= MaxOutside /\ outside \in Nat /\ MaxTyped \in Nat /\ MaxOutside \in Nat
      BY <1>1, JobDeskAssumption DEF DeskShapes
    <3>2. QED
      BY <1>7, <2>1, <3>1 DEF Value
  <2>3. outside' \in 0 .. MaxOutside /\ outside <= outside' /\ New <= MaxTyped + outside'
    BY <1>1, <1>7, JobDeskAssumption DEF DeskShapes
  <2>4. Chosen(j)
    BY <1>7, <2>2, <2>3 DEF Chosen
  <2>5. QED
    BY <1>1, <2>3, <2>4, ChosenGrows
<1>8. ASSUME NEW j \in Job, NEW field \in Field, NEW value \in Own(j)', NEW late \in SUBSET (Job \X Field),
             \A i \in Job : Own(i) \subseteq Own(i)', Mutated(j, field, value, late),
             UNCHANGED <<row, open, order, shown, outside, stale>>,
             owner' \in [Value \cup {MaxTyped + MaxOutside + 1} -> Job \cup {Absent}], \E k \in Nat : UsedTo(k)',
             sel' \in Job \cup {Absent},
             text' # Absent => text' \in Own(sel)' /\ sel' \in Job /\ detail[sel'] # Absent
      PROVE  JobShapes'
  <2>1. /\ list' = [i \in DOMAIN list' |-> list'[i]] /\ DOMAIN list' \subseteq Job
        /\ \A i \in DOMAIN list' : list'[i] \in OwnRow(i)'
        /\ detail' = [i \in Job |-> detail'[i]]
        /\ \A i \in Job : detail'[i] \in OwnRow(i)' \cup {Absent}
        /\ \A i \in Job : detail'[i] = Absent <=> detail[i] = Absent
        /\ fetch' = [i \in Job |-> fetch'[i]] /\ \A i \in Job : fetch'[i] \in OwnAnswer(i)' \cup {Absent}
        /\ \A p \in patches' : p.job \in Job /\ p \in OwnPatch(p.job)' /\ (p.at = 0 \/ p.answer # Absent)
        /\ flagged' \subseteq Job \X Field
    BY <1>8, MutatedTyped
  <2>2. row' \in [Job -> Row] /\ \A i \in Job : row'[i] \in OwnRow(i)'
    BY <1>1, <1>3, <1>8 DEF OwnShapes
  <2>3. text' # Absent => text' \in Own(sel)' /\ sel' \in Job /\ detail'[sel'] # Absent
    BY <1>8, <2>1
  <2>4. OwnShapes'
    BY <2>1, <2>2, <2>3 DEF OwnShapes
  <2>5. DeskShapes'
    BY <1>1, <1>8, <2>1 DEF DeskShapes
  <2>6. QED
    BY <2>4, <2>5 DEF JobShapes
<1>9. text # Absent => text \in Own(sel) /\ sel \in Job /\ detail[sel] # Absent
  BY <1>1 DEF OwnShapes
<1>10. ASSUME NEW j \in Job, ChooseStatus(j) PROVE JobShapes'
  <2>1. /\ New <= MaxTyped + outside /\ owner' = [owner EXCEPT ![New] = j] /\ Mutated(j, "status", New, {})
        /\ UNCHANGED <<row, open, text, sel, order, shown, outside, stale>>
    BY <1>10 DEF ChooseStatus
  <2>2. /\ \A i \in Job : Own(i) \subseteq Own(i)'
        /\ New \in Own(j)'
        /\ owner' \in [Value \cup {MaxTyped + MaxOutside + 1} -> Job \cup {Absent}]
        /\ \E k \in Nat : UsedTo(k)'
    BY <1>7, <2>1
  <2>3. sel' \in Job \cup {Absent} /\ (text' # Absent => text' \in Own(sel)' /\ sel' \in Job /\ detail[sel'] # Absent)
    BY <1>1, <1>9, <2>1, <2>2 DEF DeskShapes
  <2>4. "status" \in Field
    BY DEF Field
  <2>5. QED
    BY <1>8, <2>1, <2>2, <2>3, <2>4
<1>11. CASE Decide
  <2>0. PICK j \in Job : j = sel
    BY <1>1, <1>11 DEF Decide, DeskShapes
  <2>1. PICK next \in IF Undecided(j) = {} THEN {j} ELSE Undecided(j) :
          sel' = next /\ text' = Seeded(next, detail) /\ Mutated(j, "status", New, SeededLate(next, detail))
    BY <1>11, <2>0 DEF Decide
  <2>2. /\ New <= MaxTyped + outside /\ owner' = [owner EXCEPT ![New] = j]
        /\ UNCHANGED <<row, open, order, shown, outside, stale>>
    BY <1>11, <2>0 DEF Decide
  <2>3. /\ \A i \in Job : Own(i) \subseteq Own(i)'
        /\ New \in Own(j)'
        /\ owner' \in [Value \cup {MaxTyped + MaxOutside + 1} -> Job \cup {Absent}]
        /\ \E k \in Nat : UsedTo(k)'
    BY <1>7, <2>2
  <2>4. next \in Job
    BY <1>1, <2>2 DEF Undecided, OwnShapes
  <2>5. text' # Absent => text' \in Own(next) /\ detail[next] # Absent
    BY <1>1, <2>1, <2>4, SeededTyped DEF OwnShapes
  <2>6. SeededLate(next, detail) \in SUBSET (Job \X Field)
    BY <2>4 DEF SeededLate, Field
  <2>7. "status" \in Field
    BY DEF Field
  <2>8. text' # Absent => text' \in Own(sel)' /\ sel' \in Job /\ detail[sel'] # Absent
    BY <2>1, <2>3, <2>4, <2>5
  <2>9. QED
    BY <1>8, <2>1, <2>2, <2>3, <2>4, <2>6, <2>7, <2>8
<1>12. CASE Type
  <2>1. /\ text # Absent /\ New <= MaxTyped + outside /\ owner' = [owner EXCEPT ![New] = sel] /\ text' = New
        /\ UNCHANGED <<row, open, list, detail, fetch, sel, patches, order, shown, outside, flagged, stale>>
    BY <1>12 DEF Type
  <2>2. /\ \A i \in Job : Own(i) \subseteq Own(i)'
        /\ New \in Own(sel)'
        /\ owner' \in [Value \cup {MaxTyped + MaxOutside + 1} -> Job \cup {Absent}]
        /\ \E k \in Nat : UsedTo(k)'
    BY <1>7, <1>9, <2>1
  <2>3. OwnShapes'
    BY <1>1, <1>3, <1>9, <2>1, <2>2 DEF OwnShapes
  <2>4. DeskShapes'
    BY <1>1, <2>1, <2>2 DEF DeskShapes
  <2>5. QED
    BY <2>3, <2>4 DEF JobShapes
<1>13. CASE Blur
  <2>1. /\ text # Absent /\ Mutated(sel, "notes", text, {})
        /\ UNCHANGED <<row, open, sel, text, owner, order, shown, outside, stale>>
    BY <1>13 DEF Blur, FieldPatch
  <2>2. (\A i \in Job : Own(i) \subseteq Own(i)') /\ (\E k \in Nat : UsedTo(k)')
    BY <1>2, <2>1
  <2>3. "notes" \in Field /\ text \in Own(sel)' /\ sel \in Job
    BY <1>9, <2>1, <2>2 DEF Field
  <2>4. text' # Absent => text' \in Own(sel)' /\ sel' \in Job /\ detail[sel'] # Absent
    BY <1>9, <2>1, <2>2
  <2>5. owner' \in [Value \cup {MaxTyped + MaxOutside + 1} -> Job \cup {Absent}] /\ sel' \in Job \cup {Absent}
    BY <1>1, <2>1 DEF DeskShapes
  <2>6. QED
    BY <1>8, <2>1, <2>2, <2>3, <2>4, <2>5
<1>14. ASSUME NEW j \in Job, Select(j) PROVE JobShapes'
  <2>1. /\ sel' = j /\ text' = Seeded(j, detail) /\ flagged' = flagged \cup SeededLate(j, detail)
        /\ UNCHANGED <<row, open, list, detail, fetch, patches, owner, order, shown, outside, stale>>
    BY <1>14 DEF Select
  <2>2. text' # Absent => text' \in Own(j) /\ detail[j] # Absent
    BY <1>1, <2>1, SeededTyped DEF OwnShapes
  <2>3. flagged' \subseteq Job \X Field
    BY <1>1, <2>1 DEF DeskShapes, SeededLate, Field
  <2>4. OwnShapes'
    BY <1>1, <1>2, <1>3, <2>1, <2>2 DEF OwnShapes
  <2>5. DeskShapes'
    BY <1>1, <1>2, <2>1, <2>3 DEF DeskShapes
  <2>6. QED
    BY <2>4, <2>5 DEF JobShapes
<1>15. ASSUME NEW p \in patches, Store(p) PROVE JobShapes'
  <2>1. p.job \in Job /\ p \in OwnPatch(p.job)
    BY <1>1 DEF OwnShapes
  <2>2. /\ row' = [row EXCEPT ![p.job] = [row[p.job] EXCEPT ![p.field] = p.value]]
        /\ order' = [order EXCEPT ![p.job] = @ + 1]
        /\ patches' = (patches \ {p}) \cup {[p EXCEPT !.at = order[p.job] + 1, !.answer = row'[p.job]]}
        /\ UNCHANGED <<open, list, detail, fetch, sel, text, owner, shown, outside, flagged, stale>>
    BY <1>15 DEF Store, Merged
  <2>3. [row[p.job] EXCEPT ![p.field] = p.value] \in OwnRow(p.job)
    BY <1>1, <2>1 DEF OwnPatch, OwnRow, OwnShapes
  <2>4. row' \in [Job -> Row] /\ \A i \in Job : row'[i] \in OwnRow(i)
    BY <1>1, <2>1, <2>2, <2>3, OwnTyped DEF OwnShapes
  <2>5. PICK q : q = [p EXCEPT !.at = order[p.job] + 1, !.answer = row'[p.job]]
    OBVIOUS
  <2>6. q.job = p.job /\ q \in OwnPatch(p.job) /\ q.answer # Absent
    <3>1. order[p.job] + 1 \in Nat /\ row'[p.job] \in OwnRow(p.job) /\ row'[p.job] # Absent
      BY <1>1, <2>1, <2>4, OwnTyped DEF DeskShapes
    <3>2. QED
      BY <2>1, <2>5, <3>1 DEF OwnPatch
  <2>7. \A r \in patches' : r.job \in Job /\ r \in OwnPatch(r.job) /\ (r.at = 0 \/ r.answer # Absent)
    BY <1>1, <2>1, <2>2, <2>5, <2>6 DEF OwnShapes
  <2>8. OwnShapes'
    BY <1>1, <1>2, <1>3, <2>2, <2>4, <2>7 DEF OwnShapes
  <2>9. order' \in [Job -> Nat]
    <3>1. order \in [Job -> Nat] /\ order[p.job] + 1 \in Nat
      BY <1>1, <2>1 DEF DeskShapes
    <3>2. order' = [order EXCEPT ![p.job] = order[p.job] + 1]
      BY <2>2
    <3>3. QED
      BY <3>1, <3>2
  <2>10. DeskShapes'
    BY <1>1, <1>2, <2>2, <2>9 DEF DeskShapes
  <2>11. QED
    BY <2>8, <2>10 DEF JobShapes
<1>16. ASSUME NEW j \in Job, NEW r \in OwnRow(j), WrittenBoth(j, r), patches' \subseteq patches,
              UNCHANGED <<row, open, fetch, sel, text, owner, order, outside, flagged>>,
              shown' \in [Job -> Nat], stale' = [i \in Job |-> stale'[i]]
       PROVE  JobShapes'
  <2>1. (\A i \in Job : Own(i) \subseteq Own(i)') /\ (\E k \in Nat : UsedTo(k)')
    BY <1>2, <1>16
  <2>2. /\ list' = [i \in DOMAIN list' |-> list'[i]] /\ DOMAIN list' \subseteq Job
        /\ \A i \in DOMAIN list' : list'[i] \in OwnRow(i)'
        /\ detail' = [i \in Job |-> detail'[i]]
        /\ \A i \in Job : detail'[i] \in OwnRow(i)' \cup {Absent}
        /\ \A i \in Job : detail'[i] = Absent <=> detail[i] = Absent
    BY <1>1, <1>3, <1>16, <2>1, WrittenTyped
  <2>3. OwnShapes'
    BY <1>1, <1>3, <1>16, <2>1, <2>2 DEF OwnShapes
  <2>4. DeskShapes'
    BY <1>1, <1>16, <2>1 DEF DeskShapes
  <2>5. QED
    BY <2>3, <2>4 DEF JobShapes
<1>17. ASSUME NEW p \in patches, Stored(p) PROVE JobShapes'
  <2>1. p.job \in Job /\ p \in OwnPatch(p.job)
    BY <1>1 DEF OwnShapes
  <2>2. p.answer \in OwnRow(p.job) /\ p.at \in Nat
    <3>1. p.at # 0
      BY <1>17 DEF Stored
    <3>2. QED
      BY <1>1, <2>1, <3>1 DEF OwnPatch, OwnShapes
  <2>3. /\ WrittenBoth(p.job, p.answer) /\ patches' \subseteq patches
        /\ shown' = [shown EXCEPT ![p.job] = p.at] /\ stale' = [stale EXCEPT ![p.job] = CauseAfter(p.job, p.at)]
        /\ UNCHANGED <<row, open, fetch, sel, text, owner, order, outside, flagged>>
    BY <1>17 DEF Stored
  <2>4. shown' \in [Job -> Nat] /\ stale' = [i \in Job |-> stale'[i]]
    BY <1>1, <2>1, <2>2, <2>3 DEF DeskShapes
  <2>5. QED
    BY <1>16, <2>1, <2>2, <2>3, <2>4
<1>18. ASSUME NEW p \in patches, PatchFails(p) PROVE JobShapes'
  <2>1. p.job \in Job /\ p \in OwnPatch(p.job)
    BY <1>1 DEF OwnShapes
  <2>2. RolledBack(p) \in OwnRow(p.job)
    <3>1. Tracking(p.job) \in OwnRow(p.job)
      BY <1>1, <2>1, TrackingTyped
    <3>2. QED
      BY <2>1, <3>1 DEF RolledBack, OwnPatch, OwnRow
  <2>3. stale' = [i \in Job |-> stale'[i]]
    BY <1>1, <1>18 DEF PatchFails, DeskShapes
  <2>4. QED
    BY <1>1, <1>16, <1>18, <2>1, <2>2, <2>3 DEF PatchFails, DeskShapes
<1>19. ASSUME NEW j \in Job, NEW field \in Field, EditElsewhere(j, field) PROVE JobShapes'
  <2>1. PICK k \in Nat : UsedTo(k)
    BY <1>1 DEF DeskShapes
  <2>2. /\ outside < MaxOutside /\ outside' = outside + 1 /\ owner' = [owner EXCEPT ![New] = j]
        /\ row' = [row EXCEPT ![j] = [row[j] EXCEPT ![field] = New]]
        /\ order' = [order EXCEPT ![j] = @ + 1] /\ flagged' = flagged \cup {<<j, field>>}
        /\ patches' = Contested(Rivals(j, field)) /\ stale' = [stale EXCEPT ![j] = @ \cup {"outside"}]
        /\ UNCHANGED <<open, list, detail, fetch, sel, text, shown>>
    BY <1>19 DEF EditElsewhere
  <2>3. /\ outside \in Nat /\ MaxTyped \in Nat /\ MaxOutside \in Nat /\ k <= MaxTyped + outside /\ New = k + 1
    BY <1>1, <2>1, NewIsNext, JobDeskAssumption DEF DeskShapes, UsedTo
  <2>4. outside' \in 0 .. MaxOutside /\ outside <= outside'
    BY <2>2, <2>3
  <2>5. New \in Value /\ New <= MaxTyped + outside'
    BY <2>2, <2>3 DEF Value
  <2>6. /\ \A i \in Job : Own(i) \subseteq Own(i)'
        /\ New \in Own(j)'
        /\ owner' \in [Value \cup {MaxTyped + MaxOutside + 1} -> Job \cup {Absent}]
        /\ \E m \in Nat : UsedTo(m)'
    BY <1>1, <2>2, <2>4, <2>5, ChosenGrows DEF Chosen
  <2>7. \A i \in Job : OwnRow(i) \subseteq OwnRow(i)' /\ OwnAnswer(i) \subseteq OwnAnswer(i)' /\ OwnPatch(i) \subseteq OwnPatch(i)'
    BY <1>3, <2>6
  <2>8. row[j] \in OwnRow(j)' /\ row[j] \in Row
    BY <1>1, <2>7 DEF OwnShapes
  <2>9. [row[j] EXCEPT ![field] = New] \in OwnRow(j)' /\ [row[j] EXCEPT ![field] = New] \in Row
    BY <2>5, <2>6, <2>8 DEF OwnRow, Row
  <2>10. row' \in [Job -> Row] /\ \A i \in Job : row'[i] \in OwnRow(i)'
    BY <1>1, <2>2, <2>7, <2>9 DEF OwnShapes
  <2>11. \A p \in patches' : p.job \in Job /\ p \in OwnPatch(p.job)' /\ (p.at = 0 \/ p.answer # Absent)
    <3>1. Rivals(j, field) \subseteq patches
      BY DEF Rivals
    <3>2. QED
      BY <1>1, <2>2, <2>7, <3>1, ContestedTyped
  <2>12. OwnShapes'
    <3>1. UNCHANGED <<list, detail, fetch, sel, text>>
      BY <2>2
    <3>2. \A i \in Job : Own(i) \subseteq Own(i)'
      BY <2>6
    <3>3. QED
      BY <1>1, <2>7, <2>10, <2>11, <3>1, <3>2 DEF OwnShapes
  <2>13. order' \in [Job -> Nat] /\ stale' = [i \in Job |-> stale'[i]] /\ flagged' \subseteq Job \X Field
    <3>1. order \in [Job -> Nat] /\ order[j] + 1 \in Nat
      BY <1>1 DEF DeskShapes
    <3>2. order' = [order EXCEPT ![j] = order[j] + 1] /\ flagged' = flagged \cup {<<j, field>>}
          /\ stale' = [stale EXCEPT ![j] = stale[j] \cup {"outside"}]
      BY <2>2
    <3>3. stale' = [i \in Job |-> stale'[i]]
      BY <1>1, <3>2 DEF DeskShapes
    <3>6. flagged' \subseteq Job \X Field
      <4>1. flagged \subseteq Job \X Field
        BY <1>1 DEF DeskShapes
      <4>2. <<j, field>> \in Job \X Field
        OBVIOUS
      <4>3. QED
        BY <2>2, <4>1, <4>2
    <3>4. order' \in [Job -> Nat]
      BY <3>1, <3>2
    <3>5. QED
      BY <3>3, <3>4, <3>6
  <2>14. DeskShapes'
    BY <1>1, <2>2, <2>4, <2>6, <2>13 DEF DeskShapes
  <2>15. QED
    BY <2>12, <2>14 DEF JobShapes
<1>20. ASSUME NEW j \in Job, Archive(j) PROVE JobShapes'
  <2>1. /\ outside < MaxOutside /\ outside' = outside + 1 /\ open' = open \ {j}
        /\ UNCHANGED <<row, list, detail, fetch, sel, text, patches, owner, order, shown, flagged, stale>>
    BY <1>20 DEF Archive
  <2>2. outside' \in 0 .. MaxOutside /\ outside <= outside'
    BY <1>1, <2>1, JobDeskAssumption DEF DeskShapes
  <2>3. (\A i \in Job : Own(i) \subseteq Own(i)') /\ (\E k \in Nat : UsedTo(k)')
    BY <1>1, <2>1, <2>2, OwnerKept
  <2>4. OwnShapes'
    BY <1>1, <1>3, <2>1, <2>3 DEF OwnShapes
  <2>5. DeskShapes'
    BY <1>1, <2>1, <2>2, <2>3 DEF DeskShapes
  <2>6. QED
    BY <2>4, <2>5 DEF JobShapes
<1>21. QED
  BY <1>4, <1>5, <1>6, <1>10, <1>11, <1>12, <1>13, <1>14, <1>15, <1>17, <1>18, <1>19, <1>20 DEF JobsNext

----------------------------------------------------------------------------
(* Writes are numbered; an answer that carries the last one is what is      *)
(* stored.                                                                  *)
Versions ==
  /\ \A j \in Job : shown[j] <= order[j]
  /\ \A j \in Job : fetch[j] # Absent =>
       fetch[j].order <= order[j] /\ (fetch[j].order = order[j] => fetch[j].row = row[j])
  /\ \A p \in patches : p.at <= order[p.job] /\ (p.at = order[p.job] /\ p.at # 0 => p.answer = row[p.job])

(* Unless there is a cause, the last write of a job is shown, or its answer *)
(* is on its way.                                                           *)
LastComes ==
  \A j \in Job : stale[j] = {} => shown[j] = order[j] \/ \E p \in patches : p.job = j /\ p.at # 0 /\ p.at = order[j]

(* A patch without a rival is alone on its field, and would put back what   *)
(* is stored.                                                               *)
AloneKeeps ==
  \A p \in patches : ~p.rival =>
    Rivals(p.job, p.field) = {p} /\ (p.at = 0 => p.base[p.field] = row[p.job][p.field])

(* Once the last write is shown, so is every field that no patch is for. *)
FieldsShown ==
  \A j \in Job : detail[j] # Absent /\ stale[j] = {} /\ shown[j] = order[j] =>
    \A f \in Field : detail[j][f] = row[j][f] \/ Rivals(j, f) # {}

ShownInv == Versions /\ LastComes /\ AloneKeeps /\ FieldsShown

(* What a patch or the panel would write is no earlier than what is stored  *)
(* or on its way.                                                           *)
ForwardInv ==
  /\ \A p \in patches : <<p.job, p.field>> \notin flagged =>
       Rivals(p.job, p.field) = {p} /\ p.value >= row[p.job][p.field]
  /\ text # Absent /\ <<sel, "notes">> \notin flagged =>
       text >= row[sel]["notes"] /\ \A p \in Rivals(sel, "notes") : text >= p.value

LEMMA PatchTyped ==
  ASSUME OwnShapes, NEW p \in patches
  PROVE  p.job \in Job /\ p.field \in Field /\ p.value \in Nat /\ p.at \in Nat /\ p \in OwnPatch(p.job)
BY OwnTyped, ValueTyped DEF OwnShapes, OwnPatch

(* What becomes of the patches when those of a field are contested: only    *)
(* their marks change.                                                     *)
LEMMA ContestedPatches ==
  ASSUME OwnShapes, NEW j, NEW field
  PROVE  LET all == Contested(Rivals(j, field))
         IN  /\ \A q \in all : \E p \in patches :
                  /\ q.job = p.job /\ q.field = p.field /\ q.value = p.value /\ q.at = p.at /\ q.answer = p.answer
                  /\ (q.job = j /\ q.field = field) \/ q = p
             /\ \A q \in all : ~q.rival => q \in patches /\ ~(q.job = j /\ q.field = field)
             /\ \A p \in patches : \E q \in all : q.job = p.job /\ q.field = p.field /\ q.at = p.at
<1> DEFINE all == Contested(Rivals(j, field))
           mark(p) == [p EXCEPT !.rival = TRUE]
<1>1. ASSUME NEW p \in patches
      PROVE  /\ mark(p).job = p.job /\ mark(p).field = p.field /\ mark(p).value = p.value /\ mark(p).at = p.at
             /\ mark(p).answer = p.answer /\ mark(p).rival
  BY PatchTyped DEF OwnPatch
<1> HIDE DEF mark
<1>2. all = (patches \ Rivals(j, field)) \cup {mark(p) : p \in Rivals(j, field)}
  BY DEF Contested, mark
<1>3. \A p \in patches : p \in Rivals(j, field) <=> p.job = j /\ p.field = field
  BY DEF Rivals
<1>4. Rivals(j, field) \subseteq patches
  BY DEF Rivals
<1> HIDE DEF all
<1>5. \A q \in all : \/ q \in patches /\ ~(q.job = j /\ q.field = field)
                     \/ \E p \in Rivals(j, field) : q = mark(p)
  BY <1>2, <1>3
<1>6. \A q \in all : \E p \in patches :
        /\ q.job = p.job /\ q.field = p.field /\ q.value = p.value /\ q.at = p.at /\ q.answer = p.answer
        /\ (q.job = j /\ q.field = field) \/ q = p
  BY <1>1, <1>3, <1>4, <1>5
<1>7. \A q \in all : ~q.rival => q \in patches /\ ~(q.job = j /\ q.field = field)
  BY <1>1, <1>4, <1>5
<1>8. ASSUME NEW p \in patches PROVE \E q \in all : q.job = p.job /\ q.field = p.field /\ q.at = p.at
  <2>1. CASE p \in Rivals(j, field)
    <3>1. mark(p) \in all
      BY <1>2, <2>1
    <3>2. QED
      BY <1>1, <3>1
  <2>2. CASE p \notin Rivals(j, field)
    BY <1>2, <2>2
  <2>3. QED
    BY <2>1, <2>2
<1>9. QED
  BY <1>6, <1>7, <1>8 DEF all

LEMMA NumbersTyped ==
  ASSUME JobShapes
  PROVE  \A j \in Job : /\ order[j] \in Nat /\ shown[j] \in Nat
                        /\ fetch[j] # Absent => fetch[j].order \in Nat
BY DEF JobShapes, OwnShapes, DeskShapes, OwnAnswer

(* A patch that is sent. *)
LEMMA MutatedShown ==
  ASSUME JobShapes, ShownInv, NEW j \in Job, NEW field \in Field, NEW value, NEW late,
         Mutated(j, field, value, late), UNCHANGED <<row, order, shown, stale>>
  PROVE  ShownInv'
<1>1. OwnShapes
  BY DEF JobShapes
<1> DEFINE base == Tracking(j)
           rivals == Rivals(j, field)
           all == Contested(rivals)
           new == [job |-> j, field |-> field, value |-> value, base |-> base, at |-> 0, answer |-> Absent,
                   rival |-> rivals # {} \/ base[field] # row[j][field]]
<1>2. PICK patch : patch = new
  OBVIOUS
<1>3. /\ patches' = {patch} \cup all /\ fetch' = [fetch EXCEPT ![j] = Absent]
      /\ WrittenBoth(j, [base EXCEPT ![field] = value])
  BY <1>2 DEF Mutated
<1>4. patch.job = j /\ patch.field = field /\ patch.at = 0 /\ patch.base = base
  BY <1>2
<1>5. ~patch.rival => rivals = {} /\ base[field] = row[j][field]
  BY <1>2
<1>6. /\ \A q \in all : \E p \in patches :
           /\ q.job = p.job /\ q.field = p.field /\ q.value = p.value /\ q.at = p.at /\ q.answer = p.answer
           /\ (q.job = j /\ q.field = field) \/ q = p
      /\ \A q \in all : ~q.rival => q \in patches /\ ~(q.job = j /\ q.field = field)
      /\ \A p \in patches : \E q \in all : q.job = p.job /\ q.field = p.field /\ q.at = p.at
  BY <1>1, ContestedPatches
<1> HIDE DEF all, base, rivals, new
<1>7. Versions'
  <2>1. \A i \in Job : fetch'[i] # Absent => fetch'[i] = fetch[i]
    BY <1>1, <1>3 DEF OwnShapes
  <2>2. ASSUME NEW q \in patches' PROVE q.at <= order[q.job] /\ (q.at = order[q.job] /\ q.at # 0 => q.answer = row[q.job])
    <3>1. CASE q = patch
      BY <1>4, <3>1, NumbersTyped
    <3>2. CASE q \in all
      <4>1. PICK p \in patches : q.job = p.job /\ q.at = p.at /\ q.answer = p.answer
        BY <1>6, <3>2
      <4>2. QED
        BY <4>1 DEF ShownInv, Versions
    <3>3. QED
      BY <1>3, <3>1, <3>2
  <2>3. QED
    BY <2>1, <2>2 DEF ShownInv, Versions
<1>8. LastComes'
  BY <1>3, <1>6 DEF ShownInv, LastComes
<1>9. AloneKeeps'
  <2>1. ASSUME NEW q \in patches', ~q.rival
        PROVE  Rivals(q.job, q.field)' = {q} /\ (q.at = 0 => q.base[q.field] = row[q.job][q.field])
    <3>1. CASE q = patch
      <4>1. rivals = {} /\ base[field] = row[j][field]
        BY <1>5, <2>1, <3>1
      <4>2. ASSUME NEW r \in patches', r.job = j, r.field = field PROVE r = patch
        <5>1. CASE r \in all
          <6>1. PICK p \in patches : r.job = p.job /\ r.field = p.field
            BY <1>6, <5>1
          <6>2. p \in rivals
            BY <4>2, <6>1 DEF rivals, Rivals
          <6>3. QED
            BY <4>1, <6>2
        <5>2. QED
          BY <1>3, <5>1
      <4>3. QED
        BY <1>3, <1>4, <3>1, <4>1, <4>2 DEF Rivals
    <3>2. CASE q \in all
      <4>1. q \in patches /\ ~(q.job = j /\ q.field = field)
        BY <1>6, <2>1, <3>2
      <4>2. Rivals(q.job, q.field) = {q} /\ (q.at = 0 => q.base[q.field] = row[q.job][q.field])
        BY <2>1, <4>1 DEF ShownInv, AloneKeeps
      <4>3. ASSUME NEW r \in patches', r.job = q.job, r.field = q.field PROVE r = q
        <5>1. r \in all
          BY <1>3, <1>4, <4>1, <4>3
        <5>2. PICK p \in patches : r.job = p.job /\ r.field = p.field /\ ((r.job = j /\ r.field = field) \/ r = p)
          BY <1>6, <5>1
        <5>3. p = q
          BY <4>2, <4>3, <5>2 DEF Rivals
        <5>4. QED
          BY <4>1, <4>3, <5>2, <5>3
      <4>4. QED
        BY <1>3, <3>2, <4>2, <4>3 DEF Rivals
    <3>3. QED
      BY <1>3, <3>1, <3>2
  <2>2. QED
    BY <2>1 DEF AloneKeeps
<1>10. FieldsShown'
  <2>1. \A i \in Job, f \in Field : Rivals(i, f) # {} => Rivals(i, f)' # {}
    BY <1>3, <1>6 DEF Rivals
  <2>2. Rivals(j, field)' # {}
    BY <1>3, <1>4 DEF Rivals
  <2>3. ASSUME NEW i \in Job, NEW f \in Field, detail'[i] # Absent
        PROVE  detail[i] # Absent /\ ((i = j /\ f = field) \/ detail'[i][f] = detail[i][f])
    <3>1. /\ detail[i] \in OwnRow(i) \cup {Absent} /\ detail = [k \in Job |-> detail[k]]
          /\ detail' = IF detail[j] = Absent THEN detail ELSE [detail EXCEPT ![j] = [base EXCEPT ![field] = value]]
      BY <1>1, <1>3 DEF OwnShapes, WrittenBoth
    <3>2. CASE i # j \/ detail[j] = Absent
      BY <2>3, <3>1, <3>2
    <3>3. CASE i = j /\ detail[j] # Absent
      <4>1. base = detail[j]
        BY <3>3 DEF base, Tracking
      <4>2. detail'[j] = [detail[j] EXCEPT ![field] = value]
        BY <3>1, <3>3, <4>1
      <4>3. QED
        BY <3>1, <3>3, <4>2 DEF OwnRow
    <3>4. QED
      BY <3>2, <3>3
  <2>4. QED
    BY <2>1, <2>2, <2>3 DEF ShownInv, FieldsShown
<1>11. QED
  BY <1>7, <1>8, <1>9, <1>10 DEF ShownInv

(* What leaves rows, writes, details and patches alone. *)
LEMMA SameShown == ASSUME ShownInv, UNCHANGED <<row, order, shown, stale, patches, fetch, detail>> PROVE ShownInv'
BY DEF ShownInv, Versions, LastComes, AloneKeeps, FieldsShown, Rivals

LEMMA AskedShown == ASSUME JobShapes, ShownInv, AskDetail PROVE ShownInv'
<1>1. /\ sel \in Job /\ fetch' = [fetch EXCEPT ![sel] = [row |-> row[sel], order |-> order[sel]]]
      /\ UNCHANGED <<row, order, shown, stale, patches, detail>>
  BY DEF AskDetail, JobShapes, DeskShapes
<1>2. \A i \in Job : fetch'[i] = IF i = sel THEN [row |-> row[sel], order |-> order[sel]] ELSE fetch[i]
  BY <1>1 DEF JobShapes, OwnShapes
<1>3. Versions'
  BY <1>1, <1>2, NumbersTyped DEF ShownInv, Versions
<1>4. QED
  BY <1>1, <1>3 DEF ShownInv, LastComes, AloneKeeps, FieldsShown, Rivals

LEMMA AnsweredShown == ASSUME JobShapes, ShownInv, NEW j \in Job, DetailAnswered(j) PROVE ShownInv'
<1>1. PICK a \in OwnAnswer(j) : a = fetch[j]
  BY DEF DetailAnswered, JobShapes, OwnShapes
<1>2. /\ detail' = [detail EXCEPT ![j] = a.row] /\ fetch' = [fetch EXCEPT ![j] = Absent]
      /\ shown' = [shown EXCEPT ![j] = a.order] /\ stale' = [stale EXCEPT ![j] = CauseAfter(j, a.order)]
      /\ UNCHANGED <<row, patches, order>>
  BY <1>1 DEF DetailAnswered
<1>3. fetch[j] # Absent /\ a.order \in Nat /\ order[j] \in Nat /\ shown[j] \in Nat
  BY <1>1, NumbersTyped, OwnTyped DEF DetailAnswered, OwnAnswer
<1>4. a.order <= order[j] /\ (a.order = order[j] => a.row = row[j])
  BY <1>1, <1>3 DEF ShownInv, Versions
<1>5. /\ \A i \in Job : detail'[i] = IF i = j THEN a.row ELSE detail[i]
      /\ \A i \in Job : fetch'[i] = IF i = j THEN Absent ELSE fetch[i]
      /\ \A i \in Job : shown'[i] = IF i = j THEN a.order ELSE shown[i]
      /\ \A i \in Job : stale'[i] = IF i = j THEN CauseAfter(j, a.order) ELSE stale[i]
  BY <1>2 DEF JobShapes, OwnShapes, DeskShapes
<1>6. Versions'
  BY <1>2, <1>4, <1>5 DEF ShownInv, Versions
<1>7. LastComes'
  <2>1. ASSUME stale'[j] = {}, shown'[j] # order[j]
        PROVE  \E p \in patches : p.job = j /\ p.at # 0 /\ p.at = order[j]
    <3>1. a.order # order[j]
      BY <1>5, <2>1
    <3>2. ~(a.order < shown[j]) /\ stale[j] = {}
      BY <1>5, <2>1, <3>1 DEF CauseAfter
    <3>3. shown[j] # order[j]
      BY <1>3, <1>4, <3>1, <3>2
    <3>4. QED
      BY <3>2, <3>3 DEF ShownInv, LastComes
  <2>2. QED
    BY <1>2, <1>5, <2>1 DEF ShownInv, LastComes
<1>8. AloneKeeps'
  BY <1>2 DEF ShownInv, AloneKeeps, Rivals
<1>9. FieldsShown'
  BY <1>2, <1>4, <1>5 DEF ShownInv, FieldsShown, Rivals
<1>10. QED
  BY <1>6, <1>7, <1>8, <1>9 DEF ShownInv

(* A stored patch carries the last write; nothing shows it yet. *)
LEMMA StoreChanges ==
  ASSUME JobShapes, NEW p \in patches, Store(p)
  PROVE  \E q : /\ patches' = (patches \ {p}) \cup {q}
                /\ q.job = p.job /\ q.field = p.field /\ q.value = p.value /\ q.rival = p.rival
                /\ q.at = order[p.job] + 1 /\ q.answer = row'[p.job]
                /\ \A i \in Job, f \in Field : row'[i][f] = IF i = p.job /\ f = p.field THEN p.value ELSE row[i][f]
                /\ \A i \in Job : i # p.job => row'[i] = row[i]
                /\ \A i \in Job : order'[i] = IF i = p.job THEN order[i] + 1 ELSE order[i]
<1>1. p \in OwnPatch(p.job) /\ p.job \in Job /\ row \in [Job -> Row] /\ order \in [Job -> Nat] /\ p.field \in Field
  BY PatchTyped DEF JobShapes, OwnShapes, DeskShapes
<1>2. PICK q : q = [p EXCEPT !.at = order[p.job] + 1, !.answer = row'[p.job]]
  OBVIOUS
<1>3. q.job = p.job /\ q.field = p.field /\ q.value = p.value /\ q.rival = p.rival /\ q.at = order[p.job] + 1 /\ q.answer = row'[p.job]
  BY <1>1, <1>2 DEF OwnPatch
<1>4. /\ row' = [row EXCEPT ![p.job] = [row[p.job] EXCEPT ![p.field] = p.value]]
      /\ order' = [order EXCEPT ![p.job] = order[p.job] + 1] /\ patches' = (patches \ {p}) \cup {q}
  BY <1>2 DEF Store, Merged
<1>5. \A i \in Job, f \in Field : row'[i][f] = IF i = p.job /\ f = p.field THEN p.value ELSE row[i][f]
  BY <1>1, <1>4 DEF Row
<1>6. (\A i \in Job : i # p.job => row'[i] = row[i]) /\ \A i \in Job : order'[i] = IF i = p.job THEN order[i] + 1 ELSE order[i]
  BY <1>1, <1>4
<1>7. QED
  BY <1>3, <1>4, <1>5, <1>6

LEMMA StoreShown == ASSUME JobShapes, ShownInv, NEW p \in patches, Store(p) PROVE ShownInv'
<1>1. PICK q :
        /\ patches' = (patches \ {p}) \cup {q}
        /\ q.job = p.job /\ q.field = p.field /\ q.value = p.value /\ q.rival = p.rival
        /\ q.at = order[p.job] + 1 /\ q.answer = row'[p.job]
        /\ \A i \in Job, f \in Field : row'[i][f] = IF i = p.job /\ f = p.field THEN p.value ELSE row[i][f]
        /\ \A i \in Job : i # p.job => row'[i] = row[i]
        /\ \A i \in Job : order'[i] = IF i = p.job THEN order[i] + 1 ELSE order[i]
  BY StoreChanges
<1>2. UNCHANGED <<detail, fetch, shown, stale>> /\ OwnShapes
  BY DEF Store, JobShapes
<1>3. \A r \in patches : r.job \in Job /\ r.field \in Field /\ r.at \in Nat
  BY <1>2, PatchTyped
<1>4. /\ \A i \in Job : order[i] \in Nat /\ shown[i] \in Nat
      /\ \A i \in Job : fetch[i] # Absent => fetch[i].order \in Nat
  BY NumbersTyped
<1>5. Versions'
  <2>1. \A i \in Job : shown[i] <= order'[i]
    BY <1>1, <1>4 DEF ShownInv, Versions
  <2>2. \A i \in Job : fetch[i] # Absent => fetch[i].order <= order'[i] /\ (fetch[i].order = order'[i] => fetch[i].row = row'[i])
    <3>1. TAKE i \in Job
    <3>2. HAVE fetch[i] # Absent
    <3>3. fetch[i].order \in Nat /\ order[i] \in Nat /\ fetch[i].order <= order[i] /\ (fetch[i].order = order[i] => fetch[i].row = row[i])
      BY <1>4, <3>2 DEF ShownInv, Versions
    <3>4. CASE i = p.job
      BY <1>1, <3>3, <3>4
    <3>5. CASE i # p.job
      BY <1>1, <3>3, <3>5
    <3>6. QED
      BY <3>4, <3>5
  <2>3. ASSUME NEW r \in patches' PROVE r.at <= order'[r.job] /\ (r.at = order'[r.job] /\ r.at # 0 => r.answer = row'[r.job])
    <3>1. CASE r = q
      BY <1>1, <1>3, <1>4, <3>1
    <3>2. CASE r \in patches
      <4>1. r.at \in Nat /\ r.job \in Job /\ order[r.job] \in Nat /\ r.at <= order[r.job] /\ (r.at = order[r.job] /\ r.at # 0 => r.answer = row[r.job])
        BY <1>3, <1>4, <3>2 DEF ShownInv, Versions
      <4>2. CASE r.job = p.job
        BY <1>1, <4>1, <4>2
      <4>3. CASE r.job # p.job
        BY <1>1, <4>1, <4>3
      <4>4. QED
        BY <4>2, <4>3
    <3>3. QED
      BY <1>1, <3>1, <3>2
  <2>4. QED
    BY <1>2, <2>1, <2>2, <2>3 DEF Versions
<1>6. LastComes'
  <2>1. ASSUME NEW i \in Job, stale[i] = {}
        PROVE  shown[i] = order'[i] \/ \E r \in patches' : r.job = i /\ r.at # 0 /\ r.at = order'[i]
    <3>1. CASE i = p.job
      <4>1. q \in patches' /\ q.at = order'[i] /\ q.at # 0
        BY <1>1, <1>4, <3>1
      <4>2. QED
        BY <1>1, <3>1, <4>1
    <3>2. CASE i # p.job
      BY <1>1, <2>1, <3>2 DEF ShownInv, LastComes
    <3>3. QED
      BY <3>1, <3>2
  <2>2. QED
    BY <1>2, <2>1 DEF LastComes
<1>7. AloneKeeps'
  <2>1. ASSUME NEW r \in patches', ~r.rival
        PROVE  Rivals(r.job, r.field)' = {r} /\ (r.at = 0 => r.base[r.field] = row'[r.job][r.field])
    <3>1. CASE r = q
      <4>1. Rivals(p.job, p.field) = {p}
        BY <1>1, <2>1, <3>1 DEF ShownInv, AloneKeeps
      <4>2. Rivals(q.job, q.field)' = {q}
        BY <1>1, <4>1 DEF Rivals
      <4>3. r.at # 0
        BY <1>1, <1>3, <1>4, <3>1
      <4>4. QED
        BY <3>1, <4>2, <4>3
    <3>2. CASE r \in patches /\ r # p
      <4>1. Rivals(r.job, r.field) = {r} /\ (r.at = 0 => r.base[r.field] = row[r.job][r.field])
        BY <2>1, <3>2 DEF ShownInv, AloneKeeps
      <4>2. ~(r.job = p.job /\ r.field = p.field)
        BY <3>2, <4>1 DEF Rivals
      <4>3. Rivals(r.job, r.field)' = {r}
        BY <1>1, <3>2, <4>1, <4>2 DEF Rivals
      <4>4. QED
        BY <1>1, <1>3, <3>2, <4>1, <4>2, <4>3
    <3>3. QED
      BY <1>1, <3>1, <3>2
  <2>2. QED
    BY <2>1 DEF AloneKeeps
<1>8. FieldsShown'
  <2>1. ASSUME NEW i \in Job, NEW f \in Field, detail[i] # Absent, stale[i] = {}, shown[i] = order'[i]
        PROVE  detail[i][f] = row'[i][f] \/ Rivals(i, f)' # {}
    <3>1. i # p.job
      BY <1>1, <1>4, <2>1 DEF ShownInv, Versions
    <3>2. Rivals(i, f)' = Rivals(i, f)
      BY <1>1, <3>1 DEF Rivals
    <3>3. QED
      BY <1>1, <2>1, <3>1, <3>2 DEF ShownInv, FieldsShown
  <2>2. QED
    BY <1>2, <2>1 DEF FieldsShown
<1>9. QED
  BY <1>5, <1>6, <1>7, <1>8 DEF ShownInv

LEMMA StoredShown == ASSUME JobShapes, ShownInv, NEW p \in patches, Stored(p) PROVE ShownInv'
<1>1. p.job \in Job /\ p.at \in Nat /\ p.answer \in OwnRow(p.job)
  BY PatchTyped DEF JobShapes, OwnShapes, OwnPatch, Stored
<1>2. /\ patches' = patches \ {p} /\ WrittenBoth(p.job, p.answer) /\ shown' = [shown EXCEPT ![p.job] = p.at]
      /\ stale' = [stale EXCEPT ![p.job] = CauseAfter(p.job, p.at)] /\ UNCHANGED <<row, order, fetch>> /\ p.at # 0
  BY <1>1 DEF Stored
<1>3. p.at <= order[p.job] /\ (p.at = order[p.job] => p.answer = row[p.job])
  BY <1>2 DEF ShownInv, Versions
<1>4. /\ \A i \in Job : detail'[i] = IF i = p.job /\ detail[i] # Absent THEN p.answer ELSE detail[i]
      /\ \A i \in Job : shown'[i] = IF i = p.job THEN p.at ELSE shown[i]
      /\ \A i \in Job : stale'[i] = IF i = p.job THEN CauseAfter(p.job, p.at) ELSE stale[i]
  <2>1. detail = [i \in Job |-> detail[i]] /\ shown \in [Job -> Nat] /\ stale = [i \in Job |-> stale[i]]
    BY DEF JobShapes, OwnShapes, DeskShapes
  <2>2. detail' = IF detail[p.job] = Absent THEN detail ELSE [detail EXCEPT ![p.job] = p.answer]
    BY <1>2 DEF WrittenBoth
  <2>3. QED
    BY <1>2, <2>1, <2>2
<1>5. order[p.job] \in Nat /\ shown[p.job] \in Nat
  BY <1>1, NumbersTyped
<1>6. Versions'
  BY <1>2, <1>3, <1>4 DEF ShownInv, Versions
<1>7. LastComes'
  <2>1. ASSUME stale'[p.job] = {}, shown'[p.job] # order[p.job]
        PROVE  \E r \in patches' : r.job = p.job /\ r.at # 0 /\ r.at = order[p.job]
    <3>1. p.at # order[p.job] /\ ~(p.at < shown[p.job]) /\ stale[p.job] = {}
      BY <1>1, <1>4, <2>1 DEF CauseAfter
    <3>2. shown[p.job] # order[p.job]
      BY <1>1, <1>3, <1>5, <3>1
    <3>3. PICK r \in patches : r.job = p.job /\ r.at # 0 /\ r.at = order[p.job]
      BY <1>1, <3>1, <3>2 DEF ShownInv, LastComes
    <3>4. r # p
      BY <3>1, <3>3
    <3>5. QED
      BY <1>2, <3>3, <3>4
  <2>2. ASSUME NEW i \in Job, i # p.job, stale[i] = {}, shown[i] # order[i]
        PROVE  \E r \in patches' : r.job = i /\ r.at # 0 /\ r.at = order[i]
    BY <1>2, <2>2 DEF ShownInv, LastComes
  <2>3. ASSUME NEW i \in Job, stale'[i] = {}, shown'[i] # order[i]
        PROVE  \E r \in patches' : r.job = i /\ r.at # 0 /\ r.at = order[i]
    <3>1. CASE i = p.job
      BY <2>1, <2>3, <3>1
    <3>2. CASE i # p.job
      BY <1>4, <2>2, <2>3, <3>2
    <3>3. QED
      BY <3>1, <3>2
  <2>4. QED
    BY <1>2, <2>3 DEF LastComes
<1>8. AloneKeeps'
  BY <1>2 DEF ShownInv, AloneKeeps, Rivals
<1>9. FieldsShown'
  <2>1. ASSUME NEW i \in Job, NEW f \in Field, detail'[i] # Absent, stale'[i] = {}, shown'[i] = order[i]
        PROVE  detail'[i][f] = row[i][f] \/ Rivals(i, f)' # {}
    <3>1. CASE i = p.job
      <4>1. p.at = order[i] /\ p.answer = row[i] /\ detail'[i] = p.answer
        BY <1>3, <1>4, <2>1, <3>1
      <4>2. QED
        BY <4>1
    <3>2. CASE i # p.job
      <4>1. Rivals(i, f)' = Rivals(i, f)
        BY <1>2, <3>2 DEF Rivals
      <4>2. QED
        BY <1>4, <2>1, <3>2, <4>1 DEF ShownInv, FieldsShown
    <3>3. QED
      BY <3>1, <3>2
  <2>2. QED
    BY <1>2, <2>1 DEF FieldsShown
<1>10. QED
  BY <1>6, <1>7, <1>8, <1>9 DEF ShownInv

(* A patch that was neither stored nor contested puts back what is stored. *)
LEMMA FailsShown == ASSUME JobShapes, ShownInv, NEW p \in patches, PatchFails(p) PROVE ShownInv'
<1>1. p.job \in Job /\ p.at \in Nat /\ p.field \in Field /\ p \in OwnPatch(p.job)
  BY PatchTyped DEF JobShapes
<1>2. /\ patches' = patches \ {p} /\ WrittenBoth(p.job, RolledBack(p)) /\ UNCHANGED <<row, order, shown, fetch>>
      /\ stale' = [stale EXCEPT ![p.job] = stale[p.job] \cup (IF p.at > 0 THEN {"lost"} ELSE {}) \cup (IF p.rival THEN {"rival"} ELSE {})]
  BY DEF PatchFails
<1>3. \A i \in Job : stale'[i] = {} => stale[i] = {} /\ (i = p.job => p.at = 0 /\ ~p.rival)
  <2>1. stale = [i \in Job |-> stale[i]]
    BY DEF JobShapes, DeskShapes
  <2>2. \A i \in Job : stale'[i] = IF i = p.job THEN stale[p.job] \cup (IF p.at > 0 THEN {"lost"} ELSE {}) \cup (IF p.rival THEN {"rival"} ELSE {}) ELSE stale[i]
    BY <1>2, <2>1
  <2>3. stale'[p.job] = {} => stale[p.job] = {} /\ ~(p.at > 0) /\ ~p.rival
    BY <1>1, <2>2
  <2>4. QED
    BY <1>1, <2>2, <2>3
<1>4. \A i \in Job : detail'[i] = IF i = p.job /\ detail[i] # Absent THEN RolledBack(p) ELSE detail[i]
  <2>1. detail = [i \in Job |-> detail[i]]
    BY DEF JobShapes, OwnShapes
  <2>2. detail' = IF detail[p.job] = Absent THEN detail ELSE [detail EXCEPT ![p.job] = RolledBack(p)]
    BY <1>2 DEF WrittenBoth
  <2>3. QED
    BY <2>1, <2>2
<1>5. Versions'
  BY <1>2 DEF ShownInv, Versions
<1>6. LastComes'
  BY <1>2, <1>3 DEF ShownInv, LastComes
<1>7. AloneKeeps'
  BY <1>2 DEF ShownInv, AloneKeeps, Rivals
<1>8. FieldsShown'
  <2>1. ASSUME NEW i \in Job, NEW f \in Field, detail'[i] # Absent, stale'[i] = {}, shown[i] = order[i]
        PROVE  detail'[i][f] = row[i][f] \/ Rivals(i, f)' # {}
    <3>0. stale[i] = {} /\ (i = p.job => p.at = 0 /\ ~p.rival)
      BY <1>3, <2>1
    <3>1. CASE i = p.job /\ detail[i] # Absent
      <4>1. detail'[i] = [detail[i] EXCEPT ![p.field] = p.base[p.field]] /\ detail[i] \in OwnRow(i)
        BY <1>4, <3>1 DEF RolledBack, Tracking, JobShapes, OwnShapes
      <4>2. CASE f = p.field
        BY <1>1, <3>0, <3>1, <4>1, <4>2 DEF ShownInv, AloneKeeps, OwnRow
      <4>3. CASE f # p.field
        <5>1. Rivals(i, f)' = Rivals(i, f)
          BY <1>2, <4>3 DEF Rivals
        <5>2. detail'[i][f] = detail[i][f]
          BY <4>1, <4>3 DEF OwnRow
        <5>3. QED
          BY <2>1, <3>0, <3>1, <5>1, <5>2 DEF ShownInv, FieldsShown
      <4>4. QED
        BY <4>2, <4>3
    <3>2. CASE i # p.job
      <4>1. Rivals(i, f)' = Rivals(i, f)
        BY <1>2, <3>2 DEF Rivals
      <4>2. QED
        BY <1>4, <2>1, <3>0, <3>2, <4>1 DEF ShownInv, FieldsShown
    <3>3. CASE i = p.job /\ detail[i] = Absent
      BY <1>4, <2>1, <3>3
    <3>4. QED
      BY <3>1, <3>2, <3>3
  <2>2. QED
    BY <1>2, <2>1 DEF FieldsShown
<1>9. QED
  BY <1>5, <1>6, <1>7, <1>8 DEF ShownInv

(* What another window's edit does to the rows and the patches. *)
LEMMA ElsewhereChanges ==
  ASSUME JobShapes, NEW j \in Job, NEW field \in Field, EditElsewhere(j, field)
  PROVE  /\ \A i \in Job, f \in Field : row'[i][f] = IF i = j /\ f = field THEN New ELSE row[i][f]
         /\ \A i \in Job : i # j => row'[i] = row[i]
         /\ \A i \in Job : order'[i] = IF i = j THEN order[i] + 1 ELSE order[i]
         /\ \A q \in patches' : \E p \in patches :
              /\ q.job = p.job /\ q.field = p.field /\ q.value = p.value /\ q.at = p.at /\ q.answer = p.answer
              /\ (q.job = j /\ q.field = field) \/ q = p
         /\ \A q \in patches' : ~q.rival => q \in patches /\ ~(q.job = j /\ q.field = field)
         /\ \A p \in patches : \E q \in patches' : q.job = p.job /\ q.field = p.field /\ q.at = p.at
<1>1. OwnShapes /\ row \in [Job -> Row] /\ order \in [Job -> Nat]
  BY DEF JobShapes, OwnShapes, DeskShapes
<1>2. /\ row' = [row EXCEPT ![j] = [row[j] EXCEPT ![field] = New]] /\ order' = [order EXCEPT ![j] = order[j] + 1]
      /\ patches' = Contested(Rivals(j, field))
  BY DEF EditElsewhere
<1>3. PICK n : n = New
  OBVIOUS
<1>4. \A i \in Job, f \in Field : row'[i][f] = IF i = j /\ f = field THEN n ELSE row[i][f]
  BY <1>1, <1>2, <1>3 DEF Row
<1>5. (\A i \in Job : i # j => row'[i] = row[i]) /\ \A i \in Job : order'[i] = IF i = j THEN order[i] + 1 ELSE order[i]
  BY <1>1, <1>2
<1>6. /\ \A q \in patches' : \E p \in patches :
           /\ q.job = p.job /\ q.field = p.field /\ q.value = p.value /\ q.at = p.at /\ q.answer = p.answer
           /\ (q.job = j /\ q.field = field) \/ q = p
      /\ \A q \in patches' : ~q.rival => q \in patches /\ ~(q.job = j /\ q.field = field)
      /\ \A p \in patches : \E q \in patches' : q.job = p.job /\ q.field = p.field /\ q.at = p.at
  BY <1>1, <1>2, ContestedPatches
<1>7. QED
  BY <1>3, <1>4, <1>5, <1>6

LEMMA ElsewhereShown ==
  ASSUME JobShapes, ShownInv, NEW j \in Job, NEW field \in Field, EditElsewhere(j, field)
  PROVE  ShownInv'
<1>1. UNCHANGED <<detail, fetch, shown>> /\ OwnShapes
  BY DEF EditElsewhere, JobShapes
<1>2. stale'[j] # {} /\ \A i \in Job : i # j => stale'[i] = stale[i]
  <2>1. stale = [i \in Job |-> stale[i]] /\ stale' = [stale EXCEPT ![j] = stale[j] \cup {"outside"}]
    BY DEF EditElsewhere, JobShapes, DeskShapes
  <2>2. QED
    BY <2>1
<1>3. /\ \A i \in Job, f \in Field : row'[i][f] = IF i = j /\ f = field THEN New ELSE row[i][f]
      /\ \A i \in Job : i # j => row'[i] = row[i]
      /\ \A i \in Job : order'[i] = IF i = j THEN order[i] + 1 ELSE order[i]
  BY ElsewhereChanges
<1>4. \A q \in patches' : \E p \in patches :
        /\ q.job = p.job /\ q.field = p.field /\ q.value = p.value /\ q.at = p.at /\ q.answer = p.answer
        /\ (q.job = j /\ q.field = field) \/ q = p
  BY ElsewhereChanges
<1>5. /\ \A q \in patches' : ~q.rival => q \in patches /\ ~(q.job = j /\ q.field = field)
      /\ \A p \in patches : \E q \in patches' : q.job = p.job /\ q.field = p.field /\ q.at = p.at
  BY ElsewhereChanges
<1>6. /\ \A i \in Job : order[i] \in Nat /\ shown[i] \in Nat
      /\ \A i \in Job : fetch[i] # Absent => fetch[i].order \in Nat
      /\ \A p \in patches : p.job \in Job /\ p.at \in Nat
  BY <1>1, NumbersTyped, PatchTyped
<1>7. Versions'
  <2>1. \A i \in Job : shown[i] <= order'[i]
    BY <1>3, <1>6 DEF ShownInv, Versions
  <2>2. \A i \in Job : fetch[i] # Absent => fetch[i].order <= order'[i] /\ (fetch[i].order = order'[i] => fetch[i].row = row'[i])
    <3>1. TAKE i \in Job
    <3>2. HAVE fetch[i] # Absent
    <3>3. fetch[i].order \in Nat /\ order[i] \in Nat /\ fetch[i].order <= order[i] /\ (fetch[i].order = order[i] => fetch[i].row = row[i])
      BY <1>6, <3>2 DEF ShownInv, Versions
    <3>4. CASE i = j
      BY <1>3, <3>3, <3>4
    <3>5. CASE i # j
      BY <1>3, <3>3, <3>5
    <3>6. QED
      BY <3>4, <3>5
  <2>3. ASSUME NEW q \in patches' PROVE q.at <= order'[q.job] /\ (q.at = order'[q.job] /\ q.at # 0 => q.answer = row'[q.job])
    <3>1. PICK r \in patches : q.job = r.job /\ q.at = r.at /\ q.answer = r.answer
      BY <1>4
    <3>2. r.at \in Nat /\ r.job \in Job /\ order[r.job] \in Nat /\ r.at <= order[r.job] /\ (r.at = order[r.job] /\ r.at # 0 => r.answer = row[r.job])
      BY <1>6 DEF ShownInv, Versions
    <3>3. CASE r.job = j
      BY <1>3, <3>1, <3>2, <3>3
    <3>4. CASE r.job # j
      BY <1>3, <3>1, <3>2, <3>4
    <3>5. QED
      BY <3>3, <3>4
  <2>4. QED
    BY <1>1, <2>1, <2>2, <2>3 DEF Versions
<1>8. LastComes'
  <2>1. ASSUME NEW i \in Job, stale'[i] = {}, shown[i] # order'[i]
        PROVE  \E q \in patches' : q.job = i /\ q.at # 0 /\ q.at = order'[i]
    <3>1. i # j /\ stale[i] = {} /\ order'[i] = order[i]
      BY <1>2, <1>3, <2>1
    <3>2. PICK p \in patches : p.job = i /\ p.at # 0 /\ p.at = order[i]
      BY <2>1, <3>1 DEF ShownInv, LastComes
    <3>3. QED
      BY <1>5, <3>1, <3>2
  <2>2. QED
    BY <1>1, <2>1 DEF LastComes
<1>9. AloneKeeps'
  <2>1. ASSUME NEW q \in patches', ~q.rival
        PROVE  Rivals(q.job, q.field)' = {q} /\ (q.at = 0 => q.base[q.field] = row'[q.job][q.field])
    <3>1. q \in patches /\ ~(q.job = j /\ q.field = field)
      BY <1>5, <2>1
    <3>2. Rivals(q.job, q.field) = {q} /\ (q.at = 0 => q.base[q.field] = row[q.job][q.field])
      BY <2>1, <3>1 DEF ShownInv, AloneKeeps
    <3>3. ASSUME NEW r \in patches', r.job = q.job, r.field = q.field PROVE r = q
      <4>1. PICK p \in patches : r.job = p.job /\ r.field = p.field /\ ((r.job = j /\ r.field = field) \/ r = p)
        BY <1>4
      <4>2. p = q
        BY <3>2, <3>3, <4>1 DEF Rivals
      <4>3. QED
        BY <3>1, <3>3, <4>1, <4>2
    <3>4. Rivals(q.job, q.field)' = {q}
      BY <2>1, <3>3 DEF Rivals
    <3>5. q.job \in Job /\ q.field \in Field
      BY <1>1, <3>1, PatchTyped
    <3>6. row'[q.job][q.field] = row[q.job][q.field]
      BY <1>3, <3>1, <3>5
    <3>7. QED
      BY <3>2, <3>4, <3>6
  <2>2. QED
    BY <2>1 DEF AloneKeeps
<1>10. FieldsShown'
  <2>1. ASSUME NEW i \in Job, NEW f \in Field, detail[i] # Absent, stale'[i] = {}, shown[i] = order'[i]
        PROVE  detail[i][f] = row'[i][f] \/ Rivals(i, f)' # {}
    <3>1. i # j /\ stale[i] = {} /\ order'[i] = order[i] /\ row'[i] = row[i]
      BY <1>2, <1>3, <2>1
    <3>2. Rivals(i, f) # {} => Rivals(i, f)' # {}
      BY <1>5 DEF Rivals
    <3>3. QED
      BY <2>1, <3>1, <3>2 DEF ShownInv, FieldsShown
  <2>2. QED
    BY <1>1, <2>1 DEF FieldsShown
<1>11. QED
  BY <1>7, <1>8, <1>9, <1>10 DEF ShownInv

LEMMA ShownKept == ASSUME JobShapes, ShownInv, JobsNext PROVE ShownInv'
<1>1. "status" \in Field /\ "notes" \in Field
  BY DEF Field
<1>2. CASE ReadList \/ Type \/ \E j \in Job : Select(j) \/ Archive(j)
  BY <1>2, SameShown DEF ReadList, Type, Select, Archive
<1>3. CASE AskDetail
  BY <1>3, AskedShown
<1>4. CASE Decide
  <2>1. sel \in Job /\ UNCHANGED <<row, order, shown, stale>>
    BY <1>4 DEF Decide, JobShapes, DeskShapes
  <2>2. PICK late : Mutated(sel, "status", New, late)
    BY <1>4 DEF Decide
  <2>3. QED
    BY <1>1, <2>1, <2>2, MutatedShown
<1>5. CASE Blur
  <2>1. sel \in Job /\ UNCHANGED <<row, order, shown, stale>> /\ Mutated(sel, "notes", text, {})
    BY <1>5 DEF Blur, FieldPatch, JobShapes, OwnShapes
  <2>2. QED
    BY <1>1, <2>1, MutatedShown
<1>6. ASSUME NEW j \in Job, ChooseStatus(j) PROVE ShownInv'
  <2>1. UNCHANGED <<row, order, shown, stale>> /\ Mutated(j, "status", New, {})
    BY <1>6 DEF ChooseStatus
  <2>2. QED
    BY <1>1, <2>1, MutatedShown
<1>7. QED
  BY <1>2, <1>3, <1>4, <1>5, <1>6, AnsweredShown, StoreShown, StoredShown, FailsShown, ElsewhereShown DEF JobsNext

----------------------------------------------------------------------------
(* What the panel takes its text from is what is stored and on its way,     *)
(* unless it is marked as late.                                             *)
LEMMA SeededForward ==
  ASSUME JobShapes, ForwardInv, NEW j \in Job \cup {Absent}, NEW d, NEW marks,
         flagged \cup SeededLate(j, d) \subseteq marks,
         \A i \in Job : d[i] \in OwnRow(i) \cup {Absent}
  PROVE  Seeded(j, d) # Absent /\ <<j, "notes">> \notin marks =>
           Seeded(j, d) >= row[j]["notes"] /\ \A p \in Rivals(j, "notes") : Seeded(j, d) >= p.value
<1>1. SUFFICES ASSUME Seeded(j, d) # Absent, <<j, "notes">> \notin marks
               PROVE  Seeded(j, d) >= row[j]["notes"] /\ \A p \in Rivals(j, "notes") : Seeded(j, d) >= p.value
  OBVIOUS
<1>2. Seeded(j, d) \in Own(j) /\ j \in Job
  BY <1>1, SeededTyped DEF JobShapes
<1>3. CASE j = sel /\ text # Absent
  <2>1. Seeded(j, d) = text
    BY <1>1, <1>3 DEF Seeded
  <2>2. <<sel, "notes">> \notin flagged
    BY <1>1, <1>3
  <2>3. QED
    BY <1>3, <2>1, <2>2 DEF ForwardInv
<1>4. CASE ~(j = sel /\ text # Absent)
  <2> DEFINE values == {row[j]["notes"]} \cup {p.value : p \in Rivals(j, "notes")}
  <2>1. values = {Seeded(j, d)}
    <3>1. SeededLate(j, d) = IF values = {Seeded(j, d)} THEN {} ELSE {<<j, "notes">>}
      BY <1>1, <1>4 DEF SeededLate
    <3>2. QED
      BY <1>1, <3>1
  <2>2. Seeded(j, d) \in Nat
    BY <1>2, OwnTyped, ValueTyped
  <2>3. row[j]["notes"] \in values /\ \A p \in Rivals(j, "notes") : p.value \in values
    OBVIOUS
  <2>4. row[j]["notes"] = Seeded(j, d) /\ \A p \in Rivals(j, "notes") : p.value = Seeded(j, d)
    <3> HIDE DEF values
    <3>1. QED
      BY <2>1, <2>3
  <2>5. QED
    BY <2>2, <2>4
<1>5. QED
  BY <1>3, <1>4

(* Without a new patch, edit or text what is written stays the later.       *)
LEMMA FewerForward ==
  ASSUME ForwardInv, patches' \subseteq patches, flagged \subseteq flagged', UNCHANGED row
  PROVE  /\ \A p \in patches' : <<p.job, p.field>> \notin flagged' =>
              Rivals(p.job, p.field)' = {p} /\ p.value >= row'[p.job][p.field]
         /\ UNCHANGED <<sel, text>> => ForwardInv'
<1>1. \A p \in patches' : <<p.job, p.field>> \notin flagged' =>
              Rivals(p.job, p.field)' = {p} /\ p.value >= row'[p.job][p.field]
  BY DEF ForwardInv, Rivals
<1>2. UNCHANGED <<sel, text>> =>
        (text' # Absent /\ <<sel', "notes">> \notin flagged' =>
           text' >= row'[sel']["notes"] /\ \A p \in Rivals(sel, "notes")' : text' >= p.value)
  BY DEF ForwardInv, Rivals
<1>3. QED
  BY <1>1, <1>2 DEF ForwardInv

(* The selection moves: the panel may take another text. *)
LEMMA SelectedForward ==
  ASSUME JobShapes, ForwardInv, UNCHANGED <<row, patches>>, NEW j \in Job \cup {Absent}, NEW d,
         \A i \in Job : d[i] \in OwnRow(i) \cup {Absent},
         sel' = j, text' = Seeded(j, d), flagged' = flagged \cup SeededLate(j, d)
  PROVE  ForwardInv'
<1>1. \A p \in patches' : <<p.job, p.field>> \notin flagged' =>
        Rivals(p.job, p.field)' = {p} /\ p.value >= row'[p.job][p.field]
  BY FewerForward
<1>2. text' # Absent /\ <<j, "notes">> \notin flagged' =>
        text' >= row[j]["notes"] /\ \A p \in Rivals(j, "notes") : text' >= p.value
  BY SeededForward
<1>3. Rivals(sel, "notes")' = Rivals(j, "notes")
  BY DEF Rivals
<1>4. QED
  BY <1>1, <1>2, <1>3 DEF ForwardInv

(* A patch that is sent. *)
LEMMA MutatedForward ==
  ASSUME JobShapes, ForwardInv, NEW j \in Job, NEW field \in Field, NEW value, NEW late,
         Mutated(j, field, value, late), UNCHANGED row,
         <<j, field>> \notin flagged => value >= row[j][field]
  PROVE  /\ \A p \in patches' : <<p.job, p.field>> \notin flagged' =>
              Rivals(p.job, p.field)' = {p} /\ p.value >= row[p.job][p.field]
         /\ \A q \in patches' : (q.job = j /\ q.field = field /\ q.value = value)
                                \/ \E p \in patches : q.job = p.job /\ q.field = p.field /\ q.value = p.value
         /\ flagged \cup late \subseteq flagged'
<1>1. OwnShapes
  BY DEF JobShapes
<1> DEFINE base == Tracking(j)
           rivals == Rivals(j, field)
           all == Contested(rivals)
<1>2. PICK patch : patch = [job |-> j, field |-> field, value |-> value, base |-> base, at |-> 0, answer |-> Absent,
                            rival |-> rivals # {} \/ base[field] # row[j][field]]
  OBVIOUS
<1>3. patches' = {patch} \cup all /\ flagged' = flagged \cup late \cup (IF rivals = {} THEN {} ELSE {<<j, field>>})
  BY <1>2 DEF Mutated
<1>4. patch.job = j /\ patch.field = field /\ patch.value = value
  BY <1>2
<1>5. \A q \in all : \E p \in patches :
        /\ q.job = p.job /\ q.field = p.field /\ q.value = p.value /\ q.at = p.at /\ q.answer = p.answer
        /\ (q.job = j /\ q.field = field) \/ q = p
  BY <1>1, ContestedPatches
<1>6. \A p \in patches : p \in rivals <=> p.job = j /\ p.field = field
  BY DEF Rivals
<1> HIDE DEF base, all, rivals
<1>7. ASSUME NEW q \in patches', <<q.job, q.field>> \notin flagged'
      PROVE  Rivals(q.job, q.field)' = {q} /\ q.value >= row[q.job][q.field]
  <2>1. CASE q.job = j /\ q.field = field
    <3>1. rivals = {}
      BY <1>3, <1>7, <2>1
    <3>2. ASSUME NEW r \in patches', r.job = j, r.field = field PROVE r = patch
      BY <1>3, <1>5, <1>6, <3>1, <3>2
    <3>3. q = patch
      BY <2>1, <3>2
    <3>4. Rivals(q.job, q.field)' = {q}
      BY <1>7, <2>1, <3>2, <3>3 DEF Rivals
    <3>5. QED
      BY <1>3, <1>4, <1>7, <2>1, <3>3, <3>4
  <2>2. CASE ~(q.job = j /\ q.field = field)
    <3>1. q \in all
      BY <1>3, <1>4, <2>2
    <3>2. q \in patches
      BY <1>5, <2>2, <3>1
    <3>3. Rivals(q.job, q.field) = {q} /\ q.value >= row[q.job][q.field]
      BY <1>3, <1>7, <3>2 DEF ForwardInv
    <3>4. ASSUME NEW r \in patches', r.job = q.job, r.field = q.field PROVE r = q
      <4>1. r \in all
        BY <1>3, <1>4, <2>2, <3>4
      <4>2. r \in patches
        BY <1>5, <2>2, <3>4, <4>1
      <4>3. QED
        BY <3>3, <3>4, <4>2 DEF Rivals
    <3>5. Rivals(q.job, q.field)' = {q}
      BY <1>7, <3>4 DEF Rivals
    <3>6. QED
      BY <3>3, <3>5
  <2>3. QED
    BY <2>1, <2>2
<1>8. \A q \in patches' : (q.job = j /\ q.field = field /\ q.value = value)
                          \/ \E p \in patches : q.job = p.job /\ q.field = p.field /\ q.value = p.value
  BY <1>3, <1>4, <1>5
<1>9. QED
  BY <1>3, <1>7, <1>8

(* The next value is later than any in use. *)
LEMMA NewIsLast == ASSUME JobShapes, NEW j \in Job PROVE New \in Nat /\ \A n \in Own(j) : n \in Nat /\ New > n
<1>1. PICK k \in Nat : UsedTo(k)
  BY DEF JobShapes, DeskShapes
<1>2. New = k + 1 /\ \A n \in Value : owner[n] # Absent => n < New
  BY <1>1, NewIsNext DEF JobShapes
<1>3. \A n \in Own(j) : n \in Value /\ (n = 0 \/ owner[n] # Absent)
  BY JobDeskAssumption DEF Own
<1>4. QED
  BY <1>2, <1>3, ValueTyped

LEMMA ForwardKept == ASSUME JobShapes, ForwardInv, JobsNext PROVE ForwardInv'
<1>1. /\ "status" \in Field /\ "notes" \in Field
      /\ \A i \in Job : detail[i] \in OwnRow(i) \cup {Absent}
      /\ \A i \in Job, f \in Field : row[i][f] \in Own(i) /\ row[i][f] \in Nat
      /\ sel \in Job \cup {Absent} /\ (text # Absent => text \in Own(sel) /\ sel \in Job)
      /\ \A p \in patches : p.job \in Job /\ p.field \in Field /\ p.value \in Own(p.job) /\ p.value \in Nat
  BY PatchTyped, OwnTyped, ValueTyped DEF JobShapes, OwnShapes, DeskShapes, OwnRow, OwnPatch, Field
<1>2. ASSUME UNCHANGED <<row, sel, text>>, patches' \subseteq patches, flagged \subseteq flagged' PROVE ForwardInv'
  BY <1>2, FewerForward
<1>3. CASE ReadList
  <2> DEFINE next == IF sel # Absent /\ sel \in open THEN sel ELSE FirstOf(open)
  <2>1. next \in Job \cup {Absent}
    BY FirstOfTyped DEF JobShapes, DeskShapes
  <2>2. sel' = next /\ text' = Seeded(next, detail) /\ flagged' = flagged \cup SeededLate(next, detail) /\ UNCHANGED <<row, patches>>
    BY <1>3 DEF ReadList
  <2>3. QED
    <3> HIDE DEF next
    <3>1. QED
      BY <1>1, <2>1, <2>2, SelectedForward
<1>4. CASE AskDetail
  BY <1>2, <1>4 DEF AskDetail
<1>5. ASSUME NEW j \in Job, DetailAnswered(j) PROVE ForwardInv'
  <2>1. PICK d : d = [detail EXCEPT ![j] = fetch[j].row]
    OBVIOUS
  <2>2. /\ fetch[j] # Absent /\ sel' = sel /\ text' = Seeded(sel, d) /\ flagged' = flagged \cup SeededLate(sel, d)
        /\ UNCHANGED <<row, patches>>
    BY <1>5, <2>1 DEF DetailAnswered
  <2>3. fetch[j].row \in OwnRow(j)
    BY <2>2 DEF JobShapes, OwnShapes, OwnAnswer
  <2>4. \A i \in Job : d[i] \in OwnRow(i) \cup {Absent}
    BY <1>1, <2>1, <2>3 DEF JobShapes, OwnShapes
  <2>5. QED
    BY <1>1, <2>2, <2>4, SelectedForward
<1>6. ASSUME NEW j \in Job, Select(j) PROVE ForwardInv'
  BY <1>1, <1>6, SelectedForward DEF Select
<1>7. \A j \in Job : New >= row[j]["status"] /\ New >= row[j]["notes"] /\ New \in Nat
  BY <1>1, NewIsLast
<1>8. ASSUME NEW j \in Job, ChooseStatus(j) PROVE ForwardInv'
  <2>1. UNCHANGED <<row, sel, text>> /\ Mutated(j, "status", New, {})
    BY <1>8 DEF ChooseStatus
  <2>2. /\ \A p \in patches' : <<p.job, p.field>> \notin flagged' =>
              Rivals(p.job, p.field)' = {p} /\ p.value >= row[p.job][p.field]
        /\ \A q \in patches' : (q.job = j /\ q.field = "status" /\ q.value = New)
                               \/ \E p \in patches : q.job = p.job /\ q.field = p.field /\ q.value = p.value
        /\ flagged \cup {} \subseteq flagged'
    BY <1>1, <1>7, <2>1, MutatedForward
  <2>3. \A q \in Rivals(sel, "notes")' : \E p \in Rivals(sel, "notes") : q.value = p.value
    BY <2>1, <2>2 DEF Rivals
  <2>4. QED
    BY <2>1, <2>2, <2>3 DEF ForwardInv
<1>9. CASE Decide
  <2>0. PICK j \in Job : j = sel
    BY <1>9 DEF Decide, JobShapes, DeskShapes
  <2>1. PICK next \in IF Undecided(j) = {} THEN {j} ELSE Undecided(j) :
          sel' = next /\ text' = Seeded(next, detail) /\ Mutated(j, "status", New, SeededLate(next, detail))
    BY <1>9, <2>0 DEF Decide
  <2>2. UNCHANGED row
    BY <1>9 DEF Decide
  <2>3. /\ \A p \in patches' : <<p.job, p.field>> \notin flagged' =>
              Rivals(p.job, p.field)' = {p} /\ p.value >= row[p.job][p.field]
        /\ \A q \in patches' : (q.job = j /\ q.field = "status" /\ q.value = New)
                               \/ \E p \in patches : q.job = p.job /\ q.field = p.field /\ q.value = p.value
        /\ flagged \cup SeededLate(next, detail) \subseteq flagged'
    BY <1>1, <1>7, <2>1, <2>2, MutatedForward
  <2>4. next \in Job
    BY DEF Undecided, JobShapes, OwnShapes
  <2>5. text' # Absent /\ <<next, "notes">> \notin flagged' =>
          text' >= row[next]["notes"] /\ \A p \in Rivals(next, "notes") : text' >= p.value
    BY <1>1, <2>1, <2>3, <2>4, SeededForward
  <2>6. \A q \in Rivals(sel, "notes")' : \E p \in Rivals(next, "notes") : q.value = p.value
    BY <2>1, <2>3 DEF Rivals
  <2>7. QED
    BY <2>1, <2>2, <2>3, <2>5, <2>6 DEF ForwardInv
<1>10. CASE Type
  <2>1. text' = New /\ sel \in Job /\ UNCHANGED <<row, sel, patches, flagged>>
    BY <1>1, <1>10 DEF Type
  <2>2. \A p \in patches' : <<p.job, p.field>> \notin flagged' =>
          Rivals(p.job, p.field)' = {p} /\ p.value >= row'[p.job][p.field]
    BY <2>1, FewerForward
  <2>3. \A p \in Rivals(sel, "notes")' : New >= p.value
    <3>1. ASSUME NEW p \in Rivals(sel, "notes")' PROVE p.job = sel /\ p \in patches
      BY <2>1 DEF Rivals
    <3>2. New \in Nat /\ \A n \in Own(sel) : n \in Nat /\ New > n
      BY <2>1, NewIsLast
    <3>3. QED
      BY <1>1, <3>1, <3>2
  <2>4. New >= row[sel]["notes"]
    BY <1>7, <2>1
  <2>5. QED
    BY <2>1, <2>2, <2>3, <2>4 DEF ForwardInv
<1>11. CASE Blur
  <2>1. UNCHANGED <<row, sel, text>> /\ Mutated(sel, "notes", text, {}) /\ text # Absent /\ sel \in Job /\ text \in Nat
    BY <1>1, <1>11, OwnTyped, ValueTyped DEF Blur, FieldPatch
  <2>2. <<sel, "notes">> \notin flagged => text >= row[sel]["notes"]
    BY <2>1 DEF ForwardInv
  <2>3. /\ \A p \in patches' : <<p.job, p.field>> \notin flagged' =>
              Rivals(p.job, p.field)' = {p} /\ p.value >= row[p.job][p.field]
        /\ \A q \in patches' : (q.job = sel /\ q.field = "notes" /\ q.value = text)
                               \/ \E p \in patches : q.job = p.job /\ q.field = p.field /\ q.value = p.value
        /\ flagged \cup {} \subseteq flagged'
    BY <1>1, <2>1, <2>2, MutatedForward
  <2>4. \A q \in Rivals(sel, "notes")' : q.value = text \/ \E p \in Rivals(sel, "notes") : q.value = p.value
    BY <2>1, <2>3 DEF Rivals
  <2>5. QED
    BY <2>1, <2>3, <2>4 DEF ForwardInv
<1>12. ASSUME NEW p \in patches, Store(p) PROVE ForwardInv'
  <2>1. PICK q :
          /\ patches' = (patches \ {p}) \cup {q}
          /\ q.job = p.job /\ q.field = p.field /\ q.value = p.value
          /\ \A i \in Job, f \in Field : row'[i][f] = IF i = p.job /\ f = p.field THEN p.value ELSE row[i][f]
    BY <1>12, StoreChanges
  <2>2. UNCHANGED <<flagged, sel, text>>
    BY <1>12 DEF Store
  <2>3. ASSUME NEW r \in patches', <<r.job, r.field>> \notin flagged
        PROVE  Rivals(r.job, r.field)' = {r} /\ r.value >= row'[r.job][r.field]
    <3>1. CASE r = q
      <4>1. Rivals(p.job, p.field) = {p}
        BY <2>1, <2>3, <3>1 DEF ForwardInv
      <4>2. Rivals(q.job, q.field)' = {q}
        BY <2>1, <4>1 DEF Rivals
      <4>3. QED
        BY <1>1, <2>1, <3>1, <4>2
    <3>2. CASE r \in patches /\ r # p
      <4>1. Rivals(r.job, r.field) = {r} /\ r.value >= row[r.job][r.field]
        BY <2>3, <3>2 DEF ForwardInv
      <4>2. ~(r.job = p.job /\ r.field = p.field)
        BY <3>2, <4>1 DEF Rivals
      <4>3. Rivals(r.job, r.field)' = {r}
        BY <2>1, <3>2, <4>1, <4>2 DEF Rivals
      <4>4. QED
        BY <1>1, <2>1, <3>2, <4>1, <4>2, <4>3
    <3>3. QED
      BY <2>1, <3>1, <3>2
  <2>4. ASSUME text # Absent, <<sel, "notes">> \notin flagged
        PROVE  text >= row'[sel]["notes"] /\ \A r \in Rivals(sel, "notes")' : text >= r.value
    <3>1. text >= row[sel]["notes"] /\ \A r \in Rivals(sel, "notes") : text >= r.value
      BY <2>4 DEF ForwardInv
    <3>2. \A r \in Rivals(sel, "notes")' : \E s \in Rivals(sel, "notes") : r.value = s.value
      BY <2>1, <2>2 DEF Rivals
    <3>3. text >= row'[sel]["notes"]
      <4>1. CASE sel = p.job /\ p.field = "notes"
        BY <1>1, <2>1, <3>1, <4>1 DEF Rivals
      <4>2. CASE ~(sel = p.job /\ p.field = "notes")
        BY <1>1, <2>1, <2>4, <3>1, <4>2
      <4>3. QED
        BY <4>1, <4>2
    <3>4. QED
      BY <3>1, <3>2, <3>3
  <2>5. QED
    BY <2>2, <2>3, <2>4 DEF ForwardInv
<1>13. ASSUME NEW p \in patches, Stored(p) \/ PatchFails(p) PROVE ForwardInv'
  BY <1>2, <1>13 DEF Stored, PatchFails
<1>14. ASSUME NEW j \in Job, NEW f \in Field, EditElsewhere(j, f) PROVE ForwardInv'
  <2>1. \A i \in Job, g \in Field : row'[i][g] = IF i = j /\ g = f THEN New ELSE row[i][g]
    BY <1>14, ElsewhereChanges
  <2>2. \A q \in patches' : \E p \in patches :
              /\ q.job = p.job /\ q.field = p.field /\ q.value = p.value /\ q.at = p.at /\ q.answer = p.answer
              /\ (q.job = j /\ q.field = f) \/ q = p
    BY <1>14, ElsewhereChanges
  <2>3. flagged' = flagged \cup {<<j, f>>} /\ UNCHANGED <<sel, text>>
    BY <1>14 DEF EditElsewhere
  <2>4. ASSUME NEW q \in patches', <<q.job, q.field>> \notin flagged'
        PROVE  Rivals(q.job, q.field)' = {q} /\ q.value >= row'[q.job][q.field]
    <3>1. ~(q.job = j /\ q.field = f) /\ q \in patches
      BY <2>2, <2>3, <2>4
    <3>2. Rivals(q.job, q.field) = {q} /\ q.value >= row[q.job][q.field]
      BY <2>3, <2>4, <3>1 DEF ForwardInv
    <3>3. ASSUME NEW r \in patches', r.job = q.job, r.field = q.field PROVE r = q
      <4>1. r \in patches
        BY <2>2, <3>1, <3>3
      <4>2. QED
        BY <3>2, <3>3, <4>1 DEF Rivals
    <3>4. Rivals(q.job, q.field)' = {q}
      BY <2>4, <3>3 DEF Rivals
    <3>5. QED
      BY <1>1, <2>1, <3>1, <3>2, <3>4
  <2>5. ASSUME text # Absent, <<sel, "notes">> \notin flagged'
        PROVE  text >= row'[sel]["notes"] /\ \A r \in Rivals(sel, "notes")' : text >= r.value
    <3>1. ~(sel = j /\ f = "notes") /\ text >= row[sel]["notes"] /\ \A r \in Rivals(sel, "notes") : text >= r.value
      BY <2>3, <2>5 DEF ForwardInv
    <3>2. \A r \in Rivals(sel, "notes")' : \E s \in Rivals(sel, "notes") : r.value = s.value
      BY <2>2, <2>3 DEF Rivals
    <3>3. QED
      BY <1>1, <2>1, <2>5, <3>1, <3>2
  <2>6. QED
    BY <2>3, <2>4, <2>5 DEF ForwardInv
<1>15. ASSUME NEW j \in Job, Archive(j) PROVE ForwardInv'
  BY <1>2, <1>15 DEF Archive
<1>16. QED
  BY <1>3, <1>4, <1>5, <1>6, <1>8, <1>9, <1>10, <1>11, <1>12, <1>13, <1>14, <1>15 DEF JobsNext

JobsInv == JobShapes /\ ShownInv /\ ForwardInv

LEMMA JobsStart == ASSUME JobsInit PROVE JobsInv
<1>1. \A j \in Job : 0 \in Own(j) /\ [f \in Field |-> 0] \in OwnRow(j) /\ [f \in Field |-> 0] \in Row
  BY OwnTyped, ValueTyped DEF OwnRow, Row
<1>2. patches = {} /\ text = Absent /\ row = [j \in Job |-> [f \in Field |-> 0]] /\ list = row
      /\ detail = [j \in Job |-> Absent] /\ fetch = [j \in Job |-> Absent] /\ open = Job /\ sel = FirstOf(Job)
      /\ owner = [n \in Value \cup {MaxTyped + MaxOutside + 1} |-> Absent]
      /\ order = [j \in Job |-> 0] /\ shown = [j \in Job |-> 0] /\ outside = 0 /\ flagged = {} /\ stale = [j \in Job |-> {}]
  BY DEF JobsInit
<1>3. OwnShapes
  BY <1>1, <1>2 DEF OwnShapes
<1>4. UsedTo(0)
  BY <1>2, JobDeskAssumption, ValueTyped DEF UsedTo
<1>5. DeskShapes
  BY <1>2, <1>4, FirstOfTyped, JobDeskAssumption DEF DeskShapes
<1>6. ShownInv
  BY <1>2 DEF ShownInv, Versions, LastComes, AloneKeeps, FieldsShown
<1>7. ForwardInv
  BY <1>2 DEF ForwardInv
<1>8. QED
  BY <1>3, <1>5, <1>6, <1>7 DEF JobsInv, JobShapes

LEMMA JobsInvKept == ASSUME JobsInv, [JobsNext]_jobsVars PROVE JobsInv'
<1>1. CASE JobsNext
  BY <1>1, JobShapesKept, ShownKept, ForwardKept DEF JobsInv
<1>2. CASE UNCHANGED jobsVars
  <2>1. /\ UNCHANGED <<row, open, list, detail, fetch, sel, text, patches>>
        /\ UNCHANGED <<owner, order, shown, outside, flagged, stale>>
    BY <1>2 DEF jobsVars
  <2>2. OwnShapes'
    BY <2>1 DEF JobsInv, JobShapes, OwnShapes, OwnRow, Own, OwnAnswer, OwnPatch
  <2>3. DeskShapes'
    BY <2>1 DEF JobsInv, JobShapes, DeskShapes, UsedTo
  <2>4. ShownInv'
    BY <2>1, SameShown DEF JobsInv
  <2>5. ForwardInv'
    BY <2>1 DEF JobsInv, ForwardInv, Rivals
  <2>6. QED
    BY <2>2, <2>3, <2>4, <2>5 DEF JobsInv, JobShapes
<1>3. QED
  BY <1>1, <1>2

LEMMA JobsInvSound == ASSUME JobsInv PROVE JobsSound
<1>1. OwnShapes /\ DeskShapes
  BY DEF JobsInv, JobShapes
<1>2. \A j \in Job : OwnRow(j) \subseteq Row /\ Own(j) \subseteq Value
  BY OwnTyped
<1>3. JobsTypeOK
  <2>1. row \in [Job -> Row] /\ open \subseteq Job /\ DOMAIN list \subseteq Job /\ sel \in Job \cup {Absent}
    BY <1>1 DEF OwnShapes, DeskShapes
  <2>2. \A j \in Job : detail[j] \in Row \cup {Absent}
    BY <1>1, <1>2 DEF OwnShapes
  <2>3. text # Absent => text \in Value /\ sel # Absent /\ detail[sel] # Absent
    BY <1>1, <1>2, JobDeskAssumption DEF OwnShapes
  <2>4. QED
    BY <2>1, <2>2, <2>3 DEF JobsTypeOK
<1>4. OwnJob
  BY <1>1 DEF OwnJob, OwnShapes, OwnRow, Own
<1>5. ShownIsStored
  <2>1. ASSUME NEW j \in Job, detail[j] # Absent, stale[j] = {}, \A p \in patches : p.job # j
        PROVE  detail[j] = row[j]
    <3>1. shown[j] = order[j]
      BY <2>1 DEF JobsInv, ShownInv, LastComes
    <3>2. \A f \in Field : Rivals(j, f) = {}
      BY <2>1 DEF Rivals
    <3>3. \A f \in Field : detail[j][f] = row[j][f]
      BY <2>1, <3>1, <3>2 DEF JobsInv, ShownInv, FieldsShown
    <3>4. detail[j] \in Row /\ row[j] \in Row
      BY <1>1, <1>2, <2>1 DEF OwnShapes
    <3>5. QED
      BY <3>3, <3>4 DEF Row
  <2>2. QED
    BY <2>1 DEF ShownIsStored
<1>6. QED
  BY <1>3, <1>4, <1>5 DEF JobsSound

(* A text or a status is only ever stored for the job it was meant for, and *)
(* the panel shows what is stored once nothing is on its way, whatever the  *)
(* jobs and however many edits, patches, answers and failures there are     *)
(* (useTracking.ts, JobPanel, PATCH /jobs/:id/tracking).                    *)
THEOREM JobsHold == JobsSpec => []JobsSound
<1>1. JobsInit => JobsInv
  BY JobsStart
<1>2. JobsInv /\ [JobsNext]_jobsVars => JobsInv'
  BY JobsInvKept
<1>3. JobsInv => JobsSound
  BY JobsInvSound
<1>4. QED
  BY <1>1, <1>2, <1>3, PTL DEF JobsSpec

LEMMA StepsForward == ASSUME JobsInv, JobsNext PROVE StoredForwardStep
<1>1. ASSUME NEW j \in Job, NEW f \in Field, row'[j][f] < row[j][f], <<j, f>> \notin flagged PROVE FALSE
  <2>1. row[j][f] \in Nat /\ row[j][f] \in Own(j) /\ JobShapes
    BY OwnTyped, ValueTyped DEF JobsInv, JobShapes, OwnShapes, OwnRow
  <2>2. row' # row
    <3>1. ~(row[j][f] < row[j][f])
      BY <2>1
    <3>2. QED
      BY <1>1, <3>1
  <2>3. CASE \E p \in patches : Store(p)
    <3>1. PICK p \in patches : Store(p)
      BY <2>3
    <3>2. row'[j][f] = IF j = p.job /\ f = p.field THEN p.value ELSE row[j][f]
      BY <2>1, <3>1, StoreChanges
    <3>3. j = p.job /\ f = p.field /\ p.value < row[j][f]
      BY <1>1, <2>1, <3>2
    <3>4. p.value >= row[j][f] /\ p.value \in Nat
      BY <1>1, <2>1, <3>3, PatchTyped DEF JobsInv, ForwardInv, JobShapes
    <3>5. QED
      BY <2>1, <3>3, <3>4
  <2>4. CASE \E i \in Job, g \in Field : EditElsewhere(i, g)
    <3>1. PICK i \in Job, g \in Field : EditElsewhere(i, g)
      BY <2>4
    <3>2. row'[j][f] = IF j = i /\ f = g THEN New ELSE row[j][f]
      BY <2>1, <3>1, ElsewhereChanges
    <3>3. New > row[j][f] /\ New \in Nat
      BY <2>1, NewIsLast
    <3>4. QED
      BY <1>1, <2>1, <3>2, <3>3
  <2>5. CASE ~(\E p \in patches : Store(p)) /\ ~(\E i \in Job, g \in Field : EditElsewhere(i, g))
    <3>1. row' = row
      BY <2>5 DEF JobsNext, ReadList, AskDetail, Decide, Type, Blur, DetailAnswered, ChooseStatus, Select, Archive, Stored, PatchFails
    <3>2. QED
      BY <2>2, <3>1
  <2>6. QED
    BY <2>3, <2>4, <2>5
<1>2. QED
  BY <1>1 DEF StoredForwardStep

(* What is stored never goes back to an earlier choice, other windows,      *)
(* overlapping patches and texts taken from an old detail aside.            *)
THEOREM ForwardHolds == JobsSpec => StoredForward
<1>1. JobsInit => JobsInv
  BY JobsStart
<1>2. JobsInv /\ [JobsNext]_jobsVars => JobsInv'
  BY JobsInvKept
<1>3. JobsInv /\ [JobsNext]_jobsVars => [StoredForwardStep]_jobsVars
  BY StepsForward
<1>4. QED
  BY <1>1, <1>2, <1>3, PTL DEF JobsSpec, StoredForward

----------------------------------------------------------------------------
(* The setup wizard.                                                       *)

Clear == beside \cap {"outside", "failed", "left"} = {}
Calm == beside \cap {"edited", "back", "left", "outside"} = {}

(* What is to be done of the step that is being saved.                     *)
Plans(n) ==
  CASE n = 1 -> {<<"create">>, <<>>}
    [] n = 2 -> {<<>>}
    [] n = 3 -> {<<"guard", "resume", "filter">>, <<"resume", "filter">>, <<"filter">>, <<>>}
    [] n = 4 -> {<<"guard", "urls", "config", "lanes">>, <<"urls", "config", "lanes">>, <<"config", "lanes">>, <<"lanes">>, <<>>}
    [] n = 5 -> {<<"secret", "config", "settings">>, <<"config", "settings">>, <<"settings">>, <<>>}
    [] n = 6 -> {<<"config", "schedule">>, <<"schedule">>, <<>>}

LanesPlans == {<<"config", "lanes">>, <<"lanes">>, <<>>}

SaveShape ==
  submit # Nothing =>
    /\ submit.draft.profile \in taken \cup {Nothing}
    /\ submit.todo \in Plans(submit.step)
    /\ submit.draft.step = submit.step
    /\ submit.draft.profile = Nothing <=> submit.todo = <<"create">>
    /\ submit.todo \in {<<"guard", "urls", "config", "lanes">>, <<"urls", "config", "lanes">>} => submit.draft.hunt # 0
    /\ submit.todo \in {<<"lanes">>, <<"settings">>, <<"schedule">>} => submit.config = profileJson
    /\ ~submit.orphan => page = "on" /\ (submit.step > 1 => answers.profile # Nothing)
    /\ submit.wrote => \/ submit.step = 3 /\ submit.todo \in {<<"filter">>, <<>>}
                       \/ submit.step = 4 /\ submit.todo \in LanesPlans

PageShape ==
  /\ given \in 0 .. MaxAnswers
  /\ answers.profile \in taken \cup {Nothing}
  /\ page = "on" => answers.step = step /\ (step > 1 => answers.profile # Nothing)
  /\ page = "done" => submit = Nothing

WizardShapes == WizardTypeOK /\ SaveShape /\ PageShape

(* A document ahead of the save, past its guard, is not another tool's.    *)
GuardPassed ==
  submit # Nothing /\ "crossed" \notin beside =>
    /\ submit.todo = <<"resume", "filter">> => docs["resume"] # Elsewhere
    /\ submit.todo \in {<<"resume", "filter">>, <<"filter">>} => docs["filter"] # Elsewhere
    /\ submit.todo = <<"urls", "config", "lanes">> => docs["urls"] # Elsewhere

(* A draft that names a profile has the text of every document there.      *)
Knows(d) == d.profile # Nothing => \A x \in Doc : docs[x] = 0 \/ docs[x] = d.written[x]

WritesKnown ==
  Clear =>
    /\ submit # Nothing => Knows(submit.draft) /\ (page = "on" => ~submit.orphan)
    /\ ~Wrote => /\ page = "on" => Knows(answers)
                 /\ stored # Nothing => Knows(stored)

(* What the steps before d's say is stored. *)
Served(d) ==
  /\ d.step > 3 => docs["resume"] = d.about /\ docs["filter"] = d.about
  /\ d.step > 4 => (d.hunt # 0 => docs["urls"] = Normal(d.hunt)) /\ profileJson.lanes = (d.hunt # 0)

(* What a save has stored so far. *)
Progress ==
  /\ submit.step = 3 /\ submit.todo \in {<<"filter">>, <<>>} => docs["resume"] = submit.draft.about
  /\ submit.step = 3 /\ submit.todo = <<>> => docs["filter"] = submit.draft.about
  /\ submit.step = 4 /\ submit.todo \in LanesPlans /\ submit.draft.hunt # 0 => docs["urls"] = Normal(submit.draft.hunt)
  /\ submit.step = 4 /\ submit.todo = <<>> => profileJson.lanes = (submit.draft.hunt # 0)
  /\ submit.step = 6 /\ submit.todo = <<>> => profileJson.schedule

Same(d, e) == d.about = e.about /\ d.hunt = e.hunt
AtOrSkipped(n, m) == n = m \/ (m = 5 /\ n = 6)

SavesAnswers ==
  Calm =>
    /\ page = "on" => Same(typed, answers) /\ Served(answers) /\ (stored # Nothing => Same(stored, answers) /\ stored.step = step)
    /\ stored # Nothing => Served(stored)
    /\ submit # Nothing =>
         /\ Same(typed, submit.draft) /\ Served(submit.draft) /\ Progress
         /\ page = "on" => ~submit.orphan /\ AtOrSkipped(step, submit.step)
         /\ stored # Nothing => Same(stored, submit.draft) /\ AtOrSkipped(stored.step, submit.step)

WizardInv == WizardShapes /\ GuardPassed /\ BlockedNeedsCause /\ WritesKnown /\ SavesAnswers /\ FinishedAsAnswered

LEMMA PlansAre ==
  /\ Plans(1) = {<<"create">>, <<>>}
  /\ Plans(2) = {<<>>}
  /\ Plans(3) = {<<"guard", "resume", "filter">>, <<"resume", "filter">>, <<"filter">>, <<>>}
  /\ Plans(4) = {<<"guard", "urls", "config", "lanes">>, <<"urls", "config", "lanes">>, <<"config", "lanes">>, <<"lanes">>, <<>>}
  /\ Plans(5) = {<<"secret", "config", "settings">>, <<"config", "settings">>, <<"settings">>, <<>>}
  /\ Plans(6) = {<<"config", "schedule">>, <<"schedule">>, <<>>}
BY DEF Plans

LEMMA PlansTyped == ASSUME NEW n \in 1 .. 6, NEW t \in Plans(n) PROVE t \in Seq(SaveRequest)
<1>1. CASE t = <<"create">>
  BY <1>1 DEF SaveRequest
<1>2. CASE t = <<>>
  BY <1>2 DEF SaveRequest
<1>3. CASE t = <<"guard", "resume", "filter">>
  BY <1>3 DEF SaveRequest
<1>4. CASE t = <<"resume", "filter">>
  BY <1>4 DEF SaveRequest
<1>5. CASE t = <<"filter">>
  BY <1>5 DEF SaveRequest
<1>6. CASE t = <<"guard", "urls", "config", "lanes">>
  BY <1>6 DEF SaveRequest
<1>7. CASE t = <<"urls", "config", "lanes">>
  BY <1>7 DEF SaveRequest
<1>8. CASE t = <<"config", "lanes">>
  BY <1>8 DEF SaveRequest
<1>9. CASE t = <<"lanes">>
  BY <1>9 DEF SaveRequest
<1>10. CASE t = <<"secret", "config", "settings">>
  BY <1>10 DEF SaveRequest
<1>11. CASE t = <<"config", "settings">>
  BY <1>11 DEF SaveRequest
<1>12. CASE t = <<"settings">>
  BY <1>12 DEF SaveRequest
<1>13. CASE t = <<"config", "schedule">>
  BY <1>13 DEF SaveRequest
<1>14. CASE t = <<"schedule">>
  BY <1>14 DEF SaveRequest
<1>15. QED
  BY PlansAre, <1>1, <1>2, <1>3, <1>4, <1>5, <1>6, <1>7, <1>8, <1>9, <1>10, <1>11, <1>12, <1>13, <1>14

(* The save that is going on, and its parts. *)
LEMMA SubmitTyped ==
  ASSUME WizardShapes, submit # Nothing
  PROVE  /\ submit \in Submit /\ submit.draft \in Draft /\ submit.todo \in Plans(submit.step) /\ submit.step \in 1 .. 6
         /\ submit.draft.step = submit.step
         /\ submit.draft.about \in 0 .. MaxAnswers /\ submit.draft.hunt \in 0 .. MaxAnswers
BY DEF WizardShapes, WizardTypeOK, SaveShape, Submit, Draft

(* The request that comes next, where it is in the save of its step, and    *)
(* what is left after it.                                                  *)
LEMMA NextRequest ==
  ASSUME WizardShapes, NEW x, Doing(x)
  PROVE  /\ Tail(submit.todo) \in Plans(submit.step)
         /\ x = "create" => submit.step = 1 /\ submit.todo = <<"create">> /\ Tail(submit.todo) = <<>>
         /\ x = "guard" =>
              \/ submit.step = 3 /\ submit.todo = <<"guard", "resume", "filter">> /\ Tail(submit.todo) = <<"resume", "filter">>
              \/ submit.step = 4 /\ submit.todo = <<"guard", "urls", "config", "lanes">>
                 /\ Tail(submit.todo) = <<"urls", "config", "lanes">>
         /\ x = "resume" => submit.step = 3 /\ submit.todo = <<"resume", "filter">> /\ Tail(submit.todo) = <<"filter">>
         /\ x = "filter" => submit.step = 3 /\ submit.todo = <<"filter">> /\ Tail(submit.todo) = <<>>
         /\ x = "urls" => submit.step = 4 /\ submit.todo = <<"urls", "config", "lanes">> /\ Tail(submit.todo) = <<"config", "lanes">>
         /\ x = "config" =>
              \/ submit.step = 4 /\ submit.todo = <<"config", "lanes">> /\ Tail(submit.todo) = <<"lanes">>
              \/ submit.step = 5 /\ submit.todo = <<"config", "settings">> /\ Tail(submit.todo) = <<"settings">>
              \/ submit.step = 6 /\ submit.todo = <<"config", "schedule">> /\ Tail(submit.todo) = <<"schedule">>
         /\ x = "lanes" => submit.step = 4 /\ submit.todo = <<"lanes">> /\ Tail(submit.todo) = <<>>
         /\ x = "secret" => submit.step = 5 /\ submit.todo = <<"secret", "config", "settings">>
                            /\ Tail(submit.todo) = <<"config", "settings">>
         /\ x = "settings" => submit.step = 5 /\ submit.todo = <<"settings">> /\ Tail(submit.todo) = <<>>
         /\ x = "schedule" => submit.step = 6 /\ submit.todo = <<"schedule">> /\ Tail(submit.todo) = <<>>
<1>1. submit # Nothing /\ submit.todo # <<>> /\ Head(submit.todo) = x /\ submit.step \in 1 .. 6 /\ submit.todo \in Plans(submit.step)
  BY SubmitTyped DEF Doing
<1>2. CASE submit.step = 1
  <2>1. submit.todo \in {<<"create">>, <<>>}
    BY <1>1, <1>2, PlansAre
  <2>2. CASE submit.todo = <<"create">>
    <3>1. x = "create" /\ Tail(submit.todo) = <<>>
      BY <1>1, <2>2
    <3>2. Tail(submit.todo) \in Plans(submit.step)
      BY <1>2, <3>1, PlansAre
    <3>3. QED
      BY <1>2, <2>2, <3>1, <3>2
  <2>3. QED
    BY <1>1, <2>1, <2>2
<1>3. CASE submit.step = 2
  <2>1. submit.todo \in {<<>>}
    BY <1>1, <1>3, PlansAre
  <2>2. QED
    BY <1>1, <2>1
<1>4. CASE submit.step = 3
  <2>1. submit.todo \in {<<"guard", "resume", "filter">>, <<"resume", "filter">>, <<"filter">>, <<>>}
    BY <1>1, <1>4, PlansAre
  <2>2. CASE submit.todo = <<"guard", "resume", "filter">>
    <3>1. x = "guard" /\ Tail(submit.todo) = <<"resume", "filter">>
      BY <1>1, <2>2
    <3>2. Tail(submit.todo) \in Plans(submit.step)
      BY <1>4, <3>1, PlansAre
    <3>3. QED
      BY <1>4, <2>2, <3>1, <3>2
  <2>3. CASE submit.todo = <<"resume", "filter">>
    <3>1. x = "resume" /\ Tail(submit.todo) = <<"filter">>
      BY <1>1, <2>3
    <3>2. Tail(submit.todo) \in Plans(submit.step)
      BY <1>4, <3>1, PlansAre
    <3>3. QED
      BY <1>4, <2>3, <3>1, <3>2
  <2>4. CASE submit.todo = <<"filter">>
    <3>1. x = "filter" /\ Tail(submit.todo) = <<>>
      BY <1>1, <2>4
    <3>2. Tail(submit.todo) \in Plans(submit.step)
      BY <1>4, <3>1, PlansAre
    <3>3. QED
      BY <1>4, <2>4, <3>1, <3>2
  <2>5. QED
    BY <1>1, <2>1, <2>2, <2>3, <2>4
<1>5. CASE submit.step = 4
  <2>1. submit.todo \in {<<"guard", "urls", "config", "lanes">>, <<"urls", "config", "lanes">>, <<"config", "lanes">>, <<"lanes">>, <<>>}
    BY <1>1, <1>5, PlansAre
  <2>2. CASE submit.todo = <<"guard", "urls", "config", "lanes">>
    <3>1. x = "guard" /\ Tail(submit.todo) = <<"urls", "config", "lanes">>
      BY <1>1, <2>2
    <3>2. Tail(submit.todo) \in Plans(submit.step)
      BY <1>5, <3>1, PlansAre
    <3>3. QED
      BY <1>5, <2>2, <3>1, <3>2
  <2>3. CASE submit.todo = <<"urls", "config", "lanes">>
    <3>1. x = "urls" /\ Tail(submit.todo) = <<"config", "lanes">>
      BY <1>1, <2>3
    <3>2. Tail(submit.todo) \in Plans(submit.step)
      BY <1>5, <3>1, PlansAre
    <3>3. QED
      BY <1>5, <2>3, <3>1, <3>2
  <2>4. CASE submit.todo = <<"config", "lanes">>
    <3>1. x = "config" /\ Tail(submit.todo) = <<"lanes">>
      BY <1>1, <2>4
    <3>2. Tail(submit.todo) \in Plans(submit.step)
      BY <1>5, <3>1, PlansAre
    <3>3. QED
      BY <1>5, <2>4, <3>1, <3>2
  <2>5. CASE submit.todo = <<"lanes">>
    <3>1. x = "lanes" /\ Tail(submit.todo) = <<>>
      BY <1>1, <2>5
    <3>2. Tail(submit.todo) \in Plans(submit.step)
      BY <1>5, <3>1, PlansAre
    <3>3. QED
      BY <1>5, <2>5, <3>1, <3>2
  <2>6. QED
    BY <1>1, <2>1, <2>2, <2>3, <2>4, <2>5
<1>6. CASE submit.step = 5
  <2>1. submit.todo \in {<<"secret", "config", "settings">>, <<"config", "settings">>, <<"settings">>, <<>>}
    BY <1>1, <1>6, PlansAre
  <2>2. CASE submit.todo = <<"secret", "config", "settings">>
    <3>1. x = "secret" /\ Tail(submit.todo) = <<"config", "settings">>
      BY <1>1, <2>2
    <3>2. Tail(submit.todo) \in Plans(submit.step)
      BY <1>6, <3>1, PlansAre
    <3>3. QED
      BY <1>6, <2>2, <3>1, <3>2
  <2>3. CASE submit.todo = <<"config", "settings">>
    <3>1. x = "config" /\ Tail(submit.todo) = <<"settings">>
      BY <1>1, <2>3
    <3>2. Tail(submit.todo) \in Plans(submit.step)
      BY <1>6, <3>1, PlansAre
    <3>3. QED
      BY <1>6, <2>3, <3>1, <3>2
  <2>4. CASE submit.todo = <<"settings">>
    <3>1. x = "settings" /\ Tail(submit.todo) = <<>>
      BY <1>1, <2>4
    <3>2. Tail(submit.todo) \in Plans(submit.step)
      BY <1>6, <3>1, PlansAre
    <3>3. QED
      BY <1>6, <2>4, <3>1, <3>2
  <2>5. QED
    BY <1>1, <2>1, <2>2, <2>3, <2>4
<1>7. CASE submit.step = 6
  <2>1. submit.todo \in {<<"config", "schedule">>, <<"schedule">>, <<>>}
    BY <1>1, <1>7, PlansAre
  <2>2. CASE submit.todo = <<"config", "schedule">>
    <3>1. x = "config" /\ Tail(submit.todo) = <<"schedule">>
      BY <1>1, <2>2
    <3>2. Tail(submit.todo) \in Plans(submit.step)
      BY <1>7, <3>1, PlansAre
    <3>3. QED
      BY <1>7, <2>2, <3>1, <3>2
  <2>3. CASE submit.todo = <<"schedule">>
    <3>1. x = "schedule" /\ Tail(submit.todo) = <<>>
      BY <1>1, <2>3
    <3>2. Tail(submit.todo) \in Plans(submit.step)
      BY <1>7, <3>1, PlansAre
    <3>3. QED
      BY <1>7, <2>3, <3>1, <3>2
  <2>4. QED
    BY <1>1, <2>1, <2>2, <2>3
<1>8. QED
  BY <1>1, <1>2, <1>3, <1>4, <1>5, <1>6, <1>7

(* A request of a save is done: the save is the same but for what is left.  *)
Onward ==
  /\ submit # Nothing /\ submit' # Nothing /\ submit' \in Submit
  /\ submit'.step = submit.step /\ submit'.todo = Tail(submit.todo) /\ submit'.orphan = submit.orphan
  /\ submit'.draft.step = submit.draft.step /\ Same(submit'.draft, submit.draft)
  /\ submit'.todo \in Plans(submit'.step)

LEMMA DoneTyped ==
  ASSUME WizardShapes, NEW x, Doing(x), NEW d \in Draft, NEW c \in Config \cup {Nothing}, NEW w \in BOOLEAN,
         submit' = [Done(submit) EXCEPT !.draft = d, !.config = c, !.wrote = w],
         d.step = submit.draft.step, Same(d, submit.draft)
  PROVE  Onward /\ submit'.draft = d /\ submit'.config = c /\ submit'.wrote = w
<1>1. submit \in Submit /\ submit # Nothing /\ submit.step \in 1 .. 6
  BY SubmitTyped DEF Doing
<1>2. Tail(submit.todo) \in Plans(submit.step)
  BY NextRequest
<1>3. Tail(submit.todo) \in Seq(SaveRequest)
  BY <1>1, <1>2, PlansTyped
<1>4. submit' = [submit EXCEPT !.todo = Tail(submit.todo), !.draft = d, !.config = c, !.wrote = w]
  BY DEF Done
<1>5. submit' \in Submit
  BY <1>1, <1>3, <1>4 DEF Submit
<1>6. /\ submit'.step = submit.step /\ submit'.todo = Tail(submit.todo) /\ submit'.orphan = submit.orphan
      /\ submit'.draft = d /\ submit'.config = c /\ submit'.wrote = w
  BY <1>1, <1>4 DEF Submit
<1>7. submit' # Nothing
  BY <1>5, NothingApart
<1>8. QED
  BY <1>1, <1>2, <1>5, <1>6, <1>7 DEF Onward

LEMMA CreateDoes ==
  ASSUME WizardShapes, CreateProfile, submit.name \notin taken
  PROVE  /\ Onward /\ submit'.draft.profile = submit.name /\ submit.name \in Name
         /\ submit'.draft.written = submit.draft.written
         /\ submit'.config = submit.config /\ submit'.wrote = submit.wrote
         /\ taken' = taken \cup {submit.name} /\ docs' = [d \in Doc |-> 0]
<1>1. Doing("create") /\ submit' = [Done(submit) EXCEPT !.draft.profile = submit.name]
      /\ taken' = taken \cup {submit.name} /\ docs' = [d \in Doc |-> 0]
  BY DEF CreateProfile
<1>2. submit \in Submit /\ submit.draft \in Draft /\ submit.name \in Name
  BY <1>1, SubmitTyped DEF Doing, Submit
<1>3. PICK d : d = [submit.draft EXCEPT !.profile = submit.name]
  OBVIOUS
<1>4. d \in Draft /\ d.profile = submit.name /\ d.written = submit.draft.written /\ d.step = submit.draft.step
      /\ Same(d, submit.draft)
  BY <1>2, <1>3 DEF Draft, Same
<1>5. submit' = [Done(submit) EXCEPT !.draft = d, !.config = submit.config, !.wrote = submit.wrote]
  BY <1>1, <1>2, <1>3 DEF Done, Submit
<1>6. submit.config \in Config \cup {Nothing} /\ submit.wrote \in BOOLEAN
  BY <1>2 DEF Submit
<1>7. QED
  BY <1>1, <1>2, <1>4, <1>5, <1>6, DoneTyped

LEMMA TextTyped ==
  ASSUME WizardShapes, NEW d \in Doc, Doing(d)
  PROVE  TextOf(d) \in (0 .. Normal(MaxAnswers)) \ {Elsewhere}
<1>1. submit.draft.about \in 0 .. MaxAnswers /\ submit.draft.hunt \in 0 .. MaxAnswers
  BY SubmitTyped DEF Doing
<1>2. d = "urls" => submit.draft.hunt # 0
  BY NextRequest DEF WizardShapes, SaveShape, Doing
<1>3. QED
  BY <1>1, <1>2, AnswersBounded DEF TextOf, SentText, FilterText, ResumeText, UrlsText, Doc, Normal, Elsewhere

LEMMA PutDocDoes ==
  ASSUME WizardShapes, NEW d \in Doc, PutDoc(d)
  PROVE  /\ Onward /\ submit'.draft.profile = submit.draft.profile
         /\ submit'.draft.written = [submit.draft.written EXCEPT ![d] = TextOf(d)]
         /\ submit'.config = submit.config /\ submit'.wrote
         /\ docs' = [docs EXCEPT ![d] = TextOf(d)]
<1>1. Doing(d) /\ submit' = [Done(submit) EXCEPT !.draft.written[d] = TextOf(d), !.wrote = TRUE]
      /\ docs' = [docs EXCEPT ![d] = TextOf(d)]
  BY DEF PutDoc, Recorded
<1>2. submit \in Submit /\ submit.draft \in Draft
  BY <1>1, SubmitTyped DEF Doing
<1>3. PICK e : e = [submit.draft EXCEPT !.written = [submit.draft.written EXCEPT ![d] = TextOf(d)]]
  OBVIOUS
<1>4. [submit.draft.written EXCEPT ![d] = TextOf(d)] \in [Doc -> {Nothing} \cup ((0 .. Normal(MaxAnswers)) \ {Elsewhere})]
  BY <1>1, <1>2, TextTyped DEF Draft
<1>5. e \in Draft /\ e.profile = submit.draft.profile /\ e.step = submit.draft.step /\ Same(e, submit.draft)
      /\ e.written = [submit.draft.written EXCEPT ![d] = TextOf(d)]
  BY <1>2, <1>3, <1>4 DEF Draft, Same
<1>6. submit' = [Done(submit) EXCEPT !.draft = e, !.config = submit.config, !.wrote = TRUE]
  BY <1>1, <1>2, <1>3 DEF Done, Submit, Draft
<1>7. submit.config \in Config \cup {Nothing}
  BY <1>2 DEF Submit
<1>8. QED
  BY <1>1, <1>5, <1>6, <1>7, DoneTyped

LEMMA SecretDoes ==
  ASSUME WizardShapes, PutSecret
  PROVE  /\ Onward /\ submit'.draft.profile = submit.draft.profile
         /\ submit'.draft.written = submit.draft.written
         /\ submit'.config = submit.config /\ submit'.wrote = submit.wrote
<1>1. Doing("secret") /\ submit' = [Done(submit) EXCEPT !.draft.tokenSaved = TRUE]
  BY DEF PutSecret
<1>2. submit \in Submit /\ submit.draft \in Draft
  BY <1>1, SubmitTyped DEF Doing
<1>3. PICK d : d = [submit.draft EXCEPT !.tokenSaved = TRUE]
  OBVIOUS
<1>4. d \in Draft /\ d.profile = submit.draft.profile /\ d.written = submit.draft.written /\ d.step = submit.draft.step
      /\ Same(d, submit.draft)
  BY <1>2, <1>3 DEF Draft, Same
<1>5. submit' = [Done(submit) EXCEPT !.draft = d, !.config = submit.config, !.wrote = submit.wrote]
  BY <1>1, <1>2, <1>3 DEF Done, Submit
<1>6. submit.config \in Config \cup {Nothing} /\ submit.wrote \in BOOLEAN
  BY <1>2 DEF Submit
<1>7. QED
  BY <1>1, <1>4, <1>5, <1>6, DoneTyped

(* The other requests leave the draft as it is. *)
LEMMA PlainDoes ==
  ASSUME WizardShapes, NEW x, Doing(x), NEW c \in Config \cup {Nothing}, submit' = [Done(submit) EXCEPT !.config = c]
  PROVE  Onward /\ submit'.draft = submit.draft /\ submit'.config = c /\ submit'.wrote = submit.wrote
<1>1. submit \in Submit /\ submit.draft \in Draft
  BY SubmitTyped DEF Doing
<1>2. submit' = [Done(submit) EXCEPT !.draft = submit.draft, !.config = c, !.wrote = submit.wrote]
  BY <1>1 DEF Done, Submit
<1>3. submit.wrote \in BOOLEAN /\ Same(submit.draft, submit.draft)
  BY <1>1 DEF Submit, Same
<1>4. QED
  BY <1>1, <1>2, <1>3, DoneTyped

LEMMA DoneDoes ==
  ASSUME WizardShapes, NEW x, Doing(x), submit' = Done(submit)
  PROVE  Onward /\ submit'.draft = submit.draft /\ submit'.config = submit.config /\ submit'.wrote = submit.wrote
<1>1. submit \in Submit
  BY SubmitTyped DEF Doing
<1>2. submit.config \in Config \cup {Nothing} /\ submit' = [Done(submit) EXCEPT !.config = submit.config]
  BY <1>1 DEF Done, Submit
<1>3. QED
  BY <1>2, PlainDoes

(* The page's own steps. *)
LEMMA InitialTyped == InitialDraft \in Draft /\ InitialDraft.profile = Nothing /\ InitialDraft.step = 1
BY AnswersBounded DEF InitialDraft, Draft, Unwritten

LEMMA OpenShapes == ASSUME WizardShapes, OpenWizard PROVE WizardShapes'
BY DEF OpenWizard, WizardShapes, WizardTypeOK, SaveShape, PageShape

LEMMA RehydrateShapes == ASSUME WizardShapes, Rehydrate PROVE WizardShapes'
<1>1. answers' \in Draft /\ answers'.profile \in taken \cup {Nothing} /\ stored' \in Draft \cup {Nothing}
      /\ (stored' # Nothing => stored'.profile \in taken) /\ step' = answers'.step /\ step' \in 1 .. 6
      /\ (step' > 1 => answers'.profile # Nothing)
  <2>1. CASE stored # Nothing /\ stored.profile \in known
    <3>1. answers' = stored /\ stored' = stored /\ step' = stored.step
      BY <2>1 DEF Rehydrate
    <3>2. stored \in Draft /\ stored.profile \in taken /\ stored.profile # Nothing
      BY <2>1, NothingApart DEF WizardShapes, WizardTypeOK
    <3>3. QED
      BY <3>1, <3>2 DEF Draft
  <2>2. CASE ~(stored # Nothing /\ stored.profile \in known)
    <3>1. answers' = InitialDraft /\ stored' = Nothing /\ step' = InitialDraft.step
      BY <2>2 DEF Rehydrate
    <3>2. QED
      BY <3>1, InitialTyped
  <2>3. QED
    BY <2>1, <2>2
<1>2. typed' \in Answers
  BY <1>1 DEF Rehydrate, Answers, Draft
<1>3. WizardTypeOK'
  BY <1>1, <1>2 DEF Rehydrate, WizardShapes, WizardTypeOK
<1>4. SaveShape' /\ PageShape'
  BY <1>1 DEF Rehydrate, WizardShapes, SaveShape, PageShape
<1>5. QED
  BY <1>3, <1>4 DEF WizardShapes

LEMMA ReadShapes == ASSUME WizardShapes, ReadProfiles PROVE WizardShapes'
BY DEF ReadProfiles, WizardShapes, WizardTypeOK, SaveShape, PageShape

(* A save whose page is left is the same save. *)
LEMMA LeaveDoes ==
  ASSUME WizardShapes, Leave
  PROVE  /\ submit = Nothing => submit' = Nothing
         /\ submit # Nothing =>
              /\ submit' \in Submit /\ submit' # Nothing /\ submit'.orphan /\ submit'.draft = submit.draft
              /\ submit'.step = submit.step /\ submit'.todo = submit.todo /\ submit'.config = submit.config
              /\ submit'.wrote = submit.wrote
<1>1. CASE submit = Nothing
  BY <1>1 DEF Leave
<1>2. CASE submit # Nothing
  <2>1. submit \in Submit /\ submit' = [submit EXCEPT !.orphan = TRUE]
    BY <1>2, SubmitTyped DEF Leave
  <2>2. submit' \in Submit
    BY <2>1 DEF Submit
  <2>3. QED
    BY <1>2, <2>1, <2>2, NothingApart DEF Submit
<1>3. QED
  BY <1>1, <1>2

LEMMA LeaveShapes == ASSUME WizardShapes, Leave PROVE WizardShapes'
<1>1. page' = "off" /\ answers' = InitialDraft /\ step' = 1
      /\ UNCHANGED <<taken, known, docs, profileJson, secret, stored, blocked, typed, given>>
  BY DEF Leave
<1>2. WizardTypeOK' /\ PageShape'
  BY <1>1, LeaveDoes, InitialTyped DEF WizardShapes, WizardTypeOK, PageShape
<1>3. SaveShape'
  BY <1>1, LeaveDoes DEF WizardShapes, SaveShape
<1>4. QED
  BY <1>2, <1>3 DEF WizardShapes

LEMMA ReloadShapes == ASSUME WizardShapes, Reload PROVE WizardShapes'
BY InitialTyped DEF Reload, WizardShapes, WizardTypeOK, SaveShape, PageShape

(* A draft put by is one of a profile. *)
LEMMA DraftStored ==
  ASSUME WizardShapes, NEW d \in Draft, d.profile \in taken \cup {Nothing}
  PROVE  Written(d) \in Draft \cup {Nothing} /\ (Written(d) # Nothing => Written(d).profile \in taken)
         /\ (d.profile # Nothing => Written(d) = d)
BY DEF Written, WizardShapes, WizardTypeOK

LEMMA GiveDoes ==
  ASSUME WizardShapes, NEW f \in {"about", "hunt"}, NEW n \in 0 .. MaxAnswers, GiveAnswer(f, n)
  PROVE  /\ answers' \in Draft /\ answers'.profile = answers.profile /\ answers'.step = answers.step
         /\ answers'.written = answers.written
         /\ typed' \in Answers
         /\ Same(typed, answers) => Same(typed', answers')
         /\ answers'.profile # Nothing /\ stored' = answers'
         /\ page = "on" /\ page' = "on"
         /\ answers.step < 5 /\ (answers.step = 4 => answers'.about = answers.about)
<1>1. answers \in Draft /\ typed \in Answers /\ page = "on" /\ answers.step = step /\ step \in 1 .. 6
  BY DEF GiveAnswer, WizardShapes, WizardTypeOK, PageShape
<1>2. answers' = [answers EXCEPT ![f] = n] /\ typed' = [typed EXCEPT ![f] = n]
  BY DEF GiveAnswer
<1>3. answers' \in Draft /\ answers'.profile = answers.profile /\ answers'.step = answers.step
      /\ answers'.written = answers.written
  BY <1>1, <1>2 DEF Draft
<1>4. typed' \in Answers
  BY <1>1, <1>2 DEF Answers
<1>5. Same(typed, answers) => Same(typed', answers')
  BY <1>1, <1>2 DEF Same, Answers, Draft
<1>6. step > 1 /\ step < 5 /\ (step = 4 => f = "hunt")
  BY <1>1 DEF GiveAnswer
<1>7. answers.profile # Nothing
  BY <1>1, <1>6 DEF WizardShapes, PageShape
<1>8. stored' = answers' /\ page' = "on"
  BY <1>1, <1>3, <1>7 DEF GiveAnswer, Written
<1>9. step = 4 => answers'.about = answers.about
  BY <1>1, <1>2, <1>6 DEF Draft
<1>10. QED
  BY <1>1, <1>3, <1>4, <1>5, <1>6, <1>7, <1>8, <1>9

LEMMA GiveShapes ==
  ASSUME WizardShapes, NEW f \in {"about", "hunt"}, NEW n \in 0 .. MaxAnswers, GiveAnswer(f, n)
  PROVE  WizardShapes'
<1>1. UNCHANGED <<taken, known, docs, profileJson, page, step, submit, blocked>> /\ given < MaxAnswers /\ given' = given + 1
  BY DEF GiveAnswer
<1>2. WizardTypeOK'
  BY <1>1, GiveDoes DEF WizardShapes, WizardTypeOK, PageShape
<1>3. given' \in 0 .. MaxAnswers
  BY <1>1, AnswersBounded DEF WizardShapes, PageShape
<1>4. SaveShape' /\ PageShape'
  BY <1>1, <1>3, GiveDoes DEF WizardShapes, SaveShape, PageShape
<1>5. QED
  BY <1>2, <1>4 DEF WizardShapes

(* Another step is shown, back or on, of a profile that there is. *)
Turned(n) ==
  /\ page = "on" /\ answers.step = step /\ step' = n /\ n \in 1 .. 6
  /\ answers' \in Draft /\ answers'.profile = answers.profile /\ answers'.step = n
  /\ answers'.written = answers.written /\ Same(answers', answers)
  /\ answers'.profile # Nothing /\ stored' = answers' /\ blocked' = FALSE
  /\ UNCHANGED <<taken, known, docs, profileJson, page, submit, typed, given>>

LEMMA GoToDoes == ASSUME WizardShapes, NEW n \in 1 .. 6, GoTo(n), page = "on", step > 1 PROVE Turned(n)
<1>1. answers \in Draft /\ answers.step = step /\ answers.profile # Nothing
  BY DEF WizardShapes, WizardTypeOK, PageShape
<1>2. answers' = [answers EXCEPT !.step = n]
  BY DEF GoTo
<1>3. answers' \in Draft /\ answers'.profile = answers.profile /\ answers'.step = n
      /\ answers'.written = answers.written /\ Same(answers', answers)
  BY <1>1, <1>2 DEF Draft, Same
<1>4. stored' = answers'
  BY <1>1, <1>3 DEF GoTo, Written
<1>5. QED
  BY <1>1, <1>3, <1>4 DEF GoTo, Turned

LEMMA TurnedShapes == ASSUME WizardShapes, NEW n \in 1 .. 6, Turned(n) PROVE WizardShapes'
BY DEF Turned, WizardShapes, WizardTypeOK, SaveShape, PageShape

(* Back turns to the step before, Skip from the fifth to the sixth. *)
LEMMA BackDoes == ASSUME WizardShapes, Back PROVE step \in 2 .. 6 /\ step - 1 \in 1 .. 6 /\ Turned(step - 1)
<1>1. step \in 2 .. 6 /\ step - 1 \in 1 .. 6 /\ page = "on" /\ GoTo(step - 1)
  BY DEF Back, WizardShapes, WizardTypeOK
<1>2. QED
  BY <1>1, GoToDoes

LEMMA SkipDoes == ASSUME WizardShapes, Skip PROVE step = 5 /\ Turned(6)
BY GoToDoes DEF Skip

(* Next takes the draft of the page, with the requests of its step. *)
LEMMA PressDoes ==
  ASSUME WizardShapes, NEW name \in Name, PressNext(name)
  PROVE  /\ page = "on" /\ submit = Nothing /\ submit' # Nothing /\ submit' \in Submit
         /\ submit'.step = step /\ submit'.draft = answers /\ answers.step = step /\ answers \in Draft
         /\ submit'.todo = Requests(answers) /\ Requests(answers) \in Plans(step)
         /\ submit'.todo \notin {<<"resume", "filter">>, <<"filter">>, <<"urls", "config", "lanes">>,
                                 <<"lanes">>, <<"settings">>, <<"schedule">>}
         /\ (submit'.todo = <<>> => step \in {1, 2})
         /\ (step = 4 /\ answers.hunt # 0 => submit'.todo = <<"guard", "urls", "config", "lanes">>)
         /\ (answers.profile = Nothing <=> submit'.todo = <<"create">>)
         /\ submit'.wrote = FALSE /\ submit'.orphan = FALSE
         /\ (submit'.todo \in {<<"guard", "urls", "config", "lanes">>, <<"urls", "config", "lanes">>} => answers.hunt # 0)
<1>1. page = "on" /\ submit = Nothing /\ answers \in Draft /\ step \in 1 .. 6 /\ answers.step = step
      /\ (step > 1 => answers.profile # Nothing)
  BY DEF PressNext, WizardShapes, WizardTypeOK, PageShape
<1>2. PICK t : t = Requests(answers)
  OBVIOUS
<1>3. submit' = [step |-> step, draft |-> answers, name |-> name, todo |-> t,
                 config |-> Nothing, wrote |-> FALSE, orphan |-> FALSE]
  BY <1>2 DEF PressNext
<1>4. /\ step = 1 => t = IF answers.profile = Nothing THEN <<"create">> ELSE <<>>
      /\ step = 2 => t = <<>>
      /\ step = 3 => t = <<"guard", "resume", "filter">>
      /\ step = 4 => t = IF answers.hunt = 0 THEN <<"config", "lanes">> ELSE <<"guard", "urls", "config", "lanes">>
      /\ step = 5 => t = <<"secret", "config", "settings">>
      /\ step = 6 => t = <<"config", "schedule">>
  BY <1>2 DEF Requests
<1>5. /\ t \in Plans(step)
      /\ t \notin {<<"resume", "filter">>, <<"filter">>, <<"urls", "config", "lanes">>, <<"lanes">>, <<"settings">>, <<"schedule">>}
      /\ (t = <<>> => step \in {1, 2})
      /\ (step = 4 /\ answers.hunt # 0 => t = <<"guard", "urls", "config", "lanes">>)
      /\ (answers.profile = Nothing <=> t = <<"create">>)
      /\ (t \in {<<"guard", "urls", "config", "lanes">>, <<"urls", "config", "lanes">>} => answers.hunt # 0)
  <2>1. CASE step = 1
    <3>1. Plans(step) = {<<"create">>, <<>>}
      BY <2>1, PlansAre
    <3>2. CASE answers.profile = Nothing
      BY <1>4, <2>1, <3>1, <3>2
    <3>3. CASE answers.profile # Nothing
      BY <1>4, <2>1, <3>1, <3>3
    <3>4. QED
      BY <3>2, <3>3
  <2>2. CASE step = 2
    BY <1>1, <1>4, <2>2, PlansAre
  <2>3. CASE step = 3
    BY <1>1, <1>4, <2>3, PlansAre
  <2>4. CASE step = 4
    <3>1. CASE answers.hunt = 0
      BY <1>1, <1>4, <2>4, <3>1, PlansAre
    <3>2. CASE answers.hunt # 0
      <4>1. t = <<"guard", "urls", "config", "lanes">>
        BY <1>4, <2>4, <3>2
      <4>2. t \in Plans(step)
        BY <2>4, <4>1, PlansAre
      <4>3. t \notin {<<"create">>, <<>>} /\ t \notin {<<"resume", "filter">>, <<"filter">>, <<"urls", "config", "lanes">>}
        BY <4>1
      <4>4. t \notin {<<"lanes">>, <<"settings">>, <<"schedule">>}
        BY <4>1
      <4>5. QED
        BY <1>1, <2>4, <3>2, <4>1, <4>2, <4>3, <4>4
    <3>3. QED
      BY <3>1, <3>2
  <2>5. CASE step = 5
    BY <1>1, <1>4, <2>5, PlansAre
  <2>6. CASE step = 6
    BY <1>1, <1>4, <2>6, PlansAre
  <2>7. QED
    BY <1>1, <2>1, <2>2, <2>3, <2>4, <2>5, <2>6
<1>6. submit' \in Submit
  <2>1. t \in Seq(SaveRequest)
    BY <1>1, <1>5, PlansTyped
  <2>2. QED
    BY <1>1, <1>3, <2>1 DEF Submit
<1>7. submit' # Nothing
  BY <1>6, NothingApart
<1>8. /\ submit'.step = step /\ submit'.draft = answers /\ submit'.todo = t
      /\ submit'.wrote = FALSE /\ submit'.orphan = FALSE
  BY <1>3
<1>9. QED
  BY <1>1, <1>2, <1>5, <1>6, <1>7, <1>8

LEMMA PressShapes == ASSUME WizardShapes, NEW name \in Name, PressNext(name) PROVE WizardShapes'
<1>1. UNCHANGED <<taken, known, docs, profileJson, secret, page, step, answers, stored, typed, given>> /\ blocked' = FALSE
  BY DEF PressNext
<1>2. WizardTypeOK'
  BY <1>1, PressDoes DEF WizardShapes, WizardTypeOK
<1>3. PageShape'
  BY <1>1, PressDoes DEF WizardShapes, PageShape
<1>4. SaveShape'
  BY <1>1, PressDoes DEF WizardShapes, SaveShape, PageShape
<1>5. QED
  BY <1>2, <1>3, <1>4 DEF WizardShapes

(* What a refused or a finished save leaves.  *)
LEMMA EndedShapes ==
  ASSUME WizardShapes, submit' = Nothing, blocked' \in BOOLEAN,
         UNCHANGED <<taken, known, docs, profileJson, page, step, answers, stored, typed, given>>
  PROVE  WizardShapes'
BY DEF WizardShapes, WizardTypeOK, SaveShape, PageShape

(* A request that leaves the page alone. *)
LEMMA OnwardShapes ==
  ASSUME WizardShapes, Onward, submit'.draft.profile = submit.draft.profile,
         submit.draft.profile # Nothing, submit.todo # <<"create">>,
         docs' \in [Doc -> 0 .. Normal(MaxAnswers)], profileJson' \in Config,
         submit'.wrote => \/ submit'.step = 3 /\ submit'.todo \in {<<"filter">>, <<>>}
                          \/ submit'.step = 4 /\ submit'.todo \in LanesPlans,
         submit'.todo \in {<<"lanes">>, <<"settings">>, <<"schedule">>} => submit'.config = profileJson',
         submit'.todo \notin {<<"create">>, <<"guard", "urls", "config", "lanes">>},
         submit'.todo = <<"urls", "config", "lanes">> => submit.draft.hunt # 0,
         UNCHANGED <<taken, known, page, step, answers, stored, typed, given, blocked>>
  PROVE  WizardShapes'
<1>1. WizardTypeOK'
  BY DEF WizardShapes, WizardTypeOK, Onward
<1>2. PageShape'
  BY DEF WizardShapes, PageShape, Onward
<1>3. submit'.draft.hunt = submit.draft.hunt
  BY DEF Onward, Same
<1>4. SaveShape'
  BY <1>3 DEF WizardShapes, SaveShape, Onward
<1>5. QED
  BY <1>1, <1>2, <1>4 DEF WizardShapes

LEMMA CreateShapes == ASSUME WizardShapes, CreateProfile PROVE WizardShapes'
<1>1. CASE submit.name \in taken
  <2>1. submit' = Nothing /\ UNCHANGED <<taken, known, docs, profileJson, page, step, answers, stored, typed, given, blocked>>
    BY <1>1 DEF CreateProfile, Refused
  <2>2. QED
    BY <2>1, EndedShapes DEF WizardShapes, WizardTypeOK
<1>2. CASE submit.name \notin taken
  <2>1. Doing("create") /\ profileJson' = [lanes |-> FALSE, settings |-> FALSE, schedule |-> FALSE]
        /\ UNCHANGED <<known, page, step, answers, stored, blocked, typed, given>>
    BY <1>2 DEF CreateProfile
  <2>2. /\ Onward /\ submit'.draft.profile = submit.name /\ submit.name \in Name
        /\ submit'.wrote = submit.wrote /\ taken' = taken \cup {submit.name} /\ docs' = [d \in Doc |-> 0]
    BY <1>2, CreateDoes
  <2>3. submit.step = 1 /\ submit'.todo = <<>>
    BY <2>1, <2>2, NextRequest DEF Onward
  <2>4. WizardTypeOK'
    BY <2>1, <2>2, AnswersBounded DEF WizardShapes, WizardTypeOK, Onward, Config, Normal, Elsewhere
  <2>5. PageShape'
    BY <2>1, <2>2 DEF WizardShapes, PageShape, Onward
  <2>6. submit.name # Nothing
    BY <2>2, NothingApart
  <2>7. ~submit'.wrote
    BY <2>2, <2>3 DEF WizardShapes, SaveShape, Onward
  <2>8. ~submit'.orphan => page' = "on" /\ (submit'.step > 1 => answers'.profile # Nothing)
    BY <2>1, <2>2 DEF WizardShapes, SaveShape, Onward
  <2>9. submit'.draft.step = submit'.step
    BY <2>2 DEF WizardShapes, SaveShape, Onward
  <2>10. /\ submit'.todo # <<"create">>
         /\ submit'.todo \notin {<<"guard", "urls", "config", "lanes">>, <<"urls", "config", "lanes">>}
         /\ submit'.todo \notin {<<"lanes">>, <<"settings">>, <<"schedule">>}
    BY <2>3
  <2>11. submit'.todo \in Plans(submit'.step)
    BY <2>2 DEF Onward
  <2>12. SaveShape'
    BY <2>2, <2>6, <2>7, <2>8, <2>9, <2>10, <2>11 DEF SaveShape
  <2>13. QED
    BY <2>4, <2>5, <2>12 DEF WizardShapes
<1>3. QED
  BY <1>1, <1>2

(* Past the first step there is a profile. *)
LEMMA SavedProfile ==
  ASSUME WizardShapes, submit # Nothing, submit.step # 1
  PROVE  submit.draft.profile # Nothing /\ submit.todo # <<"create">>
<1>1. CASE submit.todo = <<"create">>
  <2>1. submit.todo # <<>> /\ Head(submit.todo) = "create"
    BY <1>1
  <2>2. Doing("create")
    BY <2>1 DEF Doing
  <2>3. QED
    BY <2>2, NextRequest
<1>2. CASE submit.todo # <<"create">>
  BY <1>2 DEF WizardShapes, SaveShape
<1>3. QED
  BY <1>1, <1>2

LEMMA GuardDoes ==
  ASSUME WizardShapes, Guard, submit' # Nothing
  PROVE  /\ Onward /\ submit'.draft = submit.draft /\ submit'.config = submit.config /\ submit'.wrote = submit.wrote
         /\ Doing("guard") /\ UNCHANGED <<docs, profileJson, page, step, answers, stored, typed, given, blocked, taken, known>>
         /\ \A d \in Doc : (\E i \in DOMAIN submit.todo : submit.todo[i] = d) => ~Existing(d)
<1>1. Doing("guard") /\ submit' = Done(submit)
      /\ UNCHANGED <<docs, profileJson, page, step, answers, stored, typed, given, blocked, taken, known>>
      /\ \A d \in Doc : (\E i \in DOMAIN submit.todo : submit.todo[i] = d) => ~Existing(d)
  BY DEF Guard, Refused
<1>2. QED
  BY <1>1, DoneDoes

LEMMA GuardShapes == ASSUME WizardShapes, Guard PROVE WizardShapes'
<1>1. CASE submit' = Nothing
  BY <1>1, EndedShapes DEF Guard, WizardShapes, WizardTypeOK
<1>2. CASE submit' # Nothing
  <2>1. /\ Onward /\ submit'.draft = submit.draft /\ submit'.config = submit.config /\ submit'.wrote = submit.wrote
        /\ Doing("guard") /\ UNCHANGED <<docs, profileJson, page, step, answers, stored, typed, given, blocked, taken, known>>
    BY <1>2, GuardDoes
  <2>2. \/ submit.step = 3 /\ submit.todo = <<"guard", "resume", "filter">> /\ submit'.todo = <<"resume", "filter">>
        \/ submit.step = 4 /\ submit.todo = <<"guard", "urls", "config", "lanes">> /\ submit'.todo = <<"urls", "config", "lanes">>
    BY <2>1, NextRequest DEF Onward
  <2>3. submit.draft.profile # Nothing /\ submit.todo # <<"create">>
    BY <2>1, <2>2, SavedProfile DEF Onward
  <2>4. submit.todo = <<"guard", "urls", "config", "lanes">> => submit.draft.hunt # 0
    BY <2>1 DEF WizardShapes, SaveShape, Onward
  <2>5. ~submit'.wrote
    <3>1. submit.todo \notin {<<"filter">>, <<>>} /\ submit.todo \notin LanesPlans
      <4>1. CASE submit.todo = <<"guard", "resume", "filter">>
        BY <4>1 DEF LanesPlans
      <4>2. CASE submit.todo = <<"guard", "urls", "config", "lanes">>
        BY <4>2 DEF LanesPlans
      <4>3. QED
        BY <2>2, <4>1, <4>2
    <3>2. QED
      BY <2>1, <3>1 DEF WizardShapes, SaveShape, Onward
  <2>6. QED
    BY <2>1, <2>2, <2>3, <2>4, <2>5, OnwardShapes DEF WizardShapes, WizardTypeOK
<1>3. QED
  BY <1>1, <1>2

LEMMA PutShapes == ASSUME WizardShapes, NEW d \in Doc, PutDoc(d) PROVE WizardShapes'
<1>1. Doing(d) /\ UNCHANGED <<taken, known, profileJson, page, step, answers, stored, blocked, typed, given>>
  BY DEF PutDoc
<1>2. /\ Onward /\ submit'.draft.profile = submit.draft.profile /\ submit'.wrote
      /\ docs' = [docs EXCEPT ![d] = TextOf(d)] /\ TextOf(d) \in 0 .. Normal(MaxAnswers)
  BY <1>1, PutDocDoes, TextTyped
<1>3. \/ submit.step = 3 /\ submit'.todo = <<"filter">>
      \/ submit.step = 3 /\ submit'.todo = <<>>
      \/ submit.step = 4 /\ submit'.todo = <<"config", "lanes">>
  BY <1>1, <1>2, NextRequest DEF Onward, Doc
<1>4. submit.draft.profile # Nothing /\ submit.todo # <<"create">>
  BY <1>2, <1>3, SavedProfile DEF Onward
<1>5. docs' \in [Doc -> 0 .. Normal(MaxAnswers)] /\ profileJson' \in Config
  BY <1>1, <1>2 DEF WizardShapes, WizardTypeOK
<1>6. submit'.todo \notin {<<"lanes">>, <<"settings">>, <<"schedule">>}
      /\ submit'.todo \notin {<<"create">>, <<"guard", "urls", "config", "lanes">>, <<"urls", "config", "lanes">>}
  <2>1. CASE submit'.todo = <<"filter">>
    BY <2>1
  <2>2. CASE submit'.todo = <<>>
    BY <2>2
  <2>3. CASE submit'.todo = <<"config", "lanes">>
    BY <2>3
  <2>4. QED
    BY <1>3, <2>1, <2>2, <2>3
<1>7. \/ submit'.step = 3 /\ submit'.todo \in {<<"filter">>, <<>>}
      \/ submit'.step = 4 /\ submit'.todo \in LanesPlans
  BY <1>2, <1>3 DEF Onward, LanesPlans
<1>8. QED
  BY <1>1, <1>2, <1>4, <1>5, <1>6, <1>7, OnwardShapes

LEMMA SecretShapes == ASSUME WizardShapes, PutSecret PROVE WizardShapes'
<1>1. Doing("secret") /\ UNCHANGED <<taken, known, docs, profileJson, page, step, answers, stored, blocked, typed, given>>
  BY DEF PutSecret
<1>2. /\ Onward /\ submit'.draft.profile = submit.draft.profile /\ submit'.wrote = submit.wrote
  BY SecretDoes
<1>3. submit.step = 5 /\ submit'.todo = <<"config", "settings">>
  BY <1>1, <1>2, NextRequest DEF Onward
<1>4. submit.draft.profile # Nothing /\ submit.todo # <<"create">>
  BY <1>2, <1>3, SavedProfile DEF Onward
<1>5. ~submit.wrote
  BY <1>2, <1>3 DEF WizardShapes, SaveShape, Onward
<1>6. QED
  BY <1>1, <1>2, <1>3, <1>4, <1>5, OnwardShapes DEF WizardShapes, WizardTypeOK

LEMMA ReadConfigDoes ==
  ASSUME WizardShapes, ReadConfig
  PROVE  Onward /\ submit'.draft = submit.draft /\ submit'.config = profileJson /\ submit'.wrote = submit.wrote /\ Doing("config")
<1>1. Doing("config") /\ submit' = [Done(submit) EXCEPT !.config = profileJson] /\ profileJson \in Config \cup {Nothing}
  BY DEF ReadConfig, WizardShapes, WizardTypeOK
<1>2. QED
  BY <1>1, PlainDoes

LEMMA ReadConfigShapes == ASSUME WizardShapes, ReadConfig PROVE WizardShapes'
<1>1. UNCHANGED <<taken, known, docs, profileJson, page, step, answers, stored, blocked, typed, given>>
  BY DEF ReadConfig
<1>2. Onward /\ submit'.draft = submit.draft /\ submit'.config = profileJson /\ submit'.wrote = submit.wrote /\ Doing("config")
  BY ReadConfigDoes
<1>3. \/ submit.step = 4 /\ submit'.todo = <<"lanes">>
      \/ submit.step = 5 /\ submit'.todo = <<"settings">>
      \/ submit.step = 6 /\ submit'.todo = <<"schedule">>
  BY <1>2, NextRequest DEF Onward
<1>4. submit.draft.profile # Nothing /\ submit.todo # <<"create">>
  BY <1>2, <1>3, SavedProfile DEF Onward
<1>5. submit'.wrote => submit'.step = 4 /\ submit'.todo \in LanesPlans
  BY <1>2, <1>3 DEF WizardShapes, SaveShape, Onward, LanesPlans
<1>6. QED
  BY <1>1, <1>2, <1>3, <1>4, <1>5, OnwardShapes DEF WizardShapes, WizardTypeOK

(* The document put back is the one that is there, with the slice of the    *)
(* step in it.                                                             *)
LEMMA PutConfigDoes ==
  ASSUME WizardShapes, NEW slice \in {"lanes", "settings", "schedule"}, PutConfig(slice)
  PROVE  /\ Onward /\ submit'.draft = submit.draft /\ submit'.wrote = submit.wrote /\ submit'.todo = <<>>
         /\ submit.todo = <<slice>>
         /\ profileJson' \in Config
         /\ slice = "lanes" => submit.step = 4 /\ profileJson'.lanes = (submit.draft.hunt # 0)
         /\ slice # "lanes" => submit.step # 4 /\ submit.step # 3 /\ profileJson'.lanes = profileJson.lanes
         /\ slice = "settings" <=> submit.step = 5
         /\ slice = "schedule" => submit.step = 6 /\ profileJson'.schedule
<1>1. Doing(slice) /\ submit' = Done(submit)
  BY DEF PutConfig
<1>2. profileJson' = [submit.config EXCEPT ![slice] = IF slice = "lanes" THEN submit.draft.hunt # 0 ELSE TRUE]
  BY DEF PutConfig, Patched
<1>3. Onward /\ submit'.draft = submit.draft /\ submit'.wrote = submit.wrote
  BY <1>1, DoneDoes
<1>4. /\ submit.todo = <<slice>> /\ submit'.todo = <<>>
      /\ slice = "lanes" => submit.step = 4
      /\ slice = "settings" => submit.step = 5
      /\ slice = "schedule" => submit.step = 6
  BY <1>1, <1>3, NextRequest DEF Onward
<1>5. submit.config = profileJson /\ profileJson \in Config
  BY <1>3, <1>4 DEF WizardShapes, WizardTypeOK, SaveShape, Onward
<1>6. profileJson' \in Config /\ profileJson'[slice] = (IF slice = "lanes" THEN submit.draft.hunt # 0 ELSE TRUE)
      /\ (slice # "lanes" => profileJson'.lanes = profileJson.lanes)
  BY <1>2, <1>5 DEF Config
<1>7. /\ slice = "lanes" => submit.step = 4 /\ profileJson'.lanes = (submit.draft.hunt # 0)
      /\ slice # "lanes" => submit.step # 4 /\ submit.step # 3 /\ profileJson'.lanes = profileJson.lanes
      /\ slice = "schedule" => submit.step = 6 /\ profileJson'.schedule
  <2>1. CASE slice = "lanes"
    BY <1>4, <1>6, <2>1
  <2>2. CASE slice = "settings"
    BY <1>4, <1>6, <2>2
  <2>3. CASE slice = "schedule"
    <3>1. profileJson' = [submit.config EXCEPT !.schedule = TRUE]
      BY <1>2, <2>3
    <3>2. profileJson'.schedule
      BY <1>5, <3>1 DEF Config
    <3>3. QED
      BY <1>4, <1>6, <2>3, <3>2
  <2>4. QED
    BY <2>1, <2>2, <2>3
<1>8. slice = "settings" <=> submit.step = 5
  BY <1>4
<1>9. QED
  BY <1>3, <1>4, <1>6, <1>7, <1>8

LEMMA PutConfigShapes ==
  ASSUME WizardShapes, NEW slice \in {"lanes", "settings", "schedule"}, PutConfig(slice) PROVE WizardShapes'
<1>1. UNCHANGED <<taken, known, docs, page, step, answers, stored, blocked, typed, given>>
  BY DEF PutConfig
<1>2. Onward /\ submit'.draft = submit.draft /\ submit'.wrote = submit.wrote /\ submit'.todo = <<>>
      /\ submit.todo = <<slice>> /\ profileJson' \in Config /\ submit.step # 1
      /\ (submit.wrote => slice = "lanes" /\ submit.step = 4)
  <2>1. Onward /\ submit'.draft = submit.draft /\ submit'.wrote = submit.wrote /\ submit'.todo = <<>>
        /\ submit.todo = <<slice>> /\ profileJson' \in Config /\ submit.step # 1 /\ submit.step # 3
        /\ (slice = "lanes" <=> submit.step = 4)
    BY PutConfigDoes
  <2>2. submit.wrote => slice = "lanes" /\ submit.step = 4
    BY <2>1 DEF WizardShapes, SaveShape, Onward
  <2>3. QED
    BY <2>1, <2>2
<1>3. submit.draft.profile # Nothing /\ submit.todo # <<"create">>
  BY <1>2, SavedProfile DEF Onward
<1>4. QED
  BY <1>1, <1>2, <1>3, OnwardShapes DEF Onward, LanesPlans, WizardShapes, WizardTypeOK

(* A save that is through takes the page one step on, or leaves it where it *)
(* is when that is the last.                                               *)
LEMMA CompleteDoes ==
  ASSUME WizardShapes, Complete
  PROVE  /\ submit # Nothing /\ submit.todo = <<>> /\ submit.step # 6 /\ ~submit.orphan /\ page = "on" /\ submit' = Nothing
         /\ blocked' = FALSE
         /\ SavedDraft \in Draft /\ SavedDraft.profile \in taken /\ (submit.step # 2 => SavedDraft = submit.draft) /\ (submit.step = 2 => SavedDraft = answers)
         /\ answers' \in Draft /\ answers'.profile = SavedDraft.profile /\ Same(answers', SavedDraft) /\ answers'.written = SavedDraft.written
         /\ answers'.step = (IF step = 6 THEN SavedDraft.step ELSE step + 1)
         /\ step' = answers'.step /\ stored' = answers'
<1>1. submit # Nothing /\ submit.todo = <<>> /\ submit.step # 6 /\ ~submit.orphan /\ submit' = Nothing
  BY DEF Complete
<1>2. page = "on" /\ submit.step \in 1 .. 6 /\ submit.draft \in Draft /\ answers \in Draft /\ step \in 1 .. 6
  BY <1>1, SubmitTyped DEF WizardShapes, WizardTypeOK, SaveShape
<1>3. submit.step > 1 => answers.profile \in taken
  BY <1>1, <1>2 DEF WizardShapes, SaveShape, PageShape
<1>4. submit.draft.profile \in taken
  <2>1. submit.todo # <<"create">>
    BY <1>1
  <2>2. QED
    BY <1>1, <2>1 DEF WizardShapes, SaveShape
<1>5. SavedDraft \in Draft /\ SavedDraft.profile \in taken /\ (submit.step # 2 => SavedDraft = submit.draft) /\ (submit.step = 2 => SavedDraft = answers)
  BY <1>1, <1>2, <1>3, <1>4 DEF SavedDraft
<1>6. SavedDraft.profile # Nothing
  BY <1>5, NothingApart DEF WizardShapes, WizardTypeOK
<1>7. PICK s : s = SavedDraft
  OBVIOUS
<1>8. CASE step = 6
  <2>1. answers' = s /\ step' = s.step /\ stored' = s
    BY <1>6, <1>7, <1>8 DEF Complete, Advanced, Written
  <2>2. QED
    BY <1>1, <1>2, <1>5, <1>7, <1>8, <2>1 DEF Complete, Same
<1>9. CASE step # 6
  <2>1. answers' = [s EXCEPT !.step = step + 1] /\ step' = answers'.step /\ stored' = Written(answers')
    BY <1>7, <1>9 DEF Complete, Advanced
  <2>2. step + 1 \in 1 .. 6
    BY <1>2, <1>9
  <2>3. answers' \in Draft /\ answers'.profile = s.profile /\ Same(answers', s) /\ answers'.written = s.written
        /\ answers'.step = step + 1
    BY <1>5, <1>7, <2>1, <2>2 DEF Draft, Same
  <2>4. stored' = answers'
    BY <1>6, <1>7, <2>1, <2>3 DEF Written
  <2>5. QED
    BY <1>1, <1>2, <1>5, <1>7, <1>9, <2>1, <2>3, <2>4 DEF Complete
<1>10. QED
  BY <1>8, <1>9

LEMMA CompleteShapes == ASSUME WizardShapes, Complete PROVE WizardShapes'
<1>1. UNCHANGED <<taken, known, docs, profileJson, page, typed, given>>
  BY DEF Complete
<1>2. /\ submit' = Nothing /\ blocked' = FALSE /\ answers' \in Draft /\ answers'.profile \in taken /\ step' = answers'.step
      /\ stored' = answers'
  BY CompleteDoes
<1>3. answers'.profile # Nothing /\ step' \in 1 .. 6
  BY <1>2, NothingApart DEF WizardShapes, WizardTypeOK, Draft
<1>4. QED
  BY <1>1, <1>2, <1>3 DEF WizardShapes, WizardTypeOK, SaveShape, PageShape

LEMMA AloneDoes ==
  ASSUME WizardShapes, CompleteAlone
  PROVE  /\ submit # Nothing /\ submit.todo = <<>> /\ submit.step # 6 /\ submit.orphan /\ submit' = Nothing
         /\ submit.draft \in Draft /\ submit.draft.profile \in taken /\ submit.draft.profile # Nothing
         /\ stored' = (IF submit.step = 2 THEN stored ELSE submit.draft)
<1>1. submit # Nothing /\ submit.todo = <<>> /\ submit.step # 6 /\ submit.orphan /\ submit' = Nothing
  BY DEF CompleteAlone
<1>2. submit.todo # <<"create">>
  BY <1>1
<1>3. submit.draft \in Draft /\ submit.draft.profile \in taken /\ submit.draft.profile # Nothing
  BY <1>1, <1>2, SubmitTyped DEF WizardShapes, SaveShape
<1>4. QED
  BY <1>1, <1>3 DEF CompleteAlone, Written

LEMMA AloneShapes == ASSUME WizardShapes, CompleteAlone PROVE WizardShapes'
<1>1. UNCHANGED <<taken, known, docs, profileJson, page, step, answers, blocked, typed, given>>
  BY DEF CompleteAlone
<1>2. QED
  BY <1>1, AloneDoes DEF WizardShapes, WizardTypeOK, SaveShape, PageShape

LEMMA LaunchDoes ==
  ASSUME WizardShapes, Launch
  PROVE  /\ submit # Nothing /\ submit.todo = <<>> /\ submit.step = 6 /\ submit' = Nothing /\ page' = "done"
         /\ submit.orphan \/ (page = "on" /\ answers.step = step /\ answers.profile # Nothing)
         /\ \/ stored' = Nothing
            \/ /\ ~submit.orphan /\ step # 6 /\ stored' \in Draft /\ stored'.profile \in taken
               /\ Same(stored', answers) /\ stored'.written = answers.written /\ stored'.profile = answers.profile
<1>1. submit # Nothing /\ submit.todo = <<>> /\ submit.step = 6 /\ submit' = Nothing /\ page' = "done"
  BY DEF Launch
<1>2. ~submit.orphan => page = "on" /\ answers.step = step /\ answers.profile # Nothing
  BY <1>1 DEF WizardShapes, SaveShape, PageShape
<1>3. CASE submit.orphan \/ step = 6
  BY <1>1, <1>2, <1>3 DEF Launch, Advanced
<1>4. CASE ~submit.orphan /\ step # 6
  <2>1. stored' = Written([answers EXCEPT !.step = step + 1])
    BY <1>4 DEF Launch, Advanced
  <2>2. PICK d : d = [answers EXCEPT !.step = step + 1]
    OBVIOUS
  <2>3. step + 1 \in 1 .. 6 /\ answers \in Draft
    BY <1>4 DEF WizardShapes, WizardTypeOK
  <2>4. d \in Draft /\ d.profile = answers.profile /\ Same(d, answers) /\ d.written = answers.written
    BY <2>2, <2>3 DEF Draft, Same
  <2>5. d.profile # Nothing /\ d.profile \in taken
    BY <1>2, <1>4, <2>4 DEF WizardShapes, PageShape
  <2>6. stored' = d
    BY <2>1, <2>2, <2>5 DEF Written
  <2>7. QED
    BY <1>1, <1>2, <1>4, <2>4, <2>5, <2>6
<1>5. QED
  BY <1>3, <1>4

LEMMA LaunchShapes == ASSUME WizardShapes, Launch PROVE WizardShapes'
<1>1. UNCHANGED <<taken, known, docs, profileJson, step, answers, blocked, typed, given>>
  BY DEF Launch
<1>2. QED
  BY <1>1, LaunchDoes DEF WizardShapes, WizardTypeOK, SaveShape, PageShape

LEMMA FailsShapes == ASSUME WizardShapes, RequestFails PROVE WizardShapes'
<1>1. submit' = Nothing /\ UNCHANGED <<taken, known, docs, profileJson, page, step, answers, stored, blocked, typed, given>>
  BY DEF RequestFails, Refused
<1>2. QED
  BY <1>1, EndedShapes DEF WizardShapes, WizardTypeOK

LEMMA ElsewhereShapes == ASSUME WizardShapes, NEW d \in Doc, WriteElsewhere(d) PROVE WizardShapes'
<1>1. docs' = [docs EXCEPT ![d] = Elsewhere] /\ UNCHANGED <<taken, known, profileJson, page, step, answers, stored, blocked, submit, typed, given>>
  BY DEF WriteElsewhere
<1>2. Elsewhere \in 0 .. Normal(MaxAnswers)
  BY AnswersBounded DEF Elsewhere, Normal
<1>3. docs' \in [Doc -> 0 .. Normal(MaxAnswers)]
  BY <1>1, <1>2 DEF WizardShapes, WizardTypeOK
<1>4. QED
  BY <1>1, <1>3 DEF WizardShapes, WizardTypeOK, SaveShape, PageShape

LEMMA WizardShapesKept == ASSUME WizardShapes, WizardNext PROVE WizardShapes'
<1>1. CASE \E f \in {"about", "hunt"}, n \in 0 .. MaxAnswers : GiveAnswer(f, n)
  BY <1>1, GiveShapes
<1>2. CASE \E name \in Name : PressNext(name)
  BY <1>2, PressShapes
<1>3. CASE \E slice \in {"lanes", "settings", "schedule"} : PutConfig(slice)
  BY <1>3, PutConfigShapes
<1>4. CASE \E d \in Doc : PutDoc(d) \/ WriteElsewhere(d)
  BY <1>4, PutShapes, ElsewhereShapes
<1>5. CASE Back
  BY <1>5, BackDoes, TurnedShapes
<1>6. CASE Skip
  BY <1>6, SkipDoes, TurnedShapes
<1>7. QED
  BY <1>1, <1>2, <1>3, <1>4, <1>5, <1>6, OpenShapes, RehydrateShapes, ReadShapes, LeaveShapes, ReloadShapes,
     CreateShapes, GuardShapes, SecretShapes, ReadConfigShapes, FailsShapes, CompleteShapes, AloneShapes, LaunchShapes
  DEF WizardNext

(* What the guard lets pass.                                               *)
LEMMA NotForeign ==
  ASSUME WizardShapes, submit # Nothing, NEW d \in Doc, ~Existing(d) PROVE docs[d] # Elsewhere
<1>1. submit.draft.written[d] # Elsewhere
  BY SubmitTyped, AnswersBounded, NothingApart DEF Draft, Elsewhere
<1>2. Elsewhere # 0
  BY AnswersBounded DEF Elsewhere
<1>3. QED
  BY <1>1, <1>2 DEF Existing, OwnWrite

LEMMA GuardPasses ==
  ASSUME WizardShapes, Guard, submit' # Nothing
  PROVE  /\ submit'.todo = <<"resume", "filter">> => ~Existing("resume") /\ ~Existing("filter")
         /\ submit'.todo = <<"urls", "config", "lanes">> => ~Existing("urls")
         /\ submit'.todo \in {<<"resume", "filter">>, <<"urls", "config", "lanes">>}
<1>1. /\ Onward /\ Doing("guard") /\ \A d \in Doc : (\E i \in DOMAIN submit.todo : submit.todo[i] = d) => ~Existing(d)
  BY GuardDoes
<1>2. CASE submit.todo = <<"guard", "resume", "filter">>
  <2>1. 2 \in DOMAIN submit.todo /\ 3 \in DOMAIN submit.todo /\ submit.todo[2] = "resume" /\ submit.todo[3] = "filter"
    BY <1>2
  <2>2. submit'.todo = <<"resume", "filter">>
    BY <1>1, <1>2 DEF Onward
  <2>3. submit'.todo # <<"urls", "config", "lanes">>
    BY <2>2
  <2>4. QED
    BY <1>1, <2>1, <2>2, <2>3 DEF Doc
<1>3. CASE submit.todo = <<"guard", "urls", "config", "lanes">>
  <2>1. 2 \in DOMAIN submit.todo /\ submit.todo[2] = "urls"
    BY <1>3
  <2>2. submit'.todo = <<"urls", "config", "lanes">>
    BY <1>1, <1>3 DEF Onward
  <2>3. submit'.todo # <<"resume", "filter">>
    BY <2>2
  <2>4. QED
    BY <1>1, <2>1, <2>2, <2>3 DEF Doc
<1>4. QED
  BY <1>1, <1>2, <1>3, NextRequest

(* What leaves the documents and the save's requests alone.                 *)
LEMMA SameGuarded ==
  ASSUME GuardPassed, submit' # Nothing => submit # Nothing /\ submit'.todo = submit.todo,
         UNCHANGED docs, beside \subseteq beside'
  PROVE  GuardPassed'
BY DEF GuardPassed

(* What asks for no document. *)
LEMMA NoneGuarded ==
  ASSUME submit' # Nothing => submit'.todo \notin {<<"resume", "filter">>, <<"filter">>, <<"urls", "config", "lanes">>}
  PROVE  GuardPassed'
BY DEF GuardPassed

LEMMA PutGuarded == ASSUME WizardShapes, GuardPassed, NEW d \in Doc, PutDoc(d) PROVE GuardPassed'
<1>1. Doing(d) /\ UNCHANGED beside
  BY DEF PutDoc
<1>2. Onward /\ docs' = [docs EXCEPT ![d] = TextOf(d)]
  BY PutDocDoes
<1>3. CASE d = "resume"
  <2>1. submit.todo = <<"resume", "filter">> /\ submit'.todo = <<"filter">>
    BY <1>1, <1>2, <1>3, NextRequest DEF Onward
  <2>2. submit'.todo # <<"resume", "filter">> /\ submit'.todo # <<"urls", "config", "lanes">>
    BY <2>1
  <2>3. docs'["filter"] = docs["filter"]
    BY <1>2, <1>3 DEF WizardShapes, WizardTypeOK, Doc
  <2>4. QED
    BY <1>1, <1>2, <2>1, <2>2, <2>3 DEF GuardPassed, Onward
<1>4. CASE d = "filter"
  <2>1. submit'.todo = <<>>
    BY <1>1, <1>2, <1>4, NextRequest DEF Onward
  <2>2. QED
    BY <2>1, NoneGuarded
<1>5. CASE d = "urls"
  <2>1. submit'.todo = <<"config", "lanes">>
    BY <1>1, <1>2, <1>5, NextRequest DEF Onward
  <2>2. submit'.todo \notin {<<"resume", "filter">>, <<"filter">>, <<"urls", "config", "lanes">>}
    BY <2>1
  <2>3. QED
    BY <2>2, NoneGuarded
<1>6. QED
  BY <1>3, <1>4, <1>5 DEF Doc

LEMMA ElsewhereGuarded == ASSUME WizardShapes, GuardPassed, NEW d \in Doc, WriteElsewhere(d) PROVE GuardPassed'
<1>1. submit' = submit /\ docs' = [docs EXCEPT ![d] = Elsewhere]
      /\ (submit # Nothing /\ (\A i \in DOMAIN submit.todo : submit.todo[i] # "guard") => "crossed" \in beside')
  BY DEF WriteElsewhere
<1>2. submit.todo \in {<<"resume", "filter">>, <<"filter">>, <<"urls", "config", "lanes">>} =>
        \A i \in DOMAIN submit.todo : submit.todo[i] # "guard"
  <2>1. CASE submit.todo = <<"resume", "filter">>
    BY <2>1
  <2>2. CASE submit.todo = <<"filter">>
    BY <2>2
  <2>3. CASE submit.todo = <<"urls", "config", "lanes">>
    BY <2>3
  <2>4. QED
    BY <2>1, <2>2, <2>3
<1>3. QED
  BY <1>1, <1>2 DEF GuardPassed

LEMMA GuardedKept == ASSUME WizardShapes, GuardPassed, WizardNext PROVE GuardPassed'
<1>1. CASE \E d \in Doc : PutDoc(d) \/ WriteElsewhere(d)
  BY <1>1, PutGuarded, ElsewhereGuarded
<1>2. CASE Guard
  <2>1. CASE submit' = Nothing
    BY <2>1, NoneGuarded
  <2>2. CASE submit' # Nothing
    <3>1. Onward /\ UNCHANGED docs
      BY <1>2, <2>2, GuardDoes
    <3>2. submit'.todo = <<"resume", "filter">> => docs["resume"] # Elsewhere /\ docs["filter"] # Elsewhere
      BY <1>2, <2>2, <3>1, GuardPasses, NotForeign DEF Doc, Onward
    <3>3. submit'.todo = <<"urls", "config", "lanes">> => docs["urls"] # Elsewhere
      BY <1>2, <2>2, <3>1, GuardPasses, NotForeign DEF Doc, Onward
    <3>4. submit'.todo # <<"filter">>
      <4>1. CASE submit'.todo = <<"resume", "filter">>
        BY <4>1
      <4>2. CASE submit'.todo = <<"urls", "config", "lanes">>
        BY <4>2
      <4>3. QED
        BY <1>2, <2>2, <4>1, <4>2, GuardPasses
    <3>5. QED
      BY <3>1, <3>2, <3>3, <3>4 DEF GuardPassed
  <2>3. QED
    BY <2>1, <2>2
<1>3. CASE \E name \in Name : PressNext(name)
  BY <1>3, PressDoes, NoneGuarded
<1>4. CASE CreateProfile
  <2>1. CASE submit.name \in taken
    BY <1>4, <2>1, NoneGuarded DEF CreateProfile, Refused
  <2>2. CASE submit.name \notin taken
    <3>1. Doing("create") /\ Onward
      BY <1>4, <2>2, CreateDoes DEF CreateProfile
    <3>2. submit'.todo = <<>>
      BY <3>1, NextRequest DEF Onward
    <3>3. QED
      BY <3>2, NoneGuarded
  <2>3. QED
    BY <2>1, <2>2
<1>5. CASE PutSecret
  <2>1. Doing("secret") /\ Onward
    BY <1>5, SecretDoes DEF PutSecret
  <2>2. submit'.todo = <<"config", "settings">>
    BY <2>1, NextRequest DEF Onward
  <2>3. QED
    BY <2>2, NoneGuarded
<1>6. CASE ReadConfig
  <2>1. Doing("config") /\ Onward
    BY <1>6, ReadConfigDoes
  <2>2. submit'.todo \in {<<"lanes">>, <<"settings">>, <<"schedule">>}
    BY <2>1, NextRequest DEF Onward
  <2>3. submit'.todo \notin {<<"resume", "filter">>, <<"filter">>, <<"urls", "config", "lanes">>}
    BY <2>2
  <2>4. QED
    BY <2>3, NoneGuarded
<1>7. CASE \E slice \in {"lanes", "settings", "schedule"} : PutConfig(slice)
  <2>1. submit'.todo = <<>>
    BY <1>7, PutConfigDoes
  <2>2. QED
    BY <2>1, NoneGuarded
<1>8. CASE \E f \in {"about", "hunt"}, n \in 0 .. MaxAnswers : GiveAnswer(f, n)
  BY <1>8, SameGuarded DEF GiveAnswer
<1>9. CASE Leave
  <2>1. UNCHANGED <<docs, beside>>
    BY <1>9 DEF Leave
  <2>2. QED
    BY <1>9, <2>1, LeaveDoes, SameGuarded
<1>10. CASE Back \/ Skip
  BY <1>10, SameGuarded DEF Back, Skip, GoTo
<1>11. CASE OpenWizard \/ Rehydrate \/ ReadProfiles
  BY <1>11, SameGuarded DEF OpenWizard, Rehydrate, ReadProfiles
<1>12. CASE Reload \/ RequestFails \/ Complete \/ CompleteAlone \/ Launch
  BY <1>12, NoneGuarded DEF Reload, RequestFails, Refused, Complete, CompleteAlone, Launch
<1>13. QED
  BY <1>1, <1>2, <1>3, <1>4, <1>5, <1>6, <1>7, <1>8, <1>9, <1>10, <1>11, <1>12 DEF WizardNext

(* Only a write of a document of the save touches a document, and the       *)
(* creation of a profile, which makes them anew.                           *)
LEMMA NothingClobbered ==
  ASSUME WizardShapes, GuardPassed, WizardNext PROVE NeverClobbersStep
<1>1. CASE \E d \in Doc : PutDoc(d)
  <2>1. PICK d \in Doc : PutDoc(d)
    BY <1>1
  <2>2. Doing(d) /\ Onward /\ docs' = [docs EXCEPT ![d] = TextOf(d)]
    BY <2>1, PutDocDoes DEF PutDoc
  <2>3. "crossed" \notin beside => docs[d] # Elsewhere
    BY <2>2, NextRequest DEF GuardPassed, Doing, Doc
  <2>4. \A x \in Doc : x # d => docs'[x] = docs[x]
    BY <2>2 DEF WizardShapes, WizardTypeOK
  <2>5. QED
    BY <2>3, <2>4 DEF NeverClobbersStep
<1>2. CASE \E d \in Doc : WriteElsewhere(d)
  <2>1. \A x \in Doc : docs'[x] = docs[x] \/ docs'[x] = Elsewhere
    BY <1>2 DEF WriteElsewhere, WizardShapes, WizardTypeOK
  <2>2. QED
    BY <2>1 DEF NeverClobbersStep
<1>3. CASE CreateProfile
  <2>1. \A x \in Doc : docs'[x] = docs[x] \/ docs'[x] = 0
    BY <1>3 DEF CreateProfile
  <2>2. QED
    BY <2>1 DEF NeverClobbersStep
<1>4. CASE UNCHANGED docs
  BY <1>4 DEF NeverClobbersStep
<1>5. QED
  BY <1>1, <1>2, <1>3, <1>4 DEF WizardNext, OpenWizard, Rehydrate, ReadProfiles, Leave, Reload, Back, Skip, GoTo, GiveAnswer, PressNext,
     Guard, PutSecret, ReadConfig, PutConfig, RequestFails, Complete, CompleteAlone, Launch

(* A draft with nothing to know, of the documents as they are.             *)
LEMMA KnowsSame ==
  ASSUME NEW d, NEW e, Knows(d), e.profile = d.profile, e.written = d.written, UNCHANGED docs
  PROVE  e.profile # Nothing => \A x \in Doc : docs'[x] = 0 \/ docs'[x] = e.written[x]
BY DEF Knows

LEMMA SavesKnown == ASSUME WizardShapes, WritesKnown, Clear', beside \subseteq beside' PROVE Clear
BY DEF Clear

(* What leaves the documents, the save and the drafts alone. *)
LEMMA SameKnown ==
  ASSUME WizardShapes, WritesKnown, beside \subseteq beside', UNCHANGED docs,
         submit' # Nothing =>
           submit # Nothing /\ submit'.draft.profile = submit.draft.profile /\ submit'.draft.written = submit.draft.written
           /\ submit'.wrote = submit.wrote,
         Clear' /\ submit' # Nothing /\ page' = "on" => page = "on" /\ submit'.orphan = submit.orphan,
         Clear' /\ Wrote => submit' # Nothing,
         Clear' /\ ~Wrote => (page' = "on" => answers'.profile = Nothing \/ (page = "on" /\ answers'.profile = answers.profile /\ answers'.written = answers.written)),
         Clear' /\ ~Wrote => (stored' # Nothing => (stored # Nothing /\ stored' = stored)
                                                   \/ (page = "on" /\ stored'.profile = answers.profile /\ stored'.written = answers.written))
  PROVE  WritesKnown'
<1> SUFFICES ASSUME Clear' PROVE WritesKnown'
  BY DEF WritesKnown
<1>1. Clear
  BY SavesKnown
<1>2. submit' # Nothing => Knows(submit.draft) /\ (page' = "on" => ~submit'.orphan)
  BY <1>1 DEF WritesKnown
<1>3. submit' # Nothing => (submit'.draft.profile # Nothing => \A x \in Doc : docs'[x] = 0 \/ docs'[x] = submit'.draft.written[x])
  BY <1>2 DEF Knows
<1>4. ASSUME ~Wrote'
      PROVE  /\ page' = "on" => (answers'.profile # Nothing => \A x \in Doc : docs'[x] = 0 \/ docs'[x] = answers'.written[x])
             /\ stored' # Nothing => (stored'.profile # Nothing => \A x \in Doc : docs'[x] = 0 \/ docs'[x] = stored'.written[x])
  <2>1. ~Wrote
    BY <1>4 DEF Wrote
  <2>2. (page = "on" => Knows(answers)) /\ (stored # Nothing => Knows(stored))
    BY <1>1, <2>1 DEF WritesKnown
  <2>3. QED
    BY <2>1, <2>2 DEF Knows
<1>5. QED
  BY <1>2, <1>3, <1>4 DEF WritesKnown, Knows

LEMMA PressKnown == ASSUME WizardShapes, WritesKnown, NEW name \in Name, PressNext(name) PROVE WritesKnown'
<1>1. page = "on" /\ submit = Nothing /\ submit' # Nothing /\ submit'.draft = answers /\ submit'.wrote = FALSE /\ submit'.orphan = FALSE
  BY PressDoes
<1>2. UNCHANGED <<docs, page, answers, stored, beside>>
  BY DEF PressNext
<1>3. ~Wrote /\ ~Wrote'
  BY <1>1 DEF Wrote
<1>4. Clear' => Clear
  BY <1>2 DEF Clear
<1>5. QED
  BY <1>1, <1>2, <1>3, <1>4 DEF WritesKnown, Knows

LEMMA CreateKnown == ASSUME WizardShapes, WritesKnown, CreateProfile PROVE WritesKnown'
<1>1. UNCHANGED <<page, answers, stored, beside>>
  BY DEF CreateProfile
<1>2. CASE submit.name \in taken
  <2>1. Doing("create") /\ submit' = Nothing /\ UNCHANGED docs
    BY <1>2 DEF CreateProfile, Refused
  <2>2. ~Wrote
    BY <2>1, NextRequest DEF WizardShapes, SaveShape, Wrote, Doing
  <2>3. QED
    BY <1>1, <2>1, <2>2, SameKnown
<1>3. CASE submit.name \notin taken
  <2>1. docs' = [d \in Doc |-> 0] /\ Onward
    BY <1>3, CreateDoes
  <2>2. Clear' => Clear
    BY <1>1 DEF Clear
  <2>3. QED
    BY <1>1, <2>1, <2>2 DEF WritesKnown, Knows, Onward
<1>4. QED
  BY <1>2, <1>3

LEMMA PutKnown == ASSUME WizardShapes, WritesKnown, NEW d \in Doc, PutDoc(d) PROVE WritesKnown'
<1>1. /\ Onward /\ submit'.draft.profile = submit.draft.profile
      /\ submit'.draft.written = [submit.draft.written EXCEPT ![d] = TextOf(d)]
      /\ submit'.wrote /\ docs' = [docs EXCEPT ![d] = TextOf(d)] /\ submit.draft \in Draft
  BY PutDocDoes, SubmitTyped DEF Onward
<1>2. Clear' => Clear
  BY DEF PutDoc, Clear
<1>3. Wrote'
  BY <1>1 DEF Wrote, Onward
<1>4. \A x \in Doc : docs'[x] = (IF x = d THEN TextOf(d) ELSE docs[x])
                     /\ submit'.draft.written[x] = (IF x = d THEN TextOf(d) ELSE submit.draft.written[x])
  BY <1>1 DEF WizardShapes, WizardTypeOK, Draft
<1>5. Clear => Knows(submit.draft)
  BY <1>1 DEF WritesKnown, Onward
<1>6. Clear' => (submit'.draft.profile # Nothing => \A x \in Doc : docs'[x] = 0 \/ docs'[x] = submit'.draft.written[x])
  BY <1>1, <1>2, <1>4, <1>5 DEF Knows
<1>7. Clear' /\ page' = "on" => ~submit'.orphan
  BY <1>1, <1>2 DEF WritesKnown, PutDoc, Onward
<1>8. QED
  BY <1>3, <1>6, <1>7 DEF WritesKnown, Knows

(* Without a cause the guard finds no text but the wizard's own.           *)
LEMMA GuardFinds ==
  ASSUME WizardShapes, WritesKnown, Guard, Clear
  PROVE  submit' # Nothing /\ ~Wrote
<1>1. Doing("guard")
  BY DEF Guard
<1>2. submit # Nothing /\ submit.step # 1
  BY <1>1, NextRequest DEF Doing
<1>3. Knows(submit.draft) /\ submit.draft.profile # Nothing
  BY <1>2, SavedProfile DEF WritesKnown
<1>4. \A d \in Doc : docs[d] # Nothing
  BY NothingApart, AnswersBounded DEF WizardShapes, WizardTypeOK, Normal, Elsewhere
<1>5. \A d \in Doc : ~Existing(d)
  BY <1>3, <1>4 DEF Existing, OwnWrite, Knows
<1>6. submit' = Done(submit)
  BY <1>5 DEF Guard
<1>7. submit' # Nothing
  BY <1>1, <1>6, DoneDoes DEF Onward
<1>8. ~Wrote
  <2>1. CASE submit.todo = <<"guard", "resume", "filter">>
    BY <2>1 DEF WizardShapes, SaveShape, Wrote, LanesPlans
  <2>2. CASE submit.todo = <<"guard", "urls", "config", "lanes">>
    BY <2>2 DEF WizardShapes, SaveShape, Wrote, LanesPlans
  <2>3. QED
    BY <1>1, <2>1, <2>2, NextRequest
<1>9. QED
  BY <1>7, <1>8

LEMMA BlockedKept == ASSUME WizardShapes, WritesKnown, BlockedNeedsCause, WizardNext PROVE BlockedNeedsCause'
<1>1. beside \subseteq beside'
  BY DEF WizardNext, OpenWizard, Rehydrate, ReadProfiles, Leave, Reload, Back, Skip, GoTo, GiveAnswer, PressNext, CreateProfile, PutDoc,
     Guard, PutSecret, ReadConfig, PutConfig, RequestFails, Complete, CompleteAlone, Launch, WriteElsewhere
<1>2. CASE Guard
  <2>1. CASE Clear
    <3>1. submit' # Nothing
      BY <1>2, <2>1, GuardFinds
    <3>2. blocked' = blocked
      BY <1>2, <3>1, GuardDoes
    <3>3. QED
      BY <1>1, <3>2 DEF BlockedNeedsCause
  <2>2. CASE ~Clear
    BY <1>1, <2>2 DEF Clear, BlockedNeedsCause
  <2>3. QED
    BY <2>1, <2>2
<1>3. CASE ~blocked' \/ blocked' = blocked
  BY <1>1, <1>3 DEF BlockedNeedsCause
<1>4. QED
  BY <1>2, <1>3 DEF WizardNext, OpenWizard, Rehydrate, ReadProfiles, Leave, Reload, Back, Skip, GoTo, GiveAnswer, PressNext, CreateProfile, PutDoc,
     PutSecret, ReadConfig, PutConfig, RequestFails, Complete, CompleteAlone, Launch, WriteElsewhere

LEMMA CompleteKnown == ASSUME WizardShapes, WritesKnown, Complete PROVE WritesKnown'
<1>1. /\ submit # Nothing /\ submit' = Nothing /\ page = "on" /\ stored' = answers'
      /\ answers'.profile = SavedDraft.profile /\ answers'.written = SavedDraft.written
      /\ (submit.step # 2 => SavedDraft = submit.draft) /\ (submit.step = 2 => SavedDraft = answers)
  BY CompleteDoes
<1>2. UNCHANGED <<docs, beside>>
  BY DEF Complete
<1>3. submit.step = 2 => ~Wrote
  BY <1>1 DEF WizardShapes, SaveShape, Wrote
<1>4. Clear' => Clear
  BY <1>2 DEF Clear
<1>5. Clear => Knows(SavedDraft)
  BY <1>1, <1>3 DEF WritesKnown
<1>6. Clear' => (answers'.profile # Nothing => \A x \in Doc : docs'[x] = 0 \/ docs'[x] = answers'.written[x])
  BY <1>1, <1>2, <1>4, <1>5 DEF Knows
<1>7. QED
  BY <1>1, <1>6 DEF WritesKnown, Knows

LEMMA AloneKnown == ASSUME WizardShapes, WritesKnown, CompleteAlone PROVE WritesKnown'
<1>1. /\ submit # Nothing /\ submit' = Nothing /\ stored' = (IF submit.step = 2 THEN stored ELSE submit.draft)
  BY AloneDoes
<1>2. UNCHANGED <<docs, page, answers, beside>> /\ submit.orphan
  BY DEF CompleteAlone
<1>3. submit.step = 2 => ~Wrote
  BY <1>1 DEF WizardShapes, SaveShape, Wrote
<1>4. Clear' => Clear
  BY <1>2 DEF Clear
<1>5. Clear => page # "on" /\ Knows(submit.draft) /\ (submit.step = 2 /\ stored # Nothing => Knows(stored))
  BY <1>1, <1>2, <1>3 DEF WritesKnown
<1>6. QED
  BY <1>1, <1>2, <1>4, <1>5 DEF WritesKnown, Knows

LEMMA LaunchKnown == ASSUME WizardShapes, WritesKnown, Launch PROVE WritesKnown'
<1>1. /\ submit # Nothing /\ submit.step = 6 /\ submit' = Nothing /\ page' = "done"
      /\ \/ stored' = Nothing
         \/ page = "on" /\ stored'.profile = answers.profile /\ stored'.written = answers.written
  BY LaunchDoes
<1>2. UNCHANGED <<docs, beside>>
  BY DEF Launch
<1>3. ~Wrote
  BY <1>1 DEF WizardShapes, SaveShape, Wrote
<1>4. QED
  BY <1>1, <1>2, <1>3, SameKnown

LEMMA RehydrateKnown == ASSUME WizardShapes, WritesKnown, Rehydrate PROVE WritesKnown'
<1>1. UNCHANGED <<docs, submit>> /\ beside \subseteq beside' /\ (submit # Nothing => "left" \in beside')
      /\ \/ answers' = stored /\ stored' = stored /\ stored # Nothing
         \/ answers' = InitialDraft /\ stored' = Nothing
  BY DEF Rehydrate
<1> SUFFICES ASSUME Clear' PROVE WritesKnown'
  BY DEF WritesKnown
<1>2. submit = Nothing /\ Clear /\ ~Wrote
  BY <1>1, SavesKnown DEF Clear, Wrote
<1>3. stored # Nothing => Knows(stored)
  BY <1>2 DEF WritesKnown
<1>4. QED
  BY <1>1, <1>2, <1>3, InitialTyped DEF WritesKnown, Knows

LEMMA KnownKept == ASSUME WizardShapes, WritesKnown, WizardNext PROVE WritesKnown'
<1>1. CASE Guard
  <2>1. CASE Clear
    <3>1. submit' # Nothing /\ ~Wrote
      BY <1>1, <2>1, GuardFinds
    <3>2. Onward /\ submit'.draft = submit.draft /\ submit'.wrote = submit.wrote
          /\ UNCHANGED <<docs, page, answers, stored>> /\ beside \subseteq beside'
      BY <1>1, <3>1, GuardDoes DEF Guard
    <3>3. QED
      BY <3>1, <3>2, SameKnown DEF Onward
  <2>2. CASE ~Clear
    BY <1>1, <2>2 DEF Guard, Clear, WritesKnown
  <2>3. QED
    BY <2>1, <2>2
<1>2. CASE PutSecret
  <2>1. Onward /\ submit'.draft.profile = submit.draft.profile /\ submit'.draft.written = submit.draft.written
        /\ submit'.wrote = submit.wrote
    BY <1>2, SecretDoes
  <2>2. QED
    BY <1>2, <2>1, SameKnown DEF PutSecret, Onward
<1>3. CASE ReadConfig
  <2>1. Onward /\ submit'.draft = submit.draft /\ submit'.wrote = submit.wrote
    BY <1>3, ReadConfigDoes
  <2>2. QED
    BY <1>3, <2>1, SameKnown DEF ReadConfig, Onward
<1>4. CASE \E slice \in {"lanes", "settings", "schedule"} : PutConfig(slice)
  <2>1. Onward /\ submit'.draft = submit.draft /\ submit'.wrote = submit.wrote
    BY <1>4, PutConfigDoes
  <2>2. UNCHANGED <<docs, page, answers, stored, beside>>
    BY <1>4 DEF PutConfig
  <2>3. QED
    BY <2>1, <2>2, SameKnown DEF Onward
<1>5. CASE RequestFails
  <2>1. submit' = Nothing /\ UNCHANGED <<docs, page, answers, stored>> /\ beside \subseteq beside'
        /\ (Wrote => "failed" \in beside')
    BY <1>5 DEF RequestFails, Refused
  <2>2. Clear' => ~Wrote
    BY <2>1 DEF Clear
  <2>3. QED
    BY <2>1, <2>2, SameKnown
<1>6. CASE Leave
  <2>1. page' = "off" /\ UNCHANGED <<docs, stored, beside>>
    BY <1>6 DEF Leave
  <2>2. QED
    BY <1>6, <2>1, LeaveDoes, SameKnown DEF Wrote
<1>7. CASE Reload
  <2>1. submit' = Nothing /\ page' = "off" /\ UNCHANGED <<docs, stored>> /\ beside \subseteq beside'
        /\ (Wrote => "left" \in beside')
    BY <1>7 DEF Reload
  <2>2. Clear' => ~Wrote
    BY <2>1 DEF Clear
  <2>3. QED
    BY <2>1, <2>2, SameKnown
<1>8. CASE Back \/ Skip
  <2>1. PICK n \in 1 .. 6 : Turned(n)
    BY <1>8, BackDoes, SkipDoes
  <2>2. UNCHANGED <<docs, submit>> /\ beside \subseteq beside'
    BY <1>8 DEF Back, Skip, GoTo
  <2>3. QED
    BY <2>1, <2>2, SameKnown DEF Turned, Wrote
<1>9. CASE \E f \in {"about", "hunt"}, n \in 0 .. MaxAnswers : GiveAnswer(f, n)
  <2>1. PICK f \in {"about", "hunt"}, n \in 0 .. MaxAnswers : GiveAnswer(f, n)
    BY <1>9
  <2>2. UNCHANGED <<docs, submit>> /\ beside \subseteq beside'
    BY <2>1 DEF GiveAnswer
  <2>3. QED
    BY <2>1, <2>2, GiveDoes, SameKnown DEF Wrote
<1>10. CASE OpenWizard
  BY <1>10, SameKnown DEF OpenWizard, Wrote
<1>11. CASE ReadProfiles
  BY <1>11, SameKnown DEF ReadProfiles, Wrote
<1>12. CASE \E d \in Doc : PutDoc(d) \/ WriteElsewhere(d)
  <2>1. CASE \E d \in Doc : PutDoc(d)
    BY <2>1, PutKnown
  <2>2. CASE \E d \in Doc : WriteElsewhere(d)
    BY <2>2 DEF WriteElsewhere, Clear, WritesKnown
  <2>3. QED
    BY <1>12, <2>1, <2>2
<1>13. CASE \E name \in Name : PressNext(name)
  BY <1>13, PressKnown
<1>14. QED
  BY <1>1, <1>2, <1>3, <1>4, <1>5, <1>6, <1>7, <1>8, <1>9, <1>10, <1>11, <1>12, <1>13,
     CreateKnown, CompleteKnown, AloneKnown, LaunchKnown, RehydrateKnown
  DEF WizardNext

(* What says of documents and configuration what it said before. *)
LEMMA ServedSame ==
  ASSUME NEW d, NEW e, Served(d), e.step = d.step, Same(e, d), UNCHANGED <<docs, profileJson>>
  PROVE  /\ e.step > 3 => docs'["resume"] = e.about /\ docs'["filter"] = e.about
         /\ e.step > 4 => (e.hunt # 0 => docs'["urls"] = Normal(e.hunt)) /\ profileJson'.lanes = (e.hunt # 0)
BY DEF Served, Same

LEMMA CalmBefore == ASSUME beside \subseteq beside', Calm' PROVE Calm
BY DEF Calm

(* What the three claims of SavesAnswers say of the next state. *)
PageServed ==
  page = "on" => Same(typed, answers) /\ Served(answers) /\ (stored # Nothing => Same(stored, answers) /\ stored.step = step)
StoredServed == stored # Nothing => Served(stored)
SaveServed ==
  submit # Nothing =>
    /\ Same(typed, submit.draft) /\ Served(submit.draft) /\ Progress
    /\ page = "on" => ~submit.orphan /\ AtOrSkipped(step, submit.step)
    /\ stored # Nothing => Same(stored, submit.draft) /\ AtOrSkipped(stored.step, submit.step)

LEMMA ServedParts ==
  /\ SavesAnswers <=> (Calm => PageServed /\ StoredServed /\ SaveServed)
  /\ SavesAnswers' <=> (Calm' => PageServed' /\ StoredServed' /\ SaveServed')
BY DEF SavesAnswers, PageServed, StoredServed, SaveServed

(* A save ends, and what it stored stays. *)
LEMMA EndServed ==
  ASSUME SavesAnswers, submit' = Nothing, UNCHANGED <<docs, profileJson, typed, stored>>, beside \subseteq beside',
         page' = "on" => UNCHANGED <<page, answers, step>>
  PROVE  SavesAnswers'
<1> SUFFICES ASSUME Calm' PROVE SavesAnswers'
  BY DEF SavesAnswers
<1>1. PageServed /\ StoredServed
  BY CalmBefore, ServedParts
<1>2. PageServed' /\ StoredServed' /\ SaveServed'
  BY <1>1 DEF PageServed, StoredServed, SaveServed, Served
<1>3. QED
  BY <1>2, ServedParts

LEMMA PressServed == ASSUME WizardShapes, SavesAnswers, NEW name \in Name, PressNext(name) PROVE SavesAnswers'
<1>1. UNCHANGED <<docs, profileJson, typed, stored, page, answers, step, beside>>
  BY DEF PressNext
<1> SUFFICES ASSUME Calm' PROVE SavesAnswers'
  BY DEF SavesAnswers
<1>2. PageServed /\ StoredServed
  BY <1>1, CalmBefore, ServedParts
<1>3. /\ page = "on" /\ submit' # Nothing /\ submit'.step = step /\ submit'.draft = answers /\ answers.step = step
      /\ (submit'.todo = <<>> => step \in {1, 2}) /\ submit'.orphan = FALSE
      /\ submit'.todo \notin {<<"filter">>, <<"lanes">>}
      /\ (step = 4 /\ answers.hunt # 0 => submit'.todo = <<"guard", "urls", "config", "lanes">>)
  BY PressDoes
<1>4. PageServed' /\ StoredServed'
  BY <1>1, <1>2 DEF PageServed, StoredServed, Served
<1>5. Progress'
  <2>1. <<"guard", "urls", "config", "lanes">> \notin LanesPlans
    BY DEF LanesPlans
  <2>2. QED
    BY <1>3, <2>1 DEF Progress
<1>6. SaveServed'
  BY <1>1, <1>2, <1>3, <1>5 DEF SaveServed, PageServed, Served, AtOrSkipped
<1>7. QED
  BY <1>4, <1>6, ServedParts

LEMMA CreateServed == ASSUME WizardShapes, SavesAnswers, CreateProfile PROVE SavesAnswers'
<1>1. UNCHANGED <<typed, stored, page, answers, step, beside>>
  BY DEF CreateProfile
<1>2. CASE submit.name \in taken
  <2>1. submit' = Nothing /\ UNCHANGED <<docs, profileJson>>
    BY <1>2 DEF CreateProfile, Refused
  <2>2. QED
    BY <1>1, <2>1, EndServed
<1>3. CASE submit.name \notin taken
  <2>1. Doing("create") /\ Onward
    BY <1>3, CreateDoes DEF CreateProfile
  <2>2. submit.step = 1 /\ submit'.step = 1 /\ submit'.draft.step = 1
    BY <2>1, NextRequest DEF Onward, WizardShapes, SaveShape
  <2> SUFFICES ASSUME Calm' PROVE SavesAnswers'
    BY DEF SavesAnswers
  <2>3. PageServed /\ StoredServed /\ SaveServed
    BY <1>1, CalmBefore, ServedParts
  <2>4. page = "on" => answers.step = 1 /\ step = 1
    BY <2>1, <2>2, <2>3 DEF SaveServed, AtOrSkipped, WizardShapes, PageShape, Onward
  <2>5. stored # Nothing => stored.step = 1
    BY <2>1, <2>2, <2>3 DEF SaveServed, AtOrSkipped, Onward
  <2>6. PageServed'
    BY <1>1, <2>3, <2>4 DEF PageServed, Served
  <2>7. StoredServed'
    BY <1>1, <2>5 DEF StoredServed, Served
  <2>8. Progress'
    BY <2>2 DEF Progress
  <2>9. SaveServed'
    BY <1>1, <2>1, <2>2, <2>3, <2>8 DEF SaveServed, Served, Onward, Same
  <2>10. QED
    BY <2>6, <2>7, <2>9, ServedParts
<1>4. QED
  BY <1>2, <1>3

(* A request that stores what only later steps speak of, or changes        *)
(* nothing that a draft speaks of.                                         *)
LEMMA OnwardServed ==
  ASSUME WizardShapes, SavesAnswers, Onward, UNCHANGED <<typed, stored, page, answers, step, beside>>,
         submit.step > 3 => UNCHANGED <<docs["resume"], docs["filter"]>>,
         submit.step > 4 => docs'["urls"] = docs["urls"] /\ profileJson'.lanes = profileJson.lanes,
         Calm => Progress'
  PROVE  SavesAnswers'
<1> SUFFICES ASSUME Calm' PROVE SavesAnswers'
  BY DEF SavesAnswers
<1>1. PageServed /\ StoredServed /\ SaveServed /\ Calm
  BY CalmBefore, ServedParts
<1>2. submit.draft.step = submit.step /\ submit.step \in 1 .. 6 /\ step \in 1 .. 6
  BY SubmitTyped DEF Onward, WizardShapes, WizardTypeOK
<1>3. Served(submit.draft)'
  BY <1>1, <1>2 DEF SaveServed, Served, Onward, Same
<1>4. page = "on" => answers.step = step /\ AtOrSkipped(answers.step, submit.step)
  BY <1>1 DEF SaveServed, Onward, WizardShapes, PageShape
<1>5. page = "on" => Served(answers)'
  BY <1>1, <1>2, <1>4 DEF PageServed, AtOrSkipped, Served
<1>6. stored # Nothing => Served(stored)'
  BY <1>1, <1>2 DEF SaveServed, StoredServed, AtOrSkipped, Served, Onward
<1>7. PageServed' /\ StoredServed'
  BY <1>1, <1>5, <1>6 DEF PageServed, StoredServed
<1>8. SaveServed'
  BY <1>1, <1>3 DEF SaveServed, Onward, Same
<1>9. QED
  BY <1>7, <1>8, ServedParts

(* How far a save is, when its next request leaves documents and lanes.    *)
LEMMA ProgressSame ==
  ASSUME Onward, Progress, UNCHANGED docs, profileJson'.lanes = profileJson.lanes,
         submit'.step = 3 => submit'.todo \notin {<<"filter">>, <<>>},
         submit'.step = 4 => submit'.todo # <<>> /\ (submit'.todo \in LanesPlans => submit.todo \in LanesPlans),
         submit'.step = 6 => submit'.todo # <<>> \/ profileJson'.schedule
  PROVE  Progress'
BY DEF Progress, Onward, Same

LEMMA CalmProgress == ASSUME SavesAnswers, Calm, submit # Nothing PROVE Progress
BY DEF SavesAnswers

LEMMA GuardServed == ASSUME WizardShapes, SavesAnswers, Guard PROVE SavesAnswers'
<1>1. CASE submit' = Nothing
  BY <1>1, EndServed DEF Guard
<1>2. CASE submit' # Nothing
  <2>1. /\ Onward /\ UNCHANGED <<docs, profileJson, typed, stored, page, answers, step, beside>>
    BY <1>2, GuardDoes DEF Guard
  <2>2. CASE submit.step = 3
    <3>1. submit'.todo \in {<<"resume", "filter">>, <<"urls", "config", "lanes">>}
      BY <1>2, GuardPasses
    <3>2. submit'.todo \notin {<<"filter">>, <<>>}
      <4>1. CASE submit'.todo = <<"resume", "filter">>
        BY <4>1
      <4>2. CASE submit'.todo = <<"urls", "config", "lanes">>
        BY <4>2
      <4>3. QED
        BY <3>1, <4>1, <4>2
    <3>3. Calm => Progress'
      BY <2>1, <2>2, <3>2, CalmProgress, ProgressSame DEF Onward
    <3>4. QED
      BY <2>1, <3>3, OnwardServed
  <2>3. CASE submit.step # 3
    <3>1. submit.step = 4 /\ submit'.todo = <<"urls", "config", "lanes">>
      BY <1>2, <2>1, <2>3, GuardDoes, NextRequest DEF Onward
    <3>2. submit'.todo # <<>> /\ submit'.todo \notin LanesPlans
      BY <3>1 DEF LanesPlans
    <3>3. Calm => Progress'
      BY <2>1, <3>1, <3>2, CalmProgress, ProgressSame DEF Onward
    <3>4. QED
      BY <2>1, <3>3, OnwardServed
  <2>4. QED
    BY <2>2, <2>3
<1>3. QED
  BY <1>1, <1>2

LEMMA PutServed == ASSUME WizardShapes, SavesAnswers, NEW d \in Doc, PutDoc(d) PROVE SavesAnswers'
<1>1. Doing(d) /\ UNCHANGED <<profileJson, typed, stored, page, answers, step, beside>>
  BY DEF PutDoc
<1>2. Onward /\ docs' = [docs EXCEPT ![d] = TextOf(d)]
  BY PutDocDoes
<1>3. \A x \in Doc : docs'[x] = (IF x = d THEN TextOf(d) ELSE docs[x])
  BY <1>2 DEF WizardShapes, WizardTypeOK
<1>4. CASE d = "resume"
  <2>1. submit.step = 3 /\ submit'.todo = <<"filter">> /\ docs'["resume"] = submit.draft.about
    BY <1>1, <1>2, <1>3, <1>4, NextRequest DEF Onward, TextOf, SentText, ResumeText
  <2>2. submit'.todo # <<>>
    BY <2>1
  <2>3. Progress'
    BY <1>2, <2>1, <2>2 DEF Progress, Onward, Same
  <2>4. QED
    BY <1>1, <1>2, <2>1, <2>3, OnwardServed
<1>5. CASE d = "filter"
  <2>1. submit.step = 3 /\ submit.todo = <<"filter">> /\ submit'.todo = <<>>
        /\ docs'["filter"] = submit.draft.about /\ docs'["resume"] = docs["resume"]
    BY <1>1, <1>2, <1>3, <1>5, NextRequest DEF Onward, TextOf, SentText, FilterText, Doc
  <2>2. Calm => docs["resume"] = submit.draft.about
    BY <1>2, <2>1, CalmProgress DEF Progress, Onward
  <2>3. Calm => Progress'
    BY <1>2, <2>1, <2>2 DEF Progress, Onward, Same
  <2>4. QED
    BY <1>1, <1>2, <2>1, <2>3, OnwardServed
<1>6. CASE d = "urls"
  <2>1. submit.step = 4 /\ submit'.todo = <<"config", "lanes">> /\ docs'["urls"] = Normal(submit.draft.hunt)
        /\ docs'["resume"] = docs["resume"] /\ docs'["filter"] = docs["filter"]
    BY <1>1, <1>2, <1>3, <1>6, NextRequest DEF Onward, TextOf, SentText, UrlsText, Doc
  <2>2. submit'.todo # <<>>
    BY <2>1
  <2>3. Progress'
    BY <1>2, <2>1, <2>2 DEF Progress, Onward, Same
  <2>4. QED
    BY <1>1, <1>2, <2>1, <2>3, OnwardServed
<1>7. QED
  BY <1>4, <1>5, <1>6 DEF Doc

LEMMA SecretServed == ASSUME WizardShapes, SavesAnswers, PutSecret PROVE SavesAnswers'
<1>1. Doing("secret") /\ UNCHANGED <<docs, profileJson, typed, stored, page, answers, step, beside>>
  BY DEF PutSecret
<1>2. Onward
  BY SecretDoes
<1>3. submit'.step = 5
  BY <1>1, <1>2, NextRequest DEF Onward
<1>4. Progress'
  BY <1>3 DEF Progress
<1>5. QED
  BY <1>1, <1>2, <1>4, OnwardServed

LEMMA ReadConfigServed == ASSUME WizardShapes, SavesAnswers, ReadConfig PROVE SavesAnswers'
<1>1. UNCHANGED <<docs, profileJson, typed, stored, page, answers, step, beside>>
  BY DEF ReadConfig
<1>2. Onward /\ Doing("config")
  BY ReadConfigDoes
<1>3. \/ submit.step = 4 /\ submit.todo = <<"config", "lanes">> /\ submit'.todo = <<"lanes">>
      \/ submit.step = 5 /\ submit'.todo = <<"settings">>
      \/ submit.step = 6 /\ submit'.todo = <<"schedule">>
  BY <1>2, NextRequest DEF Onward
<1>4. submit'.todo # <<>>
  <2>1. <<"lanes">> # <<>> /\ <<"settings">> # <<>> /\ <<"schedule">> # <<>>
    OBVIOUS
  <2>2. QED
    BY <1>3, <2>1
<1>5. submit.step = 4 => submit.todo \in LanesPlans
  <2>1. <<"config", "lanes">> \in LanesPlans
    BY DEF LanesPlans
  <2>2. submit.step = 4 => submit.todo = <<"config", "lanes">>
    BY <1>3
  <2>3. QED
    BY <2>1, <2>2
<1>6. submit.step # 3 /\ submit'.step = submit.step
  BY <1>2, <1>3 DEF Onward
<1>7. Calm => Progress'
  BY <1>1, <1>2, <1>4, <1>5, <1>6, CalmProgress, ProgressSame DEF Onward
<1>8. QED
  BY <1>1, <1>2, <1>7, OnwardServed

LEMMA PutConfigServed ==
  ASSUME WizardShapes, SavesAnswers, NEW slice \in {"lanes", "settings", "schedule"}, PutConfig(slice) PROVE SavesAnswers'
<1>1. UNCHANGED <<docs, typed, stored, page, answers, step, beside>>
  BY DEF PutConfig
<1>2. /\ Onward /\ submit'.draft = submit.draft /\ submit'.todo = <<>> /\ submit.todo = <<slice>>
      /\ slice = "lanes" => submit.step = 4 /\ profileJson'.lanes = (submit.draft.hunt # 0)
      /\ slice # "lanes" => submit.step # 4 /\ submit.step # 3 /\ profileJson'.lanes = profileJson.lanes
      /\ slice = "settings" <=> submit.step = 5
      /\ slice = "schedule" => submit.step = 6 /\ profileJson'.schedule
  BY PutConfigDoes
<1>3. CASE slice = "lanes"
  <2>1. submit.step = 4 /\ submit.todo \in LanesPlans
    BY <1>2, <1>3 DEF LanesPlans
  <2>2. Calm /\ submit.draft.hunt # 0 => docs["urls"] = Normal(submit.draft.hunt)
    BY <1>2, <2>1, CalmProgress DEF Progress, Onward
  <2>3. Calm => Progress'
    BY <1>1, <1>2, <1>3, <2>1, <2>2 DEF Progress, Onward
  <2>4. QED
    BY <1>1, <1>2, <2>1, <2>3, OnwardServed
<1>4. CASE slice # "lanes"
  <2>1. submit'.step # 3 /\ submit'.step # 4 /\ (submit'.step = 6 => profileJson'.schedule)
        /\ profileJson'.lanes = profileJson.lanes
    BY <1>2, <1>4 DEF Onward
  <2>2. Progress'
    BY <2>1 DEF Progress
  <2>3. QED
    BY <1>1, <1>2, <2>1, <2>2, OnwardServed
<1>5. QED
  BY <1>3, <1>4

LEMMA CompleteServed == ASSUME WizardShapes, SavesAnswers, Complete PROVE SavesAnswers'
<1>1. UNCHANGED <<docs, profileJson, page, typed, beside>>
  BY DEF Complete
<1>2. /\ submit # Nothing /\ submit.todo = <<>> /\ submit.step # 6 /\ page = "on" /\ submit' = Nothing
      /\ SavedDraft \in Draft /\ (submit.step # 2 => SavedDraft = submit.draft) /\ (submit.step = 2 => SavedDraft = answers)
      /\ Same(answers', SavedDraft) /\ answers'.step = (IF step = 6 THEN SavedDraft.step ELSE step + 1)
      /\ step' = answers'.step /\ stored' = answers'
  BY CompleteDoes
<1> SUFFICES ASSUME Calm' PROVE SavesAnswers'
  BY DEF SavesAnswers
<1>3. PageServed /\ SaveServed
  BY <1>1, CalmBefore, ServedParts
<1>4. Same(typed, answers) /\ Served(answers) /\ Same(typed, submit.draft) /\ Served(submit.draft) /\ Progress
      /\ AtOrSkipped(step, submit.step)
  BY <1>2, <1>3 DEF PageServed, SaveServed
<1>5. Same(typed, SavedDraft)
  BY <1>2, <1>4
<1>6. submit.step \in 1 .. 6 /\ submit.draft.step = submit.step /\ step \in 1 .. 6
  BY <1>2, SubmitTyped DEF WizardShapes, WizardTypeOK
<1>7. PICK a : a = answers'
  OBVIOUS
<1>8. Served(a)'
  <2>1. CASE step = 6
    <3>1. submit.step = 5 /\ SavedDraft = submit.draft
      BY <1>2, <1>4, <1>6, <2>1 DEF AtOrSkipped
    <3>2. a.step = 5 /\ Same(a, submit.draft)
      BY <1>2, <1>6, <1>7, <2>1, <3>1
    <3>3. QED
      BY <1>1, <1>4, <1>6, <3>1, <3>2 DEF Served, Same
  <2>2. CASE step # 6
    <3>1. step = submit.step /\ a.step = submit.step + 1
      BY <1>2, <1>4, <1>6, <1>7, <2>2 DEF AtOrSkipped
    <3>2. CASE submit.step < 3
      BY <1>6, <3>1, <3>2 DEF Served
    <3>3. CASE submit.step = 3
      BY <1>1, <1>2, <1>4, <1>7, <3>1, <3>3 DEF Served, Same, Progress
    <3>4. CASE submit.step = 4
      <4>1. <<>> \in LanesPlans
        BY DEF LanesPlans
      <4>2. QED
        BY <1>1, <1>2, <1>4, <1>6, <1>7, <3>1, <3>4, <4>1 DEF Served, Same, Progress
    <3>5. CASE submit.step = 5
      BY <1>1, <1>2, <1>4, <1>6, <1>7, <3>1, <3>5 DEF Served, Same
    <3>6. QED
      BY <1>2, <1>6, <3>2, <3>3, <3>4, <3>5
  <2>3. QED
    BY <2>1, <2>2
<1>9. PageServed' /\ StoredServed' /\ SaveServed'
  BY <1>1, <1>2, <1>5, <1>7, <1>8 DEF PageServed, StoredServed, SaveServed, Same, Served
<1>10. QED
  BY <1>9, ServedParts

LEMMA AloneServed == ASSUME WizardShapes, SavesAnswers, CompleteAlone PROVE SavesAnswers'
<1>1. UNCHANGED <<docs, profileJson, page, step, answers, typed, beside>>
  BY DEF CompleteAlone
<1>2. /\ submit # Nothing /\ submit.orphan /\ submit' = Nothing
      /\ stored' = (IF submit.step = 2 THEN stored ELSE submit.draft)
  BY AloneDoes
<1> SUFFICES ASSUME Calm' PROVE SavesAnswers'
  BY DEF SavesAnswers
<1>3. StoredServed /\ SaveServed
  BY <1>1, CalmBefore, ServedParts
<1>4. page # "on" /\ Served(submit.draft)
  BY <1>2, <1>3 DEF SaveServed
<1>5. PageServed' /\ StoredServed' /\ SaveServed'
  BY <1>1, <1>2, <1>3, <1>4 DEF PageServed, StoredServed, SaveServed, Served
<1>6. QED
  BY <1>5, ServedParts

(* A launch of the step it was pressed in leaves no draft.                 *)
LEMMA LaunchStored ==
  ASSUME WizardShapes, SavesAnswers, Launch, Calm PROVE stored' = Nothing
<1>1. submit # Nothing /\ submit.step = 6 /\ (submit.orphan \/ page = "on")
  BY LaunchDoes
<1>2. SaveServed
  BY ServedParts
<1>3. submit.orphan \/ step = 6
  BY <1>1, <1>2 DEF SaveServed, AtOrSkipped
<1>4. QED
  BY <1>3, LaunchDoes

LEMMA LaunchServed == ASSUME WizardShapes, SavesAnswers, Launch PROVE SavesAnswers'
<1>1. beside' = beside /\ submit' = Nothing /\ page' = "done"
  BY DEF Launch
<1> SUFFICES ASSUME Calm' PROVE SavesAnswers'
  BY DEF SavesAnswers
<1>2. stored' = Nothing
  BY <1>1, CalmBefore, LaunchStored
<1>3. QED
  BY <1>1, <1>2 DEF SavesAnswers

LEMMA GiveServed ==
  ASSUME WizardShapes, SavesAnswers, NEW f \in {"about", "hunt"}, NEW n \in 0 .. MaxAnswers, GiveAnswer(f, n)
  PROVE  SavesAnswers'
<1>1. /\ UNCHANGED <<docs, profileJson, submit, step, page>> /\ beside \subseteq beside'
      /\ (submit # Nothing => "edited" \in beside')
  BY DEF GiveAnswer
<1>2. /\ answers'.step = answers.step /\ (Same(typed, answers) => Same(typed', answers')) /\ stored' = answers'
      /\ page = "on" /\ answers.step < 5 /\ (answers.step = 4 => answers'.about = answers.about)
  BY GiveDoes
<1> SUFFICES ASSUME Calm' PROVE SavesAnswers'
  BY DEF SavesAnswers
<1>3. PageServed /\ submit = Nothing
  BY <1>1, CalmBefore, ServedParts DEF Calm
<1>4. answers.step \in 1 .. 6 /\ answers.step = step
  BY <1>2 DEF WizardShapes, WizardTypeOK, PageShape, Draft
<1>5. PICK a : a = answers'
  OBVIOUS
<1>6. Served(a)'
  <2>1. a.step = answers.step /\ (a.step > 3 => a.about = answers.about)
    BY <1>2, <1>4, <1>5
  <2>2. Served(answers)
    BY <1>2, <1>3 DEF PageServed
  <2>3. QED
    BY <1>1, <1>2, <1>4, <2>1, <2>2 DEF Served
<1>7. Same(typed', answers')
  BY <1>2, <1>3 DEF PageServed
<1>8. PageServed' /\ StoredServed' /\ SaveServed'
  BY <1>1, <1>2, <1>3, <1>4, <1>5, <1>6, <1>7 DEF PageServed, StoredServed, SaveServed, Same, Served
<1>9. QED
  BY <1>8, ServedParts

LEMMA TurnedServed ==
  ASSUME WizardShapes, SavesAnswers, NEW n \in 1 .. 6, Turned(n), UNCHANGED submit, beside \subseteq beside',
         \/ n < step /\ (submit # Nothing => "back" \in beside')
         \/ step = 5 /\ n = 6
  PROVE  SavesAnswers'
<1> SUFFICES ASSUME Calm' PROVE SavesAnswers'
  BY DEF SavesAnswers
<1>1. PageServed /\ SaveServed
  BY CalmBefore, ServedParts
<1>2. /\ page = "on" /\ page' = "on" /\ answers.step = step /\ step' = n /\ answers'.step = n /\ Same(answers', answers)
      /\ stored' = answers' /\ UNCHANGED <<docs, profileJson, typed>>
  BY DEF Turned
<1>3. step \in 1 .. 6
  BY DEF WizardShapes, WizardTypeOK
<1>4. PICK a : a = answers'
  OBVIOUS
<1>5. Same(typed, answers) /\ Served(answers)
  BY <1>1, <1>2 DEF PageServed
<1>6. Served(a)'
  <2>1. a.step = n /\ Same(a, answers) /\ (n < answers.step \/ (answers.step = 5 /\ n = 6))
    BY <1>2, <1>4
  <2>2. (n > 3 => answers.step > 3) /\ (n > 4 => answers.step > 4)
    BY <1>2, <1>3, <2>1
  <2>3. QED
    BY <1>2, <1>5, <2>1, <2>2 DEF Served, Same
<1>7. submit # Nothing => step = 5 /\ n = 6
  BY DEF Calm
<1>8. submit # Nothing => /\ Same(typed, submit.draft) /\ Served(submit.draft) /\ Progress
                         /\ ~submit.orphan /\ submit.step = 5
  BY <1>1, <1>2, <1>7 DEF SaveServed, AtOrSkipped
<1>9. SaveServed'
  BY <1>2, <1>4, <1>5, <1>7, <1>8 DEF SaveServed, Same, AtOrSkipped, Served, Progress
<1>10. PageServed' /\ StoredServed'
  BY <1>2, <1>4, <1>5, <1>6 DEF PageServed, StoredServed, Same, Served
<1>11. QED
  BY <1>9, <1>10, ServedParts

LEMMA LeaveServed == ASSUME WizardShapes, SavesAnswers, Leave PROVE SavesAnswers'
<1>1. page' = "off" /\ UNCHANGED <<docs, profileJson, typed, stored, beside>>
  BY DEF Leave
<1>2. CASE submit = Nothing
  BY <1>1, <1>2, EndServed DEF Leave
<1>3. CASE submit # Nothing
  <2> SUFFICES ASSUME Calm' PROVE SavesAnswers'
    BY DEF SavesAnswers
  <2>1. StoredServed /\ SaveServed
    BY <1>1, CalmBefore, ServedParts
  <2>2. submit' # Nothing /\ submit'.draft = submit.draft /\ submit'.step = submit.step /\ submit'.todo = submit.todo
    BY <1>3, LeaveDoes
  <2>3. Progress'
    BY <1>1, <1>3, <2>1, <2>2 DEF SaveServed, Progress
  <2>4. PageServed' /\ StoredServed' /\ SaveServed'
    BY <1>1, <1>3, <2>1, <2>2, <2>3 DEF PageServed, StoredServed, SaveServed, Served
  <2>5. QED
    BY <2>4, ServedParts
<1>4. QED
  BY <1>2, <1>3

LEMMA RehydrateServed == ASSUME WizardShapes, SavesAnswers, Rehydrate PROVE SavesAnswers'
<1>1. /\ UNCHANGED <<docs, profileJson, submit>> /\ beside \subseteq beside' /\ (submit # Nothing => "left" \in beside')
      /\ \/ answers' = stored /\ stored' = stored /\ stored # Nothing
         \/ answers' = InitialDraft /\ stored' = Nothing
      /\ typed' = [about |-> answers'.about, hunt |-> answers'.hunt] /\ step' = answers'.step
  BY DEF Rehydrate
<1> SUFFICES ASSUME Calm' PROVE SavesAnswers'
  BY DEF SavesAnswers
<1>2. StoredServed /\ submit = Nothing
  BY <1>1, CalmBefore, ServedParts DEF Calm
<1>3. PICK a : a = answers'
  OBVIOUS
<1>4. Served(a)'
  <2>1. CASE a = stored /\ stored # Nothing
    BY <1>1, <1>2, <2>1 DEF StoredServed, Served
  <2>2. CASE a = InitialDraft
    BY <2>2, InitialTyped DEF Served
  <2>3. QED
    BY <1>1, <1>3, <2>1, <2>2
<1>5. Same(typed', a)
  BY <1>1, <1>3 DEF Same
<1>6. PageServed' /\ StoredServed' /\ SaveServed'
  BY <1>1, <1>2, <1>3, <1>4, <1>5 DEF PageServed, StoredServed, SaveServed, Same, Served
<1>7. QED
  BY <1>6, ServedParts

LEMMA AsideServed ==
  ASSUME SavesAnswers, UNCHANGED <<docs, profileJson, submit, stored, typed, beside>>, page' = "on" => UNCHANGED <<page, step, answers>>
  PROVE  SavesAnswers'
BY DEF SavesAnswers, Calm, Served, Progress

LEMMA ServedKept == ASSUME WizardShapes, SavesAnswers, WizardNext PROVE SavesAnswers'
<1>1. CASE OpenWizard \/ ReadProfiles
  BY <1>1, AsideServed DEF OpenWizard, ReadProfiles
<1>2. CASE Back
  <2>1. step \in 2 .. 6 /\ step - 1 \in 1 .. 6 /\ step - 1 < step /\ Turned(step - 1)
    BY <1>2, BackDoes
  <2>2. UNCHANGED submit /\ beside \subseteq beside' /\ (submit # Nothing => "back" \in beside')
    BY <1>2 DEF Back, GoTo
  <2>3. QED
    BY <2>1, <2>2, TurnedServed
<1>3. CASE Skip
  <2>1. step = 5 /\ Turned(6)
    BY <1>3, SkipDoes
  <2>2. UNCHANGED <<submit, beside>>
    BY <1>3 DEF Skip, GoTo
  <2>3. 6 \in 1 .. 6 /\ beside \subseteq beside'
    BY <2>2
  <2>4. QED
    BY <2>1, <2>2, <2>3, TurnedServed
<1>4. CASE \E f \in {"about", "hunt"}, n \in 0 .. MaxAnswers : GiveAnswer(f, n)
  BY <1>4, GiveServed
<1>5. CASE \E name \in Name : PressNext(name)
  BY <1>5, PressServed
<1>6. CASE \E slice \in {"lanes", "settings", "schedule"} : PutConfig(slice)
  BY <1>6, PutConfigServed
<1>7. CASE \E d \in Doc : PutDoc(d) \/ WriteElsewhere(d)
  <2>1. CASE \E d \in Doc : PutDoc(d)
    BY <2>1, PutServed
  <2>2. CASE \E d \in Doc : WriteElsewhere(d)
    BY <2>2 DEF WriteElsewhere, Calm, SavesAnswers
  <2>3. QED
    BY <1>7, <2>1, <2>2
<1>8. CASE Reload
  BY <1>8, EndServed DEF Reload
<1>9. CASE RequestFails
  BY <1>9, EndServed DEF RequestFails, Refused
<1>10. QED
  BY <1>1, <1>2, <1>3, <1>4, <1>5, <1>6, <1>7, <1>8, <1>9, RehydrateServed, LeaveServed, CreateServed, GuardServed,
     SecretServed, ReadConfigServed, CompleteServed, AloneServed, LaunchServed
  DEF WizardNext

(* The last step stores what the others had stored, and the schedule.      *)
LEMMA LaunchFinished == ASSUME WizardShapes, SavesAnswers, Launch PROVE FinishedAsAnswered'
<1>1. UNCHANGED <<docs, profileJson, typed, beside>>
  BY DEF Launch
<1>2. submit # Nothing /\ submit.step = 6 /\ submit.todo = <<>> /\ submit.draft.step = 6
  BY LaunchDoes DEF WizardShapes, SaveShape
<1>3. Calm => stored' = Nothing
  BY LaunchStored
<1>4. Calm => Same(typed, submit.draft) /\ Served(submit.draft) /\ Progress
  BY <1>2 DEF SavesAnswers
<1>5. Calm => /\ docs["resume"] = typed.about /\ docs["filter"] = typed.about
              /\ (typed.hunt # 0 => docs["urls"] = Normal(typed.hunt))
              /\ profileJson.lanes = (typed.hunt # 0) /\ profileJson.schedule
  BY <1>2, <1>4 DEF Same, Served, Progress
<1>6. QED
  BY <1>1, <1>3, <1>5 DEF FinishedAsAnswered, Calm

(* A finished wizard does nothing more. *)
LEMMA FinishedKept == ASSUME WizardShapes, SavesAnswers, FinishedAsAnswered, WizardNext PROVE FinishedAsAnswered'
<1>1. CASE Launch
  BY <1>1, LaunchFinished
<1>2. CASE ~Launch /\ page = "done"
  <2>1. submit = Nothing
    BY <1>2 DEF WizardShapes, PageShape
  <2>2. (UNCHANGED <<docs, profileJson, typed, stored>> /\ beside \subseteq beside') \/ "outside" \in beside'
    BY <1>2, <2>1 DEF WizardNext, OpenWizard, Rehydrate, ReadProfiles, Leave, Reload, Back, Skip, GiveAnswer, PressNext, CreateProfile, PutDoc,
       Doing, Guard, PutSecret, ReadConfig, PutConfig, RequestFails, Complete, CompleteAlone, WriteElsewhere
  <2>3. QED
    BY <1>2, <2>2 DEF FinishedAsAnswered
<1>3. CASE ~Launch /\ page # "done"
  <2>1. page' # "done"
    BY <1>3 DEF WizardNext, OpenWizard, Rehydrate, ReadProfiles, Leave, Reload, Back, Skip, GoTo, GiveAnswer, PressNext, CreateProfile, PutDoc,
       Guard, PutSecret, ReadConfig, PutConfig, RequestFails, Complete, CompleteAlone, WriteElsewhere
  <2>2. QED
    BY <2>1 DEF FinishedAsAnswered
<1>4. QED
  BY <1>1, <1>2, <1>3

LEMMA WizardBegins == WizardInit => WizardShapes /\ GuardPassed
<1> SUFFICES ASSUME WizardInit PROVE WizardShapes /\ GuardPassed
  OBVIOUS
<1>1. docs \in [Doc -> 0 .. Normal(MaxAnswers)]
  BY AnswersBounded DEF WizardInit, Normal, Elsewhere
<1>2. profileJson \in Config
  BY DEF WizardInit, Config
<1>3. typed \in Answers
  BY AnswersBounded DEF WizardInit, Answers
<1>4. WizardTypeOK
  <2>1. /\ taken = {} /\ known = {} /\ page = "loading" /\ step = 1 /\ answers = InitialDraft
        /\ stored = Nothing /\ submit = Nothing /\ blocked = FALSE
    BY DEF WizardInit
  <2>2. answers \in Draft /\ step \in 1 .. 6
    BY <2>1, InitialTyped
  <2>3. stored \in Draft \cup {Nothing} /\ submit \in Submit \cup {Nothing} /\ (stored # Nothing => stored.profile \in taken)
    BY <2>1
  <2>4. known \subseteq taken /\ taken \subseteq Name /\ page \in {"off", "loading", "on", "done"} /\ blocked \in BOOLEAN
    BY <2>1
  <2>5. QED
    BY <1>1, <1>2, <1>3, <2>2, <2>3, <2>4 DEF WizardTypeOK
<1>5. SaveShape /\ PageShape /\ GuardPassed
  BY InitialTyped, AnswersBounded DEF WizardInit, SaveShape, PageShape, GuardPassed
<1>6. QED
  BY <1>4, <1>5 DEF WizardShapes

(* The wizard refuses a profile it made itself only after another tool      *)
(* wrote to it, or a save failed or lost its page after its first write;    *)
(* and when it is done, with nothing going on beside its saves, the         *)
(* documents and the configuration are as answered last and no draft is     *)
(* left: for every number of profiles, answers, faults and visits.          *)
THEOREM WizardHolds == WizardSpec => []WizardSound
<1>1. WizardInit => WizardInv
  BY WizardBegins DEF WizardInit, WizardInv, BlockedNeedsCause, WritesKnown, SavesAnswers, FinishedAsAnswered
<1>2. WizardInv /\ [WizardNext]_wizardVars => WizardInv'
  <2>1. ASSUME WizardInv, WizardNext PROVE WizardInv'
    BY <2>1, WizardShapesKept, GuardedKept, BlockedKept, KnownKept, ServedKept, FinishedKept DEF WizardInv
  <2>2. ASSUME WizardInv, UNCHANGED wizardVars PROVE WizardInv'
    BY <2>2 DEF wizardVars, WizardInv, WizardShapes, WizardTypeOK, SaveShape, PageShape, GuardPassed, BlockedNeedsCause,
       WritesKnown, Clear, Wrote, Knows, SavesAnswers, Calm, Served, Progress, FinishedAsAnswered
  <2>3. QED
    BY <2>1, <2>2
<1>3. WizardInv => WizardSound
  BY DEF WizardInv, WizardShapes, WizardSound
<1>4. QED
  BY <1>1, <1>2, <1>3, PTL DEF WizardSpec

(* No step of the wizard writes over what another tool wrote, but one that  *)
(* came after the guard's read of the step that was being saved.            *)
THEOREM ClobbersNothing == WizardSpec => NeverClobbers
<1>1. WizardInit => WizardShapes /\ GuardPassed
  BY WizardBegins
<1>2. (WizardShapes /\ GuardPassed) /\ [WizardNext]_wizardVars => (WizardShapes /\ GuardPassed)'
  <2>1. ASSUME WizardShapes, GuardPassed, WizardNext PROVE (WizardShapes /\ GuardPassed)'
    BY <2>1, WizardShapesKept, GuardedKept
  <2>2. ASSUME WizardShapes, GuardPassed, UNCHANGED wizardVars PROVE (WizardShapes /\ GuardPassed)'
    BY <2>2 DEF wizardVars, WizardShapes, WizardTypeOK, SaveShape, PageShape, GuardPassed
  <2>3. QED
    BY <2>1, <2>2
<1>3. WizardShapes /\ GuardPassed /\ [WizardNext]_wizardVars => [NeverClobbersStep]_wizardVars
  BY NothingClobbered
<1>4. QED
  BY <1>1, <1>2, <1>3, PTL DEF WizardSpec, NeverClobbers
----------------------------------------------------------------------------
(* The list of searches, for any pages, identities and imported texts.     *)

(* What the links of a set identify: to keep a link is to keep its key.     *)
KeysOf(links) == {Key(l) : l \in links}

(* All that stands under the page headings of a form's rows. *)
AllRows(rows) == UNION {rows[p] : p \in Page}

(* A text with every filed link clean and under its own page. *)
InOrder(d) ==
  /\ d.filed[NoHeading] = {}
  /\ \A p \in Page : \A link \in d.filed[p] : link.page = p /\ ~link.dirty

SearchesInv == doc \in UrlsDoc /\ SavedIsRead

(* To clean a link changes nothing of what it searches. *)
LEMMA CleanKeeps ==
  ASSUME NEW l \in Link
  PROVE  /\ Clean(l) \in Link
         /\ Clean(l).page = l.page
         /\ ~Clean(l).dirty
         /\ Key(Clean(l)) = Key(l)
BY DEF Clean, Link, Key

LEMMA CleanedHas ==
  ASSUME NEW S \in SUBSET Link
  PROVE  /\ {Clean(l) : l \in S} \in SUBSET Link
         /\ KeysOf({Clean(l) : l \in S}) = KeysOf(S)
<1>1. {Clean(l) : l \in S} \in SUBSET Link
  BY CleanKeeps
<1>2. ASSUME NEW k \in KeysOf({Clean(l) : l \in S})
      PROVE  k \in KeysOf(S)
  <2>1. PICK l \in S : k = Key(Clean(l))
    BY DEF KeysOf
  <2>2. k = Key(l)
    BY <2>1, CleanKeeps
  <2> QED
    BY <2>2 DEF KeysOf
<1>3. ASSUME NEW k \in KeysOf(S)
      PROVE  k \in KeysOf({Clean(l) : l \in S})
  <2>1. PICK l \in S : k = Key(l)
    BY DEF KeysOf
  <2>2. Clean(l) \in {Clean(m) : m \in S} /\ k = Key(Clean(l))
    BY <2>1, CleanKeeps
  <2> QED
    BY <2>2 DEF KeysOf
<1> QED
  BY <1>1, <1>2, <1>3

LEMMA NoHeadingIsOne == NoHeading \in Heading /\ Page \subseteq Heading
BY DEF Heading

LEMMA NotesTyped ==
  ASSUME NEW d \in UrlsDoc
  PROVE  Notes(d) \in [Heading -> SUBSET Link] /\ Rows(d) \in SUBSET Link
<1>1. d.early \in [Heading -> SUBSET Link] /\ d.filed \in [Heading -> SUBSET Link]
  BY DEF UrlsDoc
<1>2. [h \in Heading |-> d.early[h] \cup d.filed[h]] \in [Heading -> SUBSET Link]
  BY <1>1
<1>3. Links(d.filed) \in SUBSET Link
  BY <1>1 DEF Links
<1> QED
  BY <1>1, <1>2, <1>3 DEF Notes, Rows

LEMMA GroupedTyped ==
  ASSUME NEW d \in UrlsDoc
  PROVE  Grouped(d) \in [Heading -> SUBSET Link]
<1>1. Rows(d) \in SUBSET Link
  BY NotesTyped
<1>2. ASSUME NEW h \in Heading
      PROVE  {Clean(link) : link \in {l \in Rows(d) : l.page = h}} \in SUBSET Link
  BY <1>1, CleanKeeps
<1> QED
  BY <1>2 DEF Grouped

LEMMA NormalTyped ==
  ASSUME NEW d \in UrlsDoc
  PROVE  Normalized(d) \in UrlsDoc
BY NotesTyped, GroupedTyped DEF Normalized, UrlsDoc

LEMMA SerializedTyped ==
  ASSUME NEW rows \in [Page -> SUBSET Link]
  PROVE  /\ Serialized(rows) \in UrlsDoc
         /\ Rows(Serialized(rows)) = AllRows(rows)
         /\ Everywhere(Serialized(rows)) = AllRows(rows)
<1> DEFINE filed == [h \in Heading |-> IF h \in Page THEN rows[h] ELSE {}]
<1>1. Nowhere \in [Heading -> SUBSET Link]
  BY DEF Nowhere
<1>2. filed \in [Heading -> SUBSET Link]
  OBVIOUS
<1>3. Serialized(rows) \in UrlsDoc
  BY <1>1, <1>2 DEF Serialized, UrlsDoc
<1>4. /\ Serialized(rows).early = Nowhere
      /\ Serialized(rows).filed = filed
      /\ Serialized(rows).channel
  BY DEF Serialized
<1>5. Links(Nowhere) = {}
  BY DEF Links, Nowhere
<1>6. Links(filed) = AllRows(rows)
  BY NoHeadingIsOne DEF Links, AllRows
<1>7. Rows(Serialized(rows)) = AllRows(rows)
  BY <1>4, <1>6 DEF Rows
<1>8. Everywhere(Serialized(rows)) = AllRows(rows)
  BY <1>4, <1>5, <1>6 DEF Everywhere
<1> QED
  BY <1>3, <1>7, <1>8

LEMMA UnderTyped ==
  ASSUME NEW d \in UrlsDoc
  PROVE  RowsUnder(d) \in [Page -> SUBSET Link]
BY NoHeadingIsOne DEF RowsUnder, UrlsDoc

LEMMA HeadedKeeps ==
  ASSUME NEW d \in UrlsDoc
  PROVE  Headed(d) \in UrlsDoc /\ Everywhere(Headed(d)) = Everywhere(d)
<1>1. CASE d.channel
  BY <1>1 DEF Headed
<1>2. CASE ~d.channel
  <2>1. Headed(d) = [d EXCEPT !.early = Notes(d), !.filed = Nowhere, !.channel = TRUE]
    BY <1>2 DEF Headed
  <2>2. Nowhere \in [Heading -> SUBSET Link]
    BY DEF Nowhere
  <2>3. Headed(d) \in UrlsDoc
    BY <2>1, <2>2, NotesTyped DEF UrlsDoc
  <2>4. Headed(d).early = Notes(d) /\ Headed(d).filed = Nowhere
    BY <2>1 DEF UrlsDoc
  <2>5. Links(Nowhere) = {}
    BY DEF Links, Nowhere
  <2>6. Notes(d) = [h \in Heading |-> d.early[h] \cup d.filed[h]]
    BY <1>2 DEF Notes
  <2>7. Links(Notes(d)) = Links(d.early) \cup Links(d.filed)
    BY <2>6 DEF Links
  <2> QED
    BY <2>3, <2>4, <2>5, <2>7 DEF Everywhere
<1> QED
  BY <1>1, <1>2

(* A text that the normaliser does not refuse comes out of it in order.     *)
LEMMA NormalInOrder ==
  ASSUME NEW d \in UrlsDoc, ~Refuses(d)
  PROVE  InOrder(Normalized(d))
<1>1. Rows(d) \in SUBSET Link
  BY NotesTyped
<1>2. \A link \in Rows(d) : link.page # NoHeading
  BY DEF Refuses
<1>3. Normalized(d).filed = Grouped(d)
  BY DEF Normalized
<1>4. Grouped(d)[NoHeading] = {}
  BY <1>2, NoHeadingIsOne DEF Grouped
<1>5. ASSUME NEW p \in Page, NEW link \in Grouped(d)[p]
      PROVE  link.page = p /\ ~link.dirty
  <2>1. Grouped(d)[p] = {Clean(m) : m \in {l \in Rows(d) : l.page = p}}
    BY NoHeadingIsOne DEF Grouped
  <2>2. PICK m \in Rows(d) : m.page = p /\ link = Clean(m)
    BY <2>1
  <2> QED
    BY <1>1, <2>2, CleanKeeps
<1> QED
  BY <1>3, <1>4, <1>5 DEF InOrder

LEMMA NormalRows ==
  ASSUME NEW d \in UrlsDoc
  PROVE  KeysOf(Links(Grouped(d))) = KeysOf(Rows(d))
<1>1. Rows(d) \in SUBSET Link
  BY NotesTyped
<1>2. ASSUME NEW h \in Heading
      PROVE  Grouped(d)[h] = {Clean(m) : m \in {l \in Rows(d) : l.page = h}}
  BY DEF Grouped
<1>3. Links(Grouped(d)) = {Clean(l) : l \in Rows(d)}
  <2>1. ASSUME NEW x \in Links(Grouped(d))
        PROVE  x \in {Clean(l) : l \in Rows(d)}
    <3>1. PICK h \in Heading : x \in Grouped(d)[h]
      BY DEF Links
    <3> QED
      BY <3>1, <1>2
  <2>2. ASSUME NEW l \in Rows(d)
        PROVE  Clean(l) \in Links(Grouped(d))
    <3>1. l.page \in Heading
      BY <1>1 DEF Link
    <3>2. Clean(l) \in Grouped(d)[l.page]
      BY <3>1, <1>2
    <3> QED
      BY <3>1, <3>2 DEF Links
  <2> QED
    BY <2>1, <2>2
<1> QED
  BY <1>1, <1>3, CleanedHas

(* The normaliser loses no link of a text it takes, wherever it stood, and  *)
(* makes none up.                                                           *)
THEOREM NormalKeepsLinks ==
  ASSUME NEW d \in UrlsDoc
  PROVE  KeysOf(Everywhere(Normalized(d))) = KeysOf(Everywhere(d))
<1>1. Normalized(d).early = Notes(d) /\ Normalized(d).filed = Grouped(d)
  BY DEF Normalized
<1>2. KeysOf(Everywhere(Normalized(d))) = KeysOf(Links(Notes(d))) \cup KeysOf(Links(Grouped(d)))
  BY <1>1 DEF Everywhere, KeysOf
<1>3. Links(Notes(d)) \cup Rows(d) = Everywhere(d)
  <2>1. CASE d.channel
    BY <2>1 DEF Notes, Rows, Everywhere
  <2>2. CASE ~d.channel
    <3>1. Notes(d) = [h \in Heading |-> d.early[h] \cup d.filed[h]] /\ Rows(d) = {}
      BY <2>2 DEF Notes, Rows
    <3>2. Links(Notes(d)) = Links(d.early) \cup Links(d.filed)
      BY <3>1 DEF Links
    <3> QED
      BY <3>1, <3>2 DEF Everywhere
  <2> QED
    BY <2>1, <2>2
<1>4. KeysOf(Links(Notes(d))) \cup KeysOf(Rows(d)) = KeysOf(Everywhere(d))
  BY <1>3 DEF KeysOf
<1> QED
  BY <1>2, <1>4, NormalRows

(* A text in order is left as it is: to save a saved text changes nothing.  *)
THEOREM NormalIsStable ==
  ASSUME NEW d \in UrlsDoc, ~Refuses(d)
  PROVE  ~Refuses(Normalized(d)) /\ Normalized(Normalized(d)) = Normalized(d)
<1> DEFINE n == Normalized(d)
<1>1. n \in UrlsDoc /\ n.channel /\ ~n.bad /\ n.filed = Grouped(d) /\ n.early = Notes(d)
  BY NormalTyped DEF Normalized
<1>2. InOrder(n)
  BY NormalInOrder
<1>3. Rows(n) = Links(Grouped(d)) /\ Notes(n) = Notes(d)
  BY <1>1 DEF Rows, Notes
<1>4. ASSUME NEW l \in Rows(n)
      PROVE  l \in Link /\ l.page \in Page /\ l \in n.filed[l.page] /\ ~l.dirty /\ Clean(l) = l
  <2>1. PICK h \in Heading : l \in n.filed[h]
    BY <1>1, <1>3 DEF Links
  <2>2. h \in Page
    BY <2>1, <1>2 DEF InOrder, Heading
  <2>3. l.page = h /\ ~l.dirty
    BY <2>1, <2>2, <1>2 DEF InOrder
  <2>4. l \in Link
    BY <1>1, <1>3, NotesTyped
  <2>5. Clean(l) = l
    BY <2>3, <2>4 DEF Clean, Link
  <2> QED
    BY <2>1, <2>2, <2>3, <2>4, <2>5
<1>5. ~Refuses(n)
  BY <1>1, <1>4, UrlsAssumption DEF Refuses
<1>6. ASSUME NEW h \in Heading
      PROVE  Grouped(n)[h] = n.filed[h]
  <2>1. Grouped(n)[h] = {Clean(m) : m \in {l \in Rows(n) : l.page = h}}
    BY DEF Grouped
  <2>2. ASSUME NEW x \in Grouped(n)[h]
        PROVE  x \in n.filed[h]
    <3>1. PICK m \in Rows(n) : m.page = h /\ x = Clean(m)
      BY <2>1
    <3> QED
      BY <3>1, <1>4
  <2>3. ASSUME NEW x \in n.filed[h]
        PROVE  x \in Grouped(n)[h]
    <3>1. x \in Rows(n)
      BY <1>1, <1>3 DEF Links
    <3>2. h \in Page
      BY <1>2 DEF InOrder, Heading
    <3>3. x.page = h
      BY <3>2, <1>2 DEF InOrder
    <3> QED
      BY <3>1, <3>3, <1>4, <2>1
  <2> QED
    BY <2>2, <2>3
<1>7. Grouped(n) = n.filed
  BY <1>1, <1>6, GroupedTyped DEF UrlsDoc
<1> QED
  BY <1>1, <1>3, <1>5, <1>7 DEF Normalized

(* What a save of rows that the normaliser takes writes: a text in order,   *)
(* with every link of the rows.                                             *)
LEMMA RowsSaved ==
  ASSUME NEW rows \in [Page -> SUBSET Link], NEW who, SaveNormalized(Serialized(rows), who)
  PROVE  /\ doc' \in UrlsDoc
         /\ by' = who
         /\ InOrder(doc')
         /\ KeysOf(Everywhere(doc')) = KeysOf(AllRows(rows))
<1>1. /\ ~Refuses(Serialized(rows))
      /\ doc' = Normalized(Serialized(rows))
      /\ by' = who
  BY DEF SaveNormalized, WrittenBy
<1>2. Serialized(rows) \in UrlsDoc /\ Everywhere(Serialized(rows)) = AllRows(rows)
  BY SerializedTyped
<1> QED
  BY <1>1, <1>2, NormalTyped, NormalInOrder, NormalKeepsLinks

(* A save of the form loses no link but those taken out of the rows. *)
LEMMA FormKeeps ==
  ASSUME doc \in UrlsDoc, NEW removed \in SUBSET Link, NEW added \in SUBSET Link,
         FormSave(removed, added)
  PROVE  /\ doc' \in UrlsDoc
         /\ by' = "form"
         /\ InOrder(doc')
         /\ KeysOf(AllRows(RowsUnder(doc))) \ KeysOf(Everywhere(doc')) \subseteq KeysOf(removed)
<1> DEFINE rows == RowsUnder(doc)
           left == [p \in Page |-> rows[p] \ removed]
           filled == [p \in Page |-> left[p] \cup {Clean(link) : link \in {l \in added : l.page = p}}]
<1>1. SaveNormalized(Serialized(filled), "form")
  BY DEF FormSave
<1>2. rows \in [Page -> SUBSET Link]
  BY UnderTyped
<1>3. filled \in [Page -> SUBSET Link]
  BY <1>2, CleanKeeps
<1>4. /\ doc' \in UrlsDoc /\ by' = "form" /\ InOrder(doc')
      /\ KeysOf(Everywhere(doc')) = KeysOf(AllRows(filled))
  <2> HIDE DEF filled
  <2> QED
    BY <1>1, <1>3, RowsSaved
<1>5. AllRows(rows) \ removed \subseteq AllRows(filled)
  BY DEF AllRows
<1>6. ASSUME NEW k \in KeysOf(AllRows(rows)), k \notin KeysOf(AllRows(filled))
      PROVE  k \in KeysOf(removed)
  <2>1. PICK l \in AllRows(rows) : k = Key(l)
    BY <1>6 DEF KeysOf
  <2>2. l \notin AllRows(filled)
    BY <2>1, <1>6 DEF KeysOf
  <2>3. l \in removed
    BY <2>1, <2>2, <1>5
  <2> QED
    BY <2>1, <2>3 DEF KeysOf
<1> HIDE DEF filled
<1> QED
  BY <1>4, <1>6

(* Re-file loses no link: each row that it takes from under a page goes     *)
(* under its own.                                                           *)
LEMMA RefileKeeps ==
  ASSUME doc \in UrlsDoc, Refile
  PROVE  /\ doc' \in UrlsDoc
         /\ by' = "form"
         /\ InOrder(doc')
         /\ KeysOf(AllRows(RowsUnder(doc))) \subseteq KeysOf(Everywhere(doc'))
<1> DEFINE rows == RowsUnder(doc)
           all == UNION {rows[p] : p \in Page}
           filled == [p \in Page |-> {l \in rows[p] : l.page \in {p, NoHeading}}
                                      \cup {Clean(l) : l \in {k \in all \ rows[p] : k.page = p}}]
<1>1. SaveNormalized(Serialized(filled), "form")
  BY DEF Refile
<1>2. rows \in [Page -> SUBSET Link]
  BY UnderTyped
<1>3. all \in SUBSET Link
  BY <1>2
<1>4. filled \in [Page -> SUBSET Link]
  <2>1. ASSUME NEW p \in Page
        PROVE  {Clean(l) : l \in {k \in all \ rows[p] : k.page = p}} \in SUBSET Link
    BY <1>3, CleanKeeps
  <2> QED
    BY <2>1, <1>2
<1>5. /\ doc' \in UrlsDoc /\ by' = "form" /\ InOrder(doc')
      /\ KeysOf(Everywhere(doc')) = KeysOf(AllRows(filled))
  <2> HIDE DEF filled
  <2> QED
    BY <1>1, <1>4, RowsSaved
<1>6. ASSUME NEW l \in AllRows(rows)
      PROVE  Key(l) \in KeysOf(AllRows(filled))
  <2>1. PICK h \in Page : l \in rows[h]
    BY DEF AllRows
  <2>2. l \in Link /\ l \in all
    BY <2>1, <1>3
  <2>3. CASE l.page = NoHeading
    <3>1. l \in filled[h]
      BY <2>1, <2>3
    <3>2. l \in AllRows(filled)
      BY <3>1 DEF AllRows
    <3> QED
      BY <3>2 DEF KeysOf
  <2>4. CASE l.page \in Page
    <3>1. CASE l \in rows[l.page]
      <4>1. l \in filled[l.page]
        BY <2>4, <3>1
      <4>2. l \in AllRows(filled)
        BY <2>4, <4>1 DEF AllRows
      <4> QED
        BY <4>2 DEF KeysOf
    <3>2. CASE l \notin rows[l.page]
      <4>1. Clean(l) \in filled[l.page]
        BY <2>2, <2>4, <3>2
      <4>2. Clean(l) \in AllRows(filled)
        BY <2>4, <4>1 DEF AllRows
      <4>3. Key(Clean(l)) = Key(l)
        BY <2>2, CleanKeeps
      <4> QED
        BY <4>2, <4>3 DEF KeysOf
    <3> QED
      BY <3>1, <3>2
  <2> QED
    BY <2>2, <2>3, <2>4 DEF Link, Heading
<1> HIDE DEF filled
<1>7. KeysOf(AllRows(rows)) \subseteq KeysOf(AllRows(filled))
  BY <1>6 DEF KeysOf
<1> QED
  BY <1>5, <1>7

(* `add-url` loses nothing: what was in the text is in it still. *)
LEMMA AddUrlKeeps ==
  ASSUME doc \in UrlsDoc, NEW link \in Link, AddUrl(link)
  PROVE  /\ doc' \in UrlsDoc
         /\ by' = "add-url"
         /\ Everywhere(doc) \subseteq Everywhere(doc')
<1> DEFINE d == Headed(doc)
           pg == link.page
<1>1. pg \in Page /\ pg \in Heading
  BY NoHeadingIsOne DEF AddUrl, Link, Heading
<1>2. d \in UrlsDoc /\ Everywhere(d) = Everywhere(doc)
  BY HeadedKeeps
<1>3. Clean(link) \in Link
  BY CleanKeeps
<1>4. d.early \in [Heading -> SUBSET Link] /\ d.filed \in [Heading -> SUBSET Link]
  BY <1>2 DEF UrlsDoc
<1>5. by' = "add-url"
  BY DEF AddUrl, WrittenBy
<1> HIDE DEF d
<1>6. CASE d.early[pg] # {}
  <2>1. doc' = [d EXCEPT !.early[pg] = @ \cup {Clean(link)}]
    BY <1>6 DEF AddUrl, WrittenBy, d
  <2>2. doc'.early = [d.early EXCEPT ![pg] = @ \cup {Clean(link)}] /\ doc'.filed = d.filed
    BY <1>2, <2>1 DEF UrlsDoc
  <2>3. doc'.early \in [Heading -> SUBSET Link]
    BY <1>1, <1>3, <1>4, <2>2
  <2>4. doc' \in UrlsDoc
    BY <1>2, <2>1, <2>2, <2>3 DEF UrlsDoc
  <2>5. \A h \in Heading : d.early[h] \subseteq doc'.early[h]
    BY <1>1, <1>4, <2>2
  <2>6. Everywhere(d) \subseteq Everywhere(doc')
    BY <2>2, <2>5 DEF Everywhere, Links
  <2> QED
    BY <1>2, <1>5, <2>4, <2>6
<1>7. CASE d.early[pg] = {}
  <2>1. doc' = [d EXCEPT !.filed[pg] = @ \cup {Clean(link)}]
    BY <1>7 DEF AddUrl, WrittenBy, d
  <2>2. doc'.filed = [d.filed EXCEPT ![pg] = @ \cup {Clean(link)}] /\ doc'.early = d.early
    BY <1>2, <2>1 DEF UrlsDoc
  <2>3. doc'.filed \in [Heading -> SUBSET Link]
    BY <1>1, <1>3, <1>4, <2>2
  <2>4. doc' \in UrlsDoc
    BY <1>2, <2>1, <2>2, <2>3 DEF UrlsDoc
  <2>5. \A h \in Heading : d.filed[h] \subseteq doc'.filed[h]
    BY <1>1, <1>4, <2>2
  <2>6. Everywhere(d) \subseteq Everywhere(doc')
    BY <2>2, <2>5 DEF Everywhere, Links
  <2> QED
    BY <1>2, <1>5, <2>4, <2>6
<1> QED
  BY <1>6, <1>7

(* At most one link is lost to a set of keys that is one link's, or none.  *)
LEMMA AtMostOne ==
  ASSUME NEW S, NEW link, S \subseteq KeysOf({link})
  PROVE  Cardinality(S) <= 1
<1>1. KeysOf({link}) = {Key(link)}
  BY DEF KeysOf
<1>2. S = {} \/ S = {Key(link)}
  BY <1>1
<1>3. Cardinality({}) = 0 /\ Cardinality({Key(link)}) = 1
  BY FS_EmptySet, FS_Singleton
<1> QED
  BY <1>2, <1>3

LEMMA NoneLost ==
  ASSUME NEW S, S = {}
  PROVE  Cardinality(S) = 0
BY FS_EmptySet

LEMMA FormStep ==
  ASSUME doc \in UrlsDoc, NEW link,
         by' = "form",
         KeysOf(AllRows(RowsUnder(doc))) \ KeysOf(Everywhere(doc')) \subseteq KeysOf({link})
  PROVE  LinksKeptStep
BY AtMostOne DEF LinksKeptStep, KeysOf, AllRows

LEMMA AddStep ==
  ASSUME by' = "add-url", Everywhere(doc) \subseteq Everywhere(doc')
  PROVE  LinksKeptStep
<1>1. {Key(l) : l \in Everywhere(doc)} \ {Key(l) : l \in Everywhere(doc')} = {}
  OBVIOUS
<1> QED
  BY <1>1, NoneLost DEF LinksKeptStep

LEMMA SearchesStep ==
  ASSUME doc \in UrlsDoc, SearchUrlsNext
  PROVE  SearchesInv' /\ LinksKeptStep
<1>1. ASSUME NEW d \in Imports, Import(d)
      PROVE  SearchesInv' /\ LinksKeptStep
  BY <1>1, UrlsAssumption DEF Import, WrittenBy, SearchesInv, SavedIsRead, LinksKeptStep
<1>2. ASSUME NEW d \in Imports, ConfigSet(d)
      PROVE  SearchesInv' /\ LinksKeptStep
  <2>1. d \in UrlsDoc
    BY UrlsAssumption
  <2>2. ~Refuses(d) /\ doc' = Normalized(d) /\ by' = "config set"
    BY <1>2 DEF ConfigSet, SaveNormalized, WrittenBy
  <2>3. doc' \in UrlsDoc /\ InOrder(doc')
    BY <2>1, <2>2, NormalTyped, NormalInOrder
  <2>4. SearchesInv'
    BY <2>3 DEF SearchesInv, SavedIsRead, InOrder
  <2>5. LinksKeptStep
    BY <2>2 DEF LinksKeptStep
  <2> QED
    BY <2>4, <2>5
<1>3. ASSUME NEW link \in Link, FormSave({link}, {})
      PROVE  SearchesInv' /\ LinksKeptStep
  <2>1. /\ doc' \in UrlsDoc /\ by' = "form" /\ InOrder(doc')
        /\ KeysOf(AllRows(RowsUnder(doc))) \ KeysOf(Everywhere(doc')) \subseteq KeysOf({link})
    BY <1>3, FormKeeps
  <2>2. SearchesInv'
    BY <2>1 DEF SearchesInv, SavedIsRead, InOrder
  <2>3. LinksKeptStep
    BY <2>1, FormStep
  <2> QED
    BY <2>2, <2>3
<1>4. ASSUME NEW link \in Link, FormSave({}, {link})
      PROVE  SearchesInv' /\ LinksKeptStep
  <2>1. /\ doc' \in UrlsDoc /\ by' = "form" /\ InOrder(doc')
        /\ KeysOf(AllRows(RowsUnder(doc))) \ KeysOf(Everywhere(doc')) \subseteq KeysOf({})
    BY <1>4, FormKeeps
  <2>2. KeysOf({}) = {}
    BY DEF KeysOf
  <2>3. SearchesInv'
    BY <2>1 DEF SearchesInv, SavedIsRead, InOrder
  <2>4. LinksKeptStep
    BY <2>1, <2>2, FormStep
  <2> QED
    BY <2>3, <2>4
<1>5. ASSUME NEW link \in Link, AddUrl(link)
      PROVE  SearchesInv' /\ LinksKeptStep
  <2>1. doc' \in UrlsDoc /\ by' = "add-url" /\ Everywhere(doc) \subseteq Everywhere(doc')
    BY <1>5, AddUrlKeeps
  <2>2. SearchesInv'
    BY <2>1 DEF SearchesInv, SavedIsRead
  <2>3. LinksKeptStep
    BY <2>1, AddStep
  <2> QED
    BY <2>2, <2>3
<1>6. CASE Refile
  <2>1. /\ doc' \in UrlsDoc /\ by' = "form" /\ InOrder(doc')
        /\ KeysOf(AllRows(RowsUnder(doc))) \subseteq KeysOf(Everywhere(doc'))
    BY <1>6, RefileKeeps
  <2>2. SearchesInv'
    BY <2>1 DEF SearchesInv, SavedIsRead, InOrder
  <2>3. LinksKeptStep
    BY <2>1, FormStep
  <2> QED
    BY <2>2, <2>3
<1> QED
  BY <1>1, <1>2, <1>3, <1>4, <1>5, <1>6 DEF SearchUrlsNext

LEMMA SearchesInvariant == SearchUrlsSpec => []SearchesInv
<1>1. SearchUrlsInit => SearchesInv
  BY UrlsAssumption DEF SearchUrlsInit, SearchesInv, SavedIsRead
<1>2. SearchesInv /\ [SearchUrlsNext]_urlVars => SearchesInv'
  <2>1. ASSUME SearchesInv, SearchUrlsNext
        PROVE  SearchesInv'
    BY <2>1, SearchesStep DEF SearchesInv
  <2>2. ASSUME SearchesInv, UNCHANGED urlVars
        PROVE  SearchesInv'
    BY <2>2 DEF SearchesInv, SavedIsRead, urlVars
  <2> QED
    BY <2>1, <2>2
<1> QED
  BY <1>1, <1>2, PTL DEF SearchUrlsSpec

(* The list of searches: after a save of the form or of `config set`, every *)
(* filed link is clean, under the heading of its own page and under no      *)
(* other, for any texts imported before it and however it was edited.       *)
THEOREM SearchesHold == SearchUrlsSpec => []SavedIsRead
<1>1. SearchesInv => SavedIsRead
  BY DEF SearchesInv
<1> QED
  BY <1>1, SearchesInvariant, PTL

(* No save of the form loses a link under a page heading but the one that   *)
(* was taken out, and `add-url` loses none at all.                          *)
THEOREM LinksStay == SearchUrlsSpec => LinksKept
<1>1. SearchesInv /\ [SearchUrlsNext]_urlVars => [LinksKeptStep]_urlVars
  BY SearchesStep DEF SearchesInv
<1> QED
  BY <1>1, SearchesInvariant, PTL DEF SearchUrlsSpec, LinksKept
=============================================================================
