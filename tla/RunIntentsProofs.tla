-------------------------- MODULE RunIntentsProofs --------------------------
(***************************************************************************)
(* Run requests for any number of profiles, requests, runs and restarts:   *)
(* each request is spawned at most once, and the tables implement the      *)
(* promise of IntentPromise.  Then two pages of the board: what the list   *)
(* of runs shows, and what the settings write and show.                    *)
(***************************************************************************)
EXTENDS RunIntents, RunDesk, SettingsDesk, SequenceTheorems, WellFoundedInduction, TLAPS

IntentRow == [profile : Profile, aged : BOOLEAN,
              status : {"pending", "claimed", "cancelled"}, run : Nat \cup {NoRun}]

(* What the board and the daemon hold refers to rows that exist. *)
Referenced ==
  /\ Len(intents) <= MaxIntents
  /\ deleting \subseteq DOMAIN intents /\ todo \subseteq DOMAIN intents
  /\ current # NoIntent => current \in DOMAIN intents

(* A request was spawned once at most, and then its row says "claimed"; the *)
(* one about to be spawned is claimed and was not spawned.                  *)
ClaimedFirst ==
  /\ \A i \in Intent : \/ spawned[i] = 0
                       \/ /\ spawned[i] = 1 /\ i \in DOMAIN intents
                          /\ intents[i].status = "claimed"
  /\ dpc = "spawn" => spawned[current] = 0 /\ intents[current].status = "claimed"

(* The part of TypeOK the argument needs. *)
Rows ==
  /\ intents \in Seq(IntentRow)
  /\ current \in Intent \cup {NoIntent}
  /\ dpc \in {"down", "idle", "loop"} <=> current = NoIntent
  /\ spawned \in [Intent -> Nat]

Requests == Rows /\ Referenced /\ ClaimedFirst

RunRow == [profile : Profile, at : 1 .. MaxRuns, by : Intent \cup {NoIntent},
           status : {"running", "ended", "crashed"}, beat : {"none", "fresh", "stale"}]

Holder == [profile : Profile, at : 1 .. MaxRuns, by : Intent \cup {NoIntent}, row : Nat]

(* The rest of TypeOK. *)
Processes ==
  /\ runs \in Seq(RunRow) /\ lock \in Holder \cup {NoRun}
  /\ posting \subseteq Profile /\ told \subseteq Intent
  /\ born \in 0 .. MaxRuns /\ since \in 0 .. MaxRuns /\ dstarts \in 0 .. MaxStarts
  /\ dpc \in {"down", "idle", "loop", "spawn", "await", "attach"}

IInv == Requests /\ Processes

----------------------------------------------------------------------------
(* The greatest of a set of row numbers is one of them. *)
LEMMA NewestIsMember ==
  ASSUME NEW n \in Nat, NEW S \in SUBSET (1 .. n), S # {}
  PROVE  Newest(S) \in S /\ \A m \in S : m <= Newest(S)
<1> DEFINE T == {k \in Nat : n - k \in S}
<1>1. T # {} /\ T \subseteq Nat
  <2>1. PICK m \in S : TRUE
    OBVIOUS
  <2>2. n - m \in Nat /\ n - (n - m) = m
    BY <2>1
  <2>3. QED
    BY <2>1, <2>2
<1>2. PICK x \in T : \A y \in T : ~ (<<y, x>> \in OpToRel(<, Nat))
  <2> HIDE DEF T
  <2>1. QED
    BY <1>1, NatLessThanWellFounded, WFMin
<1>3. \A m \in S : m <= n - x
  <2> SUFFICES ASSUME NEW m \in S, ~(m <= n - x) PROVE FALSE
    OBVIOUS
  <2>1. n - m \in T /\ n - m < x
    <3>1. n - m \in Nat /\ n - (n - m) = m /\ x \in Nat
      OBVIOUS
    <3>2. QED
      BY <3>1
  <2>2. <<n - m, x>> \in OpToRel(<, Nat)
    BY <2>1 DEF OpToRel
  <2>3. QED
    BY <1>2, <2>1, <2>2
<1>4. n - x \in S
  OBVIOUS
<1>5. QED
  BY <1>3, <1>4 DEF Newest

(* Cancelling rows changes only their status. *)
LEMMA CancellingRows ==
  ASSUME intents \in Seq(IntentRow), NEW S
  PROVE  /\ Cancelling(S) \in Seq(IntentRow)
         /\ Len(Cancelling(S)) = Len(intents)
         /\ DOMAIN Cancelling(S) = DOMAIN intents
         /\ \A i \in DOMAIN intents :
              Cancelling(S)[i] = IF i \in S THEN [intents[i] EXCEPT !.status = "cancelled"]
                                 ELSE intents[i]
<1>1. Len(intents) \in Nat /\ DOMAIN intents = 1 .. Len(intents)
      /\ \A i \in DOMAIN intents : intents[i] \in IntentRow
  BY LenProperties, ElementOfSeq
<1>2. Cancelling(S) \in [1 .. Len(intents) -> IntentRow]
  BY <1>1 DEF Cancelling, IntentRow
<1>3. QED
  BY <1>1, <1>2 DEF Cancelling

(* Rows whose list is known, in one place: a row is there by its number.    *)
LEMMA RowFacts ==
  ASSUME intents \in Seq(IntentRow), Len(intents) <= MaxIntents
  PROVE  /\ Len(intents) \in Nat
         /\ DOMAIN intents = 1 .. Len(intents)
         /\ DOMAIN intents \subseteq Intent
         /\ \A i \in DOMAIN intents : intents[i] \in IntentRow
  BY LenProperties, ElementOfSeq, RunIntentsAssumption DEF Intent

(* A claimed row stays claimed when pending rows are cancelled.             *)
LEMMA RequestStep ==
  ASSUME Requests, NEW p \in Profile, Request(p)
  PROVE  Requests'
<1> USE DEF Requests
<1>0. Len(intents) \in Nat /\ DOMAIN intents = 1 .. Len(intents)
      /\ DOMAIN intents \subseteq Intent /\ \A i \in DOMAIN intents : intents[i] \in IntentRow
  BY RowFacts DEF Rows, Referenced
<1>1. CASE UNCHANGED intents
  BY <1>1 DEF Request, daemonVars, Rows, Referenced, ClaimedFirst
<1>2. CASE /\ Len(intents) < MaxIntents
           /\ intents' = Append(Cancelling(Pending(p)), Fresh(p))
  <2> DEFINE C == Cancelling(Pending(p))
  <2>1. /\ C \in Seq(IntentRow) /\ Len(C) = Len(intents)
        /\ \A i \in DOMAIN intents :
             C[i] = IF i \in Pending(p) THEN [intents[i] EXCEPT !.status = "cancelled"]
                    ELSE intents[i]
    BY CancellingRows DEF Rows
  <2>2. Fresh(p) \in IntentRow
    BY DEF Fresh, IntentRow
  <2> HIDE DEF C
  <2>3. /\ intents' \in Seq(IntentRow) /\ Len(intents') = Len(intents) + 1
        /\ \A i \in 1 .. Len(intents) : intents'[i] = C[i]
    BY <1>2, <2>1, <2>2, AppendProperties DEF C
  <2>4. DOMAIN intents' = 1 .. Len(intents) + 1
    BY <2>3, LenProperties
  <2>5. \A i \in DOMAIN intents : intents[i].status = "claimed" => intents'[i] = intents[i]
    BY <1>0, <2>1, <2>3 DEF Pending
  <2>6. DOMAIN intents \subseteq DOMAIN intents'
    BY <1>0, <2>4
  <2>7. Rows'
    BY <2>3 DEF Request, daemonVars, Rows
  <2>8. Referenced'
    <3>1. Len(intents') <= MaxIntents
      BY <1>0, <1>2, <2>3, RunIntentsAssumption
    <3>2. UNCHANGED <<deleting, todo, current>>
      BY DEF Request, daemonVars
    <3>3. QED
      BY <2>6, <3>1, <3>2 DEF Referenced
  <2>9. ClaimedFirst'
    BY <2>5, <2>6, <1>0 DEF Request, daemonVars, ClaimedFirst, Referenced, Rows, NoIntent, Intent
  <2>10. QED
    BY <2>7, <2>8, <2>9
<1>3. QED
  BY <1>1, <1>2 DEF Request

LEMMA CancelWriteStep ==
  ASSUME Requests, NEW i \in Intent, CancelWrite(i)
  PROVE  Requests'
<1> USE DEF Requests
<1>0. Len(intents) \in Nat /\ DOMAIN intents = 1 .. Len(intents)
      /\ DOMAIN intents \subseteq Intent /\ \A j \in DOMAIN intents : intents[j] \in IntentRow
  BY RowFacts DEF Rows, Referenced
<1>1. /\ intents' \in Seq(IntentRow) /\ Len(intents') = Len(intents)
      /\ DOMAIN intents' = DOMAIN intents
      /\ \A j \in DOMAIN intents : intents[j].status = "claimed" => intents'[j] = intents[j]
  <2>1. CASE intents[i].status = "pending" /\ intents' = Cancelling({i})
    BY <2>1, CancellingRows DEF Rows
  <2>2. CASE intents' = intents
    BY <2>2 DEF Rows
  <2>3. QED
    BY <2>1, <2>2 DEF CancelWrite
<1>2. Rows'
  BY <1>1 DEF CancelWrite, daemonVars, Rows
<1>3. Referenced'
  BY <1>1 DEF CancelWrite, daemonVars, Referenced
<1>4. ClaimedFirst'
  BY <1>0, <1>1 DEF CancelWrite, daemonVars, ClaimedFirst, Referenced, Rows, NoIntent, Intent
<1>5. QED
  BY <1>2, <1>3, <1>4

(* The oldest request of the pass is one of its requests. *)
LEMMA OldestInPass ==
  ASSUME Requests, todo # {}
  PROVE  Oldest \in todo
<1>1. todo \subseteq Nat
  BY RowFacts DEF Requests, Rows, Referenced
<1>2. PICK x \in todo : \A y \in todo : ~ (<<y, x>> \in OpToRel(<, Nat))
  BY <1>1, NatLessThanWellFounded, WFMin
<1>3. \A y \in todo : x <= y
  <2> SUFFICES ASSUME NEW y \in todo, ~(x <= y) PROVE FALSE
    OBVIOUS
  <2>1. <<y, x>> \in OpToRel(<, Nat)
    BY <1>1 DEF OpToRel
  <2>2. QED
    BY <1>2, <2>1
<1>4. QED
  BY <1>3 DEF Oldest

LEMMA ClaimStep ==
  ASSUME Requests, Claim
  PROVE  Requests'
<1> USE DEF Requests
<1>0. Len(intents) \in Nat /\ DOMAIN intents = 1 .. Len(intents)
      /\ DOMAIN intents \subseteq Intent /\ \A j \in DOMAIN intents : intents[j] \in IntentRow
  BY RowFacts DEF Rows, Referenced
<1>1. Oldest \in DOMAIN intents
  BY OldestInPass DEF Claim, Referenced
<1>2. CASE UNCHANGED <<intents, dpc, current, since>>
  BY <1>2 DEF Claim, boardVars, Rows, Referenced, ClaimedFirst
<1>3. CASE /\ intents[Oldest].status = "pending"
           /\ intents' = [intents EXCEPT ![Oldest].status = "claimed"]
           /\ dpc' = "spawn" /\ current' = Oldest
  <2>1. [intents[Oldest] EXCEPT !.status = "claimed"] \in IntentRow
    BY <1>0, <1>1 DEF IntentRow
  <2>2. /\ intents' \in Seq(IntentRow) /\ Len(intents') = Len(intents)
        /\ DOMAIN intents' = DOMAIN intents
    BY <1>0, <1>1, <1>3, <2>1, ExceptSeq DEF Rows
  <2>3. \A j \in DOMAIN intents :
          intents'[j] = IF j = Oldest THEN [intents[Oldest] EXCEPT !.status = "claimed"]
                        ELSE intents[j]
    BY <1>3
  <2>4. spawned[Oldest] = 0
    BY <1>0, <1>1, <1>3 DEF ClaimedFirst
  <2>5. Rows'
    BY <1>0, <1>1, <1>3, <2>2 DEF Claim, Rows, Intent, NoIntent
  <2>6. Referenced'
    BY <1>0, <1>1, <1>3, <2>2 DEF Claim, boardVars, Referenced
  <2>7. ClaimedFirst'
    <3>1. intents'[Oldest].status = "claimed"
      BY <1>0, <1>1, <2>3 DEF IntentRow
    <3>2. \A j \in DOMAIN intents : intents[j].status = "claimed" => intents'[j].status = "claimed"
      BY <2>3, <3>1
    <3>3. QED
      BY <1>0, <1>3, <2>2, <2>4, <3>1, <3>2 DEF Claim, ClaimedFirst
  <2>8. QED
    BY <2>5, <2>6, <2>7
<1>4. QED
  BY <1>2, <1>3 DEF Claim

LEMMA SpawnStep ==
  ASSUME Requests, SpawnIntent
  PROVE  Requests'
<1> USE DEF Requests
<1>1. current \in Intent /\ current \in DOMAIN intents
  BY DEF SpawnIntent, Rows, Referenced, NoIntent
<1>2. spawned' = [spawned EXCEPT ![current] = 1] /\ dpc' \in {"await", "attach"}
  BY <1>1 DEF SpawnIntent, ClaimedFirst, Rows
<1>3. Rows'
  BY <1>1, <1>2 DEF SpawnIntent, dbVars, Rows
<1>4. Referenced'
  BY DEF SpawnIntent, dbVars, boardVars, Referenced
<1>5. ClaimedFirst'
  BY <1>1, <1>2 DEF SpawnIntent, dbVars, ClaimedFirst, Rows
<1>6. QED
  BY <1>3, <1>4, <1>5

LEMMA AttachStep ==
  ASSUME Requests, runs \in Seq(RunRow), AttachRun
  PROVE  Requests'
<1> USE DEF Requests
<1>0. Len(intents) \in Nat /\ DOMAIN intents = 1 .. Len(intents)
      /\ DOMAIN intents \subseteq Intent /\ \A j \in DOMAIN intents : intents[j] \in IntentRow
  BY RowFacts DEF Rows, Referenced
<1>1. current \in DOMAIN intents
  BY DEF AttachRun, Rows, Referenced
<1>2. CASE intents' = intents
  BY <1>2 DEF AttachRun, boardVars, Rows, Referenced, ClaimedFirst
<1>3. CASE StartedSince # {} /\ intents' = [intents EXCEPT ![current].run = Newest(StartedSince)]
  <2>1. Len(runs) \in Nat /\ DOMAIN runs = 1 .. Len(runs)
    BY LenProperties
  <2>2. Newest(StartedSince) \in Nat
    <3>1. StartedSince \in SUBSET (1 .. Len(runs))
      BY <2>1 DEF StartedSince, RunsOf
    <3>2. Newest(StartedSince) \in StartedSince
      BY <1>3, <2>1, <3>1, NewestIsMember
    <3>3. 1 .. Len(runs) \subseteq Nat
      BY <2>1
    <3>4. QED
      BY <3>1, <3>2, <3>3, Zenon
  <2>3. [intents[current] EXCEPT !.run = Newest(StartedSince)] \in IntentRow
    BY <1>0, <1>1, <2>2 DEF IntentRow
  <2>4. /\ intents' \in Seq(IntentRow) /\ Len(intents') = Len(intents)
        /\ DOMAIN intents' = DOMAIN intents
    BY <1>0, <1>1, <1>3, <2>3, ExceptSeq DEF Rows
  <2>5. \A j \in DOMAIN intents : intents'[j].status = intents[j].status
    BY <1>0, <1>1, <1>3 DEF IntentRow
  <2>6. Rows'
    BY <2>4 DEF AttachRun, Rows
  <2>7. Referenced'
    BY <2>4 DEF AttachRun, boardVars, Referenced
  <2>8. ClaimedFirst'
    BY <2>4, <2>5 DEF AttachRun, ClaimedFirst
  <2>9. QED
    BY <2>6, <2>7, <2>8
<1>4. QED
  BY <1>2, <1>3 DEF AttachRun

(* What is left: the steps that leave every row as it is.                   *)
LEMMA QuietStep ==
  ASSUME Requests, UNCHANGED <<intents, spawned>>,
         \/ UNCHANGED <<deleting, todo, current, dpc>>
         \/ UNCHANGED <<todo, current, dpc>> /\ \E i \in DOMAIN intents : deleting' = deleting \cup {i}
         \/ UNCHANGED <<deleting, todo, current>>
            /\ \/ {dpc, dpc'} \subseteq {"down", "idle", "loop"}
               \/ dpc = "await" /\ dpc' = "attach"
         \/ deleting' = deleting /\ dpc' = "down" /\ todo' = {} /\ current' = NoIntent
         \/ /\ UNCHANGED <<deleting, current>>
            /\ todo' \subseteq DOMAIN intents /\ dpc = "idle" /\ dpc' = "loop"
  PROVE  Requests'
BY DEF Requests, Rows, Referenced, ClaimedFirst

(* IntentAges changes neither status nor profile. *)
LEMMA AgesStep ==
  ASSUME Requests, NEW i \in DOMAIN intents, IntentAges(i)
  PROVE  Requests'
<1> USE DEF Requests
<1>0. Len(intents) \in Nat /\ DOMAIN intents = 1 .. Len(intents)
      /\ DOMAIN intents \subseteq Intent /\ \A j \in DOMAIN intents : intents[j] \in IntentRow
  BY RowFacts DEF Rows, Referenced
<1>1. [intents[i] EXCEPT !.aged = TRUE] \in IntentRow
  BY <1>0 DEF IntentRow
<1>2. /\ intents' \in Seq(IntentRow) /\ Len(intents') = Len(intents)
      /\ DOMAIN intents' = DOMAIN intents
  BY <1>0, <1>1, ExceptSeq DEF Rows, IntentAges
<1>3. \A j \in DOMAIN intents : intents'[j].status = intents[j].status
  BY <1>0 DEF IntentRow, IntentAges
<1>4. Rows'
  BY <1>2 DEF IntentAges, daemonVars, Rows
<1>5. Referenced'
  BY <1>2 DEF IntentAges, boardVars, daemonVars, Referenced
<1>6. ClaimedFirst'
  BY <1>2, <1>3 DEF IntentAges, daemonVars, ClaimedFirst
<1>7. QED
  BY <1>4, <1>5, <1>6

(* Every step keeps the requests' part of the invariant. *)
LEMMA RequestsStep ==
  ASSUME IInv, [Next]_vars
  PROVE  Requests'
<1> USE DEF IInv, dbVars, boardVars, daemonVars
<1>1. ASSUME NEW p \in Profile, PostGuard(p) PROVE Requests'
  BY <1>1, QuietStep DEF PostGuard
<1>2. ASSUME NEW p \in Profile, Request(p) PROVE Requests'
  BY <1>2, RequestStep
<1>3. ASSUME NEW i \in Intent, CancelRead(i) PROVE Requests'
  BY <1>3, QuietStep DEF CancelRead
<1>4. ASSUME NEW i \in Intent, CancelWrite(i) PROVE Requests'
  BY <1>4, CancelWriteStep
<1>5. ASSUME NEW p \in Profile, UserRun(p) PROVE Requests'
  BY <1>5, QuietStep DEF UserRun
<1>6. CASE StartRun
  BY <1>6, QuietStep DEF StartRun
<1>7. CASE RunBeats
  BY <1>7, QuietStep DEF RunBeats
<1>8. CASE RunEnds
  BY <1>8, QuietStep DEF RunEnds, Exits
<1>9. CASE RunCrashes
  BY <1>9, QuietStep DEF RunCrashes, Exits
<1>10. CASE DaemonStarts
  BY <1>10, QuietStep DEF DaemonStarts
<1>11. CASE DaemonEnds
  BY <1>11, QuietStep DEF DaemonEnds
<1>12. CASE ReadIntents
  BY <1>12, QuietStep DEF ReadIntents
<1>13. CASE PassEnds
  BY <1>13, QuietStep DEF PassEnds
<1>14. CASE Claim
  BY <1>14, ClaimStep
<1>15. CASE SpawnIntent
  BY <1>15, SpawnStep
<1>16. CASE AttachRun
  BY <1>16, AttachStep DEF Processes
<1>17. ASSUME NEW i \in DOMAIN intents, IntentAges(i) PROVE Requests'
  BY <1>17, AgesStep
<1>18. ASSUME NEW n \in DOMAIN runs, RowStales(n) PROVE Requests'
  BY <1>18, QuietStep DEF RowStales
<1>19. CASE UNCHANGED vars
  BY <1>19, QuietStep DEF vars
<1>20. QED
  BY <1>1, <1>2, <1>3, <1>4, <1>5, <1>6, <1>7, <1>8, <1>9, <1>10, <1>11, <1>12, <1>13,
     <1>14, <1>15, <1>16, <1>17, <1>18, <1>19
     DEF Next, BoardStep, RunStep, DaemonStep

----------------------------------------------------------------------------
(* Rows of runs, and the process that holds the lock                        *)

LEMMA StartRunTypes ==
  ASSUME Processes, StartRun
  PROVE  runs' \in Seq(RunRow) /\ lock' \in Holder
<1>1. Len(runs) \in Nat /\ DOMAIN runs = 1 .. Len(runs)
      /\ \A n \in DOMAIN runs : runs[n] \in RunRow
  BY LenProperties, ElementOfSeq DEF Processes
<1>2. lock \in Holder
  BY DEF Processes, StartRun
<1> DEFINE marked == [n \in DOMAIN runs |->
                        IF runs[n].profile = lock.profile /\ RunStatus(n) = "crashed"
                          THEN [runs[n] EXCEPT !.status = "crashed"] ELSE runs[n]]
           row == [profile |-> lock.profile, at |-> lock.at, by |-> lock.by,
                   status |-> "running", beat |-> "none"]
<1>3. \A n \in DOMAIN runs : [runs[n] EXCEPT !.status = "crashed"] \in RunRow
  BY <1>1 DEF RunRow
<1>4. marked \in [1 .. Len(runs) -> RunRow]
  BY <1>1, <1>3
<1>5. marked \in Seq(RunRow)
  BY <1>1, <1>4
<1>6. row \in RunRow
  BY <1>2 DEF RunRow, Holder
<1>7. runs' = Append(marked, row) /\ lock' = [lock EXCEPT !.row = Len(runs) + 1]
  BY DEF StartRun
<1> HIDE DEF marked, row
<1>8. runs' \in Seq(RunRow)
  BY <1>5, <1>6, <1>7, AppendProperties
<1>9. lock' \in Holder
  BY <1>1, <1>2, <1>7 DEF Holder
<1>10. QED
  BY <1>8, <1>9

(* A row whose heartbeat or status is updated in place is still a row. *)
LEMMA RowUpdated ==
  ASSUME Processes, NEW n,
         \/ \E b \in {"fresh", "stale"} : runs' = [runs EXCEPT ![n].beat = b]
         \/ runs' = [runs EXCEPT ![n].status = "ended"]
  PROVE  runs' \in Seq(RunRow)
<1>1. /\ Len(runs) \in Nat /\ DOMAIN runs = 1 .. Len(runs) /\ runs \in Seq(RunRow)
      /\ \A m \in DOMAIN runs : runs[m] \in RunRow
  BY LenProperties, ElementOfSeq DEF Processes
<1>2. ASSUME n \in DOMAIN runs, NEW r \in RunRow, runs' = [runs EXCEPT ![n] = r]
      PROVE  runs' \in Seq(RunRow)
  BY <1>1, <1>2, ExceptSeq
<1>3. CASE n \in DOMAIN runs
  <2>1. PICK r : /\ \/ \E b \in {"fresh", "stale"} : r = [runs[n] EXCEPT !.beat = b]
                    \/ r = [runs[n] EXCEPT !.status = "ended"]
                 /\ runs' = [runs EXCEPT ![n] = r]
    OBVIOUS
  <2>2. runs[n] \in RunRow
    BY <1>1, <1>3
  <2>3. r \in RunRow
    BY <2>1, <2>2 DEF RunRow
  <2>4. QED
    BY <1>2, <1>3, <2>1, <2>3
<1>4. CASE n \notin DOMAIN runs
  <2>1. runs' = runs
    BY <1>1, <1>4
  <2>2. QED
    BY <1>1, <2>1
<1>5. QED
  BY <1>3, <1>4

(* Every step keeps the run processes' part of the invariant. *)
LEMMA ProcessesStep ==
  ASSUME IInv, [Next]_vars
  PROVE  Processes'
<1> USE RunIntentsAssumption DEF IInv, dbVars, boardVars, daemonVars
<1>0. DOMAIN intents \subseteq Intent /\ \A j \in DOMAIN intents : intents[j] \in IntentRow
  BY RowFacts DEF Requests, Rows, Referenced
<1>1. ASSUME NEW p \in Profile, PostGuard(p) PROVE Processes'
  BY <1>1 DEF PostGuard, Processes
<1>2. ASSUME NEW p \in Profile, Request(p) PROVE Processes'
  BY <1>2 DEF Request, Processes
<1>3. ASSUME NEW i \in Intent, CancelRead(i) PROVE Processes'
  BY <1>3 DEF CancelRead, Processes
<1>4. ASSUME NEW i \in Intent, CancelWrite(i) PROVE Processes'
  BY <1>4 DEF CancelWrite, Processes
<1>5. ASSUME NEW p \in Profile, NEW i \in Intent \cup {NoIntent}, Run(p, i)
      PROVE  born' \in 0 .. MaxRuns /\ lock' \in Holder \cup {NoRun}
  BY <1>5 DEF Run, Born, Holder, Processes
<1>6. ASSUME NEW p \in Profile, UserRun(p) PROVE Processes'
  BY <1>5, <1>6 DEF UserRun, Processes
<1>7. CASE StartRun
  BY <1>7, StartRunTypes DEF StartRun, Processes
<1>8. CASE RunBeats
  <2>1. runs' \in Seq(RunRow)
    BY <1>8, RowUpdated DEF RunBeats
  <2>2. QED
    BY <1>8, <2>1 DEF RunBeats, Processes
<1>9. CASE RunEnds
  <2>1. runs' \in Seq(RunRow)
    BY <1>9, RowUpdated DEF RunEnds, Processes
  <2>2. QED
    BY <1>9, <2>1 DEF RunEnds, Exits, Processes
<1>10. CASE RunCrashes
  BY <1>10 DEF RunCrashes, Exits, Processes
<1>11. CASE DaemonStarts
  BY <1>11 DEF DaemonStarts, Processes
<1>12. CASE DaemonEnds
  BY <1>12 DEF DaemonEnds, Processes
<1>13. CASE ReadIntents
  BY <1>13 DEF ReadIntents, Processes
<1>14. CASE PassEnds
  BY <1>14 DEF PassEnds, Processes
<1>15. CASE Claim
  BY <1>15 DEF Claim, Processes
<1>16. CASE SpawnIntent
  <2>1. current \in DOMAIN intents
    BY <1>16 DEF SpawnIntent, Requests, Rows, Referenced
  <2>2. intents[current].profile \in Profile /\ current \in Intent
    BY <1>0, <2>1 DEF IntentRow
  <2>3. QED
    BY <1>5, <1>16, <2>2 DEF SpawnIntent, Processes
<1>17. CASE AttachRun
  BY <1>17 DEF AttachRun, Processes
<1>18. ASSUME NEW i \in DOMAIN intents, IntentAges(i) PROVE Processes'
  BY <1>18 DEF IntentAges, Processes
<1>19. ASSUME NEW n \in DOMAIN runs, RowStales(n) PROVE Processes'
  <2>1. runs' \in Seq(RunRow)
    BY <1>19, RowUpdated DEF RowStales
  <2>2. QED
    BY <1>19, <2>1 DEF RowStales, Processes
<1>20. CASE UNCHANGED vars
  BY <1>20 DEF vars, Processes
<1>21. QED
  BY <1>1, <1>2, <1>3, <1>4, <1>6, <1>7, <1>8, <1>9, <1>10, <1>11, <1>12, <1>13,
     <1>14, <1>15, <1>16, <1>17, <1>18, <1>19, <1>20
     DEF Next, BoardStep, RunStep, DaemonStep

----------------------------------------------------------------------------
(* The invariant, and what follows from it                                  *)

LEMMA InvariantStarts ==
  ASSUME Init
  PROVE  IInv
BY RunIntentsAssumption
   DEF Init, IInv, Requests, Rows, Referenced, ClaimedFirst, Processes

LEMMA InvariantHolds == Spec => []IInv
<1>1. IInv /\ [Next]_vars => IInv'
  BY RequestsStep, ProcessesStep DEF IInv
<1>2. QED
  BY InvariantStarts, <1>1, PTL DEF Spec

(* Every row, request, run process and daemon variable keeps its type: in   *)
(* particular no step refers to a request or a run that has no row, and     *)
(* the pass holds a request exactly while it spawns, awaits or attaches.    *)
THEOREM TypeInvariant == Spec => []TypeOK
<1>1. IInv => TypeOK
  <2> SUFFICES ASSUME IInv PROVE TypeOK
    OBVIOUS
  <2>1. DOMAIN intents \subseteq Intent
    BY RowFacts DEF IInv, Requests, Rows, Referenced
  <2>2. deleting \subseteq Intent /\ todo \subseteq Intent
    BY <2>1 DEF IInv, Requests, Referenced
  <2>3. QED
    BY <2>2 DEF IInv, Requests, Rows, Processes, IntentRow, RunRow, Holder, TypeOK
<1>2. QED
  BY InvariantHolds, <1>1, PTL

(* A request starts at most one run process, whatever the daemon, the board *)
(* and the runs do in between: the conditional update of claim and the      *)
(* claimed status that no step takes back decide it.                        *)
THEOREM SpawnedOnceHolds == Spec => []SpawnedOnce
<1>1. IInv => SpawnedOnce
  BY DEF IInv, Requests, Rows, ClaimedFirst, SpawnedOnce
<1>2. QED
  BY InvariantHolds, <1>1, PTL

----------------------------------------------------------------------------
(* The tables implement the promise                                         *)

(* What the promise sees of the tables. *)
Owner == [i \in DOMAIN intents |-> intents[i].profile]
Open == {i \in DOMAIN intents : intents[i].status = "pending"}
Taken == {i \in DOMAIN intents : intents[i].status = "claimed"}
Started == {i \in Intent : spawned[i] > 0}

(* A step that leaves profiles, statuses and spawns alone is a stutter.     *)
LEMMA Stutter ==
  ASSUME DOMAIN intents' = DOMAIN intents, spawned' = spawned,
         \A i \in DOMAIN intents : /\ intents'[i].profile = intents[i].profile
                                   /\ intents'[i].status = intents[i].status
  PROVE  UNCHANGED <<Owner, Open, Taken, Started>>
BY DEF Owner, Open, Taken, Started

(* A request that is queued is asked for, and the expired one it replaces   *)
(* makes way in the same step.                                              *)
LEMMA RequestIsAsk ==
  ASSUME IInv, NEW p \in Profile, Request(p)
  PROVE  \/ UNCHANGED <<Owner, Open, Taken, Started>>
         \/ \E r \in Intent : Promise!Ask(r, p)
<1>0. Len(intents) \in Nat /\ DOMAIN intents = 1 .. Len(intents)
      /\ DOMAIN intents \subseteq Intent /\ \A i \in DOMAIN intents : intents[i] \in IntentRow
  BY RowFacts DEF IInv, Requests, Rows, Referenced
<1>1. CASE UNCHANGED intents
  BY <1>1, Stutter DEF Request, daemonVars
<1>2. CASE /\ Len(intents) < MaxIntents
           /\ intents' = Append(Cancelling(Pending(p)), Fresh(p))
  <2> DEFINE C == Cancelling(Pending(p))
             r == Len(intents) + 1
  <2>1. /\ C \in Seq(IntentRow) /\ Len(C) = Len(intents)
        /\ \A i \in DOMAIN intents :
             C[i] = IF i \in Pending(p) THEN [intents[i] EXCEPT !.status = "cancelled"]
                    ELSE intents[i]
    BY CancellingRows DEF IInv, Requests, Rows
  <2>2. Fresh(p) \in IntentRow /\ Fresh(p).profile = p /\ Fresh(p).status = "pending"
    BY DEF Fresh, IntentRow
  <2>3. r \in Intent /\ r \notin DOMAIN intents
    BY <1>0, <1>2, RunIntentsAssumption DEF Intent
  <2> HIDE DEF C
  <2>4. /\ Len(intents') = Len(intents) + 1 /\ intents' \in Seq(IntentRow)
        /\ \A i \in 1 .. Len(intents) : intents'[i] = C[i]
        /\ intents'[r] = Fresh(p)
    BY <1>0, <1>2, <2>1, <2>2, AppendProperties DEF C
  <2>5. DOMAIN intents' = DOMAIN intents \cup {r}
    BY <1>0, <2>4, LenProperties
  <2>6. \A i \in DOMAIN intents :
          /\ intents'[i].profile = intents[i].profile
          /\ intents'[i].status = IF i \in Pending(p) THEN "cancelled" ELSE intents[i].status
    <3> SUFFICES ASSUME NEW i \in DOMAIN intents
        PROVE  /\ intents'[i].profile = intents[i].profile
               /\ intents'[i].status = IF i \in Pending(p) THEN "cancelled" ELSE intents[i].status
      OBVIOUS
    <3>1. intents'[i] = IF i \in Pending(p) THEN [intents[i] EXCEPT !.status = "cancelled"]
                        ELSE intents[i]
      BY <1>0, <2>1, <2>4
    <3>2. intents[i] \in IntentRow
      BY <1>0
    <3>3. QED
      BY <3>1, <3>2 DEF IntentRow
  <2> HIDE DEF r
  <2>7. Owner' = [x \in DOMAIN Owner \cup {r} |-> IF x = r THEN p ELSE Owner[x]]
    BY <2>2, <2>3, <2>4, <2>5, <2>6 DEF Owner
  <2>8. Open' = (Open \ Promise!OpenOf(p)) \cup {r}
    BY <2>2, <2>3, <2>4, <2>5, <2>6 DEF Open, Pending, Promise!OpenOf
  <2>9. Taken' = Taken
    BY <2>2, <2>3, <2>4, <2>5, <2>6 DEF Taken, Pending
  <2>10. Started' = Started
    BY DEF Request, daemonVars, Started
  <2>11. Promise!Ask(r, p)
    BY <2>3, <2>7, <2>8, <2>9, <2>10 DEF Promise!Ask, Owner, Open, Taken, Started
  <2>12. QED
    BY <2>3, <2>11
<1>3. QED
  BY <1>1, <1>2 DEF Request

(* A DELETE drops a pending row and leaves any other alone. *)
LEMMA CancelIsDrop ==
  ASSUME IInv, NEW i \in Intent, CancelWrite(i)
  PROVE  UNCHANGED <<Owner, Open, Taken, Started>> \/ Promise!Drop(i)
<1>0. DOMAIN intents \subseteq Intent /\ \A j \in DOMAIN intents : intents[j] \in IntentRow
  BY RowFacts DEF IInv, Requests, Rows, Referenced
<1>1. spawned' = spawned /\ i \in DOMAIN intents
  BY DEF CancelWrite, daemonVars, IInv, Requests, Referenced
<1>2. CASE intents' = intents
  BY <1>1, <1>2, Stutter
<1>3. CASE intents[i].status = "pending" /\ intents' = Cancelling({i})
  <2>1. /\ DOMAIN intents' = DOMAIN intents
        /\ \A j \in DOMAIN intents :
             intents'[j] = IF j = i THEN [intents[j] EXCEPT !.status = "cancelled"]
                           ELSE intents[j]
    BY <1>3, CancellingRows DEF IInv, Requests, Rows
  <2>2. \A j \in DOMAIN intents :
          /\ intents'[j].profile = intents[j].profile
          /\ intents'[j].status = IF j = i THEN "cancelled" ELSE intents[j].status
    BY <1>0, <2>1 DEF IntentRow
  <2>3. Owner' = Owner /\ Open' = Open \ {i} /\ Taken' = Taken /\ Started' = Started
    BY <1>1, <1>3, <2>1, <2>2 DEF Owner, Open, Taken, Started
  <2>4. QED
    BY <1>1, <1>3, <2>3 DEF Promise!Drop, Owner, Open, Taken, Started
<1>4. QED
  BY <1>2, <1>3 DEF CancelWrite

(* A claim takes the open request, or passes over one no longer open.       *)
LEMMA ClaimIsTake ==
  ASSUME IInv, Claim
  PROVE  UNCHANGED <<Owner, Open, Taken, Started>> \/ \E r \in Intent : Promise!Take(r)
<1>0. DOMAIN intents \subseteq Intent /\ \A j \in DOMAIN intents : intents[j] \in IntentRow
  BY RowFacts DEF IInv, Requests, Rows, Referenced
<1>1. spawned' = spawned /\ Oldest \in DOMAIN intents
  BY OldestInPass DEF Claim, IInv, Requests, Referenced
<1>2. CASE intents' = intents
  BY <1>1, <1>2, Stutter
<1>3. CASE /\ intents[Oldest].status = "pending"
           /\ intents' = [intents EXCEPT ![Oldest].status = "claimed"]
  <2>1. DOMAIN intents' = DOMAIN intents
    BY <1>3
  <2>2. \A j \in DOMAIN intents :
          /\ intents'[j].profile = intents[j].profile
          /\ intents'[j].status = IF j = Oldest THEN "claimed" ELSE intents[j].status
    BY <1>0, <1>3 DEF IntentRow
  <2>3. /\ Owner' = Owner /\ Open' = Open \ {Oldest}
        /\ Taken' = Taken \cup {Oldest} /\ Started' = Started
    BY <1>1, <1>3, <2>1, <2>2 DEF Owner, Open, Taken, Started
  <2>4. QED
    BY <1>0, <1>1, <1>3, <2>3 DEF Promise!Take, Owner, Open, Taken, Started
<1>4. QED
  BY <1>2, <1>3 DEF Claim

(* A spawn starts the run of a request that is taken and has none.          *)
LEMMA SpawnIsBegin ==
  ASSUME IInv, SpawnIntent
  PROVE  \E r \in Intent : Promise!Begin(r)
<1>1. current \in Intent /\ current \in Taken \ Started
  BY DEF SpawnIntent, IInv, Requests, Rows, Referenced, ClaimedFirst, NoIntent, Taken, Started
<1>2. intents' = intents /\ spawned' = [spawned EXCEPT ![current] = 1]
  BY <1>1 DEF SpawnIntent, dbVars, IInv, Requests, Rows, ClaimedFirst
<1>3. Started' = Started \cup {current}
  BY <1>1, <1>2 DEF Started, IInv, Requests, Rows
<1>4. Owner' = Owner /\ Open' = Open /\ Taken' = Taken
  BY <1>2 DEF Owner, Open, Taken
<1>5. QED
  BY <1>1, <1>3, <1>4 DEF Promise!Begin, Owner, Open, Taken, Started

(* Attaching a run and growing old change neither profile nor status.       *)
LEMMA AttachAndAgesStutter ==
  ASSUME IInv, AttachRun \/ \E i \in DOMAIN intents : IntentAges(i)
  PROVE  UNCHANGED <<Owner, Open, Taken, Started>>
<1>0. \A j \in DOMAIN intents : intents[j] \in IntentRow
  BY RowFacts DEF IInv, Requests, Rows, Referenced
<1>1. CASE AttachRun
  BY <1>0, <1>1, Stutter DEF AttachRun, IntentRow
<1>2. CASE \E i \in DOMAIN intents : IntentAges(i)
  BY <1>0, <1>2, Stutter DEF IntentAges, daemonVars, IntentRow
<1>3. QED
  BY <1>1, <1>2

LEMMA PromiseStep ==
  ASSUME IInv, [Next]_vars
  PROVE  [Promise!Next]_(Promise!vars)
<1> DEFINE Still == UNCHANGED <<Owner, Open, Taken, Started>>
<1> SUFFICES Still \/ Promise!Next
  BY DEF Promise!vars, Owner, Open, Taken, Started
<1>1. ASSUME NEW p \in Profile, Request(p) PROVE Still \/ Promise!Next
  BY <1>1, RequestIsAsk DEF Promise!Next
<1>2. ASSUME NEW i \in Intent, CancelWrite(i) PROVE Still \/ Promise!Next
  BY <1>2, CancelIsDrop DEF Promise!Next
<1>3. CASE Claim
  BY <1>3, ClaimIsTake DEF Promise!Next
<1>4. CASE SpawnIntent
  BY <1>4, SpawnIsBegin DEF Promise!Next
<1>5. CASE AttachRun \/ \E i \in DOMAIN intents : IntentAges(i)
  BY <1>5, AttachAndAgesStutter
<1>6. CASE UNCHANGED <<intents, spawned>>
  BY <1>6 DEF Owner, Open, Taken, Started
<1> HIDE DEF Still
<1>7. ASSUME BoardStep PROVE Still \/ Promise!Next
  BY <1>1, <1>2, <1>6, <1>7 DEF BoardStep, PostGuard, CancelRead, dbVars, daemonVars
<1>8. ASSUME RunStep PROVE Still \/ Promise!Next
  BY <1>6, <1>8 DEF RunStep, UserRun, StartRun, RunBeats, RunEnds, RunCrashes, dbVars, daemonVars
<1>9. ASSUME DaemonStep PROVE Still \/ Promise!Next
  BY <1>3, <1>4, <1>5, <1>6, <1>9
     DEF DaemonStep, DaemonStarts, DaemonEnds, ReadIntents, PassEnds, dbVars
<1>10. QED
  BY <1>5, <1>6, <1>7, <1>8, <1>9 DEF Next, RowStales, vars, dbVars, daemonVars

(* The run-request tables, the board's handlers and the daemon's pass       *)
(* implement the promise of ports/run_intents.ts: one open request a        *)
(* profile, taken once or dropped, never both, and one run at most.         *)
THEOREM PromiseHolds == Spec => PromiseKept
<1>1. Init => Promise!Init
  BY DEF Init, Promise!Init
<1>2. IInv /\ [Next]_vars => [Promise!Next]_(Promise!vars)
  BY PromiseStep
<1>3. QED
  BY InvariantHolds, <1>1, <1>2, PTL DEF Spec, PromiseKept, Promise!Spec

----------------------------------------------------------------------------
(* No run is shown for two requests                                         *)

(* A row has run, and is of the same profile, as before, or has none yet.   *)
RunsKept ==
  \A i \in DOMAIN intents' :
    \/ intents'[i].run = NoRun
    \/ /\ i \in DOMAIN intents
       /\ intents'[i].run = intents[i].run /\ intents'[i].profile = intents[i].profile

LEMMA RequestKeepsRuns ==
  ASSUME IInv, NEW p \in Profile, Request(p)
  PROVE  RunsKept
<1>0. Len(intents) \in Nat /\ DOMAIN intents = 1 .. Len(intents)
      /\ \A i \in DOMAIN intents : intents[i] \in IntentRow
  BY RowFacts DEF IInv, Requests, Rows, Referenced
<1>1. CASE UNCHANGED intents
  BY <1>1 DEF RunsKept
<1>2. CASE intents' = Append(Cancelling(Pending(p)), Fresh(p))
  <2> DEFINE C == Cancelling(Pending(p))
  <2>1. /\ C \in Seq(IntentRow) /\ Len(C) = Len(intents)
        /\ \A i \in DOMAIN intents :
             C[i] = IF i \in Pending(p) THEN [intents[i] EXCEPT !.status = "cancelled"]
                    ELSE intents[i]
    BY CancellingRows DEF IInv, Requests, Rows
  <2>2. \A i \in DOMAIN intents : C[i].run = intents[i].run /\ C[i].profile = intents[i].profile
    BY <1>0, <2>1 DEF IntentRow
  <2>3. Fresh(p) \in IntentRow /\ Fresh(p).run = NoRun
    BY DEF Fresh, IntentRow
  <2> HIDE DEF C
  <2>4. /\ Len(intents') = Len(intents) + 1 /\ intents' \in Seq(IntentRow)
        /\ \A i \in 1 .. Len(intents) : intents'[i] = C[i]
        /\ intents'[Len(intents) + 1] = Fresh(p)
    BY <1>0, <1>2, <2>1, <2>3, AppendProperties DEF C
  <2>5. \A i \in DOMAIN intents' : i \in DOMAIN intents \/ i = Len(intents) + 1
    BY <1>0, <2>4, LenProperties
  <2>6. QED
    BY <1>0, <2>2, <2>3, <2>4, <2>5 DEF RunsKept
<1>3. QED
  BY <1>1, <1>2 DEF Request

LEMMA IntentsKeepRuns ==
  ASSUME IInv, [Next]_vars, ~AttachRun
  PROVE  RunsKept
<1>0. \A i \in DOMAIN intents : intents[i] \in IntentRow
  BY RowFacts DEF IInv, Requests, Rows, Referenced
<1>1. ASSUME NEW p \in Profile, Request(p) PROVE RunsKept
  BY <1>1, RequestKeepsRuns
<1>2. ASSUME NEW i \in Intent, CancelWrite(i) PROVE RunsKept
  <2>1. CASE intents' = intents
    BY <2>1 DEF RunsKept
  <2>2. CASE intents' = Cancelling({i})
    <3>1. /\ DOMAIN intents' = DOMAIN intents
          /\ \A j \in DOMAIN intents :
               intents'[j] = IF j \in {i} THEN [intents[j] EXCEPT !.status = "cancelled"]
                             ELSE intents[j]
      BY <2>2, CancellingRows DEF IInv, Requests, Rows
    <3>2. \A j \in DOMAIN intents :
            intents'[j].run = intents[j].run /\ intents'[j].profile = intents[j].profile
      BY <1>0, <3>1 DEF IntentRow
    <3>3. QED
      BY <3>1, <3>2 DEF RunsKept
  <2>3. QED
    BY <1>2, <2>1, <2>2 DEF CancelWrite
<1>3. CASE Claim
  BY <1>0, <1>3 DEF Claim, RunsKept, IntentRow
<1>4. ASSUME NEW i \in DOMAIN intents, IntentAges(i) PROVE RunsKept
  BY <1>0, <1>4 DEF IntentAges, RunsKept, IntentRow
<1>5. CASE UNCHANGED intents
  BY <1>5 DEF RunsKept
<1>6. QED
  BY <1>1, <1>2, <1>3, <1>4, <1>5
     DEF Next, BoardStep, RunStep, DaemonStep, vars, dbVars, PostGuard, CancelRead, UserRun,
         StartRun, RunBeats, RunEnds, RunCrashes, DaemonStarts, DaemonEnds, ReadIntents,
         PassEnds, SpawnIntent, RowStales

(* A run's row keeps its profile and its start; a new one is the holder's.  *)
RowsKept ==
  /\ DOMAIN runs \subseteq DOMAIN runs'
  /\ \A n \in DOMAIN runs : runs'[n].at = runs[n].at /\ runs'[n].profile = runs[n].profile
  /\ \A n \in DOMAIN runs' \ DOMAIN runs : lock # NoRun /\ runs'[n].at = lock.at

LEMMA StartRunKeepsRows ==
  ASSUME IInv, StartRun
  PROVE  RowsKept
<1>1. Len(runs) \in Nat /\ DOMAIN runs = 1 .. Len(runs)
      /\ \A n \in DOMAIN runs : runs[n] \in RunRow
  BY LenProperties, ElementOfSeq DEF IInv, Processes
<1>2. lock \in Holder /\ lock # NoRun
  BY DEF IInv, Processes, StartRun
<1> DEFINE marked == [n \in DOMAIN runs |->
                        IF runs[n].profile = lock.profile /\ RunStatus(n) = "crashed"
                          THEN [runs[n] EXCEPT !.status = "crashed"] ELSE runs[n]]
           row == [profile |-> lock.profile, at |-> lock.at, by |-> lock.by,
                   status |-> "running", beat |-> "none"]
<1>3. \A n \in DOMAIN runs : /\ marked[n] \in RunRow
                             /\ marked[n].at = runs[n].at /\ marked[n].profile = runs[n].profile
  BY <1>1 DEF RunRow
<1>4. marked \in Seq(RunRow) /\ Len(marked) = Len(runs)
  BY <1>1, <1>3
<1>5. row \in RunRow /\ row.at = lock.at
  BY <1>2 DEF RunRow, Holder
<1>6. runs' = Append(marked, row)
  BY DEF StartRun
<1> HIDE DEF marked, row
<1>7. /\ runs' \in Seq(RunRow) /\ Len(runs') = Len(runs) + 1
      /\ \A n \in 1 .. Len(runs) : runs'[n] = marked[n]
      /\ runs'[Len(runs) + 1] = row
  BY <1>1, <1>4, <1>5, <1>6, AppendProperties
<1>8. DOMAIN runs' = 1 .. Len(runs) + 1
  BY <1>7, LenProperties
<1>9. \A n \in DOMAIN runs' \ DOMAIN runs : n = Len(runs) + 1
  BY <1>1, <1>8
<1>10. DOMAIN runs \subseteq DOMAIN runs'
  BY <1>1, <1>8
<1>11. QED
  BY <1>1, <1>2, <1>3, <1>5, <1>7, <1>9, <1>10 DEF RowsKept

LEMMA RunsKeepRows ==
  ASSUME IInv, [Next]_vars
  PROVE  RowsKept
<1>1. \A n \in DOMAIN runs : runs[n] \in RunRow
  BY ElementOfSeq, LenProperties DEF IInv, Processes
<1>2. CASE StartRun
  BY <1>2, StartRunKeepsRows
<1>3. CASE \E n : \/ \E b \in {"fresh", "stale"} : runs' = [runs EXCEPT ![n].beat = b]
                  \/ runs' = [runs EXCEPT ![n].status = "ended"]
  BY <1>1, <1>3 DEF RowsKept, RunRow
<1>4. CASE UNCHANGED runs
  BY <1>4 DEF RowsKept
<1>5. CASE RunBeats \/ RunEnds \/ \E n \in DOMAIN runs : RowStales(n)
  BY <1>3, <1>4, <1>5 DEF RunBeats, RunEnds, RowStales
<1>6. QED
  BY <1>2, <1>4, <1>5
     DEF Next, BoardStep, RunStep, DaemonStep, vars, dbVars, PostGuard, Request, CancelRead,
         CancelWrite, UserRun, RunCrashes, DaemonStarts, DaemonEnds, ReadIntents, PassEnds,
         Claim, SpawnIntent, AttachRun, IntentAges

(* Starts are numbered in order, and `since` is the number at the claim.    *)
StartsOrdered ==
  /\ \A n \in DOMAIN runs : runs[n].at <= born
  /\ lock # NoRun => lock.at <= born

Attached ==
  \A i \in DOMAIN intents : intents[i].run # NoRun =>
    /\ intents[i].run \in DOMAIN runs
    /\ runs[intents[i].run].profile = intents[i].profile

(* While the pass works on a request, what is already attached started      *)
(* before the claim.                                                        *)
AttachedBefore ==
  current # NoIntent =>
    \A i \in DOMAIN intents : intents[i].run # NoRun => runs[intents[i].run].at <= since

SharedInv == StartsOrdered /\ Attached /\ AttachedBefore /\ NoSharedRun

LEMMA ClockStep ==
  ASSUME IInv, [Next]_vars
  PROVE  /\ born \in Nat /\ born' \in Nat /\ born <= born'
         /\ lock' # NoRun => \/ lock'.at = born'
                             \/ lock # NoRun /\ lock'.at = lock.at
         /\ current' # NoIntent => \/ current # NoIntent /\ since' = since
                                   \/ since' = born
<1> USE RunIntentsAssumption DEF IInv, Processes, dbVars, boardVars, daemonVars
<1>1. ASSUME NEW p, NEW i, Run(p, i)
      PROVE  born' = born + 1 /\ (lock' # NoRun => lock'.at = born' \/ lock' = lock)
  BY <1>1 DEF Run, Born
<1>2. CASE \E p \in Profile : UserRun(p)
  BY <1>1, <1>2 DEF UserRun
<1>3. CASE SpawnIntent
  BY <1>1, <1>3 DEF SpawnIntent, Requests, Rows
<1>4. CASE StartRun
  BY <1>4 DEF StartRun, Holder
<1>5. CASE Claim
  BY <1>5 DEF Claim
<1>6. CASE UNCHANGED <<born, lock>>
           /\ (UNCHANGED <<current, since>> \/ current' = NoIntent)
  BY <1>6
<1>7. CASE RunEnds \/ RunCrashes
  BY <1>7 DEF RunEnds, RunCrashes, Exits
<1>8. QED
  BY <1>2, <1>3, <1>4, <1>5, <1>6, <1>7
     DEF Next, BoardStep, RunStep, DaemonStep, vars, PostGuard, Request, CancelRead,
         CancelWrite, RunBeats, DaemonStarts, DaemonEnds, ReadIntents, PassEnds, AttachRun,
         IntentAges, RowStales

LEMMA StartsAreNumbers ==
  ASSUME IInv
  PROVE  /\ Len(runs) \in Nat /\ DOMAIN runs = 1 .. Len(runs)
         /\ \A n \in DOMAIN runs : runs[n].at \in Nat
         /\ lock # NoRun => lock.at \in Nat
         /\ since \in Nat
<1>1. /\ Len(runs) \in Nat /\ DOMAIN runs = 1 .. Len(runs)
      /\ \A n \in DOMAIN runs : runs[n] \in RunRow
  BY LenProperties, ElementOfSeq DEF IInv, Processes
<1>2. 1 .. MaxRuns \subseteq Nat /\ 0 .. MaxRuns \subseteq Nat
  BY RunIntentsAssumption
<1>3. \A n \in DOMAIN runs : runs[n].at \in Nat
  BY <1>1, <1>2 DEF RunRow
<1>4. lock # NoRun => lock.at \in Nat
  BY <1>2 DEF IInv, Processes, Holder
<1>5. QED
  BY <1>1, <1>2, <1>3, <1>4 DEF IInv, Processes

(* A step that attaches nothing. *)
LEMMA SharedKept ==
  ASSUME IInv, SharedInv, [Next]_vars, ~AttachRun
  PROVE  SharedInv'
<1>1. RunsKept /\ RowsKept
  BY IntentsKeepRuns, RunsKeepRows
<1>2. /\ \A n \in DOMAIN runs : runs[n].at \in Nat
      /\ lock # NoRun => lock.at \in Nat
  BY StartsAreNumbers
<1>3. StartsOrdered'
  BY <1>1, <1>2, ClockStep DEF SharedInv, StartsOrdered, RowsKept
<1>4. Attached'
  BY <1>1 DEF SharedInv, Attached, RunsKept, RowsKept
<1>5. AttachedBefore'
  <2> SUFFICES ASSUME current' # NoIntent, NEW i \in DOMAIN intents', intents'[i].run # NoRun
               PROVE  runs'[intents'[i].run].at <= since'
    BY DEF AttachedBefore
  <2>1. i \in DOMAIN intents /\ intents'[i].run = intents[i].run
        /\ intents[i].run \in DOMAIN runs
        /\ runs'[intents[i].run].at = runs[intents[i].run].at
    BY <1>1 DEF SharedInv, Attached, RunsKept, RowsKept
  <2>2. runs[intents[i].run].at <= born
    BY <2>1 DEF SharedInv, StartsOrdered
  <2>3. QED
    BY <2>1, <2>2, ClockStep DEF SharedInv, AttachedBefore
<1>6. NoSharedRun'
  BY <1>1 DEF SharedInv, Attached, NoSharedRun, RunsKept, RowsKept
<1>7. QED
  BY <1>3, <1>4, <1>5, <1>6 DEF SharedInv

(* The attached run started after the claim, so no other request has it.    *)
LEMMA SharedAttach ==
  ASSUME IInv, SharedInv, AttachRun
  PROVE  SharedInv'
<1>0. /\ DOMAIN intents \subseteq Intent /\ \A j \in DOMAIN intents : intents[j] \in IntentRow
      /\ current \in DOMAIN intents
  BY RowFacts DEF IInv, Requests, Rows, Referenced, AttachRun
<1>1. UNCHANGED <<runs, lock, born>> /\ current' = NoIntent
  BY DEF AttachRun
<1>2. StartsOrdered' /\ AttachedBefore'
  BY <1>1 DEF SharedInv, StartsOrdered, AttachedBefore
<1>3. CASE intents' = intents
  BY <1>1, <1>2, <1>3 DEF SharedInv, Attached, NoSharedRun
<1>4. CASE StartedSince # {} /\ intents' = [intents EXCEPT ![current].run = Newest(StartedSince)]
  <2> DEFINE m == Newest(StartedSince)
  <2>1. Len(runs) \in Nat /\ DOMAIN runs = 1 .. Len(runs) /\ since \in Nat
        /\ \A n \in DOMAIN runs : runs[n].at \in Nat
    BY StartsAreNumbers
  <2>2. m \in StartedSince
    <3>1. StartedSince \in SUBSET (1 .. Len(runs))
      BY <2>1 DEF StartedSince, RunsOf
    <3>2. QED
      BY <1>4, <2>1, <3>1, NewestIsMember
  <2> HIDE DEF m
  <2>3. m \in DOMAIN runs /\ runs[m].profile = intents[current].profile /\ runs[m].at > since
    BY <2>2 DEF StartedSince, RunsOf
  <2>4. DOMAIN intents' = DOMAIN intents
        /\ \A j \in DOMAIN intents :
             /\ intents'[j].run = IF j = current THEN m ELSE intents[j].run
             /\ intents'[j].profile = intents[j].profile
    BY <1>0, <1>4 DEF m, IntentRow
  <2>5. current # NoIntent
    BY DEF AttachRun, IInv, Requests, Rows
  <2>6. \A j \in DOMAIN intents : intents[j].run # NoRun => intents[j].run # m
    <3> SUFFICES ASSUME NEW j \in DOMAIN intents, intents[j].run # NoRun
                 PROVE  intents[j].run # m
      OBVIOUS
    <3>1. runs[intents[j].run].at <= since /\ intents[j].run \in DOMAIN runs
      BY <2>5 DEF SharedInv, AttachedBefore, Attached
    <3>2. QED
      BY <2>1, <2>3, <3>1
  <2>7. Attached'
    BY <1>1, <2>3, <2>4 DEF SharedInv, Attached
  <2>8. m # NoRun
    BY <2>1, <2>3, RunIntentsAssumption
  <2>9. NoSharedRun'
    BY <1>1, <2>3, <2>4, <2>6, <2>8 DEF SharedInv, NoSharedRun
  <2>10. QED
    BY <1>2, <2>7, <2>9 DEF SharedInv
<1>5. QED
  BY <1>3, <1>4 DEF AttachRun

(* The run the board shows for a request is of its profile and of no other  *)
(* request: a run that was already going when the request was claimed is    *)
(* never attached to it, since starts are ordered and only one pass         *)
(* attaches at a time.                                                      *)
THEOREM NoSharedRunHolds == Spec => []NoSharedRun
<1>1. Init => SharedInv
  BY DEF Init, SharedInv, StartsOrdered, Attached, AttachedBefore, NoSharedRun
<1>2. IInv /\ SharedInv /\ [Next]_vars => SharedInv'
  BY SharedKept, SharedAttach
<1>3. SharedInv => NoSharedRun
  BY DEF SharedInv
<1>4. QED
  BY InvariantHolds, <1>1, <1>2, <1>3, PTL DEF Spec

(* The three together, as the runs check them.                              *)
THEOREM IntentsHold == Spec => []IntentsSound
BY TypeInvariant, SpawnedOnceHolds, NoSharedRunHolds, PTL DEF IntentsSound

----------------------------------------------------------------------------
(* The runs page                                                           *)

Ask == {"pending", "claimed", "taken", "expired", "cancelled"}

RunsShapes ==
  /\ rows \in Seq(Row) /\ Len(rows) <= MaxRows
  /\ requests \in Seq(Ask)
  /\ cache = [q \in Query |-> cache[q]]
  /\ cache[RunsKey] = None \/ (cache[RunsKey] \in Seq(Shown) /\ Len(cache[RunsKey]) <= Len(rows))
  /\ cache[RequestsKey] = None \/ (cache[RequestsKey] \in Seq(Shown) /\ Len(cache[RequestsKey]) <= Len(requests))
  /\ due \subseteq Query
  /\ post = None \/ post \in Outcome
  /\ conflict \in 0 .. MaxRows

(* A request as the list shows it. *)
ShownAs(request) == IF request = "taken" THEN "claimed" ELSE request

(* A request that is listed as settled stays as it was listed. *)
AsksKept == \A i \in 1 .. Len(Asked) : Asked[i] # "pending" => Asked[i] = ShownAs(requests[i])

(* A request that is not listed is about to be asked for. *)
AsksCounted ==
  cause = {} => \/ Len(Asked) = Len(requests)
                \/ Unasked(RequestsKey)
                \/ post # None /\ post.kind = "queued"

(* A run that is listed as ended is as it was listed. *)
RowsListed ==
  cause = {} /\ RunsKey \notin due =>
    \A i \in 1 .. Len(Listed) : Listed[i] = "running" \/ Listed[i] = StatusOf(rows[i])

(* A run that is not listed is about to be asked for, or the tab polls. *)
RowsCounted == cause = {} => Len(Listed) = Len(rows) \/ Polling \/ post # None \/ Unasked(RunsKey)

(* The details agree with the list, or all is asked again. *)
DetailsMatch ==
  cause = {} => Observed \subseteq due \/ \A i \in 1 .. Len(Listed) : cache[<<"detail", i>>] \in {None, Listed[i]}

RunsInv == RunsShapes /\ AsksKept /\ AsksCounted /\ RowsListed /\ RowsCounted /\ DetailsMatch

LEMMA AnswerMade ==
  ASSUME NEW n \in Nat, NEW S, NEW f, f = [i \in 1 .. n |-> f[i]], \A i \in 1 .. n : f[i] \in S
  PROVE  f \in Seq(S) /\ Len(f) = n
<1>1. f \in [1 .. n -> S]
  OBVIOUS
<1>2. f \in Seq(S)
  BY <1>1, SeqDef
<1>3. QED
  BY <1>1, <1>2, LenProperties

(* What the two lists answer. *)
LEMMA AnswersTyped ==
  ASSUME RunsShapes
  PROVE  /\ Answer(RunsKey) \in Seq(Shown) /\ Len(Answer(RunsKey)) = Len(rows)
         /\ \A i \in 1 .. Len(rows) : Answer(RunsKey)[i] = StatusOf(rows[i])
         /\ Answer(RequestsKey) \in Seq(Shown) /\ Len(Answer(RequestsKey)) = Len(requests)
         /\ \A i \in 1 .. Len(requests) : Answer(RequestsKey)[i] = ShownAs(requests[i])
<1>1. rows \in Seq(Row) /\ requests \in Seq(Ask)
  BY DEF RunsShapes
<1>2. DOMAIN rows = 1 .. Len(rows) /\ DOMAIN requests = 1 .. Len(requests) /\ Len(rows) \in Nat /\ Len(requests) \in Nat
  BY <1>1
<1>3. \A i \in 1 .. Len(rows) : StatusOf(rows[i]) \in Shown
  <2>1. TAKE i \in 1 .. Len(rows)
  <2>2. rows[i] \in Row
    BY <1>1
  <2>3. QED
    BY <2>2 DEF Row, Status, StatusOf, Shown
<1>4. \A i \in 1 .. Len(requests) : ShownAs(requests[i]) \in Shown
  BY <1>1 DEF ShownAs, Shown, Ask
<1>5. Answer(RunsKey) = [i \in 1 .. Len(rows) |-> StatusOf(rows[i])]
  BY <1>2 DEF Answer, RunsKey
<1>6. Answer(RequestsKey) = [i \in 1 .. Len(requests) |-> ShownAs(requests[i])]
  BY <1>2 DEF Answer, RequestsKey, ShownAs
<1>7. Answer(RunsKey) \in Seq(Shown) /\ Len(Answer(RunsKey)) = Len(rows)
  BY <1>2, <1>3, <1>5, AnswerMade
<1>8. Answer(RequestsKey) \in Seq(Shown) /\ Len(Answer(RequestsKey)) = Len(requests)
  BY <1>2, <1>4, <1>6, AnswerMade
<1>9. QED
  BY <1>5, <1>6, <1>7, <1>8

----------------------------------------------------------------------------
(* What happens behind the board leaves the tab alone; a run that is not    *)
(* running stays as it is, a request that is settled too; and what the tab  *)
(* has no reason to look for is a cause.                                    *)
ServerMoved ==
  /\ UNCHANGED tab
  /\ rows' \in Seq(Row) /\ Len(rows) <= Len(rows') /\ Len(rows') <= MaxRows
  /\ requests' \in Seq(Ask) /\ Len(requests') = Len(requests)
  /\ \A i \in 1 .. Len(requests) : requests[i] # "pending" => ShownAs(requests'[i]) = ShownAs(requests[i])
  /\ cause' = {} =>
       /\ cause = {}
       /\ \A i \in 1 .. Len(rows) : StatusOf(rows[i]) = "running" \/ StatusOf(rows'[i]) = StatusOf(rows[i])
       /\ Len(rows') = Len(rows) \/ Polling \/ post # None \/ Unasked(RunsKey)

LEMMA ServerMoves ==
  ASSUME RunsShapes,
         \/ \E i \in DOMAIN requests : ClaimRequest(i) \/ BeginRun(i) \/ Expire(i)
         \/ BeginRun(0)
         \/ \E i \in DOMAIN rows : Silence(i) \/ \E status \in Status \ {"running"} : EndRun(i, status)
  PROVE  ServerMoved
<1>1. /\ rows \in Seq(Row) /\ requests \in Seq(Ask) /\ Len(rows) \in Nat /\ Len(rows) <= MaxRows
      /\ DOMAIN rows = 1 .. Len(rows) /\ DOMAIN requests = 1 .. Len(requests)
  BY DEF RunsShapes
<1>2. /\ Caused(Unseen) = {} => cause = {} /\ (Polling \/ post # None \/ Unasked(RunsKey))
      /\ \A why : Caused(Unseen \cup why) = {} => cause = {} /\ why = {}
  BY DEF Caused, Unseen
<1>3. ASSUME NEW i \in DOMAIN requests, ClaimRequest(i) \/ Expire(i) PROVE ServerMoved
  <2>1. requests' \in Seq(Ask) /\ Len(requests') = Len(requests)
    BY <1>1, <1>3 DEF ClaimRequest, Expire, Ask
  <2>2. \A k \in 1 .. Len(requests) : requests[k] # "pending" => requests'[k] = requests[k]
    BY <1>1, <1>3 DEF ClaimRequest, Expire
  <2>3. rows' = rows /\ UNCHANGED tab /\ cause' = Caused(Unseen)
    BY <1>3 DEF ClaimRequest, Expire
  <2>4. QED
    BY <1>1, <1>2, <2>1, <2>2, <2>3 DEF ServerMoved
<1>4. ASSUME NEW i \in DOMAIN requests \cup {0}, BeginRun(i) PROVE ServerMoved
  <2> DEFINE new == [status |-> "running", silent |-> FALSE]
  <2>1. rows' = Append(rows, new) /\ UNCHANGED tab /\ cause' = Caused(Unseen) /\ Len(rows) < MaxRows
    BY <1>4 DEF BeginRun
  <2>2. new \in Row
    BY DEF Row, Status
  <2>3. rows' \in Seq(Row) /\ Len(rows') = Len(rows) + 1 /\ \A k \in 1 .. Len(rows) : rows'[k] = rows[k]
    BY <1>1, <2>1, <2>2, AppendProperties
  <2>4. /\ Len(rows) <= Len(rows') /\ Len(rows') <= MaxRows /\ UNCHANGED tab
        /\ cause' = {} => cause = {} /\ (Polling \/ post # None \/ Unasked(RunsKey))
        /\ \A k \in 1 .. Len(rows) : StatusOf(rows'[k]) = StatusOf(rows[k])
    BY <1>1, <1>2, <2>1, <2>3, RunDeskAssumption
  <2>5. CASE requests' = requests
    BY <1>1, <2>3, <2>4, <2>5 DEF ServerMoved
  <2>6. CASE i \in DOMAIN requests /\ requests[i] = "claimed" /\ requests' = [requests EXCEPT ![i] = "taken"]
    <3>1. requests' \in Seq(Ask) /\ Len(requests') = Len(requests)
      BY <1>1, <2>6 DEF Ask
    <3>2. \A k \in 1 .. Len(requests) : ShownAs(requests'[k]) = ShownAs(requests[k])
      BY <1>1, <2>6 DEF ShownAs
    <3>3. QED
      BY <1>1, <2>3, <2>4, <3>1, <3>2 DEF ServerMoved
  <2>7. QED
    BY <1>4, <2>5, <2>6 DEF BeginRun
<1>5. ASSUME NEW i \in DOMAIN rows, NEW status \in Status \ {"running"}, EndRun(i, status) PROVE ServerMoved
  <2>1. /\ rows[i].status = "running" /\ ~rows[i].silent /\ rows' = [rows EXCEPT ![i].status = status]
        /\ UNCHANGED tab /\ cause' = Caused(Unseen) /\ requests' = requests
    BY <1>5 DEF EndRun
  <2>2. rows[i] \in Row /\ [rows[i] EXCEPT !.status = status] \in Row
    <3>1. rows[i] \in Row
      BY <1>1
    <3>2. QED
      BY <3>1 DEF Row, Status
  <2>3. rows' \in Seq(Row) /\ Len(rows') = Len(rows) /\ \A k \in 1 .. Len(rows) : k # i => rows'[k] = rows[k]
    BY <1>1, <2>1, <2>2
  <2>4. StatusOf(rows[i]) = "running"
    BY <2>1 DEF StatusOf
  <2>5. QED
    BY <1>1, <1>2, <2>1, <2>3, <2>4 DEF ServerMoved
<1>6. ASSUME NEW i \in DOMAIN rows, Silence(i) PROVE ServerMoved
  <2>1. /\ rows[i].status = "running" /\ rows' = [rows EXCEPT ![i].silent = ~@]
        /\ UNCHANGED tab /\ requests' = requests
        /\ cause' = Caused(Unseen \cup (IF rows[i].silent THEN {"revived"} ELSE {}))
    BY <1>6 DEF Silence
  <2>2. rows[i] \in Row /\ [rows[i] EXCEPT !.silent = ~@] \in Row
    <3>1. rows[i] \in Row
      BY <1>1
    <3>2. QED
      BY <3>1 DEF Row, Status
  <2>3. rows' \in Seq(Row) /\ Len(rows') = Len(rows) /\ \A k \in 1 .. Len(rows) : k # i => rows'[k] = rows[k]
    BY <1>1, <2>1, <2>2
  <2>4. cause' = {} => cause = {} /\ StatusOf(rows[i]) = "running"
    BY <1>2, <2>1 DEF StatusOf
  <2>5. cause' = {} => \A k \in 1 .. Len(rows) : StatusOf(rows[k]) = "running" \/ StatusOf(rows'[k]) = StatusOf(rows[k])
    BY <2>3, <2>4
  <2>6. UNCHANGED tab /\ requests' = requests
    BY <2>1
  <2>7. QED
    BY <1>1, <2>3, <2>4, <2>5, <2>6 DEF ServerMoved
<1>7. QED
  BY <1>3, <1>4, <1>5, <1>6

LEMMA ServerKeeps == ASSUME RunsInv, ServerMoved PROVE RunsInv'
<1>1. RunsShapes /\ Len(rows) \in Nat /\ Len(requests) \in Nat
  BY DEF RunsInv, RunsShapes
<1>2. cache' = cache /\ due' = due /\ post' = post /\ conflict' = conflict /\ Listed' = Listed /\ Asked' = Asked
  BY DEF ServerMoved, tab, Listed, Asked
<1>3. Polling' = Polling /\ Observed' = Observed /\ Unasked(RunsKey)' = Unasked(RunsKey)
      /\ Unasked(RequestsKey)' = Unasked(RequestsKey)
  BY <1>2 DEF Polling, SomeRunning, Observed, NewestRow, Unasked
<1>4. Len(Asked) \in Nat /\ Len(Asked) <= Len(requests) /\ Len(Listed) \in Nat /\ Len(Listed) <= Len(rows)
  BY <1>1 DEF RunsShapes, Asked, Listed
<1>5. RunsShapes'
  <2>1. cache[RunsKey] # None => Len(cache[RunsKey]) \in Nat
    BY <1>1 DEF RunsShapes
  <2>2. Len(rows') \in Nat /\ Len(rows) <= Len(rows')
    BY DEF ServerMoved
  <2>3. cache[RunsKey] # None => Len(cache[RunsKey]) <= Len(rows')
    BY <1>1, <2>1, <2>2 DEF RunsShapes
  <2>4. QED
    BY <1>1, <1>2, <2>3 DEF ServerMoved, RunsShapes
<1>6. AsksKept'
  BY <1>2, <1>4 DEF RunsInv, AsksKept, ServerMoved, ShownAs
<1>7. AsksCounted'
  BY <1>2, <1>3 DEF RunsInv, AsksCounted, ServerMoved
<1>8. RowsListed'
  BY <1>2, <1>4 DEF RunsInv, RowsListed, ServerMoved
<1>9. RowsCounted'
  BY <1>2, <1>3 DEF RunsInv, RowsCounted, ServerMoved
<1>10. DetailsMatch'
  BY <1>2, <1>3 DEF RunsInv, DetailsMatch, ServerMoved
<1>11. QED
  BY <1>5, <1>6, <1>7, <1>8, <1>9, <1>10 DEF RunsInv

----------------------------------------------------------------------------
(* The tab's own steps. *)
LEMMA KeysApart ==
  /\ RunsKey \in Query /\ RequestsKey \in Query /\ RunsKey # RequestsKey
  /\ RunsKey \in Observed /\ RequestsKey \in Observed /\ RunsKey \in UnderRuns /\ UnderRuns \subseteq Query
  /\ \A i : <<"detail", i>> # RunsKey /\ <<"detail", i>> # RequestsKey
BY DEF RunsKey, RequestsKey, Query, Observed, UnderRuns

LEMMA ListsTyped ==
  ASSUME RunsShapes
  PROVE  /\ Len(rows) \in Nat /\ Len(requests) \in Nat
         /\ Len(Asked) \in Nat /\ Len(Asked) <= Len(requests) /\ Len(Listed) \in Nat /\ Len(Listed) <= Len(rows)
         /\ DOMAIN Listed = 1 .. Len(Listed)
<1>1. Listed \in Seq(Shown) /\ Asked \in Seq(Shown)
  BY DEF RunsShapes, Listed, Asked
<1>2. QED
  BY <1>1 DEF RunsShapes, Listed, Asked

LEMMA LookKeeps == ASSUME RunsInv, NEW q \in Query, Look(q) PROVE RunsInv'
<1>1. RunsShapes
  BY DEF RunsInv
<1>2. /\ cache' = [cache EXCEPT ![q] = Answer(q)] /\ due' = due \ {q}
      /\ rows' = rows /\ requests' = requests /\ post' = post
      /\ cause' = Caused(StopsEarly)
      /\ conflict' = IF q = RunsKey THEN ConflictAfter(Answer(q)) ELSE conflict
  BY DEF Look, server
<1>3. /\ cache' = [k \in Query |-> cache'[k]]
      /\ \A k \in Query : cache'[k] = IF k = q THEN Answer(q) ELSE cache[k]
  BY <1>1, <1>2 DEF RunsShapes
<1>4. q = RunsKey => Listed' = Answer(RunsKey) /\ cache'[RunsKey] = Answer(RunsKey)
  BY <1>1, <1>3, KeysApart, AnswersTyped, RunDeskAssumption DEF Listed
<1>5. q # RunsKey => Listed' = Listed /\ cache'[RunsKey] = cache[RunsKey]
  BY <1>3, KeysApart DEF Listed
<1>6. q = RequestsKey => Asked' = Answer(RequestsKey) /\ cache'[RequestsKey] = Answer(RequestsKey)
  BY <1>1, <1>3, KeysApart, AnswersTyped, RunDeskAssumption DEF Asked
<1>7. q # RequestsKey => Asked' = Asked /\ cache'[RequestsKey] = cache[RequestsKey]
  BY <1>3, KeysApart DEF Asked
<1>8. RunsShapes'
  <2>1. conflict' \in 0 .. MaxRows
    BY <1>1, <1>2, RunDeskAssumption DEF RunsShapes, ConflictAfter
  <2>2. cache'[RunsKey] = None \/ (cache'[RunsKey] \in Seq(Shown) /\ Len(cache'[RunsKey]) <= Len(rows))
    BY <1>1, <1>4, <1>5, AnswersTyped DEF RunsShapes
  <2>3. cache'[RequestsKey] = None \/ (cache'[RequestsKey] \in Seq(Shown) /\ Len(cache'[RequestsKey]) <= Len(requests))
    BY <1>1, <1>6, <1>7, AnswersTyped DEF RunsShapes
  <2>4. QED
    BY <1>1, <1>2, <1>3, <2>1, <2>2, <2>3 DEF RunsShapes
<1>9. cause' = {} =>
        /\ cause = {} /\ Len(rows) <= Len(Listed')
        /\ \A i \in DOMAIN Listed' : cache'[<<"detail", i>>] \in {None, Listed'[i]}
  <2>1. ~(Len(rows) > Len(Listed')) => Len(rows) <= Len(Listed')
    BY <1>1, <1>4, <1>5, AnswersTyped, ListsTyped
  <2>2. QED
    BY <1>2, <2>1 DEF Caused, StopsEarly, Listed
<1>10. Len(Listed') \in Nat /\ Len(Listed') <= Len(rows) /\ DOMAIN Listed' = 1 .. Len(Listed')
  BY <1>1, <1>4, <1>5, AnswersTyped, ListsTyped
<1>11. AsksKept'
  <2>1. CASE q = RequestsKey
    BY <1>1, <1>2, <1>6, <2>1, AnswersTyped DEF AsksKept
  <2>2. CASE q # RequestsKey
    BY <1>2, <1>7, <2>2 DEF AsksKept, RunsInv
  <2>3. QED
    BY <2>1, <2>2
<1>12. AsksCounted'
  <2>1. CASE q = RequestsKey
    BY <1>1, <1>2, <1>6, <2>1, AnswersTyped DEF AsksCounted
  <2>2. CASE q # RequestsKey
    BY <1>2, <1>7, <1>9, <2>2 DEF AsksCounted, RunsInv, Unasked
  <2>3. QED
    BY <2>1, <2>2
<1>13. RowsListed'
  <2>1. CASE q = RunsKey
    BY <1>1, <1>2, <1>4, <2>1, AnswersTyped DEF RowsListed
  <2>2. CASE q # RunsKey
    BY <1>2, <1>5, <1>9, <2>2 DEF RowsListed, RunsInv
  <2>3. QED
    BY <2>1, <2>2
<1>14. RowsCounted'
  BY <1>1, <1>2, <1>9, <1>10, ListsTyped DEF RowsCounted
<1>15. DetailsMatch'
  BY <1>9, <1>10 DEF DetailsMatch
<1>16. QED
  BY <1>8, <1>11, <1>12, <1>13, <1>14, <1>15 DEF RunsInv

(* A step that sets a cause, or asks for everything again, and leaves the   *)
(* lists as they are.                                                      *)
LEMMA RestKeeps ==
  ASSUME RunsInv, UNCHANGED <<rows, requests, cache>>,
         due' \subseteq Query, post' = None \/ post' \in Outcome, conflict' \in 0 .. MaxRows,
         cause' # {} \/ due' = Observed
  PROVE  RunsInv'
<1>1. Listed' = Listed /\ Asked' = Asked /\ Observed' = Observed
  BY DEF Listed, Asked, Observed, NewestRow
<1>2. RunsShapes'
  BY DEF RunsInv, RunsShapes
<1>3. AsksKept'
  BY <1>1 DEF RunsInv, AsksKept
<1>4. AsksCounted' /\ RowsListed' /\ RowsCounted' /\ DetailsMatch'
  BY <1>1, KeysApart DEF AsksCounted, RowsListed, RowsCounted, DetailsMatch, Unasked
<1>5. QED
  BY <1>2, <1>3, <1>4 DEF RunsInv

LEMMA RunNowKeeps == ASSUME RunsInv, RunNow PROVE RunsInv'
<1>1. RunsShapes
  BY DEF RunsInv
<1>2. post = None /\ UNCHANGED <<rows, cache, due, conflict, cause>>
  BY DEF RunNow
<1>3. Listed' = Listed /\ Asked' = Asked /\ Observed' = Observed /\ Polling' = Polling
      /\ Unasked(RunsKey)' = Unasked(RunsKey) /\ Unasked(RequestsKey)' = Unasked(RequestsKey)
  BY <1>2 DEF Listed, Asked, Observed, NewestRow, Polling, SomeRunning, Unasked
<1>4. /\ post' \in Outcome
      /\ requests' = requests \/ (requests' = Append(requests, "pending") /\ post'.kind = "queued")
  <2> DEFINE live == {i \in DOMAIN rows : StatusOf(rows[i]) = "running"}
  <2>1. CASE live # {}
    <3>1. (CHOOSE i \in live : TRUE) \in RunId
      <4>1. (CHOOSE i \in live : TRUE) \in DOMAIN rows
        BY <2>1
      <4>2. DOMAIN rows = 1 .. Len(rows) /\ Len(rows) <= MaxRows /\ Len(rows) \in Nat
        BY <1>1 DEF RunsShapes
      <4>3. QED
        BY <4>1, <4>2, RunDeskAssumption DEF RunId
    <3>2. post' = [kind |-> "run_in_progress", run |-> CHOOSE i \in live : TRUE] /\ requests' = requests
      BY <2>1 DEF RunNow
    <3>3. QED
      BY <3>1, <3>2 DEF Outcome
  <2>2. CASE live = {}
    BY <2>2 DEF RunNow, Outcome
  <2>3. QED
    BY <2>1, <2>2
<1>5. requests' \in Seq(Ask) /\ Len(requests) <= Len(requests') /\ \A i \in 1 .. Len(requests) : requests'[i] = requests[i]
  <2>1. requests \in Seq(Ask) /\ Len(requests) \in Nat
    BY <1>1 DEF RunsShapes
  <2>2. CASE requests' = Append(requests, "pending")
    <3>1. "pending" \in Ask
      BY DEF Ask
    <3>2. QED
      BY <2>1, <2>2, <3>1, AppendProperties
  <2>3. QED
    BY <1>4, <2>1, <2>2
<1>6. RunsShapes'
  <2>1. cache[RequestsKey] # None => Len(cache[RequestsKey]) <= Len(requests')
    BY <1>1, <1>5 DEF RunsShapes
  <2>2. QED
    BY <1>1, <1>2, <1>4, <1>5, <2>1 DEF RunsShapes
<1>7. AsksKept'
  BY <1>1, <1>3, <1>5, ListsTyped DEF AsksKept, RunsInv
<1>8. AsksCounted'
  BY <1>2, <1>3, <1>4, RunDeskAssumption DEF AsksCounted, RunsInv
<1>9. RowsListed' /\ RowsCounted' /\ DetailsMatch'
  BY <1>2, <1>3 DEF RowsListed, RowsCounted, DetailsMatch, RunsInv
<1>10. QED
  BY <1>6, <1>7, <1>8, <1>9 DEF RunsInv

(* A step that asks for the runs again, and for the requests when the POST  *)
(* that it ends has queued one.                                             *)
LEMMA AskedAgainKeeps ==
  ASSUME RunsInv, UNCHANGED <<rows, cache, cause>>,
         due \subseteq due', RunsKey \in due', due' \subseteq Query,
         post' = None \/ post' = post, conflict' \in 0 .. MaxRows,
         requests' \in Seq(Ask), Len(requests') = Len(requests),
         \A i \in 1 .. Len(requests) : requests[i] # "pending" => requests'[i] = requests[i],
         RequestsKey \in due' \/ post' = post \/ post.kind # "queued"
  PROVE  RunsInv'
<1>1. RunsShapes
  BY DEF RunsInv
<1>2. Listed' = Listed /\ Asked' = Asked /\ Observed' = Observed /\ Polling' = Polling
  BY DEF Listed, Asked, Observed, NewestRow, Polling, SomeRunning
<1>3. RunsShapes'
  BY <1>1 DEF RunsShapes
<1>4. AsksKept'
  <2>1. ASSUME NEW i \in 1 .. Len(Asked), Asked[i] # "pending" PROVE Asked[i] = ShownAs(requests'[i])
    <3>1. i \in 1 .. Len(requests) /\ Asked[i] = ShownAs(requests[i])
      BY <1>1, <2>1, ListsTyped DEF AsksKept, RunsInv
    <3>2. requests[i] # "pending"
      BY <2>1, <3>1 DEF ShownAs
    <3>3. QED
      BY <3>1, <3>2
  <2>2. QED
    BY <1>2, <2>1 DEF AsksKept
<1>5. AsksCounted' /\ RowsListed' /\ RowsCounted' /\ DetailsMatch'
  BY <1>2 DEF AsksCounted, RowsListed, RowsCounted, DetailsMatch, RunsInv, Unasked
<1>6. QED
  BY <1>3, <1>4, <1>5 DEF RunsInv

LEMMA PostedKeeps == ASSUME RunsInv, Posted PROVE RunsInv'
<1>1. post \in Outcome /\ due \subseteq Query /\ requests \in Seq(Ask)
  BY DEF Posted, RunsInv, RunsShapes
<1>2. conflict' \in 0 .. MaxRows
  BY <1>1, RunDeskAssumption DEF Posted, Outcome, RunId
<1>3. due' = due \cup (IF post.kind = "queued" THEN UnderRuns \cup {RequestsKey} ELSE UnderRuns)
  BY DEF Posted, Invalidated
<1>4. post' = None /\ UNCHANGED <<rows, requests, cache, cause>>
  BY DEF Posted, server
<1>5. QED
  BY <1>1, <1>2, <1>3, <1>4, AskedAgainKeeps, KeysApart

LEMMA CancelKeeps == ASSUME RunsInv, Cancel PROVE RunsInv'
<1>1. due \subseteq Query /\ requests \in Seq(Ask) /\ conflict \in 0 .. MaxRows
  BY DEF RunsInv, RunsShapes
<1> DEFINE i == CHOOSE k \in PendingAsked : \A j \in PendingAsked : j <= k
<1>2. requests' = [requests EXCEPT ![i] = IF requests[i] = "pending" THEN "cancelled" ELSE requests[i]]
  BY DEF Cancel
<1> HIDE DEF i
<1>3. /\ requests' \in Seq(Ask) /\ Len(requests') = Len(requests)
      /\ \A k \in 1 .. Len(requests) : requests[k] # "pending" => requests'[k] = requests[k]
  <2>1. CASE i \in 1 .. Len(requests)
    BY <1>1, <1>2, <2>1 DEF Ask
  <2>2. CASE i \notin 1 .. Len(requests)
    <3>1. requests' = requests
      BY <1>1, <1>2, <2>2
    <3>2. QED
      BY <1>1, <3>1
  <2>3. QED
    BY <2>1, <2>2
<1>4. due' = due \cup (UnderRuns \cup {RequestsKey}) /\ UNCHANGED <<rows, cache, post, conflict, cause>>
  BY DEF Cancel, Invalidated
<1>5. QED
  BY <1>1, <1>3, <1>4, AskedAgainKeeps, KeysApart

LEMMA RunsInvHolds == RunsSpec => []RunsInv
<1>1. RunsInit => RunsInv
  <2> SUFFICES ASSUME RunsInit PROVE RunsInv
    OBVIOUS
  <2>1. cache[RunsKey] = None /\ cache[RequestsKey] = None
    BY KeysApart DEF RunsInit
  <2>2. Listed = <<>> /\ Asked = <<>>
    BY <2>1 DEF Listed, Asked
  <2>3. RunsShapes
    BY <2>1, RunDeskAssumption DEF RunsInit, RunsShapes
  <2>4. QED
    BY <2>1, <2>2, <2>3 DEF RunsInit, RunsInv, AsksKept, AsksCounted, RowsListed, RowsCounted, DetailsMatch
<1>2. RunsInv /\ [RunsNext]_runsVars => RunsInv'
  <2> SUFFICES ASSUME RunsInv, [RunsNext]_runsVars PROVE RunsInv'
    OBVIOUS
  <2>1. RunsShapes
    BY DEF RunsInv
  <2>2. CASE \/ \E i \in DOMAIN requests : ClaimRequest(i) \/ BeginRun(i) \/ Expire(i)
             \/ BeginRun(0)
             \/ \E i \in DOMAIN rows : Silence(i) \/ \E status \in Status \ {"running"} : EndRun(i, status)
    BY <2>1, <2>2, ServerMoves, ServerKeeps
  <2>3. CASE \E q \in Query : LookFails(q)
    <3>1. UNCHANGED <<rows, requests, cache>> /\ due' \subseteq due /\ post' = post /\ conflict' = conflict /\ cause' # {}
      BY <2>3 DEF LookFails, server, Caused
    <3>2. QED
      BY <2>1, <3>1, RestKeeps DEF RunsShapes
  <2>4. CASE Focus
    <3>1. UNCHANGED <<rows, requests, cache>> /\ due' = Observed /\ post' = post /\ conflict' = conflict
      BY <2>4 DEF Focus, server
    <3>2. Observed \subseteq Query
      BY DEF Observed
    <3>3. QED
      BY <2>1, <3>1, <3>2, RestKeeps DEF RunsShapes
  <2>5. CASE PostFails
    <3>1. UNCHANGED <<rows, requests, cache>> /\ due' = due /\ post' = None /\ conflict' = conflict /\ cause' # {}
      BY <2>5 DEF PostFails, server, Caused
    <3>2. QED
      BY <2>1, <3>1, RestKeeps DEF RunsShapes
  <2>6. CASE UNCHANGED runsVars
    BY <2>6 DEF runsVars, RunsInv, RunsShapes, AsksKept, AsksCounted, RowsListed, RowsCounted, DetailsMatch,
                Listed, Asked, Polling, SomeRunning, Observed, NewestRow, Unasked
  <2>7. QED
    BY <2>2, <2>3, <2>4, <2>5, <2>6, LookKeeps, RunNowKeeps, PostedKeeps, CancelKeeps DEF RunsNext
<1>3. QED
  BY <1>1, <1>2, PTL DEF RunsSpec

(* A tab that has stopped polling, with nothing left to ask, shows the runs *)
(* and requests there are, and each row as it is, but for the causes        *)
(* (pollFlag; useRuns.ts, useRunIntents.ts): for any number of runs and     *)
(* requests.                                                                *)
THEOREM RunsHold == RunsSpec => []RunsSound
<1>1. RunsInv => RunsTypeOK
  BY DEF RunsInv, RunsShapes, RunsTypeOK
<1>2. RunsInv => UpToDateUnlessCause
  <2> SUFFICES ASSUME RunsInv, Quiet, cause = {}
               PROVE  /\ \A q \in Polled \cap Observed : cache[q] = Answer(q)
                      /\ \A i \in DOMAIN Listed : RowStatus(i) = StatusOf(rows[i])
    BY DEF UpToDateUnlessCause
  <2>1. RunsShapes
    BY DEF RunsInv
  <2>2. /\ RunsKey \notin due /\ cache[RunsKey] # None /\ RequestsKey \notin due /\ cache[RequestsKey] # None
        /\ post = None /\ ~Polling /\ ~(Observed \subseteq due)
    BY KeysApart DEF Quiet
  <2>3. Len(Listed) = Len(rows) /\ Len(Asked) = Len(requests)
    BY <2>2 DEF RunsInv, RowsCounted, AsksCounted, Unasked
  <2>4. DOMAIN Listed = 1 .. Len(rows) /\ DOMAIN Asked = 1 .. Len(requests)
        /\ Listed = cache[RunsKey] /\ Asked = cache[RequestsKey] /\ Listed \in Seq(Shown) /\ Asked \in Seq(Shown)
    BY <2>1, <2>2, <2>3 DEF RunsShapes, Listed, Asked
  <2>5. \A i \in 1 .. Len(rows) : Listed[i] = StatusOf(rows[i])
    BY <2>2, <2>3, <2>4 DEF RunsInv, RowsListed, Polling, SomeRunning
  <2>6. \A i \in 1 .. Len(requests) : Asked[i] = ShownAs(requests[i])
    BY <2>2, <2>3, <2>4 DEF RunsInv, AsksKept, Polling
  <2>7. \A i \in 1 .. Len(rows) : cache[<<"detail", i>>] \in {None, StatusOf(rows[i])}
    BY <2>2, <2>3, <2>5 DEF RunsInv, DetailsMatch
  <2>8. cache[RunsKey] = Answer(RunsKey)
    BY <2>1, <2>3, <2>4, <2>5, AnswersTyped, SeqEqual
  <2>9. cache[RequestsKey] = Answer(RequestsKey)
    BY <2>1, <2>3, <2>4, <2>6, AnswersTyped, SeqEqual
  <2>10. ASSUME NEW q \in Observed, q = <<"detail", NewestRow>> PROVE cache[q] = Answer(q)
    <3>1. NewestRow \in 1 .. Len(rows)
      <4>1. q \in Query /\ q[1] = "detail" /\ q[2] = NewestRow
        BY <2>10 DEF Observed
      <4>2. NewestRow \in RunId
        BY <4>1 DEF Query
      <4>3. QED
        BY <2>3, <4>2, <2>1, ListsTyped DEF NewestRow, RunId
    <3>2. cache[q] # None
      BY DEF Quiet
    <3>3. cache[q] = StatusOf(rows[NewestRow])
      BY <2>7, <2>10, <3>1, <3>2
    <3>4. Answer(q) = StatusOf(rows[NewestRow])
      BY <2>10 DEF Answer
    <3>5. QED
      BY <3>3, <3>4
  <2>11. \A i \in DOMAIN Listed : RowStatus(i) = StatusOf(rows[i])
    BY <2>4, <2>5, <2>7 DEF RowStatus
  <2>12. QED
    BY <2>8, <2>9, <2>10, <2>11 DEF Polled
<1>3. QED
  BY <1>1, <1>2, RunsInvHolds, PTL DEF RunsSound

----------------------------------------------------------------------------
(* The settings pages: what the texts, the section, its saves and their    *)
(* requests are at every moment.                                           *)

(* The values a profile's fields may have by now. *)
Worth(p, n) == {p} \X (0 .. n)
TextsUpTo(p, d, n) == [FieldsOf(d) -> Worth(p, n)]

DocsFit ==
  /\ store \in [Prof -> [Fields -> Prof \X (0 .. MaxChanges)]]
  /\ \A p \in Prof : store[p] \in [Fields -> Worth(p, edits)]
  /\ DOMAIN queries = Prof /\ DOMAIN fetching = Prof
  /\ \A p \in Prof : DOMAIN queries[p] = Doc /\ DOMAIN fetching[p] = Doc
  /\ \A p \in Prof, d \in Doc : queries[p][d] \in TextsUpTo(p, d, edits) \cup {NoText}
                                /\ fetching[p][d] \in TextsUpTo(p, d, edits) \cup {NoText}

PlaceFits ==
  /\ edits \in 0 .. MaxChanges /\ sent \in Nat /\ at \in [prof : Prof, section : Opened, doc : Doc]
  /\ dialog \in Prof \cup Opened \cup {NoText}

(* A text is synced once a visit, after its query has answered. *)
SectionFits ==
  /\ DOMAIN raw = Doc /\ DOMAIN synced = Doc
  /\ \A d \in Doc : raw[d] \in TextsUpTo(at.prof, d, edits) \cup {NoText}
  /\ \A d \in Doc : synced[d] # NoText =>
       synced[d] = at.prof /\ ~Direct(d) /\ ran[d] = <<at.prof, TRUE>> /\ queries[at.prof][d] # NoText /\ raw[d] # NoText

(* The fields the form was seeded with: in the raw editor those of another *)
(* document than the one selected, until that one is there.                *)
SeededFields == IF at.section = "raw" THEN FieldsOf(seeded[2]) ELSE Own

FormFits ==
  /\ seeded # NoText =>
       /\ IF at.section = "raw" THEN \E d \in Doc : seeded = <<at.prof, d>> ELSE seeded = SeedKey
       /\ form \in [SeededFields -> Worth(at.prof, edits)] /\ baseline \in [SeededFields -> Worth(at.prof, edits)]
       /\ \A f \in SeededFields : /\ raw[f[1]] # NoText /\ queries[at.prof][f[1]] # NoText
                                  /\ Direct(f[1]) \/ synced[f[1]] # NoText
  /\ dialog # NoText => seeded \in {NoText, SeedKey}

(* A save, and a request, by their fields. *)
IsSave(s) == s = [n |-> s.n, value |-> s.value, ok |-> s.ok, some |-> s.some, go |-> s.go, live |-> s.live]
IsPut(put) ==
  put = [n |-> put.n, doc |-> put.doc, prof |-> put.prof, text |-> put.text, base |-> put.base, stage |-> put.stage]

SavesFit ==
  /\ \A s \in saves : /\ IsSave(s) /\ s.n \in 0 .. (sent - 1) /\ s.go \in Prof \cup Opened \cup {NoText}
                      /\ s.ok \in BOOLEAN /\ s.some \in BOOLEAN /\ s.live \in BOOLEAN
                      /\ s.live /\ at.section # "raw" => s.value \in [Own -> Worth(at.prof, edits)]
  /\ \A s \in saves, other \in saves : s.n = other.n => s = other

PutsFit ==
  /\ \A put \in puts :
       /\ IsPut(put) /\ put.doc \in Doc /\ put.prof \in Prof /\ put.stage \in {"sent", "stored", "refused"}
       /\ put.text \in TextsUpTo(put.prof, put.doc, edits) /\ put.base \in TextsUpTo(put.prof, put.doc, edits)
       /\ \E s \in saves : s.n = put.n
  /\ \A put \in puts, other \in puts : put.n = other.n /\ put.doc = other.doc => put = other

SettingsFit == DocsFit /\ PlaceFits /\ SectionFits /\ FormFits /\ SavesFit /\ PutsFit

(* Where fields and documents are found. *)
LEMMA FieldFacts ==
  /\ \A f \in Fields : f[1] \in Doc /\ f \in FieldsOf(f[1])
  /\ \A d : \A f \in FieldsOf(d) : f \in Fields /\ f[1] = d
  /\ \A d \in Doc : \E f \in Fields : f[1] = d
BY DEF Doc, FieldsOf

(* The section's own fields are fields of its own documents. *)
LEMMA OwnFacts ==
  ASSUME PlaceFits
  PROVE  /\ Own \subseteq Fields /\ OwnDocs \subseteq Doc
         /\ \A f \in Own : f[1] \in OwnDocs
         /\ \A d \in OwnDocs : \E f \in Own : f[1] = d
         /\ at.section = "raw" => Own = FieldsOf(at.doc) /\ OwnDocs = {at.doc}
<1>1. at.section \in Opened /\ at.doc \in Doc
  BY DEF PlaceFits
<1>2. Own \subseteq Fields
  <2>1. CASE at.section = "raw"
    BY <2>1, FieldFacts DEF Own
  <2>2. CASE at.section # "raw"
    BY <2>2, <1>1 DEF Own, Fields, Forms
  <2>3. QED
    BY <2>1, <2>2
<1>3. at.section = "raw" => OwnDocs = {at.doc}
  BY <1>1, FieldFacts DEF Own, OwnDocs
<1>4. QED
  BY <1>2, <1>3, FieldFacts DEF OwnDocs, Own

(* What was a text before another edit still is one. *)
LEMMA TextsGrow ==
  ASSUME NEW n \in Nat, NEW m \in Nat, n <= m, NEW p, NEW d
  PROVE  TextsUpTo(p, d, n) \subseteq TextsUpTo(p, d, m) /\ Worth(p, n) \subseteq Worth(p, m)
<1>1. Worth(p, n) \subseteq Worth(p, m)
  BY DEF Worth
<1>2. QED
  BY <1>1 DEF TextsUpTo

(* A text is not "no text", and neither are the keys of a section. *)
LEMMA TextFacts ==
  ASSUME NEW n \in 0 .. MaxChanges, NEW p \in Prof, NEW d \in Doc
  PROVE  NoText \notin TextsUpTo(p, d, n)
<1>1. Worth(p, n) \subseteq Prof \X (0 .. MaxChanges)
  BY SettingsAssumption DEF Worth
<1>2. TextsUpTo(p, d, n) \subseteq Texts(d)
  BY <1>1 DEF TextsUpTo, Texts
<1>3. QED
  BY <1>2, SettingsAssumption

(* A document of the store is a text. *)
LEMMA StoredText ==
  ASSUME DocsFit, NEW p \in Prof, NEW d
  PROVE  TextOf(store[p], d) \in TextsUpTo(p, d, edits)
BY FieldFacts DEF DocsFit, TextOf, TextsUpTo

(* What a place means stays as long as the user stays. *)
LEMMA SamePlace ==
  ASSUME at' = at
  PROVE  /\ Own' = Own /\ OwnDocs' = OwnDocs /\ SeedKey' = SeedKey
         /\ \A d : Direct(d)' <=> Direct(d)
BY DEF Own, OwnDocs, SeedKey, Direct

(* Queries and the store hold texts of their own profile and document. *)
LEMMA DocsKept ==
  ASSUME DocsFit, PlaceFits, UNCHANGED <<store, queries, fetching>>, edits' \in Nat, edits <= edits'
  PROVE  DocsFit'
<1>1. edits \in Nat
  BY DEF PlaceFits
<1>2. \A p, d : TextsUpTo(p, d, edits) \subseteq TextsUpTo(p, d, edits') /\ Worth(p, edits) \subseteq Worth(p, edits')
  BY <1>1, TextsGrow
<1>3. \A p \in Prof : store[p] \in [Fields -> Worth(p, edits')]
  BY <1>2 DEF DocsFit
<1>4. QED
  BY <1>2, <1>3 DEF DocsFit

(* A step leaves documents, queries and GETs with texts of their profile. *)
LEMMA DocsStep ==
  ASSUME SettingsFit, SettingsNext
  PROVE  DocsFit'
<1> USE DEF SettingsFit
<1>0. /\ edits \in Nat /\ edits <= edits /\ at.prof \in Prof /\ OwnDocs \subseteq Doc
  BY OwnFacts DEF PlaceFits
<1>1. CASE \E d \in OwnDocs : Fetch(d)
  <2>1. PICK d \in OwnDocs : Fetch(d)
    BY <1>1
  <2>2. TextOf(store[at.prof], d) \in TextsUpTo(at.prof, d, edits)
    BY <1>0, StoredText
  <2>3. QED
    BY <1>0, <2>1, <2>2 DEF Fetch, DocsFit
<1>2. CASE \E p \in Prof, d \in Doc : Fetched(p, d)
  BY <1>2 DEF Fetched, DocsFit
<1>3. CASE \E put \in puts : StorePut(put)
  <2>1. PICK put \in puts : StorePut(put)
    BY <1>3
  <2>2. put.prof \in Prof /\ put.doc \in Doc /\ put.text \in TextsUpTo(put.prof, put.doc, edits) /\ edits \in 0 .. MaxChanges
    BY DEF PutsFit, PlaceFits
  <2> DEFINE New == [f \in Fields |-> IF f \in DOMAIN put.text THEN put.text[f] ELSE store[put.prof][f]]
  <2>3. New \in [Fields -> Worth(put.prof, edits)]
    BY <2>2 DEF DocsFit, TextsUpTo
  <2>4. New \in [Fields -> Prof \X (0 .. MaxChanges)]
    BY <2>2, <2>3, SettingsAssumption DEF Worth
  <2>5. store' = [store EXCEPT ![put.prof] = New] /\ UNCHANGED <<queries, fetching, edits>>
    BY <2>1 DEF StorePut
  <2>6. QED
    <3> HIDE DEF New
    <3>1. QED
      BY <2>2, <2>3, <2>4, <2>5 DEF DocsFit
<1>4. CASE \E put \in puts : AnswerPut(put)
  <2>1. PICK put \in puts : AnswerPut(put)
    BY <1>4
  <2>2. put.prof \in Prof /\ put.doc \in Doc /\ put.text \in TextsUpTo(put.prof, put.doc, edits)
    BY DEF PutsFit
  <2>3. (queries' = queries \/ queries' = [queries EXCEPT ![put.prof][put.doc] = put.text]) /\ UNCHANGED <<store, fetching, edits>>
    BY <2>1 DEF AnswerPut, CacheAfter
  <2>4. \A p \in Prof, d \in Doc : queries'[p][d] = queries[p][d] \/ (p = put.prof /\ d = put.doc /\ queries'[p][d] = put.text)
    BY <2>2, <2>3 DEF DocsFit
  <2>5. DOMAIN queries' = Prof /\ \A p \in Prof : DOMAIN queries'[p] = Doc
    BY <2>2, <2>3 DEF DocsFit
  <2>6. \A p \in Prof, d \in Doc : queries'[p][d] \in TextsUpTo(p, d, edits) \cup {NoText}
    BY <2>2, <2>4 DEF DocsFit
  <2>7. QED
    BY <2>3, <2>5, <2>6 DEF DocsFit
<1>5. CASE \E p \in Prof, f \in Fields : OutsideWrite(p, f)
  <2>1. PICK p \in Prof, f \in Fields : OutsideWrite(p, f)
    BY <1>5
  <2>2. /\ edits' = edits + 1 /\ edits' \in 0 .. MaxChanges /\ UNCHANGED <<queries, fetching>>
        /\ store' = [store EXCEPT ![p][f] = <<p, edits'>>]
    BY <2>1, SettingsAssumption DEF OutsideWrite, PlaceFits
  <2>3. \A q, d : TextsUpTo(q, d, edits) \subseteq TextsUpTo(q, d, edits') /\ Worth(q, edits) \subseteq Worth(q, edits')
    BY <1>0, <2>2, TextsGrow
  <2>4. <<p, edits'>> \in Worth(p, edits') /\ <<p, edits'>> \in Prof \X (0 .. MaxChanges)
    BY <2>2 DEF Worth
  <2> DEFINE New == [store[p] EXCEPT ![f] = <<p, edits'>>]
  <2>a. New \in [Fields -> Worth(p, edits')] /\ New \in [Fields -> Prof \X (0 .. MaxChanges)]
    <3>1. store[p] \in [Fields -> Worth(p, edits')] /\ store[p] \in [Fields -> Prof \X (0 .. MaxChanges)]
      BY <2>3 DEF DocsFit
    <3>2. QED
      BY <2>4, <3>1
  <2>b. store' = [store EXCEPT ![p] = New] /\ \A q \in Prof : store[q] \in [Fields -> Worth(q, edits')]
    BY <2>2, <2>3 DEF DocsFit
  <2>5. store' \in [Prof -> [Fields -> Prof \X (0 .. MaxChanges)]] /\ \A q \in Prof : store'[q] \in [Fields -> Worth(q, edits')]
    <3> HIDE DEF New
    <3>1. QED
      BY <2>a, <2>b DEF DocsFit
  <2>6. QED
    BY <2>2, <2>3, <2>5 DEF DocsFit
<1>6. CASE UNCHANGED <<store, queries, fetching>> /\ edits' \in Nat /\ edits <= edits'
  BY <1>6, DocsKept
<1>7. CASE Commit \/ SaveForm \/ Discard \/ Undo \/ Stay
  BY <1>0, <1>6, <1>7 DEF Commit, SaveForm, Discard, Undo, Stay
<1>8. CASE \E f \in Own : EditField(f)
  BY <1>0, <1>6, <1>8 DEF EditField
<1>9. CASE \E put \in puts : RefusePut(put) \/ LoseAnswer(put)
  BY <1>0, <1>6, <1>9 DEF RefusePut, LoseAnswer
<1>10. CASE (\E target \in Prof \cup Opened : Go(target)) \/ (\E section \in Opened : Back(section)) \/ (\E d \in Doc : SelectDoc(d))
  BY <1>0, <1>6, <1>10 DEF Go, Back, SelectDoc
<1>11. QED
  BY <1>1, <1>2, <1>3, <1>4, <1>5, <1>7, <1>8, <1>9, <1>10 DEF SettingsNext

(* The bounds, the place and the dialog. *)
LEMMA PlaceStep ==
  ASSUME SettingsFit, SettingsNext
  PROVE  PlaceFits'
<1> USE DEF SettingsFit
<1>0. FirstDoc \in Doc /\ edits \in 0 .. MaxChanges /\ sent \in Nat /\ at \in [prof : Prof, section : Opened, doc : Doc]
      /\ dialog \in Prof \cup Opened \cup {NoText}
  BY SettingsAssumption DEF FirstDoc, PlaceFits
<1>1. \A target \in Prof \cup Opened : \A left, known, shown : Arrive(target, left, known, shown) =>
        at' \in [prof : Prof, section : Opened, doc : Doc] /\ dialog' \in Prof \cup Opened \cup {NoText}
  BY <1>0 DEF Arrive, Mounted
<1>2. CASE \E target \in Prof \cup Opened : Go(target)
  BY <1>0, <1>1, <1>2 DEF Go, PlaceFits
<1>3. CASE Discard
  BY <1>0, <1>1, <1>3 DEF Discard, PlaceFits
<1>4. CASE \E put \in puts : AnswerPut(put)
  <2>1. PICK put \in puts : AnswerPut(put)
    BY <1>4
  <2>2. UNCHANGED <<edits, sent>>
    BY <2>1 DEF AnswerPut
  <2>3. PICK s \in saves : \/ UNCHANGED <<at, dialog>>
                           \/ s.go # NoText /\ Arrive(s.go, saves \ {s}, BaselineAfter(s, Succeeded(s, put)), FormAfter(s, Succeeded(s, put)))
    BY <2>1 DEF AnswerPut, Follows
  <2>4. s.go \in Prof \cup Opened \cup {NoText}
    BY DEF SavesFit
  <2>5. QED
    BY <1>0, <1>1, <2>2, <2>3, <2>4 DEF PlaceFits
<1>5. CASE \E section \in Opened : Back(section)
  BY <1>0, <1>5 DEF Back, Mounted, PlaceFits
<1>6. CASE \E d \in Doc : SelectDoc(d)
  BY <1>0, <1>6 DEF SelectDoc, PlaceFits
<1>7. CASE (\E f \in Own : EditField(f)) \/ (\E p \in Prof, f \in Fields : OutsideWrite(p, f))
  <2>1. edits' = edits + 1 /\ edits < MaxChanges /\ UNCHANGED <<at, sent, dialog>>
    BY <1>7 DEF EditField, OutsideWrite
  <2>2. edits' \in 0 .. MaxChanges
    BY <1>0, <2>1, SettingsAssumption
  <2>3. QED
    BY <1>0, <2>1, <2>2 DEF PlaceFits
<1>8. CASE SaveForm
  BY <1>0, <1>8 DEF SaveForm, PlaceFits
<1>9. CASE Commit \/ Undo \/ Stay
  BY <1>0, <1>9 DEF Commit, Undo, Stay, PlaceFits
<1>10. CASE (\E d \in OwnDocs : Fetch(d)) \/ (\E p \in Prof, d \in Doc : Fetched(p, d))
  BY <1>0, <1>10 DEF Fetch, Fetched, PlaceFits
<1>11. CASE \E put \in puts : StorePut(put) \/ RefusePut(put) \/ LoseAnswer(put)
  BY <1>0, <1>11 DEF StorePut, RefusePut, LoseAnswer, PlaceFits
<1>12. QED
  BY <1>2, <1>3, <1>4, <1>5, <1>6, <1>7, <1>8, <1>9, <1>10, <1>11 DEF SettingsNext

(* A text that the queries have stays there, or a later one; edits are      *)
(* counted up.                                                             *)
LEMMA Onward ==
  ASSUME SettingsFit, SettingsNext
  PROVE  /\ edits' \in Nat /\ edits <= edits'
         /\ \A p \in Prof, d \in Doc : queries[p][d] # NoText => queries'[p][d] # NoText
<1> USE DEF SettingsFit
<1>0. edits \in 0 .. MaxChanges
  BY DEF PlaceFits
<1>1. CASE \E p \in Prof, d \in Doc : Fetched(p, d)
  BY <1>0, <1>1 DEF Fetched, DocsFit
<1>2. CASE \E put \in puts : AnswerPut(put)
  <2>1. PICK put \in puts : AnswerPut(put)
    BY <1>2
  <2>2. put.prof \in Prof /\ put.doc \in Doc /\ put.text # NoText
    BY <1>0, TextFacts DEF PutsFit
  <2>3. (queries' = queries \/ queries' = [queries EXCEPT ![put.prof][put.doc] = put.text]) /\ edits' = edits
    BY <2>1 DEF AnswerPut, CacheAfter
  <2>4. \A p \in Prof, d \in Doc : queries'[p][d] = queries[p][d] \/ (p = put.prof /\ d = put.doc /\ queries'[p][d] = put.text)
    BY <2>2, <2>3 DEF DocsFit
  <2>5. QED
    BY <1>0, <2>2, <2>3, <2>4
<1>3. CASE queries' = queries /\ edits' \in {edits, edits + 1}
  BY <1>0, <1>3
<1>4. CASE (\E f \in Own : EditField(f)) \/ (\E p \in Prof, f \in Fields : OutsideWrite(p, f))
  BY <1>3, <1>4 DEF EditField, OutsideWrite
<1>5. CASE Commit \/ SaveForm \/ Discard \/ Undo \/ Stay
  BY <1>3, <1>5 DEF Commit, SaveForm, Discard, Undo, Stay
<1>6. CASE (\E target \in Prof \cup Opened : Go(target)) \/ (\E section \in Opened : Back(section)) \/ (\E d \in Doc : SelectDoc(d))
           \/ (\E d \in OwnDocs : Fetch(d))
  BY <1>3, <1>6 DEF Go, Back, SelectDoc, Fetch
<1>7. CASE \E put \in puts : StorePut(put) \/ RefusePut(put) \/ LoseAnswer(put)
  BY <1>3, <1>7 DEF StorePut, RefusePut, LoseAnswer
<1>8. QED
  BY <1>1, <1>2, <1>4, <1>5, <1>6, <1>7 DEF SettingsNext

(* A step mounts a section anew, or is the effects of a commit, or leaves   *)
(* what the section knows alone.                                           *)
Knows == <<at.prof, at.section, raw, synced, ran, seeded>>

LEMMA Moves ==
  ASSUME SettingsFit, SettingsNext
  PROVE  \/ \E target \in Prof \cup Opened, left \in SUBSET saves : Mounted(target, left)
         \/ Commit
         \/ UNCHANGED Knows
<1> USE DEF Knows, SettingsFit
<1>0. \A target, left, known, shown : Arrive(target, left, known, shown) => UNCHANGED Knows \/ Mounted(target, left)
  BY DEF Arrive
<1>1. CASE \E target \in Prof \cup Opened : Go(target)
  BY <1>0, <1>1 DEF Go
<1>2. CASE Discard
  BY <1>0, <1>2 DEF Discard, PlaceFits
<1>3. CASE \E put \in puts : AnswerPut(put)
  <2>1. PICK put \in puts : AnswerPut(put)
    BY <1>3
  <2>2. PICK s \in saves : \/ UNCHANGED Knows
                           \/ s.go # NoText /\ Arrive(s.go, saves \ {s}, BaselineAfter(s, Succeeded(s, put)), FormAfter(s, Succeeded(s, put)))
    BY <2>1 DEF AnswerPut, Follows
  <2>3. s.go # NoText => s.go \in Prof \cup Opened
    BY DEF SavesFit
  <2>4. QED
    BY <1>0, <2>2, <2>3
<1>4. CASE \E section \in Opened : Back(section)
  BY <1>4 DEF Back
<1>5. CASE (\E f \in Own : EditField(f)) \/ (\E p \in Prof, f \in Fields : OutsideWrite(p, f))
  BY <1>5 DEF EditField, OutsideWrite
<1>6. CASE SaveForm \/ Undo \/ Stay
  BY <1>6 DEF SaveForm, Undo, Stay
<1>7. CASE (\E d \in OwnDocs : Fetch(d)) \/ (\E p \in Prof, d \in Doc : Fetched(p, d))
  BY <1>7 DEF Fetch, Fetched
<1>7a. CASE \E d \in Doc : SelectDoc(d)
  BY <1>7a DEF SelectDoc, PlaceFits
<1>8. CASE \E put \in puts : StorePut(put) \/ RefusePut(put) \/ LoseAnswer(put)
  BY <1>8 DEF StorePut, RefusePut, LoseAnswer
<1>9. QED
  BY <1>1, <1>2, <1>3, <1>4, <1>5, <1>6, <1>7, <1>7a, <1>8 DEF SettingsNext

(* What a section knows of the documents it was mounted for. *)
LEMMA SectionStep ==
  ASSUME SettingsFit, SettingsNext
  PROVE  SectionFits'
<1> USE DEF SettingsFit
<1>0. /\ edits \in Nat /\ at.prof \in Prof /\ OwnDocs \subseteq Doc
  BY OwnFacts DEF PlaceFits
<1>1. \A p, d : TextsUpTo(p, d, edits) \subseteq TextsUpTo(p, d, edits')
  BY <1>0, Onward, TextsGrow
<1>2. CASE UNCHANGED Knows
  <2>1. \A d : Direct(d)' <=> Direct(d)
    BY <1>2 DEF Direct, Knows
  <2>2. \A d \in Doc : queries[at.prof][d] # NoText => queries'[at.prof][d] # NoText
    BY <1>0, Onward
  <2>3. QED
    BY <1>1, <1>2, <2>1, <2>2 DEF SectionFits, Knows
<1>3. CASE \E target \in Prof \cup Opened, left \in SUBSET saves : Mounted(target, left)
  BY <1>3 DEF Mounted, SectionFits
<1>4. CASE Commit
  <2>1. at' = at /\ edits' = edits /\ queries' = queries
    BY <1>4 DEF Commit
  <2>2. \A d : Direct(d)' <=> Direct(d)
    BY <2>1, SamePlace
  <2>3. /\ ran' = [d \in Doc |-> IF d \in SyncDue THEN EffectDeps(d) ELSE ran[d]]
        /\ synced' = [d \in Doc |-> IF Synced(d) THEN at.prof ELSE synced[d]]
        /\ raw' = [d \in Doc |-> IF Synced(d) \/ (SeedDue /\ d \in OwnDocs /\ Direct(d))
                                 THEN queries[at.prof][d] ELSE raw[d]]
    BY <1>4 DEF Commit
  <2>4. \A d \in OwnDocs : SeedDue /\ Direct(d) => queries[at.prof][d] # NoText
    BY DEF SeedDue, Ready
  <2>5. \A d \in Doc : queries[at.prof][d] \in TextsUpTo(at.prof, d, edits) \cup {NoText}
    BY <1>0 DEF DocsFit
  <2>6. \A d \in Doc : raw'[d] \in TextsUpTo(at.prof, d, edits) \cup {NoText}
    BY <2>3, <2>5 DEF SectionFits
  <2>7. ASSUME NEW d \in Doc, synced'[d] # NoText
        PROVE  synced'[d] = at.prof /\ ~Direct(d) /\ ran'[d] = <<at.prof, TRUE>> /\ queries[at.prof][d] # NoText /\ raw'[d] # NoText
    <3>1. CASE Synced(d)
      BY <2>3, <3>1 DEF Synced, SyncDue, EffectDeps
    <3>2. CASE ~Synced(d)
      <4>1. synced[d] # NoText
        BY <2>3, <2>7, <3>2
      <4>2. synced[d] = at.prof /\ ~Direct(d) /\ ran[d] = <<at.prof, TRUE>> /\ queries[at.prof][d] # NoText /\ raw[d] # NoText
        BY <4>1 DEF SectionFits
      <4>3. d \notin SyncDue
        BY <4>2 DEF SyncDue, EffectDeps
      <4>4. QED
        BY <2>3, <3>2, <4>2, <4>3
    <3>3. QED
      BY <3>1, <3>2
  <2>8. QED
    BY <2>1, <2>2, <2>3, <2>6, <2>7 DEF SectionFits
<1>5. QED
  BY <1>2, <1>3, <1>4, Moves

(* A form seeded for what the user has before him shows the section's own   *)
(* fields, and its documents are there.                                    *)
LEMMA SeededOwn ==
  ASSUME SettingsFit, seeded = SeedKey
  PROVE  /\ seeded # NoText /\ SeededFields = Own
         /\ form \in [Own -> Worth(at.prof, edits)] /\ baseline \in [Own -> Worth(at.prof, edits)]
         /\ Pristine \in [Own -> Worth(at.prof, edits)]
         /\ \A d \in OwnDocs : raw[d] # NoText /\ queries[at.prof][d] # NoText /\ (Direct(d) \/ synced[d] # NoText)
         /\ at.section = "raw" => Pristine = queries[at.prof][at.doc]
<1> USE DEF SettingsFit
<1>1. at.prof \in Prof /\ at.doc \in Doc /\ at.section \in Opened
  BY DEF PlaceFits
<1>2. seeded # NoText
  BY <1>1, SettingsAssumption DEF SeedKey
<1>3. SeededFields = Own
  BY <1>1 DEF SeededFields, SeedKey, Own
<1>4. form \in [Own -> Worth(at.prof, edits)] /\ baseline \in [Own -> Worth(at.prof, edits)]
  BY <1>2, <1>3 DEF FormFits
<1>5. \A d \in OwnDocs : raw[d] # NoText /\ queries[at.prof][d] # NoText /\ (Direct(d) \/ synced[d] # NoText)
  BY <1>2, <1>3, OwnFacts DEF FormFits
<1>6. at.section = "raw" => Pristine = queries[at.prof][at.doc] /\ Pristine \in [Own -> Worth(at.prof, edits)]
  <2> SUFFICES ASSUME at.section = "raw" PROVE Pristine = queries[at.prof][at.doc] /\ Pristine \in [Own -> Worth(at.prof, edits)]
    OBVIOUS
  <2>1. queries[at.prof][at.doc] # NoText /\ Own = FieldsOf(at.doc)
    BY <1>5, OwnFacts
  <2>2. queries[at.prof][at.doc] \in [FieldsOf(at.doc) -> Worth(at.prof, edits)]
    BY <1>1, <2>1 DEF DocsFit, TextsUpTo
  <2>3. QED
    BY <2>1, <2>2 DEF Pristine
<1>7. at.section # "raw" => Pristine = baseline
  BY DEF Pristine
<1>8. QED
  BY <1>2, <1>3, <1>4, <1>5, <1>6, <1>7

(* A section loads its texts before its form is seeded. *)
LEMMA CommitSeeds ==
  ASSUME SettingsFit, Commit
  PROVE  seeded # SeedKey /\ (~SeedDue => seeded = NoText)
<1>1. seeded # SeedKey
  <2> SUFFICES ASSUME seeded = SeedKey PROVE FALSE
    OBVIOUS
  <2>1. SyncDue # {}
    BY DEF Commit, Settled, SeedDue
  <2>2. PICK d \in OwnDocs : ~Direct(d) /\ ran[d] # EffectDeps(d)
    BY <2>1 DEF SyncDue
  <2>3. synced[d] # NoText /\ d \in Doc
    BY <2>2, SeededOwn, OwnFacts DEF SettingsFit
  <2>4. QED
    BY <2>2, <2>3 DEF SettingsFit, SectionFits, EffectDeps
<1>2. ASSUME ~SeedDue PROVE seeded = NoText
  <2>1. PICK d \in OwnDocs : ~Direct(d)
    BY <1>2 DEF Commit, Settled, SyncDue
  <2>2. QED
    BY <1>1, <2>1 DEF SettingsFit, FormFits, Direct
<1>3. QED
  BY <1>1, <1>2

(* While a section stays, only the form's values need a look. *)
LEMMA FormKept ==
  ASSUME SettingsFit, SettingsNext, UNCHANGED Knows,
         seeded # NoText => /\ form' \in [SeededFields -> Worth(at.prof, edits')]
                            /\ baseline' \in [SeededFields -> Worth(at.prof, edits')],
         dialog' # NoText => seeded \in {NoText, SeedKey'}
  PROVE  FormFits'
<1> USE DEF SettingsFit
<1>1. /\ at'.prof = at.prof /\ at'.section = at.section /\ seeded' = seeded /\ raw' = raw /\ synced' = synced
      /\ \A d : Direct(d)' <=> Direct(d)
  BY DEF Knows, Direct
<1>2. SeededFields' = SeededFields
  BY <1>1 DEF SeededFields, Own
<1>3. at.section # "raw" => SeedKey' = SeedKey
  BY <1>1 DEF SeedKey
<1>4. ASSUME seeded # NoText, NEW f \in SeededFields
      PROVE  /\ raw'[f[1]] # NoText /\ queries'[at.prof][f[1]] # NoText
             /\ Direct(f[1])' \/ synced'[f[1]] # NoText
  <2>1. raw[f[1]] # NoText /\ queries[at.prof][f[1]] # NoText /\ (Direct(f[1]) \/ synced[f[1]] # NoText)
    BY <1>4 DEF FormFits
  <2>2. f[1] \in Doc /\ at.prof \in Prof
    <3>1. f \in Fields
      <4>1. CASE at.section = "raw"
        BY <4>1, <1>4, FieldFacts DEF SeededFields
      <4>2. CASE at.section # "raw"
        BY <4>2, <1>4, OwnFacts DEF SeededFields
      <4>3. QED
        BY <4>1, <4>2
    <3>2. QED
      BY <3>1, FieldFacts DEF PlaceFits
  <2>3. QED
    BY <1>1, <2>1, <2>2, Onward
<1>5. seeded # NoText => IF at'.section = "raw" THEN \E d \in Doc : seeded = <<at'.prof, d>> ELSE seeded = SeedKey'
  BY <1>1, <1>3 DEF FormFits
<1>6. QED
  BY <1>1, <1>2, <1>4, <1>5 DEF FormFits

(* The form's values while the section stays. *)
LEMMA FormStep ==
  ASSUME SettingsFit, SettingsNext
  PROVE  FormFits'
<1> USE DEF SettingsFit
<1>0. /\ edits \in Nat /\ edits <= edits /\ at.prof \in Prof /\ OwnDocs \subseteq Doc
  BY OwnFacts DEF PlaceFits
<1>g. edits' \in Nat /\ edits <= edits' /\ \A p : Worth(p, edits) \subseteq Worth(p, edits')
  BY <1>0, Onward, TextsGrow
<1>k. UNCHANGED <<at, dialog>> => (dialog' # NoText => seeded \in {NoText, SeedKey'})
  BY SamePlace DEF FormFits
<1>h. ASSUME UNCHANGED <<Knows, form, baseline>>, dialog' # NoText => seeded \in {NoText, SeedKey'}
      PROVE  FormFits'
  <2>1. seeded # NoText => /\ form' \in [SeededFields -> Worth(at.prof, edits')]
                           /\ baseline' \in [SeededFields -> Worth(at.prof, edits')]
    BY <1>g, <1>h DEF FormFits
  <2>2. QED
    BY <1>h, <2>1, FormKept
<1>1. CASE \E target \in Prof \cup Opened, left \in SUBSET saves : Mounted(target, left)
  BY <1>1 DEF Mounted, FormFits
<1>2. CASE Commit
  <2>1. at' = at /\ edits' = edits /\ queries' = queries /\ dialog' = dialog
    BY <1>2 DEF Commit
  <2>2. (\A d : Direct(d)' <=> Direct(d)) /\ SeedKey' = SeedKey /\ Own' = Own
    BY <2>1, SamePlace
  <2>3. CASE SeedDue
    <3>1. /\ seeded' = SeedKey /\ baseline' = form'
          /\ form' = [f \in Own |-> IF Direct(f[1]) THEN queries[at.prof][f[1]][f] ELSE raw[f[1]][f]]
      BY <1>2, <2>3 DEF Commit
    <3>2. \A d \in OwnDocs : /\ queries[at.prof][d] # NoText /\ queries[at.prof][d] \in TextsUpTo(at.prof, d, edits)
                             /\ ~Direct(d) => synced[d] # NoText /\ raw[d] # NoText /\ raw[d] \in TextsUpTo(at.prof, d, edits)
      BY <1>0, <2>3, SettingsAssumption DEF SeedDue, Ready, Loaded, DocsFit, SectionFits
    <3>3. form' \in [Own -> Worth(at.prof, edits)]
      BY <3>1, <3>2, OwnFacts, FieldFacts DEF TextsUpTo
    <3>4. SeededFields' = Own /\ at.doc \in Doc
      BY <2>1, <2>2, <3>1 DEF SeededFields, SeedKey, Own, PlaceFits
    <3>5. ASSUME NEW f \in Own
          PROVE  raw'[f[1]] # NoText /\ queries[at.prof][f[1]] # NoText /\ (Direct(f[1]) \/ synced'[f[1]] # NoText)
      <4>1. f[1] \in OwnDocs /\ f[1] \in Doc
        BY OwnFacts
      <4>2. /\ synced'[f[1]] = IF Synced(f[1]) THEN at.prof ELSE synced[f[1]]
            /\ raw'[f[1]] = IF Synced(f[1]) \/ (SeedDue /\ f[1] \in OwnDocs /\ Direct(f[1]))
                            THEN queries[at.prof][f[1]] ELSE raw[f[1]]
        BY <1>2, <4>1 DEF Commit
      <4>3. at.prof # NoText
        BY <1>0, SettingsAssumption
      <4>4. QED
        BY <2>3, <3>2, <4>1, <4>2, <4>3
    <3>6. IF at.section = "raw" THEN \E d \in Doc : seeded' = <<at.prof, d>> ELSE seeded' = SeedKey
      BY <3>1, <3>4 DEF SeedKey
    <3>7. QED
      BY <2>1, <2>2, <3>1, <3>3, <3>4, <3>5, <3>6 DEF FormFits
  <2>4. CASE ~SeedDue
    <3>1. seeded' = seeded /\ seeded = NoText
      BY <1>2, <2>4, CommitSeeds DEF Commit
    <3>2. QED
      BY <2>1, <3>1 DEF FormFits
  <2>5. QED
    BY <2>3, <2>4
<1>3. CASE \E f \in Own : EditField(f)
  <2>1. PICK f \in Own : EditField(f)
    BY <1>3
  <2>2. /\ seeded = SeedKey /\ form' = [form EXCEPT ![f] = <<at.prof, edits'>>] /\ UNCHANGED <<Knows, at, baseline, dialog>>
    BY <2>1 DEF EditField, Knows
  <2>3. <<at.prof, edits'>> \in Worth(at.prof, edits')
    BY <1>g DEF Worth
  <2>4. form' \in [Own -> Worth(at.prof, edits')] /\ baseline' \in [Own -> Worth(at.prof, edits')]
    BY <1>g, <2>2, <2>3, SeededOwn
  <2>5. QED
    BY <1>k, <2>2, <2>4, FormKept, SeededOwn
<1>4. CASE Undo
  <2>1. /\ seeded = SeedKey /\ form' = Pristine /\ UNCHANGED <<Knows, at, baseline, dialog, edits>>
    BY <1>4 DEF Undo, IsDirty, Knows
  <2>2. QED
    BY <1>k, <2>1, FormKept, SeededOwn
<1>5. CASE Discard /\ UNCHANGED Knows
  <2>1. seeded \in {NoText, SeedKey}
    BY <1>5 DEF Discard, FormFits
  <2>2. CASE Mounted(dialog, saves)
    BY <1>1, <1>5, <2>2 DEF Discard, PlaceFits
  <2>3. CASE at' = at /\ baseline' = baseline /\ form' = Pristine
    <3>1. edits' = edits
      BY <1>5 DEF Discard
    <3>2. SeedKey' = SeedKey
      BY <2>3, SamePlace
    <3>3. QED
      BY <1>5, <2>1, <2>3, <3>1, <3>2, FormKept, SeededOwn
  <2>4. QED
    BY <1>5, <2>2, <2>3 DEF Discard, Arrive
<1>6. CASE (\E target \in Prof \cup Opened : Go(target)) /\ UNCHANGED Knows
  <2>1. PICK target \in Prof \cup Opened : Go(target)
    BY <1>6
  <2>2. CASE Mounted(target, saves)
    BY <1>1, <2>2
  <2>3. CASE /\ UNCHANGED <<form, baseline, at>>
             /\ dialog' # NoText => dialog # NoText \/ IsDirty
    <3>1. dialog' # NoText => seeded \in {NoText, SeedKey'}
      BY <2>3, SamePlace DEF IsDirty, FormFits
    <3>2. QED
      BY <1>6, <1>h, <2>3, <3>1
  <2>4. QED
    BY <2>1, <2>2, <2>3 DEF Go, Arrive
<1>7. CASE (\E put \in puts : AnswerPut(put)) /\ UNCHANGED Knows
  <2>1. PICK put \in puts : AnswerPut(put)
    BY <1>7
  <2>2. edits' = edits
    BY <2>1 DEF AnswerPut
  <2>3. PICK s \in saves :
          \/ UNCHANGED <<at, form, baseline, dialog>>
          \/ s.go # NoText /\ Mounted(s.go, saves \ {s})
          \/ /\ at' = at /\ (dialog' = NoText \/ dialog' = dialog)
             /\ baseline' = BaselineAfter(s, Succeeded(s, put)) /\ form' = FormAfter(s, Succeeded(s, put))
    BY <2>1 DEF AnswerPut, Follows, Arrive
  <2>4. CASE UNCHANGED <<at, form, baseline, dialog>>
    BY <1>7, <1>h, <1>k, <2>4
  <2>5. CASE s.go # NoText /\ Mounted(s.go, saves \ {s})
    BY <1>1, <2>5 DEF SavesFit
  <2>6. CASE /\ at' = at /\ (dialog' = NoText \/ dialog' = dialog)
             /\ baseline' = BaselineAfter(s, Succeeded(s, put)) /\ form' = FormAfter(s, Succeeded(s, put))
    <3>1. dialog' # NoText => seeded \in {NoText, SeedKey'}
      BY <2>6, SamePlace DEF FormFits
    <3>2. s.live /\ at.section # "raw" => s.value \in [SeededFields -> Worth(at.prof, edits)]
      BY DEF SavesFit, SeededFields
    <3>3. seeded # NoText => baseline' \in [SeededFields -> Worth(at.prof, edits)] /\ form' \in [SeededFields -> Worth(at.prof, edits)]
      BY <2>6, <3>2 DEF FormFits, BaselineAfter, FormAfter
    <3>4. QED
      BY <1>7, <2>2, <3>1, <3>3, FormKept
  <2>7. QED
    BY <2>3, <2>4, <2>5, <2>6
<1>8. CASE \E d \in Doc : SelectDoc(d)
  <2>1. UNCHANGED <<Knows, form, baseline>> /\ dialog' = NoText
    BY <1>8 DEF SelectDoc, Knows, PlaceFits
  <2>2. QED
    BY <1>h, <2>1
<1>9. CASE (SaveForm \/ Stay) /\ UNCHANGED Knows
  <2>1. UNCHANGED <<Knows, form, baseline, at>> /\ (dialog' = dialog \/ dialog' = NoText)
    BY <1>9 DEF SaveForm, Stay
  <2>2. QED
    BY <1>h, <2>1, <1>k
<1>10. CASE (\E put \in puts : StorePut(put) \/ RefusePut(put) \/ LoseAnswer(put)) \/ (\E p \in Prof, f \in Fields : OutsideWrite(p, f))
  <2>1. UNCHANGED <<Knows, form, baseline, at, dialog>>
    BY <1>10 DEF StorePut, RefusePut, LoseAnswer, OutsideWrite, Knows
  <2>2. QED
    BY <1>h, <2>1, <1>k
<1>11. CASE (\E d \in OwnDocs : Fetch(d)) \/ (\E p \in Prof, d \in Doc : Fetched(p, d))
  <2>1. UNCHANGED <<Knows, form, baseline, at, dialog>>
    BY <1>11 DEF Fetch, Fetched, Knows
  <2>2. QED
    BY <1>h, <2>1, <1>k
<1>12. CASE (\E section \in Opened : Back(section))
  BY <1>1, <1>12 DEF Back
<1>13. CASE UNCHANGED Knows
  BY <1>3, <1>4, <1>5, <1>6, <1>7, <1>8, <1>9, <1>10, <1>11, <1>12, <1>13, <1>2 DEF SettingsNext
<1>14. QED
  BY <1>1, <1>2, <1>13, Moves

(* Fewer saves, of a section that stays. *)
LEMMA SavesKept ==
  ASSUME SettingsFit, SettingsNext, UNCHANGED Knows, sent' = sent, saves' \subseteq saves
  PROVE  SavesFit'
<1> USE DEF SettingsFit
<1>1. \A p : Worth(p, edits) \subseteq Worth(p, edits')
  BY Onward, TextsGrow DEF PlaceFits
<1>2. at.section # "raw" => Own' = Own
  BY DEF Knows, Own
<1>3. at'.section = at.section /\ at'.prof = at.prof
  BY DEF Knows
<1>4. ASSUME NEW s \in saves, s.live /\ at.section # "raw"
      PROVE  s.value \in [Own -> Worth(at.prof, edits')]
  BY <1>1, <1>4 DEF SavesFit
<1>5. \A s \in saves : /\ IsSave(s) /\ s.n \in 0 .. (sent - 1) /\ s.go \in Prof \cup Opened \cup {NoText}
                       /\ s.ok \in BOOLEAN /\ s.some \in BOOLEAN /\ s.live \in BOOLEAN
  BY DEF SavesFit
<1>6. QED
  BY <1>2, <1>3, <1>4, <1>5 DEF SavesFit

(* What was left behind is of no section. *)
LEMMA SavesLeft ==
  ASSUME SettingsFit, NEW target, NEW left \in SUBSET saves, Mounted(target, left), sent' = sent
  PROVE  SavesFit'
<1> USE DEF SettingsFit
<1>1. saves' = {[s EXCEPT !.live = FALSE] : s \in left}
  BY DEF Mounted
<1>2. ASSUME NEW r \in saves'
      PROVE  \E s \in left : /\ r = [n |-> s.n, value |-> s.value, ok |-> s.ok, some |-> s.some, go |-> s.go, live |-> FALSE]
                             /\ s.n \in 0 .. (sent - 1) /\ s.go \in Prof \cup Opened \cup {NoText}
                             /\ s.ok \in BOOLEAN /\ s.some \in BOOLEAN
  <2>1. PICK s \in left : r = [s EXCEPT !.live = FALSE]
    BY <1>1
  <2>2. s = [n |-> s.n, value |-> s.value, ok |-> s.ok, some |-> s.some, go |-> s.go, live |-> s.live]
    BY DEF SavesFit, IsSave
  <2>3. r = [n |-> s.n, value |-> s.value, ok |-> s.ok, some |-> s.some, go |-> s.go, live |-> FALSE]
    BY <2>1, <2>2
  <2>4. QED
    BY <2>3 DEF SavesFit
<1>3. \A r \in saves' : /\ IsSave(r) /\ r.n \in 0 .. (sent' - 1) /\ r.go \in Prof \cup Opened \cup {NoText}
                        /\ r.ok \in BOOLEAN /\ r.some \in BOOLEAN /\ r.live = FALSE
  BY <1>2 DEF IsSave
<1>4. ASSUME NEW r \in saves', NEW q \in saves', r.n = q.n
      PROVE  r = q
  <2>1. PICK s \in left : r = [s EXCEPT !.live = FALSE] /\ s.n = r.n
    BY <1>1, <1>2 DEF SavesFit, IsSave
  <2>2. PICK o \in left : q = [o EXCEPT !.live = FALSE] /\ o.n = q.n
    BY <1>1, <1>2 DEF SavesFit, IsSave
  <2>3. s = o
    BY <1>4, <2>1, <2>2 DEF SavesFit
  <2>4. QED
    BY <2>1, <2>2, <2>3
<1>5. QED
  BY <1>3, <1>4 DEF SavesFit

(* A save after one of its answers, by its fields. *)
LEMMA AnsweredSave ==
  ASSUME NEW s, IsSave(s), NEW ok, NEW some
  PROVE  [s EXCEPT !.ok = ok, !.some = some]
           = [n |-> s.n, value |-> s.value, ok |-> ok, some |-> some, go |-> s.go, live |-> s.live]
<1> DEFINE Name == {"n", "value", "ok", "some", "go", "live"}
           r == [x \in Name |-> IF x = "some" THEN some ELSE IF x = "ok" THEN ok ELSE s[x]]
<1>1. s = [n |-> s.n, value |-> s.value, ok |-> s.ok, some |-> s.some, go |-> s.go, live |-> s.live]
  BY DEF IsSave
<1>2. DOMAIN s = Name /\ s = [x \in Name |-> s[x]]
  BY <1>1
<1>3. [s EXCEPT !.ok = ok, !.some = some] = r
  BY <1>2
<1>4. r = [n |-> s.n, value |-> s.value, ok |-> ok, some |-> some, go |-> s.go, live |-> s.live]
  OBVIOUS
<1>5. QED
  BY <1>3, <1>4

(* The saves that are not answered in full. *)
LEMMA SavesStep ==
  ASSUME SettingsFit, SettingsNext
  PROVE  SavesFit'
<1> USE DEF SettingsFit
<1>0. sent \in Nat /\ at.section \in Opened /\ dialog \in Prof \cup Opened \cup {NoText}
  BY DEF PlaceFits
<1>1. CASE (\E target \in Prof \cup Opened : Go(target)) \/ Discard
  <2>1. sent' = sent
    BY <1>1 DEF Go, Discard
  <2>2. (UNCHANGED Knows /\ saves' = saves) \/ \E target : Mounted(target, saves)
    <3>1. \A target, known, shown : Arrive(target, saves, known, shown) => (UNCHANGED Knows /\ saves' = saves) \/ Mounted(target, saves)
      BY DEF Arrive, Knows
    <3>2. QED
      BY <1>1, <3>1 DEF Go, Discard, Knows
  <2>3. QED
    BY <2>1, <2>2, SavesKept, SavesLeft
<1>2. CASE \E section \in Opened : Back(section)
  BY <1>2, SavesLeft DEF Back
<1>3. CASE SaveForm
  <2> DEFINE New == [n |-> sent, value |-> form, ok |-> TRUE, some |-> FALSE, go |-> dialog, live |-> TRUE]
  <2>1. /\ seeded = SeedKey /\ saves' = saves \cup {New} /\ sent' = sent + 1 /\ at' = at /\ edits' = edits
    BY <1>3 DEF SaveForm
  <2>2. IsSave(New) /\ New.n = sent /\ New.go = dialog /\ New.ok = TRUE /\ New.some = FALSE /\ New.live = TRUE /\ New.value = form
    BY DEF IsSave
  <2>3. Own' = Own /\ form \in [Own -> Worth(at.prof, edits)]
    BY <2>1, SamePlace, SeededOwn
  <2>4. \A s \in saves : s.n # sent
    BY <1>0 DEF SavesFit
  <2> HIDE DEF New
  <2>5. \A s \in saves' : /\ IsSave(s) /\ s.n \in 0 .. (sent' - 1) /\ s.go \in Prof \cup Opened \cup {NoText}
                          /\ s.ok \in BOOLEAN /\ s.some \in BOOLEAN /\ s.live \in BOOLEAN
                          /\ s.live /\ at.section # "raw" => s.value \in [Own -> Worth(at.prof, edits)]
    <3>1. \A s \in saves : s.n \in 0 .. (sent' - 1)
      BY <1>0, <2>1 DEF SavesFit
    <3>2. sent \in 0 .. (sent' - 1)
      BY <1>0, <2>1
    <3>3. QED
      BY <1>0, <2>1, <2>2, <2>3, <3>1, <3>2 DEF SavesFit
  <2>6. \A s \in saves', other \in saves' : s.n = other.n => s = other
    BY <2>1, <2>2, <2>4 DEF SavesFit
  <2>7. QED
    BY <2>1, <2>3, <2>5, <2>6 DEF SavesFit
<1>4. CASE \E put \in puts : AnswerPut(put)
  <2>1. PICK put \in puts : AnswerPut(put)
    BY <1>4
  <2>2. sent' = sent /\ edits' = edits
    BY <2>1 DEF AnswerPut
  <2>3. PICK s \in saves :
          \/ saves' = (saves \ {s}) \cup {[s EXCEPT !.ok = Succeeded(s, put), !.some = s.some \/ put.stage = "stored"]} /\ at' = at
          \/ saves' = saves \ {s} /\ UNCHANGED Knows
          \/ Mounted(s.go, saves \ {s})
    BY <2>1 DEF AnswerPut, Arrive, Knows
  <2>4. CASE saves' = saves \ {s} /\ UNCHANGED Knows
    BY <2>2, <2>4, SavesKept
  <2>5. CASE Mounted(s.go, saves \ {s})
    BY <2>2, <2>5, SavesLeft
  <2>6. CASE saves' = (saves \ {s}) \cup {[s EXCEPT !.ok = Succeeded(s, put), !.some = s.some \/ put.stage = "stored"]} /\ at' = at
    <3> DEFINE ok == Succeeded(s, put)
               some == s.some \/ put.stage = "stored"
               New == [n |-> s.n, value |-> s.value, ok |-> ok, some |-> some, go |-> s.go, live |-> s.live]
    <3>1. ok \in BOOLEAN /\ some \in BOOLEAN /\ IsSave(s)
      BY DEF Succeeded, SavesFit
    <3> HIDE DEF ok, some
    <3>2. [s EXCEPT !.ok = ok, !.some = some] = New
      BY <3>1, AnsweredSave
    <3>a. saves' = (saves \ {s}) \cup {New}
      BY <2>6, <3>2 DEF ok, some
    <3>3. /\ IsSave(New) /\ New.n = s.n /\ New.value = s.value /\ New.go = s.go /\ New.live = s.live
          /\ New.ok \in BOOLEAN /\ New.some \in BOOLEAN
      BY <3>1 DEF IsSave
    <3> HIDE DEF New
    <3>4. saves' = (saves \ {s}) \cup {New} /\ Own' = Own
      BY <2>6, <3>a, SamePlace
    <3>5. \A r \in saves' : /\ IsSave(r) /\ r.n \in 0 .. (sent - 1) /\ r.go \in Prof \cup Opened \cup {NoText}
                            /\ r.ok \in BOOLEAN /\ r.some \in BOOLEAN /\ r.live \in BOOLEAN
                            /\ r.live /\ at.section # "raw" => r.value \in [Own -> Worth(at.prof, edits)]
      BY <3>3, <3>4 DEF SavesFit
    <3>6. \A r \in saves', other \in saves' : r.n = other.n => r = other
      BY <3>3, <3>4 DEF SavesFit
    <3>7. QED
      BY <2>2, <2>6, <3>4, <3>5, <3>6 DEF SavesFit
  <2>7. QED
    BY <2>3, <2>4, <2>5, <2>6
<1>5. CASE (\E f \in Own : EditField(f)) \/ (\E p \in Prof, f \in Fields : OutsideWrite(p, f))
  BY <1>5, SavesKept DEF EditField, OutsideWrite, Knows
<1>6. CASE Undo \/ Stay
  BY <1>6, SavesKept DEF Undo, Stay, Knows
<1>7. CASE (\E d \in OwnDocs : Fetch(d)) \/ (\E p \in Prof, d \in Doc : Fetched(p, d))
  BY <1>7, SavesKept DEF Fetch, Fetched, Knows
<1>8. CASE \E d \in Doc : SelectDoc(d)
  <2>1. UNCHANGED Knows /\ UNCHANGED <<saves, sent>>
    BY <1>8 DEF SelectDoc, Knows, PlaceFits
  <2>2. QED
    BY <2>1, SavesKept
<1>9. CASE \E put \in puts : StorePut(put) \/ RefusePut(put) \/ LoseAnswer(put)
  BY <1>9, SavesKept DEF StorePut, RefusePut, LoseAnswer, Knows
<1>10. CASE Commit
  <2>1. at' = at /\ UNCHANGED <<saves, sent, edits>>
    BY <1>10 DEF Commit
  <2>2. QED
    BY <2>1, SamePlace DEF SavesFit
<1>11. QED
  BY <1>1, <1>2, <1>3, <1>4, <1>5, <1>6, <1>7, <1>8, <1>9, <1>10 DEF SettingsNext

(* A request at another stage, by its fields. *)
LEMMA StagedPut ==
  ASSUME NEW put, IsPut(put), NEW stage
  PROVE  [put EXCEPT !.stage = stage]
           = [n |-> put.n, doc |-> put.doc, prof |-> put.prof, text |-> put.text, base |-> put.base, stage |-> stage]
<1>1. put = [n |-> put.n, doc |-> put.doc, prof |-> put.prof, text |-> put.text, base |-> put.base, stage |-> put.stage]
  BY DEF IsPut
<1>2. QED
  BY <1>1

(* What a save writes is a text of each of its documents. *)
LEMMA WrittenFits ==
  ASSUME SettingsFit, seeded = SeedKey, NEW d \in OwnDocs
  PROVE  /\ Written(d) \in TextsUpTo(at.prof, d, edits) /\ raw[d] \in TextsUpTo(at.prof, d, edits)
         /\ d \in Doc
         /\ \A f \in FieldsOf(d) : Written(d)[f] = IF f \in Own THEN form[f] ELSE raw[d][f]
<1> USE DEF SettingsFit
<1>1. d \in Doc /\ raw[d] # NoText /\ form \in [Own -> Worth(at.prof, edits)]
  BY OwnFacts, SeededOwn
<1>2. raw[d] \in TextsUpTo(at.prof, d, edits)
  BY <1>1 DEF SectionFits
<1>3. \A f \in FieldsOf(d) : Written(d)[f] = IF f \in Own THEN form[f] ELSE raw[d][f]
  BY DEF Written
<1>4. Written(d) \in TextsUpTo(at.prof, d, edits)
  BY <1>1, <1>2 DEF Written, TextsUpTo
<1>5. QED
  BY <1>1, <1>2, <1>3, <1>4

(* Requests that stay, with the saves they are of. *)
LEMMA PutsKept ==
  ASSUME SettingsFit, SettingsNext, puts' \subseteq puts,
         \A put \in puts' : \E s \in saves' : s.n = put.n
  PROVE  PutsFit'
<1>1. \A p, d : TextsUpTo(p, d, edits) \subseteq TextsUpTo(p, d, edits')
  BY Onward, TextsGrow DEF SettingsFit, PlaceFits
<1>2. QED
  BY <1>1 DEF SettingsFit, PutsFit

(* A request that comes to another stage. *)
LEMMA PutsStaged ==
  ASSUME SettingsFit, NEW put \in puts, NEW stage \in {"sent", "stored", "refused"},
         puts' = (puts \ {put}) \cup {[put EXCEPT !.stage = stage]}, UNCHANGED <<saves, edits>>
  PROVE  PutsFit'
<1> USE DEF SettingsFit
<1> DEFINE New == [n |-> put.n, doc |-> put.doc, prof |-> put.prof, text |-> put.text, base |-> put.base, stage |-> stage]
<1>1. puts' = (puts \ {put}) \cup {New}
  BY StagedPut DEF PutsFit
<1>2. /\ IsPut(New) /\ New.n = put.n /\ New.doc = put.doc /\ New.prof = put.prof /\ New.text = put.text /\ New.base = put.base
      /\ New.stage = stage
  BY DEF IsPut
<1> HIDE DEF New
<1>3. \A other \in puts' : /\ IsPut(other) /\ other.doc \in Doc /\ other.prof \in Prof /\ other.stage \in {"sent", "stored", "refused"}
        /\ other.text \in TextsUpTo(other.prof, other.doc, edits) /\ other.base \in TextsUpTo(other.prof, other.doc, edits)
        /\ \E s \in saves : s.n = other.n
  BY <1>1, <1>2 DEF PutsFit
<1>4. \A one \in puts', other \in puts' : one.n = other.n /\ one.doc = other.doc => one = other
  BY <1>1, <1>2 DEF PutsFit
<1>5. QED
  BY <1>3, <1>4 DEF PutsFit

(* The requests of the saves. *)
LEMMA PutsStep ==
  ASSUME SettingsFit, SettingsNext
  PROVE  PutsFit'
<1> USE DEF SettingsFit
<1>0. sent \in Nat /\ edits \in Nat
  BY DEF PlaceFits
<1>1. \A target : Mounted(target, saves) => \A s \in saves : \E r \in saves' : r.n = s.n
  <2> SUFFICES ASSUME NEW target, Mounted(target, saves), NEW s \in saves PROVE \E r \in saves' : r.n = s.n
    OBVIOUS
  <2>1. [s EXCEPT !.live = FALSE] \in saves'
    BY DEF Mounted
  <2>2. s = [n |-> s.n, value |-> s.value, ok |-> s.ok, some |-> s.some, go |-> s.go, live |-> s.live]
    BY DEF SavesFit, IsSave
  <2>3. [s EXCEPT !.live = FALSE].n = s.n
    BY <2>2
  <2>4. QED
    BY <2>1, <2>3
<1>2. CASE puts' = puts /\ \A s \in saves : \E r \in saves' : r.n = s.n
  BY <1>2, PutsKept DEF PutsFit
<1>3. CASE (\E target \in Prof \cup Opened : Go(target)) \/ Discard \/ (\E section \in Opened : Back(section))
  <2>1. puts' = puts
    BY <1>3 DEF Go, Discard, Back
  <2>2. saves' = saves \/ \E target : Mounted(target, saves)
    BY <1>3 DEF Go, Discard, Back, Arrive
  <2>3. QED
    BY <1>1, <1>2, <2>1, <2>2
<1>4. CASE SaveForm
  <2> DEFINE Of(d) == [n |-> sent, doc |-> d, prof |-> at.prof, text |-> Written(d), base |-> raw[d], stage |-> "sent"]
             New == {Of(d) : d \in OwnDocs}
             Save == [n |-> sent, value |-> form, ok |-> TRUE, some |-> FALSE, go |-> dialog, live |-> TRUE]
  <2>1. /\ seeded = SeedKey /\ saves' = saves \cup {Save} /\ puts' = puts \cup New /\ edits' = edits /\ at.prof \in Prof
    BY <1>4 DEF SaveForm, PlaceFits
  <2>2. \A put \in New : /\ IsPut(put) /\ put.n = sent /\ put.doc \in Doc /\ put.prof \in Prof /\ put.stage = "sent"
                         /\ put.text \in TextsUpTo(put.prof, put.doc, edits) /\ put.base \in TextsUpTo(put.prof, put.doc, edits)
                         /\ put = Of(put.doc)
    BY <2>1, WrittenFits DEF IsPut
  <2>3. Save \in saves' /\ Save.n = sent
    BY <2>1
  <2>4. \A put \in puts : put.n # sent
    BY <1>0 DEF PutsFit, SavesFit
  <2> HIDE DEF New, Save, Of
  <2>5. \A put \in puts' : /\ IsPut(put) /\ put.doc \in Doc /\ put.prof \in Prof /\ put.stage \in {"sent", "stored", "refused"}
          /\ put.text \in TextsUpTo(put.prof, put.doc, edits) /\ put.base \in TextsUpTo(put.prof, put.doc, edits)
          /\ \E s \in saves' : s.n = put.n
    BY <2>1, <2>2, <2>3 DEF PutsFit
  <2>6. \A put \in puts', other \in puts' : put.n = other.n /\ put.doc = other.doc => put = other
    BY <2>1, <2>2, <2>4 DEF PutsFit
  <2>7. QED
    BY <2>1, <2>5, <2>6 DEF PutsFit
<1>5. CASE \E put \in puts : StorePut(put) \/ RefusePut(put) \/ LoseAnswer(put)
  BY <1>5, PutsStaged DEF StorePut, RefusePut, LoseAnswer
<1>6. CASE \E put \in puts : AnswerPut(put)
  <2>1. PICK put \in puts : AnswerPut(put)
    BY <1>6
  <2>2. puts' = puts \ {put}
    BY <2>1 DEF AnswerPut
  <2>3. PICK s \in saves : s.n = put.n /\
          \/ saves' = (saves \ {s}) \cup {[s EXCEPT !.ok = Succeeded(s, put), !.some = s.some \/ put.stage = "stored"]}
          \/ (\A other \in puts \ {put} : other.n # s.n) /\ (saves' = saves \ {s} \/ Mounted(s.go, saves \ {s}))
    BY <2>1 DEF AnswerPut, Arrive
  <2>4. ASSUME NEW other \in puts \ {put}
        PROVE  \E r \in saves' : r.n = other.n
    <3>1. PICK r \in saves : r.n = other.n
      BY DEF PutsFit
    <3>2. IsSave(r) /\ IsSave(s)
      BY DEF SavesFit
    <3>3. CASE r = s
      <4>1. saves' = (saves \ {s}) \cup {[s EXCEPT !.ok = Succeeded(s, put), !.some = s.some \/ put.stage = "stored"]}
        BY <2>3, <3>1, <3>3
      <4>2. [s EXCEPT !.ok = Succeeded(s, put), !.some = s.some \/ put.stage = "stored"].n = s.n
        BY <3>2 DEF IsSave
      <4>3. QED
        BY <3>1, <3>3, <4>1, <4>2
    <3>4. CASE r # s /\ r \in saves'
      BY <3>1, <3>4
    <3>5. CASE r # s /\ Mounted(s.go, saves \ {s})
      <4>1. [r EXCEPT !.live = FALSE] \in saves'
        BY <3>5 DEF Mounted
      <4>2. [r EXCEPT !.live = FALSE].n = r.n
        BY <3>2 DEF IsSave
      <4>3. QED
        BY <3>1, <4>1, <4>2
    <3>6. QED
      BY <2>3, <3>3, <3>4, <3>5
  <2>5. QED
    BY <2>2, <2>4, PutsKept
<1>7. CASE UNCHANGED <<saves, puts>>
  BY <1>2, <1>7
<1>8. CASE (\E f \in Own : EditField(f)) \/ (\E p \in Prof, f \in Fields : OutsideWrite(p, f)) \/ (\E d \in Doc : SelectDoc(d))
  BY <1>7, <1>8 DEF EditField, OutsideWrite, SelectDoc
<1>9. CASE Commit \/ Undo \/ Stay \/ (\E d \in OwnDocs : Fetch(d)) \/ (\E p \in Prof, d \in Doc : Fetched(p, d))
  BY <1>7, <1>9 DEF Commit, Undo, Stay, Fetch, Fetched
<1>10. QED
  BY <1>3, <1>4, <1>5, <1>6, <1>8, <1>9 DEF SettingsNext

(* All of it holds at every moment. *)
LEMMA FitStep ==
  ASSUME SettingsFit, SettingsNext
  PROVE  SettingsFit'
BY DocsStep, PlaceStep, SectionStep, FormStep, SavesStep, PutsStep DEF SettingsFit

(* The settings pages begin so. *)
LEMMA FitInit ==
  ASSUME SettingsInit
  PROVE  SettingsFit
<1>1. FirstDoc \in Doc
  BY SettingsAssumption DEF FirstDoc
<1>2. PlaceFits
  BY <1>1, SettingsAssumption DEF SettingsInit, PlaceFits
<1>3. store \in [Prof -> [Fields -> Prof \X (0 .. MaxChanges)]] /\ \A p \in Prof : store[p] \in [Fields -> Worth(p, edits)]
  BY SettingsAssumption DEF SettingsInit, Worth
<1>4. \A p \in Prof, d \in Doc : TextOf(store[p], d) \in TextsUpTo(p, d, edits)
  BY <1>3, FieldFacts DEF TextOf, TextsUpTo
<1>5. DocsFit
  BY <1>3, <1>4 DEF SettingsInit, DocsFit
<1>6. SectionFits /\ FormFits /\ SavesFit /\ PutsFit
  BY DEF SettingsInit, SectionFits, FormFits, SavesFit, PutsFit
<1>7. QED
  BY <1>2, <1>5, <1>6 DEF SettingsFit

----------------------------------------------------------------------------
(* No edit is dropped but for the causes named: a save that the dialog      *)
(* began, and that nothing interfered with, holds what the form shows.     *)
Guarded == excuses \cap {"unguarded", "reseeded"} = {}

Followed ==
  Guarded =>
    /\ ~dropped
    /\ \A s \in saves : s.go # NoText => dialog = s.go /\ s.live /\ seeded = SeedKey /\ form = s.value

(* The raw editor sends the text that it shows. *)
RawSent ==
  at.section = "raw" => \A s \in saves, put \in puts : s.live /\ put.n = s.n => put.text = s.value

(* What a mount makes of the saves it leaves. *)
LEMMA MountedSaves ==
  ASSUME SavesFit, NEW target, NEW left \in SUBSET saves, Mounted(target, left)
  PROVE  \A r \in saves' : r.live = FALSE /\ \E s \in left : r.n = s.n /\ r.go = s.go
<1> SUFFICES ASSUME NEW s \in left
             PROVE  LET r == [s EXCEPT !.live = FALSE] IN r.live = FALSE /\ r.n = s.n /\ r.go = s.go
  BY DEF Mounted
<1>1. s = [n |-> s.n, value |-> s.value, ok |-> s.ok, some |-> s.some, go |-> s.go, live |-> s.live]
  BY DEF SavesFit, IsSave
<1>2. QED
  BY <1>1

(* What an answer makes of its save, when others are outstanding. *)
LEMMA AnsweredFields ==
  ASSUME SavesFit, NEW s \in saves, NEW ok, NEW some
  PROVE  LET r == [s EXCEPT !.ok = ok, !.some = some]
         IN  /\ r.n = s.n /\ r.value = s.value /\ r.go = s.go /\ r.live = s.live
             /\ r.ok = ok /\ r.some = some
<1> DEFINE r == [n |-> s.n, value |-> s.value, ok |-> ok, some |-> some, go |-> s.go, live |-> s.live]
<1>0. IsSave(s)
  BY DEF SavesFit
<1>1. [s EXCEPT !.ok = ok, !.some = some] = r
  BY <1>0, AnsweredSave
<1>2. r.n = s.n /\ r.value = s.value /\ r.go = s.go /\ r.live = s.live /\ r.ok = ok /\ r.some = some
  OBVIOUS
<1>3. QED
  BY <1>1, <1>2

(* The three ends of an answer: its save has others to wait for, takes the  *)
(* user on, or is over.                                                    *)
Waits(put, s) ==
  /\ \E other \in puts \ {put} : other.n = s.n
  /\ \E r : /\ saves' = (saves \ {s}) \cup {r}
            /\ r.n = s.n /\ r.value = s.value /\ r.go = s.go /\ r.live = s.live
            /\ r.ok = Succeeded(s, put) /\ r.some = (s.some \/ put.stage = "stored")
  /\ UNCHANGED <<at, seeded, form, baseline, raw, synced, ran, dialog, navs, dropped, excuses>>
Leads(put, s) ==
  /\ \A other \in puts \ {put} : other.n # s.n
  /\ Succeeded(s, put) /\ s.go # NoText
  /\ dropped' = (dropped \/ (s.go \notin Here /\ LeftBehind(s, Succeeded(s, put), put)))
  /\ Arrive(s.go, saves \ {s}, BaselineAfter(s, Succeeded(s, put)), FormAfter(s, Succeeded(s, put)))
Ends(put, s) ==
  /\ \A other \in puts \ {put} : other.n # s.n
  /\ saves' = saves \ {s}
  /\ baseline' = BaselineAfter(s, Succeeded(s, put))
  /\ form' = FormAfter(s, Succeeded(s, put))
  /\ dropped' = (dropped \/ Reseeded(s, Succeeded(s, put)))
  /\ excuses' = excuses \cup (IF ~Succeeded(s, put) /\ (s.some \/ put.stage = "stored") THEN {"stale"} ELSE {})
                   \cup (IF Reseeded(s, Succeeded(s, put)) THEN {"reseeded"} ELSE {})
  /\ UNCHANGED <<at, seeded, raw, synced, ran, dialog, navs>>

(* An answer comes to one of these. *)
LEMMA AnswerEnds ==
  ASSUME SettingsFit, NEW put \in puts, AnswerPut(put)
  PROVE  \E s \in saves : s.n = put.n /\ (Waits(put, s) \/ Leads(put, s) \/ Ends(put, s))
<1>1. PICK s \in saves :
        /\ s.n = put.n
        /\ LET ok == Succeeded(s, put)
               rest == saves \ {s}
           IN  IF \E other \in puts \ {put} : other.n = s.n
               THEN /\ saves' = rest \cup {[s EXCEPT !.ok = ok, !.some = s.some \/ put.stage = "stored"]}
                    /\ UNCHANGED <<at, seeded, form, baseline, raw, synced, ran, dialog, navs, dropped, excuses>>
               ELSE IF Follows(s, ok)
               THEN /\ dropped' = (dropped \/ (s.go \notin Here /\ LeftBehind(s, ok, put)))
                    /\ Arrive(s.go, rest, BaselineAfter(s, ok), FormAfter(s, ok))
               ELSE /\ saves' = rest
                    /\ baseline' = BaselineAfter(s, ok)
                    /\ form' = FormAfter(s, ok)
                    /\ dropped' = (dropped \/ Reseeded(s, ok))
                    /\ excuses' = excuses \cup (IF ~ok /\ (s.some \/ put.stage = "stored") THEN {"stale"} ELSE {})
                                     \cup (IF Reseeded(s, ok) THEN {"reseeded"} ELSE {})
                    /\ UNCHANGED <<at, seeded, raw, synced, ran, dialog, navs>>
  BY DEF AnswerPut
<1>2. CASE \E other \in puts \ {put} : other.n = s.n
  <2> DEFINE ok == Succeeded(s, put)
             some == s.some \/ put.stage = "stored"
             r == [s EXCEPT !.ok = ok, !.some = some]
  <2>1. /\ saves' = (saves \ {s}) \cup {r}
        /\ UNCHANGED <<at, seeded, form, baseline, raw, synced, ran, dialog, navs, dropped, excuses>>
    BY <1>1, <1>2
  <2>2. r.n = s.n /\ r.value = s.value /\ r.go = s.go /\ r.live = s.live /\ r.ok = ok /\ r.some = some
    <3> HIDE DEF ok, some
    <3>1. QED
      BY AnsweredFields DEF SettingsFit
  <2>3. QED
    <3> HIDE DEF r
    <3>1. QED
      BY <1>1, <1>2, <2>1, <2>2 DEF Waits
<1>3. CASE ~(\E other \in puts \ {put} : other.n = s.n) /\ Follows(s, Succeeded(s, put))
  BY <1>1, <1>3 DEF Leads, Follows
<1>4. CASE ~(\E other \in puts \ {put} : other.n = s.n) /\ ~Follows(s, Succeeded(s, put))
  BY <1>1, <1>4 DEF Ends
<1>5. QED
  BY <1>1, <1>2, <1>3, <1>4

(* A step leaves what the raw editor sent. *)
LEMMA RawSentStep ==
  ASSUME SettingsFit, RawSent, SettingsNext
  PROVE  RawSent'
<1> USE DEF SettingsFit
<1>0. sent \in Nat
  BY DEF PlaceFits
<1>1. CASE \E target : \E left \in SUBSET saves : Mounted(target, left)
  BY <1>1, MountedSaves DEF RawSent
<1>2. CASE at'.section = at.section /\ saves' \subseteq saves /\ puts' \subseteq puts
  BY <1>2 DEF RawSent
<1>3. CASE (\E target \in Prof \cup Opened : Go(target)) \/ Discard \/ (\E section \in Opened : Back(section))
  <2>1. puts' = puts /\ ((saves' = saves /\ at' = at) \/ \E target : Mounted(target, saves))
    BY <1>3 DEF Go, Discard, Back, Arrive
  <2>2. CASE \E target : Mounted(target, saves)
    BY <1>1, <2>2
  <2>3. QED
    BY <1>2, <2>1, <2>2
<1>4. CASE SaveForm
  <2>1. /\ at' = at /\ seeded = SeedKey
        /\ saves' = saves \cup {[n |-> sent, value |-> form, ok |-> TRUE, some |-> FALSE, go |-> dialog, live |-> TRUE]}
        /\ puts' = puts \cup
             {[n |-> sent, doc |-> d, prof |-> at.prof, text |-> Written(d), base |-> raw[d], stage |-> "sent"] : d \in OwnDocs}
    BY <1>4 DEF SaveForm
  <2>2. ASSUME at.section = "raw", NEW d \in OwnDocs PROVE Written(d) = form
    <3>1. d = at.doc /\ Own = FieldsOf(d)
      BY <2>2, OwnFacts
    <3>2. form \in [Own -> Worth(at.prof, edits)]
      BY <2>1, SeededOwn
    <3>3. QED
      BY <3>1, <3>2 DEF Written
  <2>3. (\A s \in saves : s.n # sent) /\ (\A put \in puts : put.n # sent)
    BY <1>0 DEF SavesFit, PutsFit
  <2>4. QED
    BY <2>1, <2>2, <2>3 DEF RawSent
<1>5. CASE \E put \in puts : StorePut(put) \/ RefusePut(put) \/ LoseAnswer(put)
  <2>1. PICK put \in puts, stage \in {"sent", "stored", "refused"} :
           puts' = (puts \ {put}) \cup {[put EXCEPT !.stage = stage]} /\ UNCHANGED <<at, saves>>
    BY <1>5 DEF StorePut, RefusePut, LoseAnswer
  <2> DEFINE New == [put EXCEPT !.stage = stage]
  <2>2. New.n = put.n /\ New.text = put.text
    BY StagedPut DEF PutsFit
  <2>3. puts' = (puts \ {put}) \cup {New} /\ saves' = saves /\ at' = at
    BY <2>1
  <2>4. QED
    <3> HIDE DEF New
    <3>1. QED
      BY <2>2, <2>3 DEF RawSent
<1>6. CASE \E put \in puts : AnswerPut(put)
  <2>1. PICK put \in puts : AnswerPut(put)
    BY <1>6
  <2>2. puts' \subseteq puts
    BY <2>1 DEF AnswerPut
  <2>3. PICK s \in saves : s.n = put.n /\ (Waits(put, s) \/ Leads(put, s) \/ Ends(put, s))
    BY <2>1, AnswerEnds
  <2>4. CASE Waits(put, s)
    BY <2>2, <2>4 DEF Waits, RawSent
  <2>5. CASE Leads(put, s)
    <3>1. (saves' = saves \ {s} /\ at' = at) \/ Mounted(s.go, saves \ {s})
      BY <2>5 DEF Leads, Arrive
    <3>2. CASE Mounted(s.go, saves \ {s})
      BY <1>1, <3>2
    <3>3. QED
      BY <1>2, <2>2, <3>1, <3>2
  <2>6. CASE Ends(put, s)
    BY <1>2, <2>2, <2>6 DEF Ends
  <2>7. QED
    BY <2>3, <2>4, <2>5, <2>6
<1>7. CASE (\E f \in Own : EditField(f)) \/ (\E p \in Prof, f \in Fields : OutsideWrite(p, f))
  BY <1>2, <1>7 DEF EditField, OutsideWrite
<1>8. CASE \E d \in Doc : SelectDoc(d)
  BY <1>2, <1>8 DEF SelectDoc, PlaceFits
<1>9. CASE Commit \/ Undo \/ Stay
  BY <1>2, <1>9 DEF Commit, Undo, Stay
<1>10. CASE (\E d \in OwnDocs : Fetch(d)) \/ (\E p \in Prof, d \in Doc : Fetched(p, d))
  BY <1>2, <1>10 DEF Fetch, Fetched
<1>11. QED
  BY <1>3, <1>4, <1>5, <1>6, <1>7, <1>8, <1>9, <1>10 DEF SettingsNext

(* Causes are noted for good. *)
LEMMA ExcusesGrow ==
  ASSUME SettingsFit, SettingsNext
  PROVE  excuses \subseteq excuses'
<1>1. \A target, left, known, shown : Arrive(target, left, known, shown) => excuses \subseteq excuses'
  BY DEF Arrive
<1>2. CASE (\E target \in Prof \cup Opened : Go(target)) \/ Discard
  BY <1>1, <1>2 DEF Go, Discard
<1>3. CASE \E put \in puts : AnswerPut(put)
  BY <1>1, <1>3, AnswerEnds DEF Waits, Leads, Ends
<1>4. CASE (\E section \in Opened : Back(section)) \/ (\E d \in Doc : SelectDoc(d)) \/ (\E p \in Prof, d \in Doc : Fetched(p, d))
  BY <1>4 DEF Back, SelectDoc, Fetched
<1>5. CASE SaveForm \/ Undo \/ Stay \/ Commit
  BY <1>5 DEF SaveForm, Undo, Stay, Commit
<1>6. CASE \E put \in puts : StorePut(put) \/ RefusePut(put) \/ LoseAnswer(put)
  BY <1>6 DEF StorePut, RefusePut, LoseAnswer
<1>7. CASE (\E f \in Own : EditField(f)) \/ (\E p \in Prof, f \in Fields : OutsideWrite(p, f)) \/ (\E d \in OwnDocs : Fetch(d))
  BY <1>7 DEF EditField, OutsideWrite, Fetch
<1>8. QED
  BY <1>2, <1>3, <1>4, <1>5, <1>6, <1>7 DEF SettingsNext

(* What is left behind has been saved. *)
LEMMA FollowedStep ==
  ASSUME SettingsFit, RawSent, Followed, SettingsNext
  PROVE  Followed'
<1> USE DEF SettingsFit
<1> SUFFICES ASSUME Guarded'
             PROVE  /\ ~dropped'
                    /\ \A s \in saves' : s.go # NoText => dialog' = s.go /\ s.live /\ seeded' = SeedKey' /\ form' = s.value
  BY DEF Followed
<1>0. /\ Guarded /\ ~dropped
      /\ \A s \in saves : s.go # NoText => dialog = s.go /\ s.live /\ seeded = SeedKey /\ form = s.value
  BY ExcusesGrow DEF Followed, Guarded
<1>n. CASE /\ dropped' = dropped /\ \A s \in saves : s.go = NoText
           /\ \A r \in saves' : \E s \in saves : r.go = s.go
  BY <1>0, <1>n
<1>1. CASE (\E target \in Prof \cup Opened : Go(target)) \/ Discard
  <2>1. \A s \in saves : s.go = NoText
    <3>1. CASE \E target \in Prof \cup Opened : Go(target)
      BY <1>0, <3>1 DEF Go
    <3>2. CASE Discard
      <4>1. Closing(saves) \subseteq excuses'
        BY <3>2 DEF Discard, Arrive
      <4>2. QED
        BY <4>1 DEF Closing, Guarded
    <3>3. QED
      BY <1>1, <3>1, <3>2
  <2>2. dropped' = dropped
    BY <1>1 DEF Go, Discard
  <2>3. saves' = saves \/ \E target : Mounted(target, saves)
    BY <1>1 DEF Go, Discard, Arrive
  <2>4. QED
    BY <1>n, <2>1, <2>2, <2>3, MountedSaves
<1>2. CASE (\E section \in Opened : Back(section)) \/ (\E d \in Doc : SelectDoc(d))
  BY <1>2 DEF Back, SelectDoc, Guarded
<1>3. CASE \E put \in puts : AnswerPut(put)
  <2>1. PICK put \in puts : AnswerPut(put)
    BY <1>3
  <2>2. PICK s \in saves : s.n = put.n /\ (Waits(put, s) \/ Leads(put, s) \/ Ends(put, s))
    BY <2>1, AnswerEnds
  <2>3. CASE Waits(put, s)
    <3>1. PICK r : saves' = (saves \ {s}) \cup {r} /\ r.value = s.value /\ r.go = s.go /\ r.live = s.live
      BY <2>3 DEF Waits
    <3>2. SeedKey' = SeedKey /\ UNCHANGED <<seeded, form, dialog, dropped>>
      BY <2>3, SamePlace DEF Waits
    <3>3. QED
      BY <1>0, <3>1, <3>2
  <2>4. CASE Leads(put, s)
    <3> DEFINE ok == Succeeded(s, put)
    <3>1. ok /\ s.ok /\ put.stage = "stored" /\ s.go # NoText /\ dropped' = (dropped \/ (s.go \notin Here /\ LeftBehind(s, ok, put)))
      BY <2>4 DEF Leads, Succeeded
    <3>2. seeded = SeedKey /\ s.live /\ form = s.value
      BY <1>0, <3>1
    <3>3. ~LeftBehind(s, ok, put)
      BY <2>2, <3>1, <3>2 DEF LeftBehind, BaselineAfter, RawSent
    <3>4. \A r \in saves \ {s} : r.go = NoText
      <4>1. Closing(saves \ {s}) \subseteq excuses'
        BY <2>4 DEF Leads, Arrive
      <4>2. QED
        BY <4>1 DEF Closing, Guarded
    <3>5. saves' = saves \ {s} \/ Mounted(s.go, saves \ {s})
      BY <2>4 DEF Leads, Arrive
    <3>6. \A r \in saves' : r.go = NoText
      BY <3>4, <3>5, MountedSaves
    <3>7. QED
      BY <1>0, <3>1, <3>3, <3>6
  <2>5. CASE Ends(put, s)
    <3>1. ~Reseeded(s, Succeeded(s, put))
      BY <2>5 DEF Ends, Guarded
    <3>2. form' = form /\ ~dropped' /\ UNCHANGED <<at, seeded, dialog>> /\ saves' = saves \ {s}
      BY <1>0, <2>5, <3>1 DEF Ends, Reseeded
    <3>3. QED
      BY <1>0, <3>2, SamePlace
  <2>6. QED
    BY <2>2, <2>3, <2>4, <2>5
<1>4. CASE SaveForm
  <2>1. /\ at' = at /\ seeded = SeedKey /\ UNCHANGED <<dialog, seeded, form, dropped>>
        /\ saves' = saves \cup {[n |-> sent, value |-> form, ok |-> TRUE, some |-> FALSE, go |-> dialog, live |-> TRUE]}
    BY <1>4 DEF SaveForm
  <2>2. QED
    BY <1>0, <2>1, SamePlace
<1>5. CASE (\E f \in Own : EditField(f)) \/ Undo
  BY <1>0, <1>n, <1>5 DEF EditField, Undo
<1>6. CASE Stay
  <2>1. Closing(saves) \subseteq excuses' /\ UNCHANGED <<saves, dropped>>
    BY <1>6 DEF Stay
  <2>2. \A s \in saves : s.go = NoText
    BY <2>1 DEF Closing, Guarded
  <2>3. QED
    BY <1>n, <2>1, <2>2
<1>7. CASE Commit
  BY <1>0, <1>n, <1>7, CommitSeeds DEF Commit
<1>8. CASE UNCHANGED <<at, saves, seeded, form, dialog, dropped>>
  BY <1>0, <1>8, SamePlace
<1>9. CASE \E put \in puts : StorePut(put) \/ RefusePut(put) \/ LoseAnswer(put)
  BY <1>8, <1>9 DEF StorePut, RefusePut, LoseAnswer
<1>10. CASE (\E d \in OwnDocs : Fetch(d)) \/ (\E p \in Prof, d \in Doc : Fetched(p, d)) \/ (\E p \in Prof, f \in Fields : OutsideWrite(p, f))
  BY <1>8, <1>10 DEF Fetch, Fetched, OutsideWrite
<1>11. QED
  BY <1>1, <1>2, <1>3, <1>4, <1>5, <1>6, <1>7, <1>9, <1>10 DEF SettingsNext

----------------------------------------------------------------------------
(* While nothing made a text out of date, what the section, its save and    *)
(* the queries hold agrees with what is stored.                            *)
Calm == excuses \cap {"stale", "left"} = {}

(* There is one save at most, of the form before the user. *)
OneSave ==
  /\ \A s \in saves, other \in saves : s = other
  /\ \A s \in saves : s.live /\ seeded = SeedKey /\ s.value \in [Own -> Worth(at.prof, edits)]

Unanswered(p, d) == \E put \in puts : put.prof = p /\ put.doc = d /\ put.stage = "stored"

CacheStored ==
  \A p \in Prof, d \in Doc : queries[p][d] = NoText \/ Unanswered(p, d) \/ queries[p][d] = TextOf(store[p], d)

(* A request has the save's values over what the section loaded. *)
PutsOfHere ==
  \A put \in puts, s \in saves :
    /\ put.prof = at.prof /\ put.doc \in OwnDocs /\ put.base = raw[put.doc]
    /\ \A f \in FieldsOf(put.doc) : put.text[f] = IF f \in Own THEN s.value[f] ELSE raw[put.doc][f]
    /\ put.stage = "stored" => put.text = TextOf(store[at.prof], put.doc)

LoadedStored ==
  seeded # SeedKey => \A d \in OwnDocs : synced[d] # NoText => raw[d] = TextOf(store[at.prof], d)

RestStored == seeded = SeedKey => \A d \in OwnDocs : \A f \in FieldsOf(d) : f \notin Own => raw[d][f] = store[at.prof][f]

BaseStored == seeded = SeedKey /\ saves = {} /\ at.section # "raw" => \A f \in Own : baseline[f] = store[at.prof][f]

(* A field of a save is stored, or its request has yet to be stored or has  *)
(* failed.                                                                 *)
StoredAsWas(f) == at.section = "raw" \/ store[at.prof][f] = baseline[f]
Outstanding ==
  \A s \in saves, f \in Own :
    \/ \E put \in puts : put.doc = f[1] /\ put.stage = "stored"
    \/ (\E put \in puts : put.doc = f[1] /\ put.stage # "stored") /\ StoredAsWas(f)
    \/ /\ \A put \in puts : put.doc # f[1]
       /\ (s.some /\ store[at.prof][f] = s.value[f]) \/ (~s.ok /\ StoredAsWas(f))

(* What has been stored since the load is not what was loaded, and neither  *)
(* is what the form shows then.                                            *)
Newer ==
  seeded # NoText => \A f \in SeededFields :
    /\ store[at.prof][f] # raw[f[1]][f] => form[f] # raw[f[1]][f]
    /\ \A s \in saves : s.value[f] # raw[f[1]][f] => form[f] # raw[f[1]][f]
    /\ \A s \in saves, put \in puts :
         put.doc = f[1] /\ put.stage = "sent" /\ s.value[f] = raw[f[1]][f] => store[at.prof][f] = raw[f[1]][f]

Tidy == OneSave /\ PutsOfHere /\ LoadedStored /\ RestStored /\ BaseStored /\ Outstanding /\ Newer
CalmHolds == Calm => ~lost /\ CacheStored /\ Tidy

(* The fields of a section, seeded or not, are fields. *)
LEMMA SeededAreFields ==
  ASSUME PlaceFits
  PROVE  SeededFields \subseteq Fields
BY FieldFacts, OwnFacts DEF SeededFields

(* Without a save there is no request. *)
LEMMA NoSaveNoPut ==
  ASSUME PutsFit, saves = {}
  PROVE  puts = {}
BY DEF PutsFit

(* A section that is mounted begins with what is stored. *)
LEMMA MountTidy ==
  ASSUME SettingsFit, SettingsFit', NEW target, Mounted(target, {})
  PROVE  Tidy'
<1>1. saves' = {} /\ seeded' = NoText /\ \A d \in Doc : synced'[d] = NoText
  BY DEF Mounted
<1>2. puts' = {}
  BY <1>1 DEF SettingsFit, PutsFit
<1>3. OwnDocs' \subseteq Doc
  <2>1. at' \in [prof : Prof, section : Opened, doc : Doc]
    BY DEF SettingsFit, PlaceFits
  <2>2. Own' \subseteq Fields
    BY <2>1, FieldFacts DEF Own, Fields, Forms
  <2>3. QED
    BY <2>2, FieldFacts DEF OwnDocs
<1>4. seeded' # SeedKey'
  <2>1. at'.prof \in Prof /\ at'.doc \in Doc
    BY DEF SettingsFit, PlaceFits
  <2>2. QED
    BY <1>1, <2>1, SettingsAssumption DEF SeedKey
<1>5. OneSave' /\ PutsOfHere' /\ Outstanding'
  BY <1>1, <1>2 DEF OneSave, PutsOfHere, Outstanding
<1>6. LoadedStored' /\ RestStored' /\ BaseStored' /\ Newer'
  BY <1>1, <1>3, <1>4 DEF LoadedStored, RestStored, BaseStored, Newer
<1>7. QED
  BY <1>5, <1>6 DEF Tidy

(* Nothing the section's facts are about has changed. *)
LEMMA TidyKept ==
  ASSUME Tidy, UNCHANGED <<at, seeded, form, baseline, raw, synced, saves, puts, store, edits>>
  PROVE  Tidy'
<1>1. Own' = Own /\ OwnDocs' = OwnDocs /\ SeedKey' = SeedKey /\ SeededFields' = SeededFields /\ \A f : StoredAsWas(f)' <=> StoredAsWas(f)
  BY SamePlace DEF SeededFields, StoredAsWas
<1>2. OneSave' /\ PutsOfHere'
  BY <1>1 DEF Tidy, OneSave, PutsOfHere
<1>3. LoadedStored' /\ RestStored' /\ BaseStored'
  BY <1>1 DEF Tidy, LoadedStored, RestStored, BaseStored
<1>4. Outstanding' /\ Newer'
  BY <1>1 DEF Tidy, Outstanding, Newer
<1>5. QED
  BY <1>2, <1>3, <1>4 DEF Tidy

(* The effects of a commit put in what is stored. *)
LEMMA CommitTidy ==
  ASSUME SettingsFit, SettingsFit', Tidy, CacheStored, Commit
  PROVE  Tidy'
<1> USE DEF SettingsFit
<1>0. at' = at /\ UNCHANGED <<store, queries, saves, puts>> /\ at.prof \in Prof
  BY DEF Commit, PlaceFits
<1>1. Own' = Own /\ OwnDocs' = OwnDocs /\ SeedKey' = SeedKey /\ OwnDocs \subseteq Doc
  BY <1>0, SamePlace, OwnFacts
<1>2. seeded # SeedKey /\ (~SeedDue => seeded = NoText)
  BY CommitSeeds
<1>3. saves = {} /\ puts = {}
  BY <1>2, NoSaveNoPut DEF Tidy, OneSave
<1>4. \A d \in Doc : queries[at.prof][d] = NoText \/ queries[at.prof][d] = TextOf(store[at.prof], d)
  BY <1>0, <1>3 DEF CacheStored, Unanswered
<1>5. \A d \in Doc :
        /\ synced'[d] = IF Synced(d) THEN at.prof ELSE synced[d]
        /\ raw'[d] = IF Synced(d) \/ (SeedDue /\ d \in OwnDocs /\ Direct(d)) THEN queries[at.prof][d] ELSE raw[d]
  BY DEF Commit
<1>6. \A d \in Doc : Synced(d) => raw'[d] = TextOf(store[at.prof], d)
  BY <1>4, <1>5 DEF Synced
<1>7. OneSave' /\ PutsOfHere' /\ Outstanding'
  BY <1>0, <1>3 DEF OneSave, PutsOfHere, Outstanding
<1>8. CASE SeedDue
  <2>1. /\ seeded' = SeedKey /\ baseline' = form'
        /\ form' = [f \in Own |-> IF Direct(f[1]) THEN queries[at.prof][f[1]][f] ELSE raw[f[1]][f]]
    BY <1>8 DEF Commit
  <2>2. ASSUME NEW d \in OwnDocs
        PROVE  raw'[d] = TextOf(store[at.prof], d) /\ (IF Direct(d) THEN queries[at.prof][d] ELSE raw[d]) = TextOf(store[at.prof], d)
    <3>1. CASE Direct(d)
      BY <1>1, <1>4, <1>5, <1>8, <3>1 DEF SeedDue, Ready
    <3>2. CASE ~Direct(d)
      <4>1. synced[d] # NoText
        BY <1>0, <1>8, <3>2, SettingsAssumption DEF SeedDue, Ready, Loaded
      <4>2. raw[d] = TextOf(store[at.prof], d)
        BY <1>2, <4>1 DEF Tidy, LoadedStored
      <4>3. QED
        BY <1>1, <1>5, <1>6, <3>2, <4>2
    <3>3. QED
      BY <3>1, <3>2
  <2>3. \A d \in OwnDocs : \A f \in FieldsOf(d) : raw'[d][f] = store[at.prof][f]
    BY <2>2 DEF TextOf
  <2>4. ASSUME NEW f \in Own PROVE form'[f] = store[at.prof][f] /\ raw'[f[1]][f] = store[at.prof][f]
    <3>1. f[1] \in OwnDocs /\ f \in FieldsOf(f[1])
      BY OwnFacts, FieldFacts
    <3>2. form'[f] = IF Direct(f[1]) THEN queries[at.prof][f[1]][f] ELSE raw[f[1]][f]
      BY <2>1
    <3>3. TextOf(store[at.prof], f[1])[f] = store[at.prof][f]
      BY <3>1 DEF TextOf
    <3>4. Direct(f[1]) => queries[at.prof][f[1]] = TextOf(store[at.prof], f[1])
      BY <2>2, <3>1
    <3>5. ~Direct(f[1]) => raw[f[1]] = TextOf(store[at.prof], f[1])
      BY <2>2, <3>1
    <3>6. QED
      BY <2>3, <3>1, <3>2, <3>3, <3>4, <3>5
  <2>5. LoadedStored' /\ RestStored' /\ BaseStored'
    BY <1>0, <1>1, <2>1, <2>3, <2>4 DEF LoadedStored, RestStored, BaseStored
  <2>6. SeededFields' = Own
    BY <1>0, <1>1, <2>1 DEF SeededFields, SeedKey, Own
  <2>7. Newer'
    BY <1>0, <1>3, <2>4, <2>6 DEF Newer
  <2>8. QED
    BY <1>7, <2>5, <2>7 DEF Tidy
<1>9. CASE ~SeedDue
  <2>1. seeded' = NoText /\ seeded = NoText
    BY <1>2, <1>9 DEF Commit
  <2>2. \A d \in OwnDocs : synced'[d] # NoText => raw'[d] = TextOf(store[at.prof], d)
    BY <1>1, <1>2, <1>5, <1>6, <1>9 DEF Tidy, LoadedStored
  <2>3. LoadedStored' /\ RestStored' /\ BaseStored' /\ Newer'
    BY <1>0, <1>1, <1>2, <2>1, <2>2 DEF LoadedStored, RestStored, BaseStored, Newer
  <2>4. QED
    BY <1>7, <2>3 DEF Tidy
<1>10. QED
  BY <1>8, <1>9

(* A request that comes to another stage is otherwise the same. *)
LEMMA StageFields ==
  ASSUME PutsFit, NEW put \in puts, NEW stage,
         puts' = (puts \ {put}) \cup {[put EXCEPT !.stage = stage]}
  PROVE  \E new : /\ puts' = (puts \ {put}) \cup {new}
                  /\ new.n = put.n /\ new.doc = put.doc /\ new.prof = put.prof
                  /\ new.text = put.text /\ new.base = put.base /\ new.stage = stage
<1>1. IsPut(put)
  BY DEF PutsFit
<1> DEFINE new == [n |-> put.n, doc |-> put.doc, prof |-> put.prof, text |-> put.text, base |-> put.base, stage |-> stage]
<1>2. [put EXCEPT !.stage = stage] = new
  BY <1>1, StagedPut
<1>3. /\ new.n = put.n /\ new.doc = put.doc /\ new.prof = put.prof
      /\ new.text = put.text /\ new.base = put.base /\ new.stage = stage
  OBVIOUS
<1>4. QED
  <2> HIDE DEF new
  <2>1. QED
    BY <1>2, <1>3

(* What the server has after it stored a document. *)
LEMMA PutStored ==
  ASSUME SettingsFit, NEW put \in puts, StorePut(put)
  PROVE  /\ \A f \in FieldsOf(put.doc) : store'[put.prof][f] = put.text[f]
         /\ \A p \in Prof, f \in Fields : p # put.prof \/ f[1] # put.doc => store'[p][f] = store[p][f]
         /\ TextOf(store'[put.prof], put.doc) = put.text
         /\ \A p \in Prof, d \in Doc : p # put.prof \/ d # put.doc => TextOf(store'[p], d) = TextOf(store[p], d)
<1>1. put.prof \in Prof /\ put.doc \in Doc /\ put.text \in TextsUpTo(put.prof, put.doc, edits) /\ DOMAIN store = Prof
  BY DEF SettingsFit, PutsFit, DocsFit
<1>2. DOMAIN put.text = FieldsOf(put.doc) /\ put.text = [f \in FieldsOf(put.doc) |-> put.text[f]]
  BY <1>1 DEF TextsUpTo
<1> DEFINE New == [f \in Fields |-> IF f \in DOMAIN put.text THEN put.text[f] ELSE store[put.prof][f]]
<1>3. store' = [store EXCEPT ![put.prof] = New]
  BY DEF StorePut
<1>4. store'[put.prof] = New /\ \A p \in Prof : p # put.prof => store'[p] = store[p]
  BY <1>1, <1>3
<1>5. \A f \in FieldsOf(put.doc) : store'[put.prof][f] = put.text[f]
  BY <1>2, <1>4, FieldFacts
<1>6. \A p \in Prof, f \in Fields : p # put.prof \/ f[1] # put.doc => store'[p][f] = store[p][f]
  BY <1>2, <1>4, FieldFacts
<1>7. TextOf(store'[put.prof], put.doc) = put.text
  BY <1>2, <1>5 DEF TextOf
<1>8. ASSUME NEW p \in Prof, NEW d \in Doc, p # put.prof \/ d # put.doc
      PROVE  TextOf(store'[p], d) = TextOf(store[p], d)
  BY <1>6, <1>8, FieldFacts DEF TextOf
<1>9. QED
  BY <1>5, <1>6, <1>7, <1>8

(* The queries keep to what is stored. *)
LEMMA CacheStep ==
  ASSUME SettingsFit, Tidy, CacheStored, SettingsNext, Calm'
  PROVE  CacheStored'
<1> USE DEF SettingsFit
<1>1. CASE UNCHANGED <<store, queries>> /\ puts \subseteq puts'
  BY <1>1 DEF CacheStored, Unanswered
<1>2. CASE Commit \/ SaveForm \/ Discard \/ Undo \/ Stay
  BY <1>1, <1>2 DEF Commit, SaveForm, Discard, Undo, Stay
<1>3. CASE (\E f \in Own : EditField(f)) \/ (\E d \in OwnDocs : Fetch(d)) \/ (\E target \in Prof \cup Opened : Go(target))
           \/ (\E section \in Opened : Back(section)) \/ (\E d \in Doc : SelectDoc(d))
  BY <1>1, <1>3 DEF EditField, Fetch, Go, Back, SelectDoc
<1>4. CASE \E p \in Prof, d \in Doc : Fetched(p, d)
  <2>1. PICK p \in Prof, d \in Doc : Fetched(p, d)
    BY <1>4
  <2>2. fetching[p][d] = TextOf(store[p], d)
    BY <2>1 DEF Fetched, Calm
  <2>3. \A q \in Prof, e \in Doc : queries'[q][e] = queries[q][e] \/ (q = p /\ e = d /\ queries'[q][e] = fetching[p][d])
    BY <2>1 DEF Fetched, DocsFit
  <2>4. UNCHANGED <<store, puts>>
    BY <2>1 DEF Fetched
  <2>5. QED
    BY <2>2, <2>3, <2>4 DEF CacheStored, Unanswered
<1>5. CASE \E put \in puts : StorePut(put)
  <2>1. PICK put \in puts : StorePut(put)
    BY <1>5
  <2>2. puts' = (puts \ {put}) \cup {[put EXCEPT !.stage = "stored"]} /\ queries' = queries /\ put.stage = "sent"
    BY <2>1 DEF StorePut
  <2>3. PICK new : /\ puts' = (puts \ {put}) \cup {new} /\ new.doc = put.doc /\ new.prof = put.prof /\ new.stage = "stored"
    BY <2>2, StageFields
  <2>4. \A p \in Prof, d \in Doc : p # put.prof \/ d # put.doc => TextOf(store'[p], d) = TextOf(store[p], d)
    BY <2>1, PutStored
  <2>5. QED
    BY <2>2, <2>3, <2>4 DEF CacheStored, Unanswered
<1>6. CASE \E put \in puts : RefusePut(put)
  <2>1. PICK put \in puts : RefusePut(put)
    BY <1>6
  <2>2. puts \ {put} \subseteq puts' /\ UNCHANGED <<store, queries>> /\ put.stage = "sent"
    BY <2>1 DEF RefusePut
  <2>3. QED
    BY <2>2 DEF CacheStored, Unanswered
<1>7. CASE \E put \in puts : AnswerPut(put)
  <2>1. PICK put \in puts : AnswerPut(put)
    BY <1>7
  <2>2. puts' = puts \ {put} /\ store' = store /\ put.prof \in Prof /\ put.doc \in Doc
    BY <2>1 DEF AnswerPut, PutsFit
  <2>3. CASE put.stage = "stored"
    <3>1. queries' = [queries EXCEPT ![put.prof][put.doc] = put.text]
      BY <2>1, <2>3 DEF AnswerPut, CacheAfter
    <3>2. \A p \in Prof, d \in Doc :
            /\ p = put.prof /\ d = put.doc => queries'[p][d] = put.text
            /\ p # put.prof \/ d # put.doc => queries'[p][d] = queries[p][d]
      BY <2>2, <3>1 DEF DocsFit
    <3>3. put.prof = at.prof /\ put.text = TextOf(store[put.prof], put.doc)
      BY <2>3 DEF Tidy, PutsOfHere, PutsFit
    <3>4. QED
      BY <2>2, <3>2, <3>3 DEF CacheStored, Unanswered
  <2>4. CASE put.stage # "stored"
    <3>1. queries' = queries
      BY <2>1, <2>4 DEF AnswerPut, CacheAfter
    <3>2. QED
      BY <2>2, <2>4, <3>1 DEF CacheStored, Unanswered
  <2>5. QED
    BY <2>3, <2>4
<1>8. CASE (\E put \in puts : LoseAnswer(put)) \/ (\E p \in Prof, f \in Fields : OutsideWrite(p, f))
  BY <1>8 DEF LoseAnswer, OutsideWrite, Calm
<1>9. QED
  BY <1>2, <1>3, <1>4, <1>5, <1>6, <1>7, <1>8 DEF SettingsNext

(* No save puts an older value over a newer one. *)
LEMMA LostStep ==
  ASSUME SettingsFit, Tidy, ~lost, SettingsNext
  PROVE  ~lost'
<1>1. CASE \E put \in puts : StorePut(put)
  <2>1. PICK put \in puts : StorePut(put)
    BY <1>1
  <2>2. PICK s \in saves : s.n = put.n
    BY DEF SettingsFit, PutsFit
  <2>3. put.prof = at.prof /\ put.doc \in OwnDocs /\ put.base = raw[put.doc] /\ seeded = SeedKey /\ put.stage = "sent"
    BY <2>1, <2>2 DEF Tidy, PutsOfHere, OneSave, StorePut
  <2>4. DOMAIN put.text = FieldsOf(put.doc)
    BY DEF SettingsFit, PutsFit, TextsUpTo
  <2>5. ASSUME NEW f \in FieldsOf(put.doc), put.text[f] = put.base[f]
        PROVE  store[put.prof][f] = put.text[f]
    <3>1. f[1] = put.doc
      BY FieldFacts
    <3>2. CASE f \in Own
      <4>1. s.value[f] = raw[f[1]][f]
        BY <2>2, <2>3, <2>5, <3>1, <3>2 DEF Tidy, PutsOfHere
      <4>2. seeded # NoText /\ f \in SeededFields
        BY <2>3, <3>2, SeededOwn
      <4>3. store[at.prof][f] = raw[f[1]][f]
        BY <2>2, <2>3, <3>1, <4>1, <4>2 DEF Tidy, Newer
      <4>4. QED
        BY <2>3, <2>5, <3>1, <4>3
    <3>3. CASE f \notin Own
      BY <2>3, <2>5, <3>3 DEF Tidy, RestStored
    <3>4. QED
      BY <3>2, <3>3
  <2>6. QED
    BY <2>1, <2>4, <2>5 DEF StorePut
<1>2. CASE Commit \/ SaveForm \/ Discard \/ Undo \/ Stay
  BY <1>2 DEF Commit, SaveForm, Discard, Undo, Stay
<1>3. CASE (\E f \in Own : EditField(f)) \/ (\E d \in OwnDocs : Fetch(d)) \/ (\E target \in Prof \cup Opened : Go(target))
           \/ (\E section \in Opened : Back(section)) \/ (\E d \in Doc : SelectDoc(d))
  BY <1>3 DEF EditField, Fetch, Go, Back, SelectDoc
<1>4. CASE (\E p \in Prof, d \in Doc : Fetched(p, d)) \/ (\E p \in Prof, f \in Fields : OutsideWrite(p, f))
  BY <1>4 DEF Fetched, OutsideWrite
<1>5. CASE \E put \in puts : RefusePut(put) \/ LoseAnswer(put) \/ AnswerPut(put)
  BY <1>5 DEF RefusePut, LoseAnswer, AnswerPut
<1>6. QED
  BY <1>1, <1>2, <1>3, <1>4, <1>5 DEF SettingsNext

(* A section that stays, with nothing to wait for, is tidy when what it     *)
(* compares with is stored and what it shows is not older.                 *)
LEMMA TidyInPlace ==
  ASSUME SettingsFit, Tidy, seeded = SeedKey, saves' = {}, puts' = {},
         UNCHANGED <<at, seeded, raw, synced, store>>,
         at.section # "raw" => \A f \in Own : baseline'[f] = store[at.prof][f],
         \A f \in Own : store[at.prof][f] # raw[f[1]][f] => form'[f] # raw[f[1]][f]
  PROVE  Tidy'
<1>1. Own' = Own /\ OwnDocs' = OwnDocs /\ SeedKey' = SeedKey /\ SeededFields' = SeededFields /\ SeededFields = Own
  BY SamePlace, SeededOwn DEF SeededFields
<1>2. OneSave' /\ PutsOfHere' /\ Outstanding'
  BY DEF OneSave, PutsOfHere, Outstanding
<1>3. LoadedStored' /\ RestStored' /\ BaseStored'
  BY <1>1 DEF Tidy, LoadedStored, RestStored, BaseStored
<1>4. Newer'
  BY <1>1 DEF Newer
<1>5. QED
  BY <1>2, <1>3, <1>4 DEF Tidy

(* An edit is newer than what was loaded. *)
LEMMA EditTidy ==
  ASSUME SettingsFit, SettingsFit', Tidy, NEW f \in Own, EditField(f)
  PROVE  Tidy'
<1> USE DEF SettingsFit
<1>1. /\ UNCHANGED <<at, seeded, baseline, raw, synced, saves, puts, store>> /\ edits' = edits + 1 /\ seeded = SeedKey
      /\ form' = [form EXCEPT ![f] = <<at.prof, edits + 1>>] /\ edits \in Nat
  BY DEF EditField, PlaceFits
<1>2. Own' = Own /\ OwnDocs' = OwnDocs /\ SeedKey' = SeedKey /\ SeededFields' = SeededFields /\ SeededFields = Own
      /\ \A g : StoredAsWas(g)' <=> StoredAsWas(g)
  BY <1>1, SamePlace, SeededOwn DEF SeededFields, StoredAsWas
<1>3. OneSave'
  BY <1>1, <1>2, TextsGrow DEF Tidy, OneSave
<1>4. PutsOfHere'
  BY <1>1, <1>2 DEF Tidy, PutsOfHere
<1>5. LoadedStored' /\ RestStored' /\ BaseStored'
  BY <1>1, <1>2 DEF Tidy, LoadedStored, RestStored, BaseStored
<1>6. Outstanding'
  BY <1>1, <1>2 DEF Tidy, Outstanding
<1>7. form'[f] # raw[f[1]][f]
  <2>1. f[1] \in OwnDocs /\ f[1] \in Doc /\ f \in FieldsOf(f[1])
    BY OwnFacts, FieldFacts
  <2>2. raw[f[1]] \in TextsUpTo(at.prof, f[1], edits)
    BY <1>1, <2>1, SeededOwn DEF SectionFits
  <2>3. raw[f[1]][f] \in {at.prof} \X (0 .. edits)
    BY <2>1, <2>2 DEF TextsUpTo, Worth
  <2>4. form'[f] = <<at.prof, edits + 1>>
    BY <1>1, SeededOwn
  <2>5. QED
    BY <1>1, <2>3, <2>4
<1>8. \A g \in Own : g # f => form'[g] = form[g]
  BY <1>1, SeededOwn
<1>9. Newer'
  <2>1. seeded # NoText
    BY <1>1, SeededOwn
  <2>2. QED
    BY <1>1, <1>2, <1>7, <1>8, <2>1 DEF Tidy, Newer
<1>10. QED
  BY <1>3, <1>4, <1>5, <1>6, <1>9 DEF Tidy

(* The first save of a section sends what the form shows. *)
LEMMA SaveTidy ==
  ASSUME SettingsFit, Tidy, SaveForm, Calm'
  PROVE  Tidy'
<1> USE DEF SettingsFit
<1> DEFINE S == [n |-> sent, value |-> form, ok |-> TRUE, some |-> FALSE, go |-> dialog, live |-> TRUE]
           P(d) == [n |-> sent, doc |-> d, prof |-> at.prof, text |-> Written(d), base |-> raw[d], stage |-> "sent"]
<1>1. saves = {}
  BY DEF SaveForm, Calm
<1>2. puts = {}
  BY <1>1, NoSaveNoPut
<1>3. saves' = {S} /\ puts' = {P(d) : d \in OwnDocs} /\ seeded = SeedKey
      /\ UNCHANGED <<at, seeded, form, baseline, raw, synced, store, edits>>
  BY <1>1, <1>2 DEF SaveForm
<1>4. Own' = Own /\ OwnDocs' = OwnDocs /\ SeedKey' = SeedKey /\ SeededFields' = SeededFields /\ SeededFields = Own /\ seeded # NoText
      /\ \A g : StoredAsWas(g)' <=> StoredAsWas(g)
  BY <1>3, SamePlace, SeededOwn DEF SeededFields, StoredAsWas
<1>5. S.live /\ S.value = form /\ form \in [Own -> Worth(at.prof, edits)]
  BY <1>3, SeededOwn
<1>6. \A d \in OwnDocs : /\ P(d).doc = d /\ P(d).prof = at.prof /\ P(d).text = Written(d) /\ P(d).base = raw[d] /\ P(d).stage = "sent"
  OBVIOUS
<1>7. \A d \in OwnDocs : \A f \in FieldsOf(d) : Written(d)[f] = IF f \in Own THEN form[f] ELSE raw[d][f]
  BY <1>3, WrittenFits
<1> HIDE DEF S, P
<1>8. OneSave'
  BY <1>3, <1>4, <1>5 DEF OneSave
<1>9. PutsOfHere'
  BY <1>3, <1>4, <1>5, <1>6, <1>7 DEF PutsOfHere
<1>10. LoadedStored' /\ RestStored' /\ BaseStored'
  BY <1>3, <1>4 DEF Tidy, LoadedStored, RestStored, BaseStored
<1>11. \A f \in Own : StoredAsWas(f) /\ f[1] \in OwnDocs
  BY <1>1, <1>3, OwnFacts DEF Tidy, BaseStored, StoredAsWas
<1>12. Outstanding'
  <2>1. ASSUME NEW f \in Own
        PROVE  \E put \in puts' : put.doc = f[1] /\ put.stage # "stored"
    <3>1. P(f[1]) \in puts' /\ P(f[1]).doc = f[1] /\ P(f[1]).stage = "sent"
      BY <1>3, <1>6, <1>11
    <3>2. QED
      BY <3>1
  <2>2. QED
    BY <1>4, <1>11, <2>1 DEF Outstanding
<1>13. Newer'
  BY <1>3, <1>4, <1>5 DEF Tidy, Newer
<1>14. QED
  BY <1>8, <1>9, <1>10, <1>12, <1>13 DEF Tidy

(* What is stored is what the section's own save says. *)
LEMMA StoreTidy ==
  ASSUME SettingsFit, Tidy, NEW put \in puts, StorePut(put)
  PROVE  Tidy'
<1> USE DEF SettingsFit
<1>1. UNCHANGED <<at, seeded, form, baseline, raw, synced, saves, edits>> /\ put.stage = "sent"
      /\ puts' = (puts \ {put}) \cup {[put EXCEPT !.stage = "stored"]}
  BY DEF StorePut
<1>2. PICK s \in saves : s.n = put.n
  BY DEF PutsFit
<1>3. /\ put.prof = at.prof /\ put.doc \in OwnDocs /\ put.base = raw[put.doc] /\ seeded = SeedKey /\ at.prof \in Prof
      /\ \A r \in saves : r = s
  BY <1>2 DEF Tidy, PutsOfHere, OneSave, PlaceFits
<1>4. PICK new : /\ puts' = (puts \ {put}) \cup {new} /\ new.n = put.n /\ new.doc = put.doc /\ new.prof = put.prof
                 /\ new.text = put.text /\ new.base = put.base /\ new.stage = "stored"
  <2> DEFINE stage == "stored"
  <2>1. PutsFit /\ puts' = (puts \ {put}) \cup {[put EXCEPT !.stage = stage]}
    BY <1>1
  <2>2. stage = "stored"
    OBVIOUS
  <2>3. QED
    <3> HIDE DEF SettingsFit, stage
    <3>1. \E new : /\ puts' = (puts \ {put}) \cup {new}
                   /\ new.n = put.n /\ new.doc = put.doc /\ new.prof = put.prof
                   /\ new.text = put.text /\ new.base = put.base /\ new.stage = stage
      BY <2>1, StageFields
    <3>2. QED
      BY <2>2, <3>1
<1>5. /\ Own' = Own /\ OwnDocs' = OwnDocs /\ SeedKey' = SeedKey /\ SeededFields' = SeededFields /\ SeededFields = Own /\ seeded # NoText
      /\ Own \subseteq Fields /\ OwnDocs \subseteq Doc
  BY <1>1, <1>3, SamePlace, SeededOwn, OwnFacts DEF SeededFields
<1>6. /\ \A f \in FieldsOf(put.doc) : store'[at.prof][f] = put.text[f]
      /\ \A f \in Fields : f[1] # put.doc => store'[at.prof][f] = store[at.prof][f]
      /\ TextOf(store'[at.prof], put.doc) = put.text
      /\ \A d \in Doc : d # put.doc => TextOf(store'[at.prof], d) = TextOf(store[at.prof], d)
  BY <1>3, PutStored
<1>7. \A q \in puts : q.doc = put.doc => q = put
  BY <1>2, <1>3 DEF PutsFit
<1>8. OneSave'
  BY <1>1, <1>5 DEF Tidy, OneSave
<1>9. PutsOfHere'
  <2>1. ASSUME NEW q \in puts', NEW r \in saves
        PROVE  /\ q.prof = at.prof /\ q.doc \in OwnDocs /\ q.base = raw[q.doc]
               /\ \A f \in FieldsOf(q.doc) : q.text[f] = IF f \in Own THEN r.value[f] ELSE raw[q.doc][f]
               /\ q.stage = "stored" => q.text = TextOf(store'[at.prof], q.doc)
    <3>1. CASE q = new
      BY <1>3, <1>4, <1>6, <3>1 DEF Tidy, PutsOfHere
    <3>2. CASE q \in puts /\ q # put
      <4>1. q.doc # put.doc /\ q.doc \in Doc
        BY <1>7, <3>2 DEF PutsFit
      <4>2. QED
        BY <1>6, <3>2, <4>1 DEF Tidy, PutsOfHere
    <3>3. QED
      BY <1>4, <3>1, <3>2
  <2>2. QED
    BY <1>1, <1>5, <2>1 DEF PutsOfHere
<1>10. LoadedStored' /\ BaseStored'
  BY <1>1, <1>2, <1>3, <1>5 DEF LoadedStored, BaseStored
<1>11. RestStored'
  <2>1. ASSUME NEW d \in OwnDocs, NEW f \in FieldsOf(d), f \notin Own
        PROVE  raw[d][f] = store'[at.prof][f]
    <3>1. f[1] = d /\ f \in Fields
      BY FieldFacts
    <3>2. CASE d = put.doc
      BY <1>2, <1>6, <2>1, <3>2 DEF Tidy, PutsOfHere
    <3>3. CASE d # put.doc
      BY <1>3, <1>6, <2>1, <3>1, <3>3 DEF Tidy, RestStored
    <3>4. QED
      BY <3>2, <3>3
  <2>2. QED
    BY <1>1, <1>5, <2>1 DEF RestStored
<1>12. Outstanding'
  <2>1. ASSUME NEW f \in Own, NEW r \in saves
        PROVE  \/ \E q \in puts' : q.doc = f[1] /\ q.stage = "stored"
               \/ (\E q \in puts' : q.doc = f[1] /\ q.stage # "stored") /\ StoredAsWas(f)'
               \/ /\ \A q \in puts' : q.doc # f[1]
                  /\ (r.some /\ store'[at.prof][f] = r.value[f]) \/ (~r.ok /\ StoredAsWas(f)')
    <3>1. CASE f[1] = put.doc
      BY <1>4, <3>1
    <3>2. CASE f[1] # put.doc
      <4>1. store'[at.prof][f] = store[at.prof][f] /\ (StoredAsWas(f)' <=> StoredAsWas(f))
        BY <1>1, <1>5, <1>6, <3>2 DEF StoredAsWas
      <4>2. \A q : q.doc = f[1] => (q \in puts' <=> q \in puts)
        BY <1>4, <3>2
      <4>3. \/ \E q \in puts : q.doc = f[1] /\ q.stage = "stored"
            \/ (\E q \in puts : q.doc = f[1] /\ q.stage # "stored") /\ StoredAsWas(f)
            \/ /\ \A q \in puts : q.doc # f[1]
               /\ (r.some /\ store[at.prof][f] = r.value[f]) \/ (~r.ok /\ StoredAsWas(f))
        BY DEF Tidy, Outstanding
      <4>4. QED
        BY <4>1, <4>2, <4>3
    <3>3. QED
      BY <3>1, <3>2
  <2>2. QED
    BY <1>1, <1>5, <2>1 DEF Outstanding
<1>13. Newer'
  <2>1. ASSUME NEW f \in Own
        PROVE  /\ store'[at.prof][f] # raw[f[1]][f] => form[f] # raw[f[1]][f]
               /\ \A r \in saves : r.value[f] # raw[f[1]][f] => form[f] # raw[f[1]][f]
               /\ \A r \in saves, q \in puts' :
                    q.doc = f[1] /\ q.stage = "sent" /\ r.value[f] = raw[f[1]][f] => store'[at.prof][f] = raw[f[1]][f]
    <3>1. f \in FieldsOf(f[1])
      BY <1>5, FieldFacts
    <3>2. \A r \in saves : r.value[f] # raw[f[1]][f] => form[f] # raw[f[1]][f]
      BY <1>5 DEF Tidy, Newer
    <3>3. CASE f[1] = put.doc
      <4>1. store'[at.prof][f] = s.value[f]
        BY <1>2, <1>6, <3>1, <3>3 DEF Tidy, PutsOfHere
      <4>2. \A q \in puts' : q.doc = f[1] => q.stage = "stored"
        BY <1>4, <1>7, <3>3
      <4>3. QED
        BY <3>2, <4>1, <4>2
    <3>4. CASE f[1] # put.doc
      <4>1. store'[at.prof][f] = store[at.prof][f] /\ \A q \in puts' : q.doc = f[1] => q \in puts
        BY <1>4, <1>5, <1>6, <3>4
      <4>2. QED
        BY <1>5, <3>2, <4>1 DEF Tidy, Newer
    <3>5. QED
      BY <3>3, <3>4
  <2>2. QED
    BY <1>1, <1>5, <2>1 DEF Newer
<1>14. QED
  BY <1>8, <1>9, <1>10, <1>11, <1>12, <1>13 DEF Tidy

(* A request that is refused leaves its document as it was. *)
LEMMA RefuseTidy ==
  ASSUME SettingsFit, Tidy, NEW put \in puts, RefusePut(put)
  PROVE  Tidy'
<1> USE DEF SettingsFit
<1>1. UNCHANGED <<at, seeded, form, baseline, raw, synced, saves, edits, store>> /\ put.stage = "sent"
      /\ puts' = (puts \ {put}) \cup {[put EXCEPT !.stage = "refused"]}
  BY DEF RefusePut
<1>2. PICK new : /\ puts' = (puts \ {put}) \cup {new} /\ new.doc = put.doc /\ new.prof = put.prof
                 /\ new.text = put.text /\ new.base = put.base /\ new.stage = "refused"
  BY <1>1, StageFields
<1>3. Own' = Own /\ OwnDocs' = OwnDocs /\ SeedKey' = SeedKey /\ SeededFields' = SeededFields
      /\ \A g : StoredAsWas(g)' <=> StoredAsWas(g)
  BY <1>1, SamePlace DEF SeededFields, StoredAsWas
<1>4. \A q \in puts' : q \in puts \/ (q.stage = "refused" /\ q.doc = put.doc)
  BY <1>2
<1>5. OneSave'
  BY <1>1, <1>3 DEF Tidy, OneSave
<1>6. PutsOfHere'
  BY <1>1, <1>2, <1>3 DEF Tidy, PutsOfHere
<1>7. LoadedStored' /\ RestStored' /\ BaseStored'
  BY <1>1, <1>3 DEF Tidy, LoadedStored, RestStored, BaseStored
<1>8. Outstanding'
  <2>1. ASSUME NEW f \in Own, NEW r \in saves
        PROVE  \/ \E q \in puts' : q.doc = f[1] /\ q.stage = "stored"
               \/ (\E q \in puts' : q.doc = f[1] /\ q.stage # "stored") /\ StoredAsWas(f)
               \/ /\ \A q \in puts' : q.doc # f[1]
                  /\ (r.some /\ store[at.prof][f] = r.value[f]) \/ (~r.ok /\ StoredAsWas(f))
    <3>1. \/ \E q \in puts : q.doc = f[1] /\ q.stage = "stored"
          \/ (\E q \in puts : q.doc = f[1] /\ q.stage # "stored") /\ StoredAsWas(f)
          \/ /\ \A q \in puts : q.doc # f[1]
             /\ (r.some /\ store[at.prof][f] = r.value[f]) \/ (~r.ok /\ StoredAsWas(f))
      BY DEF Tidy, Outstanding
    <3>2. CASE \E q \in puts : q.doc = f[1] /\ q.stage = "stored"
      BY <1>1, <1>2, <3>2
    <3>3. CASE (\E q \in puts : q.doc = f[1] /\ q.stage # "stored") /\ StoredAsWas(f)
      BY <1>2, <3>3
    <3>4. CASE /\ \A q \in puts : q.doc # f[1]
               /\ (r.some /\ store[at.prof][f] = r.value[f]) \/ (~r.ok /\ StoredAsWas(f))
      BY <1>2, <3>4
    <3>5. QED
      BY <3>1, <3>2, <3>3, <3>4
  <2>2. QED
    BY <1>1, <1>3, <2>1 DEF Outstanding
<1>9. Newer'
  <2>1. ASSUME seeded # NoText, NEW f \in SeededFields, NEW r \in saves, NEW q \in puts',
               q.doc = f[1], q.stage = "sent", r.value[f] = raw[f[1]][f]
        PROVE  store[at.prof][f] = raw[f[1]][f]
    BY <1>4, <2>1 DEF Tidy, Newer
  <2>2. seeded # NoText => \A f \in SeededFields :
          /\ store[at.prof][f] # raw[f[1]][f] => form[f] # raw[f[1]][f]
          /\ \A r \in saves : r.value[f] # raw[f[1]][f] => form[f] # raw[f[1]][f]
    BY DEF Tidy, Newer
  <2>3. QED
    BY <1>1, <1>3, <2>1, <2>2 DEF Newer
<1>10. QED
  BY <1>5, <1>6, <1>7, <1>8, <1>9 DEF Tidy

(* The end of a save: the section takes the values that are stored, or has  *)
(* the values that still are.                                              *)
LEMMA AllAnswered ==
  ASSUME SettingsFit, Tidy, NEW put \in puts, NEW s \in saves, s.n = put.n, put.stage # "sent",
         \A other \in puts \ {put} : other.n # s.n
  PROVE  /\ saves \ {s} = {} /\ puts \ {put} = {} /\ seeded = SeedKey /\ s.live
         /\ Succeeded(s, put) => \A f \in Own : store[at.prof][f] = s.value[f]
         /\ ~Succeeded(s, put) /\ ~(s.some \/ put.stage = "stored") => \A f \in Own : StoredAsWas(f)
<1> USE DEF SettingsFit
<1>1. saves = {s} /\ seeded = SeedKey /\ s.live
  BY DEF Tidy, OneSave
<1>2. puts = {put}
  BY <1>1 DEF PutsFit
<1>3. put.stage \in {"stored", "refused"}
  BY DEF PutsFit
<1>4. ASSUME Succeeded(s, put), NEW f \in Own PROVE store[at.prof][f] = s.value[f]
  <2>1. s.ok /\ put.stage = "stored"
    BY <1>4 DEF Succeeded
  <2>2. CASE f[1] = put.doc
    <3>1. f \in FieldsOf(put.doc)
      BY <2>2, OwnFacts, FieldFacts
    <3>2. put.text[f] = s.value[f] /\ put.text = TextOf(store[at.prof], put.doc)
      BY <2>1, <3>1 DEF Tidy, PutsOfHere
    <3>3. QED
      BY <3>1, <3>2 DEF TextOf
  <2>3. CASE f[1] # put.doc
    BY <1>2, <2>1, <2>3 DEF Tidy, Outstanding
  <2>4. QED
    BY <2>2, <2>3
<1>5. ASSUME ~Succeeded(s, put), ~(s.some \/ put.stage = "stored"), NEW f \in Own PROVE StoredAsWas(f)
  BY <1>2, <1>3, <1>5 DEF Tidy, Outstanding
<1>6. QED
  BY <1>1, <1>2, <1>4, <1>5

(* An answer. *)
LEMMA AnswerTidy ==
  ASSUME SettingsFit, SettingsFit', Tidy, NEW put \in puts, AnswerPut(put), Calm'
  PROVE  Tidy'
<1> USE DEF SettingsFit
<1>1. puts' = puts \ {put} /\ UNCHANGED <<store, edits>> /\ put.stage # "sent"
  BY DEF AnswerPut
<1>2. PICK s \in saves : s.n = put.n /\ (Waits(put, s) \/ Leads(put, s) \/ Ends(put, s))
  BY AnswerEnds
<1>3. seeded = SeedKey /\ saves = {s} /\ s.live
  BY DEF Tidy, OneSave
<1>4. \A q \in puts : q.doc = put.doc => q = put
  BY <1>2, <1>3 DEF PutsFit
<1>5. CASE Waits(put, s)
  <2>1. PICK r : /\ saves' = (saves \ {s}) \cup {r}
                 /\ r.n = s.n /\ r.value = s.value /\ r.go = s.go /\ r.live = s.live
                 /\ r.ok = Succeeded(s, put) /\ r.some = (s.some \/ put.stage = "stored")
    BY <1>5 DEF Waits
  <2>2. saves' = {r} /\ UNCHANGED <<at, seeded, form, baseline, raw, synced>>
    BY <1>3, <1>5, <2>1 DEF Waits
  <2>3. Own' = Own /\ OwnDocs' = OwnDocs /\ SeedKey' = SeedKey /\ SeededFields' = SeededFields
        /\ \A g : StoredAsWas(g)' <=> StoredAsWas(g)
    BY <1>1, <2>2, SamePlace DEF SeededFields, StoredAsWas
  <2>4. OneSave'
    BY <1>1, <1>3, <2>1, <2>2, <2>3 DEF Tidy, OneSave
  <2>5. PutsOfHere'
    BY <1>1, <1>3, <2>1, <2>2, <2>3 DEF Tidy, PutsOfHere
  <2>6. LoadedStored' /\ RestStored' /\ BaseStored'
    BY <1>1, <1>3, <2>2, <2>3 DEF Tidy, LoadedStored, RestStored, BaseStored
  <2>7. Outstanding'
    <3>1. ASSUME NEW f \in Own
          PROVE  \/ \E q \in puts' : q.doc = f[1] /\ q.stage = "stored"
                 \/ (\E q \in puts' : q.doc = f[1] /\ q.stage # "stored") /\ StoredAsWas(f)
                 \/ /\ \A q \in puts' : q.doc # f[1]
                    /\ (r.some /\ store[at.prof][f] = r.value[f]) \/ (~r.ok /\ StoredAsWas(f))
      <4>1. \/ \E q \in puts : q.doc = f[1] /\ q.stage = "stored"
            \/ (\E q \in puts : q.doc = f[1] /\ q.stage # "stored") /\ StoredAsWas(f)
            \/ /\ \A q \in puts : q.doc # f[1]
               /\ (s.some /\ store[at.prof][f] = s.value[f]) \/ (~s.ok /\ StoredAsWas(f))
        BY DEF Tidy, Outstanding
      <4>2. CASE f[1] = put.doc
        <5>1. f \in FieldsOf(put.doc) /\ \A q \in puts' : q.doc # f[1]
          BY <1>1, <1>4, <4>2, OwnFacts, FieldFacts
        <5>2. CASE put.stage = "stored"
          <6>1. put.text[f] = s.value[f] /\ put.text = TextOf(store[at.prof], put.doc)
            BY <5>1, <5>2 DEF Tidy, PutsOfHere
          <6>2. store[at.prof][f] = r.value[f] /\ r.some
            BY <2>1, <5>1, <5>2, <6>1 DEF TextOf
          <6>3. QED
            BY <5>1, <6>2
        <5>3. CASE put.stage # "stored"
          <6>1. ~r.ok /\ StoredAsWas(f)
            BY <1>4, <2>1, <4>1, <4>2, <5>3 DEF Succeeded
          <6>2. QED
            BY <5>1, <6>1
        <5>4. QED
          BY <5>2, <5>3
      <4>3. CASE f[1] # put.doc
        <5>1. (s.some => r.some) /\ (~s.ok => ~r.ok) /\ r.value = s.value
          BY <2>1 DEF Succeeded
        <5>2. \A q : q.doc = f[1] => (q \in puts' <=> q \in puts)
          BY <1>1, <4>3
        <5>3. QED
          BY <4>1, <5>1, <5>2
      <4>4. QED
        BY <4>2, <4>3
    <3>2. QED
      BY <1>1, <2>2, <2>3, <3>1 DEF Outstanding
  <2>8. Newer'
    BY <1>1, <1>3, <2>1, <2>2, <2>3 DEF Tidy, Newer
  <2>9. QED
    BY <2>4, <2>5, <2>6, <2>7, <2>8 DEF Tidy
<1>6. ASSUME \A other \in puts \ {put} : other.n # s.n,
             Succeeded(s, put) \/ ~(s.some \/ put.stage = "stored"),
             saves' = saves \ {s}, UNCHANGED <<at, seeded, raw, synced>>,
             baseline' = BaselineAfter(s, Succeeded(s, put)), form' = FormAfter(s, Succeeded(s, put))
      PROVE  Tidy'
  <2>1. /\ saves \ {s} = {} /\ puts \ {put} = {}
        /\ Succeeded(s, put) => \A f \in Own : store[at.prof][f] = s.value[f]
        /\ ~Succeeded(s, put) /\ ~(s.some \/ put.stage = "stored") => \A f \in Own : StoredAsWas(f)
    BY <1>1, <1>2, <1>6, AllAnswered
  <2>2. saves' = {} /\ puts' = {}
    BY <1>1, <1>6, <2>1
  <2>3. ASSUME at.section # "raw", NEW f \in Own PROVE baseline'[f] = store[at.prof][f]
    BY <1>3, <1>6, <2>1, <2>3 DEF BaselineAfter, StoredAsWas
  <2>4. ASSUME NEW f \in Own, store[at.prof][f] # raw[f[1]][f] PROVE form'[f] # raw[f[1]][f]
    <3>1. CASE form' = form
      BY <1>3, <2>4, <3>1, SeededOwn DEF Tidy, Newer
    <3>2. CASE form' = s.value /\ Succeeded(s, put)
      BY <2>1, <2>4, <3>2
    <3>3. QED
      BY <1>6, <3>1, <3>2 DEF FormAfter
  <2>5. QED
    BY <1>1, <1>3, <1>6, <2>2, <2>3, <2>4, TidyInPlace
<1>7. CASE Leads(put, s)
  <2>1. /\ \A other \in puts \ {put} : other.n # s.n
        /\ Succeeded(s, put) /\ Arrive(s.go, saves \ {s}, BaselineAfter(s, Succeeded(s, put)), FormAfter(s, Succeeded(s, put)))
    BY <1>7 DEF Leads
  <2>2. CASE s.go \in Here
    BY <1>6, <2>1, <2>2 DEF Arrive
  <2>3. CASE s.go \notin Here
    <3>1. Mounted(s.go, {})
      BY <1>3, <2>1, <2>3 DEF Arrive
    <3>2. QED
      BY <3>1, MountTidy
  <2>4. QED
    BY <2>2, <2>3
<1>8. CASE Ends(put, s)
  <2>1. Succeeded(s, put) \/ ~(s.some \/ put.stage = "stored")
    BY <1>8 DEF Ends, Calm
  <2>2. QED
    BY <1>6, <1>8, <2>1 DEF Ends
<1>9. QED
  BY <1>2, <1>5, <1>7, <1>8

(* A change that is undone leaves what is stored. *)
LEMMA PristineStored ==
  ASSUME SettingsFit, Tidy, CacheStored, seeded = SeedKey, saves = {}
  PROVE  \A f \in Own : Pristine[f] = store[at.prof][f]
<1>1. puts = {}
  BY NoSaveNoPut DEF SettingsFit
<1>2. CASE at.section = "raw"
  <2>1. Pristine = queries[at.prof][at.doc] /\ OwnDocs = {at.doc} /\ Own = FieldsOf(at.doc) /\ queries[at.prof][at.doc] # NoText
    BY <1>2, SeededOwn, OwnFacts DEF SettingsFit
  <2>2. at.prof \in Prof /\ at.doc \in Doc
    BY DEF SettingsFit, PlaceFits
  <2>3. queries[at.prof][at.doc] = TextOf(store[at.prof], at.doc)
    BY <1>1, <2>1, <2>2 DEF CacheStored, Unanswered
  <2>4. QED
    BY <2>1, <2>3 DEF TextOf
<1>3. CASE at.section # "raw"
  BY <1>3 DEF Pristine, Tidy, BaseStored
<1>4. QED
  BY <1>2, <1>3

(* The ways of the user. *)
LEMMA UserTidy ==
  ASSUME SettingsFit, SettingsFit', Tidy, CacheStored, Calm',
         (\E target \in Prof \cup Opened : Go(target)) \/ Discard \/ Undo \/ (\E section \in Opened : Back(section))
           \/ (\E d \in Doc : SelectDoc(d))
  PROVE  Tidy'
<1> USE DEF SettingsFit
<1>1. CASE \E target \in Prof \cup Opened : Go(target)
  <2>1. PICK target \in Prof \cup Opened : Go(target)
    BY <1>1
  <2>2. UNCHANGED <<store, puts, edits>>
    BY <2>1 DEF Go
  <2>3. CASE UNCHANGED <<at, saves, seeded, form, baseline, raw, synced>>
    BY <2>2, <2>3, TidyKept
  <2>4. CASE Arrive(target, saves, baseline, form)
    <3>1. saves = {}
      BY <2>4 DEF Arrive, Leaving, Calm
    <3>2. CASE target \in Here
      BY <2>3, <2>4, <3>2 DEF Arrive
    <3>3. CASE target \notin Here
      <4>1. Mounted(target, {})
        BY <2>4, <3>1, <3>3 DEF Arrive
      <4>2. QED
        BY <4>1, MountTidy
    <3>4. QED
      BY <3>2, <3>3
  <2>5. QED
    BY <2>1, <2>3, <2>4 DEF Go
<1>2. CASE Discard
  <2>1. UNCHANGED <<store, puts, edits>> /\ Arrive(dialog, saves, baseline, Pristine) /\ dialog # NoText
    BY <1>2 DEF Discard
  <2>2. saves = {}
    BY <2>1 DEF Arrive, Leaving, Calm
  <2>3. puts = {}
    BY <2>2, NoSaveNoPut
  <2>4. CASE dialog \in Here
    <3>1. saves' = {} /\ puts' = {} /\ form' = Pristine /\ baseline' = baseline /\ UNCHANGED <<at, seeded, raw, synced>>
      BY <2>1, <2>2, <2>3, <2>4 DEF Arrive
    <3>2. CASE seeded = SeedKey
      <4>1. \A f \in Own : form'[f] = store[at.prof][f]
        BY <2>2, <3>1, <3>2, PristineStored
      <4>2. at.section # "raw" => \A f \in Own : baseline'[f] = store[at.prof][f]
        BY <2>2, <3>1, <3>2 DEF Tidy, BaseStored
      <4>3. QED
        BY <2>1, <3>1, <3>2, <4>1, <4>2, TidyInPlace
    <3>3. CASE seeded = NoText /\ seeded # SeedKey
      <4>1. Own' = Own /\ OwnDocs' = OwnDocs /\ SeedKey' = SeedKey
        BY <3>1, SamePlace
      <4>2. OneSave' /\ PutsOfHere' /\ Outstanding' /\ Newer'
        BY <3>1, <3>3 DEF OneSave, PutsOfHere, Outstanding, Newer
      <4>3. LoadedStored' /\ RestStored' /\ BaseStored'
        BY <2>1, <3>1, <3>3, <4>1 DEF Tidy, LoadedStored, RestStored, BaseStored
      <4>4. QED
        BY <4>2, <4>3 DEF Tidy
    <3>4. QED
      BY <2>1, <3>2, <3>3 DEF FormFits
  <2>5. CASE dialog \notin Here
    <3>1. Mounted(dialog, {})
      BY <2>1, <2>2, <2>5 DEF Arrive
    <3>2. QED
      BY <3>1, MountTidy
  <2>6. QED
    BY <2>4, <2>5
<1>3. CASE Undo
  <2>1. UNCHANGED <<at, seeded, raw, synced, store, baseline, saves, puts>> /\ form' = Pristine /\ seeded = SeedKey
    BY <1>3 DEF Undo, IsDirty
  <2>2. saves = {}
    BY <1>3 DEF Undo, Calm
  <2>3. puts = {}
    BY <2>2, NoSaveNoPut
  <2>4. \A f \in Own : form'[f] = store[at.prof][f]
    BY <2>1, <2>2, PristineStored
  <2>5. at.section # "raw" => \A f \in Own : baseline'[f] = store[at.prof][f]
    BY <2>1, <2>2 DEF Tidy, BaseStored
  <2>6. saves' = {} /\ puts' = {}
    BY <2>1, <2>2, <2>3
  <2>7. QED
    BY <2>1, <2>4, <2>5, <2>6, TidyInPlace
<1>4. CASE \E section \in Opened : Back(section)
  <2>1. PICK section \in Opened : Back(section)
    BY <1>4
  <2>2. saves = {}
    BY <2>1 DEF Back, Leaving, Calm
  <2>3. Mounted(section, {})
    BY <2>1, <2>2 DEF Back
  <2>4. QED
    BY <2>3, MountTidy
<1>5. CASE \E d \in Doc : SelectDoc(d)
  <2>1. PICK d \in Doc : SelectDoc(d)
    BY <1>5
  <2>2. saves = {}
    BY <2>1 DEF SelectDoc, Leaving, Calm
  <2>3. puts = {}
    BY <2>2, NoSaveNoPut
  <2>4. /\ at'.prof = at.prof /\ at'.section = "raw" /\ at.section = "raw" /\ at'.doc = d
        /\ UNCHANGED <<store, raw, synced, seeded, form, baseline, saves, puts>>
    BY <2>1 DEF SelectDoc, PlaceFits
  <2>5. Own' = FieldsOf(d) /\ SeededFields' = SeededFields
    BY <2>4 DEF Own, SeededFields
  <2>6. OwnDocs' = {d}
    BY <2>5, FieldFacts DEF OwnDocs
  <2>7. synced[d] = NoText
    BY <2>4 DEF SectionFits, Direct
  <2>8. OneSave' /\ PutsOfHere' /\ Outstanding'
    BY <2>2, <2>3, <2>4 DEF OneSave, PutsOfHere, Outstanding
  <2>9. LoadedStored' /\ RestStored' /\ BaseStored'
    BY <2>4, <2>5, <2>6, <2>7 DEF LoadedStored, RestStored, BaseStored
  <2>10. Newer'
    BY <2>2, <2>4, <2>5 DEF Tidy, Newer
  <2>11. QED
    BY <2>8, <2>9, <2>10 DEF Tidy
<1>6. QED
  BY <1>1, <1>2, <1>3, <1>4, <1>5

(* Every step of a calm tab. *)
LEMMA CalmStep ==
  ASSUME SettingsFit, CalmHolds, SettingsNext
  PROVE  CalmHolds'
<1> SUFFICES ASSUME Calm' PROVE ~lost' /\ CacheStored' /\ Tidy'
  BY DEF CalmHolds
<1>1. ~lost /\ CacheStored /\ Tidy
  BY ExcusesGrow DEF Calm, CalmHolds
<1>2. SettingsFit'
  BY FitStep
<1>3. ~lost' /\ CacheStored'
  BY <1>1, LostStep, CacheStep
<1>4. Tidy'
  <2>1. CASE Commit
    BY <1>1, <1>2, <2>1, CommitTidy
  <2>2. CASE \E f \in Own : EditField(f)
    BY <1>1, <1>2, <2>2, EditTidy
  <2>3. CASE SaveForm
    BY <1>1, <2>3, SaveTidy
  <2>4. CASE \E put \in puts : StorePut(put) \/ RefusePut(put) \/ AnswerPut(put)
    BY <1>1, <1>2, <2>4, StoreTidy, RefuseTidy, AnswerTidy
  <2>5. CASE (\E target \in Prof \cup Opened : Go(target)) \/ Discard \/ Undo \/ (\E section \in Opened : Back(section))
               \/ (\E d \in Doc : SelectDoc(d))
    BY <1>1, <1>2, <2>5, UserTidy
  <2>6. CASE UNCHANGED <<at, seeded, form, baseline, raw, synced, saves, puts, store, edits>>
    BY <1>1, <2>6, TidyKept
  <2>7. CASE (\E d \in OwnDocs : Fetch(d)) \/ (\E p \in Prof, d \in Doc : Fetched(p, d)) \/ Stay
    BY <2>6, <2>7 DEF Fetch, Fetched, Stay
  <2>8. CASE (\E put \in puts : LoseAnswer(put)) \/ (\E p \in Prof, f \in Fields : OutsideWrite(p, f))
    BY <2>8 DEF LoseAnswer, OutsideWrite, Calm
  <2>9. QED
    BY <2>1, <2>2, <2>3, <2>4, <2>5, <2>7, <2>8 DEF SettingsNext
<1>5. QED
  BY <1>3, <1>4

(* What SettingsFit says of types, and of whose values a profile has. *)
LEMMA FitSound ==
  ASSUME SettingsFit
  PROVE  SettingsTypeOK /\ OwnProfile
<1> USE DEF SettingsFit
<1>1. edits \in 0 .. MaxChanges /\ MaxChanges \in Nat
  BY SettingsAssumption DEF PlaceFits
<1>2. \A p \in Prof, d \in Doc : TextsUpTo(p, d, edits) \subseteq Texts(d)
  <2>1. \A p \in Prof : Worth(p, edits) \subseteq Prof \X (0 .. MaxChanges)
    BY <1>1 DEF Worth
  <2>2. QED
    BY <2>1 DEF TextsUpTo, Texts
<1>3. \A p \in Prof, d \in Doc : queries[p][d] \in Texts(d) \cup {NoText} /\ fetching[p][d] \in Texts(d) \cup {NoText}
  BY <1>2 DEF DocsFit
<1>4. at.prof \in Prof /\ at.section \in Opened
  BY DEF PlaceFits
<1>5. \A d \in Doc : raw[d] \in Texts(d) \cup {NoText} /\ synced[d] \in Prof \cup {NoText}
  BY <1>2, <1>4 DEF SectionFits
<1>6. SettingsTypeOK
  BY <1>3, <1>4, <1>5 DEF SettingsTypeOK, DocsFit, PlaceFits, PutsFit
<1>7. OwnProfile
  <2>1. \A p \in Prof, f \in Fields : store[p][f] \in {p} \X (0 .. edits)
    BY DEF DocsFit, Worth
  <2>2. QED
    BY <2>1 DEF OwnProfile
<1>8. QED
  BY <1>6, <1>7

(* What a section shows as clean is stored. *)
LEMMA CleanSound ==
  ASSUME SettingsFit, CalmHolds
  PROVE  CleanIsStored
<1> SUFFICES ASSUME seeded = SeedKey, saves = {}, ~IsDirty, Calm
             PROVE  \A f \in Own : form[f] = store[at.prof][f]
  BY DEF CleanIsStored, Calm
<1>1. form = Pristine
  BY DEF IsDirty
<1>2. QED
  BY <1>1, PristineStored DEF CalmHolds

(* The invariant of the settings pages. *)
SettingsInv == SettingsFit /\ RawSent /\ Followed /\ CalmHolds

(* The pages begin with it. *)
LEMMA SettingsBegin ==
  ASSUME SettingsInit
  PROVE  SettingsInv
<1>1. SettingsFit
  BY FitInit
<1>2. saves = {} /\ puts = {} /\ seeded = NoText /\ ~dropped /\ ~lost /\ \A d \in Doc : synced[d] = NoText
  BY DEF SettingsInit
<1>3. seeded # SeedKey /\ OwnDocs \subseteq Doc
  <2>1. at.prof \in Prof /\ at.doc \in Doc /\ PlaceFits
    BY <1>1 DEF SettingsFit, PlaceFits
  <2>2. QED
    BY <1>2, <2>1, SettingsAssumption, OwnFacts DEF SeedKey
<1>4. RawSent /\ Followed
  BY <1>2 DEF RawSent, Followed
<1>5. CacheStored
  BY DEF SettingsInit, CacheStored
<1>6. Tidy
  BY <1>2, <1>3 DEF Tidy, OneSave, PutsOfHere, LoadedStored, RestStored, BaseStored, Outstanding, Newer
<1>7. QED
  BY <1>1, <1>2, <1>4, <1>5, <1>6 DEF SettingsInv, CalmHolds

(* Each step keeps it. *)
LEMMA SettingsStep ==
  ASSUME SettingsInv, [SettingsNext]_settingsVars
  PROVE  SettingsInv'
<1>1. CASE SettingsNext
  BY <1>1, FitStep, RawSentStep, FollowedStep, CalmStep DEF SettingsInv
<1>2. CASE UNCHANGED settingsVars
  <2>1. SettingsFit'
    <3>1. DocsFit' /\ PlaceFits' /\ SectionFits'
      BY <1>2 DEF settingsVars, SettingsInv, SettingsFit, DocsFit, PlaceFits, SectionFits, Direct
    <3>2. FormFits'
      BY <1>2, SamePlace DEF settingsVars, SettingsInv, SettingsFit, FormFits, SeededFields
    <3>3. SavesFit' /\ PutsFit'
      BY <1>2, SamePlace DEF settingsVars, SettingsInv, SettingsFit, SavesFit, PutsFit
    <3>4. QED
      BY <3>1, <3>2, <3>3 DEF SettingsFit
  <2>2. RawSent' /\ Followed'
    BY <1>2, SamePlace DEF settingsVars, SettingsInv, RawSent, Followed, Guarded
  <2>3. CacheStored' <=> CacheStored
    BY <1>2 DEF settingsVars, CacheStored, Unanswered
  <2>4. CalmHolds'
    BY <1>2, <2>3, TidyKept DEF settingsVars, SettingsInv, CalmHolds, Calm
  <2>5. QED
    BY <2>1, <2>2, <2>4 DEF SettingsInv
<1>3. QED
  BY <1>1, <1>2

(* A settings section writes what was typed for the profile it was typed    *)
(* for, an accepted save is in the document, no edit is dropped without a   *)
(* question, and a clean form shows what is stored.                        *)
THEOREM SettingsHold == SettingsSpec => []SettingsSound
<1>1. SettingsInv => SettingsSound
  <2> SUFFICES ASSUME SettingsInv PROVE SettingsSound
    OBVIOUS
  <2>1. SettingsTypeOK /\ OwnProfile
    BY FitSound DEF SettingsInv
  <2>2. CleanIsStored
    BY CleanSound DEF SettingsInv
  <2>3. LostNeedsCause
    BY DEF SettingsInv, CalmHolds, Calm, LostNeedsCause
  <2>4. DroppedNeedsCause
    BY DEF SettingsInv, Followed, Guarded, DroppedNeedsCause
  <2>5. QED
    BY <2>1, <2>2, <2>3, <2>4 DEF SettingsSound
<1>2. QED
  BY <1>1, SettingsBegin, SettingsStep, PTL DEF SettingsSpec
=============================================================================
