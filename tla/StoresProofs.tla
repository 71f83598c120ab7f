-------------------------- MODULE StoresProofs ------------------------------
(***************************************************************************)
(* What is stored stays right for any parameters: the registry of companies*)
(* under a run's copies and probes, the decisions of a run on its jobs, the *)
(* data home while it is moved, the record of failures told, and a release  *)
(* with what others do meanwhile.                                           *)
(***************************************************************************)
EXTENDS CompanyRegistry, JobDecisions, HomeMove, FailureNotice, Release, FiniteSetTheorems, TLAPS

(* The registry of companies.  What it holds against a company was earned, *)
(* and a run's probes are capped, for any companies, lanes and policy.  The*)
(* run works on copies, so each claim is made of the copies as well; the cap*)
(* is a matter of counting: a probe begun is counted, in flight, or the one*)
(* that its lane's budget cut off.                                         *)

Result == {"found", "error", "not-found"}
Probe == [status : Result \cup {"unprobed", "stale"}, day : Nat, fails : Nat]
InLane == {"probe", "asking", "board"}
Place == InLane \cup {"idle", "lane", "writeRegistry", "writeSeen"}
RunRecord ==
  [at : Place, i : Nat, todo : SUBSET Company, call : SUBSET Company, known : SUBSET Company,
   reg : [Pairs -> Probe], seen : SUBSET Pairs, issued : Nat, started : Nat, new : Nat,
   cache : SUBSET Pairs, fails : [Pairs -> Nat], jobs : SUBSET Pairs, expired : SUBSET Lanes]

Shapes ==
  /\ registry \in [Pairs -> Probe] /\ known \subseteq Company /\ apiSeen \subseteq Pairs
  /\ day \in Nat /\ failures \in [Pairs -> Nat] /\ emitted \subseteq Pairs
  /\ run \in RunRecord

(* What the entry of one company says was earned by that many failures.     *)
EarnedBy(x, probe, fails) ==
  probe.fails <= fails /\ (probe.status = "stale" => x[1] \notin Curated /\ fails >= StaleAfter)
Earned ==
  \A x \in Pairs : EarnedBy(x, registry[x], failures[x]) /\ EarnedBy(x, run.reg[x], run.fails[x])

(* Where the run is among the lanes, and which of them ran out of budget.   *)
Passed(n) == {LaneOrder[j] : j \in {k \in DOMAIN LaneOrder : k <= n}}
Placed ==
  /\ run.i <= Len(LaneOrder)
  /\ run.at \in InLane => run.i >= 1 /\ run.expired \subseteq Passed(run.i - 1)
  /\ run.expired \subseteq Passed(run.i)

Counted ==
  /\ IsFiniteSet(run.expired)
  /\ run.issued <= MaxProbes
  /\ IF run.at = "asking" THEN run.issued < MaxProbes /\ run.started <= run.issued + 1 + Cardinality(run.expired)
     ELSE run.started <= run.issued + Cardinality(run.expired)

RegistryInv == Shapes /\ Earned /\ Placed /\ Counted

----------------------------------------------------------------------------
LEMMA LaneWired == ASSUME Shapes, Placed, run.at \in InLane PROVE run.i \in DOMAIN LaneOrder /\ Lane \in Lanes
BY CompanyRegistryAssumption DEF Shapes, Placed, Lane, Lanes, RunRecord

LEMMA NoRunIsRun == NoRun \in RunRecord
<1>1. [x \in Pairs |-> Unprobed] \in [Pairs -> Probe]
  BY DEF Unprobed, Probe
<1>2. Zero \in [Pairs -> Nat]
  BY DEF Zero
<1>3. QED
  BY <1>1, <1>2 DEF NoRun, RunRecord, Place

LEMMA NoRunSound ==
  /\ \A x \in Pairs : EarnedBy(x, NoRun.reg[x], NoRun.fails[x])
  /\ NoRun.i <= Len(LaneOrder) /\ NoRun.at \notin InLane /\ NoRun.expired \subseteq Passed(NoRun.i)
  /\ IsFiniteSet(NoRun.expired) /\ NoRun.issued <= MaxProbes
  /\ NoRun.at # "asking" /\ NoRun.started <= NoRun.issued + Cardinality(NoRun.expired)
<1>1. \A x \in Pairs : EarnedBy(x, NoRun.reg[x], NoRun.fails[x])
  BY DEF NoRun, Unprobed, Zero, EarnedBy
<1>2. IsFiniteSet(NoRun.expired) /\ Cardinality(NoRun.expired) = 0
  BY FS_EmptySet DEF NoRun
<1>3. QED
  BY <1>1, <1>2, CompanyRegistryAssumption DEF NoRun, InLane

(* A step that only turns the run: everything outside it stays. *)
LEMMA ShapesKept == RegistryInv /\ [RegistryNext]_registryVars => Shapes'
<1> SUFFICES ASSUME RegistryInv, [RegistryNext]_registryVars PROVE Shapes'
  OBVIOUS
<1>0. Shapes /\ Placed
  BY DEF RegistryInv
<1>r. run \in RunRecord
  BY <1>0 DEF Shapes
<1>d. UNCHANGED docs /\ run' \in RunRecord => Shapes'
  BY <1>0 DEF docs, Shapes
<1>1. CASE BeginRun
  <2>1. PICK names \in SUBSET Company, cached \in {{}, emitted} :
          run' = [NoRun EXCEPT !.at = "lane", !.known = known \cup names, !.reg = registry,
                               !.seen = apiSeen, !.cache = cached, !.fails = failures]
    BY <1>1 DEF BeginRun
  <2>2. run' \in RunRecord
    BY <1>0, <2>1, NoRunIsRun DEF Shapes, RunRecord, Place
  <2>3. QED
    BY <1>0, <1>1, <2>2 DEF BeginRun, Shapes
<1>2. CASE NextLane
  <2>1. \A l : Candidates(run.reg, l) \subseteq Company
    BY <1>0 DEF Candidates, Shapes, RunRecord
  <2>2. CASE run' = [run EXCEPT !.at = "writeRegistry"]
    BY <1>0, <1>2, <2>2 DEF NextLane, docs, Shapes, RunRecord, Place
  <2>3. CASE run' = [run EXCEPT !.i = @ + 1, !.at = "probe", !.new = 0, !.todo = Candidates(run.reg, LaneOrder[run.i + 1])]
    <3> DEFINE todo == Candidates(run.reg, LaneOrder[run.i + 1])
    <3>1. todo \in SUBSET Company /\ run.i + 1 \in Nat
      BY <1>r, <2>1 DEF RunRecord
    <3> HIDE DEF todo
    <3>2. run' = [run EXCEPT !.i = @ + 1, !.at = "probe", !.new = 0, !.todo = todo]
      BY <2>3 DEF todo
    <3>3. run' \in RunRecord
      BY <1>r, <3>1, <3>2 DEF RunRecord, Place, InLane
    <3>4. QED
      BY <1>2, <1>d, <3>3 DEF NextLane
  <2>4. QED
    BY <1>2, <2>2, <2>3 DEF NextLane
<1>3. ASSUME NEW c \in Company, StartProbe(c) PROVE Shapes'
  <2>1. run' = [run EXCEPT !.at = "asking", !.todo = @ \ {c}, !.call = {c}, !.started = @ + 1]
    BY <1>3 DEF StartProbe
  <2>2. run.todo \ {c} \in SUBSET Company /\ {c} \in SUBSET Company /\ run.started + 1 \in Nat
    BY <1>r DEF RunRecord
  <2>3. run' \in RunRecord
    BY <1>r, <2>1, <2>2 DEF RunRecord, Place, InLane
  <2>4. QED
    BY <1>3, <1>d, <2>3 DEF StartProbe
<1>4. ASSUME NEW c \in Company, NEW replies \in [1..2 -> Reply], AnswerProbe(c, replies) PROVE Shapes'
  <2> DEFINE x == <<c, Lane>>
  <2>1. x \in Pairs
    BY <1>0, <1>4, LaneWired DEF Pairs, AnswerProbe, InLane
  <2>2. ProbeResult(replies) \in Result
    BY DEF ProbeResult, Result
  <2>3. Probed(run.reg[x], ProbeResult(replies)) \in Probe
    BY <1>0, <2>1, <2>2 DEF Probed, Probe, Shapes, RunRecord
  <2>4. [run.reg EXCEPT ![x] = Probed(@, ProbeResult(replies))] \in [Pairs -> Probe]
    BY <1>0, <2>3 DEF Shapes, RunRecord
  <2>5. [run.fails EXCEPT ![x] = IF ProbeResult(replies) = "error" THEN @ + 1 ELSE 0] \in [Pairs -> Nat]
    BY <1>0, <2>1 DEF Shapes, RunRecord
  <2>6. run' = [run EXCEPT !.at = "probe", !.call = {}, !.issued = @ + 1,
                           !.reg = [run.reg EXCEPT ![x] = Probed(@, ProbeResult(replies))],
                           !.fails = [run.fails EXCEPT ![x] = IF ProbeResult(replies) = "error" THEN @ + 1 ELSE 0]]
    BY <1>0, <1>4 DEF AnswerProbe, Shapes, RunRecord
  <2> DEFINE reg == [run.reg EXCEPT ![x] = Probed(@, ProbeResult(replies))]
             fails == [run.fails EXCEPT ![x] = IF ProbeResult(replies) = "error" THEN @ + 1 ELSE 0]
  <2>7. reg \in [Pairs -> Probe] /\ fails \in [Pairs -> Nat] /\ run.issued + 1 \in Nat /\ {} \in SUBSET Company
    BY <1>r, <2>4, <2>5 DEF RunRecord
  <2>8. run' = [run EXCEPT !.at = "probe", !.call = {}, !.issued = @ + 1, !.reg = reg, !.fails = fails]
    BY <2>6
  <2> HIDE DEF reg, fails
  <2>9. run' \in RunRecord
    BY <1>r, <2>7, <2>8 DEF RunRecord, Place, InLane
  <2>10. QED
    BY <1>4, <1>d, <2>9 DEF AnswerProbe
<1>5. CASE EndProbes
  BY <1>0, <1>5 DEF EndProbes, docs, Shapes, RunRecord, Place, InLane, Boards
<1>6. CASE BudgetExpires
  BY <1>0, <1>6, LaneWired DEF BudgetExpires, docs, Shapes, RunRecord, Place, InLane
<1>7. CASE EndLane
  BY <1>0, <1>7 DEF EndLane, docs, Shapes, RunRecord, Place
<1>8. ASSUME NEW c \in Company, NEW info, NEW page, NEW jobs, FetchBoard(c, info, page, jobs) PROVE Shapes'
  <2> DEFINE j == <<c, Lane>>
  <2>1. j \in Pairs
    BY <1>0, <1>8, LaneWired DEF Pairs, FetchBoard, InLane
  <2>2. FetchFailed(c, run.reg[j]) \in Probe
    <3>1. run.reg[j] \in Probe
      BY <1>r, <2>1 DEF RunRecord
    <3> DEFINE status == IF c \notin Curated /\ run.reg[j].fails + 1 >= StaleAfter THEN "stale" ELSE run.reg[j].status
    <3>2. status \in Result \cup {"unprobed", "stale"} /\ run.reg[j].fails + 1 \in Nat
      BY <3>1 DEF Probe
    <3>3. FetchFailed(c, run.reg[j]) = [run.reg[j] EXCEPT !.fails = run.reg[j].fails + 1, !.status = status]
      BY <3>1 DEF FetchFailed, Probe
    <3> HIDE DEF status
    <3>4. QED
      BY <3>1, <3>2, <3>3 DEF Probe
  <2>3. [run.reg EXCEPT ![j] = FetchFailed(c, @)] \in [Pairs -> Probe]
    BY <1>0, <2>2 DEF Shapes, RunRecord
  <2>4. [run.fails EXCEPT ![j] = @ + 1] \in [Pairs -> Nat]
    BY <1>0, <2>1 DEF Shapes, RunRecord
  <2> DEFINE reg == [run.reg EXCEPT ![j] = FetchFailed(c, @)]
             fails == [run.fails EXCEPT ![j] = @ + 1]
  <2>t. run.todo \ {c} \in SUBSET Company
    BY <1>r DEF RunRecord
  <2>5. ASSUME run' = [run EXCEPT !.todo = @ \ {c}, !.reg[j] = FetchFailed(c, @), !.fails[j] = @ + 1]
        PROVE  run' \in RunRecord
    <3>1. run' = [run EXCEPT !.todo = @ \ {c}, !.reg = reg, !.fails = fails]
      BY <1>r, <2>5 DEF RunRecord
    <3>2. reg \in [Pairs -> Probe] /\ fails \in [Pairs -> Nat]
      BY <2>3, <2>4
    <3> HIDE DEF reg, fails
    <3>3. QED
      BY <1>r, <2>t, <3>1, <3>2 DEF RunRecord
  <2>6. ASSUME run' = [run EXCEPT !.todo = @ \ {c}, !.seen = @ \cup {j}, !.jobs = @ \cup {j}, !.new = @ + 1]
        PROVE  run' \in RunRecord
    <3>1. run.seen \cup {j} \in SUBSET Pairs /\ run.jobs \cup {j} \in SUBSET Pairs /\ run.new + 1 \in Nat
      BY <1>r, <2>1 DEF RunRecord
    <3> HIDE DEF j
    <3>2. QED
      BY <1>r, <2>t, <2>6, <3>1 DEF RunRecord
  <2>7. ASSUME run' = [run EXCEPT !.todo = @ \ {c}]
        PROVE  run' \in RunRecord
    BY <1>r, <2>t, <2>7 DEF RunRecord
  <2>8. run' \in RunRecord
    BY <1>8, <2>5, <2>6, <2>7 DEF FetchBoard
  <2>9. QED
    BY <1>8, <1>d, <2>8 DEF FetchBoard
<1>9. CASE WriteRegistry
  BY <1>0, <1>9 DEF WriteRegistry, Shapes, RunRecord, Place
<1>10. CASE WriteSeen
  BY <1>0, <1>10, NoRunIsRun DEF WriteSeen, Shapes, RunRecord
<1>11. CASE Abort
  BY <1>0, <1>11, NoRunIsRun DEF Abort, docs, Shapes
<1>12. CASE UNCHANGED registryVars
  BY <1>0, <1>12 DEF registryVars, Shapes
<1>13. QED
  BY <1>1, <1>2, <1>3, <1>4, <1>5, <1>6, <1>7, <1>8, <1>9, <1>10, <1>11, <1>12 DEF RegistryNext

(* Failures counted and failures met grow and are forgotten together.       *)
LEMMA EarnedKept == RegistryInv /\ [RegistryNext]_registryVars => Earned'
<1> SUFFICES ASSUME RegistryInv, [RegistryNext]_registryVars PROVE Earned'
  OBVIOUS
<1>0. Shapes /\ Placed /\ Earned
  BY DEF RegistryInv
<1>r. run \in RunRecord
  BY <1>0 DEF Shapes
<1>o. UNCHANGED <<registry, failures, run.reg, run.fails>> => Earned'
  BY <1>0 DEF Earned
<1>1. CASE BeginRun
  <2>1. run'.reg = registry /\ run'.fails = failures
    BY <1>1, NoRunIsRun DEF BeginRun, NoRun
  <2>2. QED
    BY <1>0, <1>1, <2>1 DEF BeginRun, Earned
<1>2. CASE NextLane
  BY <1>r, <1>o, <1>2 DEF NextLane, docs, RunRecord
<1>3. CASE \E c \in Company : StartProbe(c)
  BY <1>r, <1>o, <1>3 DEF StartProbe, docs, RunRecord
<1>4. ASSUME NEW c \in Company, NEW replies \in [1..2 -> Reply], AnswerProbe(c, replies) PROVE Earned'
  <2> DEFINE x == <<c, Lane>>
             result == ProbeResult(replies)
  <2>1. x \in Pairs
    BY <1>0, <1>4, LaneWired DEF Pairs, AnswerProbe, InLane
  <2>2. /\ run'.reg = [run.reg EXCEPT ![x] = Probed(@, result)]
        /\ run'.fails = [run.fails EXCEPT ![x] = IF result = "error" THEN @ + 1 ELSE 0]
        /\ UNCHANGED <<registry, failures>>
    BY <1>r, <1>4 DEF AnswerProbe, docs, RunRecord
  <2>3. run.reg \in [Pairs -> Probe] /\ run.fails \in [Pairs -> Nat] /\ run.reg[x] \in Probe /\ run.fails[x] \in Nat
    BY <1>r, <2>1 DEF RunRecord
  <2>4. EarnedBy(x, run.reg[x], run.fails[x])
    BY <1>0, <2>1 DEF Earned
  <2>5. result \in Result
    BY DEF ProbeResult, Result
  <2> HIDE DEF x, result
  <2>6. run'.reg[x] = Probed(run.reg[x], result) /\ run'.fails[x] = IF result = "error" THEN run.fails[x] + 1 ELSE 0
    BY <2>1, <2>2, <2>3
  <2>7. EarnedBy(x, run'.reg[x], run'.fails[x])
    BY <2>3, <2>4, <2>5, <2>6 DEF EarnedBy, Probed, Probe, Result
  <2>8. \A y \in Pairs \ {x} : run'.reg[y] = run.reg[y] /\ run'.fails[y] = run.fails[y]
    BY <2>2, <2>3
  <2>9. QED
    BY <1>0, <2>2, <2>7, <2>8 DEF Earned
<1>5. CASE EndProbes \/ BudgetExpires \/ EndLane
  BY <1>r, <1>o, <1>5 DEF EndProbes, BudgetExpires, EndLane, docs, RunRecord
<1>6. ASSUME NEW c \in Company, NEW info, NEW page, NEW jobs, FetchBoard(c, info, page, jobs) PROVE Earned'
  <2> DEFINE j == <<c, Lane>>
  <2>1. j \in Pairs /\ j[1] = c
    BY <1>0, <1>6, LaneWired DEF Pairs, FetchBoard, InLane
  <2>2. run.reg \in [Pairs -> Probe] /\ run.fails \in [Pairs -> Nat] /\ run.reg[j] \in Probe /\ run.fails[j] \in Nat
    BY <1>r, <2>1 DEF RunRecord
  <2>3. CASE run' = [run EXCEPT !.todo = @ \ {c}, !.reg[j] = FetchFailed(c, @), !.fails[j] = @ + 1]
    <3>1. /\ run'.reg = [run.reg EXCEPT ![j] = FetchFailed(c, @)]
          /\ run'.fails = [run.fails EXCEPT ![j] = @ + 1]
          /\ UNCHANGED <<registry, failures>>
      BY <1>r, <1>6, <2>3 DEF FetchBoard, docs, RunRecord
    <3>2. EarnedBy(j, run.reg[j], run.fails[j])
      BY <1>0, <2>1 DEF Earned
    <3> HIDE DEF j
    <3>3. run'.reg[j] = FetchFailed(c, run.reg[j]) /\ run'.fails[j] = run.fails[j] + 1
      BY <2>1, <2>2, <3>1
    <3>4. /\ FetchFailed(c, run.reg[j]).fails = run.reg[j].fails + 1
          /\ FetchFailed(c, run.reg[j]).status = IF c \notin Curated /\ run.reg[j].fails + 1 >= StaleAfter
                                                 THEN "stale" ELSE run.reg[j].status
      BY <2>2 DEF FetchFailed, Probe
    <3>5. run.reg[j].fails \in Nat /\ StaleAfter \in Nat
      BY <2>2, CompanyRegistryAssumption DEF Probe
    <3>6. EarnedBy(j, run'.reg[j], run'.fails[j])
      BY <2>1, <2>2, <3>2, <3>3, <3>4, <3>5 DEF EarnedBy
    <3>7. \A y \in Pairs \ {j} : run'.reg[y] = run.reg[y] /\ run'.fails[y] = run.fails[y]
      BY <2>2, <3>1
    <3>8. QED
      BY <1>0, <3>1, <3>6, <3>7 DEF Earned
  <2>4. CASE \/ run' = [run EXCEPT !.todo = @ \ {c}, !.seen = @ \cup {j}, !.jobs = @ \cup {j}, !.new = @ + 1]
             \/ run' = [run EXCEPT !.todo = @ \ {c}]
    BY <1>r, <1>o, <1>6, <2>4 DEF FetchBoard, docs, RunRecord
  <2>5. QED
    BY <1>6, <2>3, <2>4 DEF FetchBoard
<1>7. CASE WriteRegistry
  BY <1>0, <1>r, <1>7 DEF WriteRegistry, Earned, RunRecord
<1>8. CASE WriteSeen \/ Abort
  <2>1. run' = NoRun /\ UNCHANGED <<registry, failures>>
    BY <1>8 DEF WriteSeen, Abort, docs
  <2>2. QED
    BY <1>0, <2>1, NoRunSound DEF Earned
<1>9. CASE UNCHANGED registryVars
  BY <1>o, <1>9 DEF registryVars
<1>10. QED
  BY <1>1, <1>2, <1>3, <1>4, <1>5, <1>6, <1>7, <1>8, <1>9 DEF RegistryNext

(* The lane a budget runs out in is one whose budget had not run out yet.   *)
LEMMA BudgetCounted ==
  ASSUME Shapes, Placed, Counted, run.at \in InLane
  PROVE  /\ Lane \notin run.expired
         /\ IsFiniteSet(run.expired \cup {Lane})
         /\ Cardinality(run.expired \cup {Lane}) = Cardinality(run.expired) + 1
         /\ run.expired \cup {Lane} \subseteq Passed(run.i)
<1>1. run.i \in DOMAIN LaneOrder /\ run.i \in Nat
  BY LaneWired DEF Shapes, RunRecord
<1>2. run.expired \subseteq Passed(run.i - 1) /\ run.expired \subseteq Passed(run.i)
  BY DEF Placed
<1>3. Lane \notin Passed(run.i - 1)
  <2> SUFFICES ASSUME NEW k \in DOMAIN LaneOrder, k <= run.i - 1, LaneOrder[k] = LaneOrder[run.i] PROVE FALSE
    BY DEF Passed, Lane
  <2>1. k = run.i /\ k \in Int
    BY <1>1, CompanyRegistryAssumption
  <2>2. QED
    BY <1>1, <2>1
<1>4. Lane \in Passed(run.i)
  BY <1>1 DEF Passed, Lane
<1>5. Cardinality(run.expired \cup {Lane}) = Cardinality(run.expired) + 1 /\ IsFiniteSet(run.expired \cup {Lane})
  BY <1>2, <1>3, FS_AddElement DEF Counted
<1>6. QED
  BY <1>2, <1>3, <1>4, <1>5

LEMMA PlacedKept == RegistryInv /\ [RegistryNext]_registryVars => Placed'
<1> SUFFICES ASSUME RegistryInv, [RegistryNext]_registryVars PROVE Placed'
  OBVIOUS
<1>0. Shapes /\ Placed /\ Counted
  BY DEF RegistryInv
<1>r. run \in RunRecord /\ run.i \in Nat
  BY <1>0 DEF Shapes, RunRecord
<1>o. UNCHANGED <<run.i, run.expired>> /\ (run'.at \in InLane => run.at \in InLane) => Placed'
  BY <1>0 DEF Placed
<1>1. CASE BeginRun
  <2>1. run'.i = 0 /\ run'.expired = {} /\ run'.at = "lane"
    BY <1>1, NoRunIsRun DEF BeginRun, NoRun
  <2>2. QED
    BY <2>1, CompanyRegistryAssumption DEF Placed, InLane
<1>2. CASE NextLane
  <2>1. CASE run.i = Len(LaneOrder)
    BY <1>r, <1>o, <1>2, <2>1 DEF NextLane, RunRecord, InLane
  <2>2. CASE run.i # Len(LaneOrder)
    <3>1. run'.i = run.i + 1 /\ run'.expired = run.expired
      BY <1>r, <1>2, <2>2 DEF NextLane, RunRecord
    <3>2. run.i + 1 <= Len(LaneOrder) /\ run.i + 1 >= 1 /\ run.i + 1 - 1 = run.i
      BY <1>0, <1>r, <2>2, CompanyRegistryAssumption DEF Placed
    <3>3. Passed(run.i) \subseteq Passed(run.i + 1)
      BY <1>r, CompanyRegistryAssumption DEF Passed
    <3>4. run.expired \subseteq Passed(run.i)
      BY <1>0 DEF Placed
    <3>5. run'.i - 1 = run.i /\ run'.i <= Len(LaneOrder) /\ run'.i >= 1
      BY <1>r, <3>1, <3>2
    <3>6. run'.expired \subseteq Passed(run'.i - 1) /\ run'.expired \subseteq Passed(run'.i)
      BY ONLY <3>1, <3>3, <3>4, <3>5
    <3>7. QED
      BY <3>5, <3>6 DEF Placed
  <2>3. QED
    BY <2>1, <2>2
<1>3. CASE \E c \in Company : StartProbe(c)
  BY <1>r, <1>o, <1>3 DEF StartProbe, RunRecord, InLane
<1>4. CASE \E c \in Company, replies \in [1..2 -> Reply] : AnswerProbe(c, replies)
  BY <1>r, <1>o, <1>4 DEF AnswerProbe, RunRecord, InLane
<1>5. CASE EndProbes \/ EndLane
  BY <1>r, <1>o, <1>5 DEF EndProbes, EndLane, RunRecord, InLane
<1>6. CASE BudgetExpires
  <2>1. run.at \in InLane /\ run'.at = "lane" /\ run'.i = run.i /\ run'.expired = run.expired \cup {Lane}
    BY <1>r, <1>6 DEF BudgetExpires, RunRecord, InLane
  <2>2. QED
    BY <1>0, <2>1, BudgetCounted DEF Placed, InLane
<1>7. ASSUME NEW c \in Company, NEW info, NEW page, NEW jobs, FetchBoard(c, info, page, jobs) PROVE Placed'
  <2>1. UNCHANGED <<run.i, run.expired, run.at>>
    BY <1>r, <1>7 DEF FetchBoard, RunRecord
  <2>2. QED
    BY <1>o, <2>1
<1>8. CASE WriteRegistry
  BY <1>r, <1>o, <1>8 DEF WriteRegistry, RunRecord, InLane
<1>9. CASE WriteSeen \/ Abort
  BY <1>9, NoRunSound DEF WriteSeen, Abort, Placed
<1>10. CASE UNCHANGED registryVars
  BY <1>o, <1>10 DEF registryVars
<1>11. QED
  BY <1>1, <1>2, <1>3, <1>4, <1>5, <1>6, <1>7, <1>8, <1>9, <1>10 DEF RegistryNext

LEMMA CountedKept == RegistryInv /\ [RegistryNext]_registryVars => Counted'
<1> SUFFICES ASSUME RegistryInv, [RegistryNext]_registryVars PROVE Counted'
  OBVIOUS
<1>0. Shapes /\ Placed /\ Counted
  BY DEF RegistryInv
<1>r. run \in RunRecord /\ run.issued \in Nat /\ run.started \in Nat
  BY <1>0 DEF Shapes, RunRecord
<1>n. Cardinality(run.expired) \in Nat /\ MaxProbes \in Nat
  BY <1>0, FS_CardinalityType, CompanyRegistryAssumption DEF Counted
<1>o. UNCHANGED <<run.issued, run.started, run.expired>> /\ (run.at = "asking" <=> run'.at = "asking") => Counted'
  BY <1>0 DEF Counted
<1>1. CASE BeginRun
  <2>1. run'.issued = 0 /\ run'.started = 0 /\ run'.expired = {} /\ run'.at = "lane"
    BY <1>1, NoRunIsRun DEF BeginRun, NoRun
  <2>2. QED
    BY <1>n, <2>1, FS_EmptySet DEF Counted
<1>2. CASE NextLane
  BY <1>r, <1>o, <1>2 DEF NextLane, RunRecord
<1>3. ASSUME NEW c \in Company, StartProbe(c) PROVE Counted'
  <2>1. /\ run.at = "probe" /\ run'.at = "asking" /\ run.issued < MaxProbes
        /\ run'.started = run.started + 1 /\ UNCHANGED <<run.issued, run.expired>>
    BY <1>r, <1>3 DEF StartProbe, RunRecord
  <2>2. run.started <= run.issued + Cardinality(run.expired) /\ IsFiniteSet(run.expired)
    BY <1>0, <2>1 DEF Counted
  <2>3. QED
    BY <1>r, <1>n, <2>1, <2>2 DEF Counted
<1>4. ASSUME NEW c \in Company, NEW replies \in [1..2 -> Reply], AnswerProbe(c, replies) PROVE Counted'
  <2>1. /\ run.at = "asking" /\ run'.at = "probe" /\ run'.issued = run.issued + 1
        /\ UNCHANGED <<run.started, run.expired>>
    BY <1>r, <1>4 DEF AnswerProbe, RunRecord
  <2>2. /\ run.issued < MaxProbes /\ run.started <= run.issued + 1 + Cardinality(run.expired)
        /\ IsFiniteSet(run.expired)
    BY <1>0, <2>1 DEF Counted
  <2>3. QED
    BY <1>r, <1>n, <2>1, <2>2 DEF Counted
<1>5. CASE EndProbes \/ EndLane
  BY <1>r, <1>o, <1>5 DEF EndProbes, EndLane, RunRecord
<1>6. CASE BudgetExpires
  <2>1. /\ run.at \in InLane /\ run'.at = "lane" /\ run'.expired = run.expired \cup {Lane}
        /\ UNCHANGED <<run.issued, run.started>>
    BY <1>r, <1>6 DEF BudgetExpires, RunRecord, InLane
  <2>2. /\ IsFiniteSet(run'.expired) /\ Cardinality(run'.expired) = Cardinality(run.expired) + 1
    BY <1>0, <2>1, BudgetCounted
  <2>3. run.issued <= MaxProbes /\ run.started <= run.issued + 1 + Cardinality(run.expired)
    BY <1>0, <1>r, <1>n DEF Counted
  <2>4. QED
    BY <1>r, <1>n, <2>1, <2>2, <2>3 DEF Counted
<1>7. ASSUME NEW c \in Company, NEW info, NEW page, NEW jobs, FetchBoard(c, info, page, jobs) PROVE Counted'
  <2>1. UNCHANGED <<run.issued, run.started, run.expired, run.at>>
    BY <1>r, <1>7 DEF FetchBoard, RunRecord
  <2>2. QED
    BY <1>o, <2>1
<1>8. CASE WriteRegistry
  BY <1>r, <1>o, <1>8 DEF WriteRegistry, RunRecord
<1>9. CASE WriteSeen \/ Abort
  BY <1>9, NoRunSound DEF WriteSeen, Abort, Counted
<1>10. CASE UNCHANGED registryVars
  BY <1>o, <1>10 DEF registryVars
<1>11. QED
  BY <1>1, <1>2, <1>3, <1>4, <1>5, <1>6, <1>7, <1>8, <1>9, <1>10 DEF RegistryNext

----------------------------------------------------------------------------
(* A company is locked out only by failures that calls have really met in   *)
(* runs that came to their end, a curated one never; and a run begins at    *)
(* most maxProbesPerRun probes and one more for each lane whose budget ran  *)
(* out (core/company, source.ts).                                           *)
THEOREM RegistryHolds == RegistrySpec => []RegistrySound
<1>1. RegistryInit => RegistryInv
  <2> SUFFICES ASSUME RegistryInit PROVE RegistryInv
    OBVIOUS
  <2>1. run = NoRun /\ run \in RunRecord
    BY NoRunIsRun DEF RegistryInit
  <2>2. \A x \in Pairs : registry[x] = Unprobed \/ registry[x] = [status |-> "found", day |-> 0, fails |-> 0]
    BY DEF RegistryInit
  <2>3. registry \in [Pairs -> Probe] /\ failures \in [Pairs -> Nat] /\ failures = Zero
    BY DEF RegistryInit, Unprobed, Probe, Result, Zero
  <2>4. Shapes
    BY <2>1, <2>3, CompanyRegistryAssumption DEF RegistryInit, Shapes
  <2>5. \A x \in Pairs : registry[x].fails = 0 /\ registry[x].status # "stale" /\ failures[x] = 0
    BY <2>2, <2>3 DEF Unprobed, Zero
  <2>6. Earned
    BY <2>1, <2>5, NoRunSound DEF Earned, EarnedBy
  <2>7. Placed /\ Counted
    BY <2>1, NoRunSound DEF Placed, Counted
  <2>8. QED
    BY <2>4, <2>6, <2>7 DEF RegistryInv
<1>2. RegistryInv /\ [RegistryNext]_registryVars => RegistryInv'
  BY ShapesKept, EarnedKept, PlacedKept, CountedKept DEF RegistryInv
<1>3. RegistryInv => RegistrySound
  <2> SUFFICES ASSUME RegistryInv PROVE RegistrySound
    OBVIOUS
  <2>1. LockoutEarned
    BY DEF RegistryInv, Earned, EarnedBy, LockoutEarned
  <2>2. /\ run.started \in Nat /\ run.issued \in Nat /\ MaxProbes \in Nat /\ Cardinality(run.expired) \in Nat
    BY FS_CardinalityType, CompanyRegistryAssumption DEF RegistryInv, Shapes, RunRecord, Counted
  <2>3. ProbesCapped
    BY <2>2 DEF RegistryInv, Counted, ProbesCapped
  <2>4. QED
    BY <2>1, <2>3 DEF RegistrySound
<1>4. QED
  BY <1>1, <1>2, <1>3, PTL DEF RegistrySpec

-----------------------------------------------------------------------------
(* The move of a data home: safe for every set of profiles and any number of*)
(* calls, writers and stops.  What makes MoveSound inductive is what the   *)
(* command's one look at the destination leaves true while it renames: an  *)
(* item still to be moved has nothing in its way that was not put there    *)
(* after the look, and an item at both places was made by someone else.    *)

(* What is still planned is free at the destination, or was written to in   *)
(* the middle of the command.                                               *)
PlanFree == plan # None => \A i \in plan : home[i] = None \/ "crossed" \in cause

(* Only a run in the checkout or the board makes an item stand twice.       *)
TwiceByOthers == \A i \in Item : source[i] # None /\ home[i] # None => cause # {}

MoveInv == MoveSound /\ PlanFree /\ TwiceByOthers

LEMMA TypeKept == MoveTypeOK /\ [MoveNext]_moveVars => MoveTypeOK'
<1> SUFFICES ASSUME MoveTypeOK, [MoveNext]_moveVars PROVE MoveTypeOK'
  OBVIOUS
<1> USE DEF MoveTypeOK
<1>1. CASE Call
  BY <1>1 DEF Call, Taken
<1>2. CASE Stop \/ StartRun \/ EndRun \/ ServeSwitch
  BY <1>2 DEF Stop, StartRun, EndRun, ServeSwitch
<1>3. ASSUME NEW i \in Item, Move(i) PROVE MoveTypeOK'
  <2>1. source' = [source EXCEPT ![i] = None] /\ home' = [home EXCEPT ![i] = source[i]]
    BY <1>3 DEF Move, Left
  <2>2. source' \in [Item -> {None, "checkout", "run"}]
    BY <2>1
  <2>3. home' \in [Item -> {None, "checkout", "run", "board"}]
    BY <2>1
  <2>4. plan' = None \/ plan' \subseteq {j \in Item : source'[j] # None}
    BY <1>3, <2>1 DEF Move
  <2>5. QED
    BY <2>2, <2>3, <2>4
<1>4. ASSUME NEW i \in Item, BoardWrites(i) PROVE MoveTypeOK'
  <2>1. home' \in [Item -> {None, "checkout", "run", "board"}]
    BY <1>4 DEF BoardWrites
  <2>2. QED
    BY <1>4, <2>1 DEF BoardWrites
<1>5. ASSUME NEW p \in Profile, RunWrites(p) PROVE MoveTypeOK'
  <2>1. p \in Item /\ source' = [source EXCEPT ![p] = "run"] /\ source[p] = None
    BY <1>5 DEF RunWrites, Item
  <2>2. source' \in [Item -> {None, "checkout", "run"}]
    BY <2>1
  <2>3. plan = None \/ plan \subseteq {j \in Item : source'[j] # None}
    BY <2>1
  <2>4. QED
    BY <1>5, <2>2, <2>3 DEF RunWrites
<1>6. CASE UNCHANGED moveVars
  BY <1>6 DEF moveVars
<1>7. QED
  BY <1>1, <1>2, <1>3, <1>4, <1>5, <1>6 DEF MoveNext

LEMMA InvKept == MoveInv /\ [MoveNext]_moveVars => MoveInv'
<1> SUFFICES ASSUME MoveInv, [MoveNext]_moveVars PROVE MoveInv'
  OBVIOUS
<1>0. MoveTypeOK /\ MoveTypeOK'
  BY TypeKept DEF MoveInv, MoveSound
<1> USE DEF MoveInv, MoveSound, NothingReplaced, RerunAccepted, PlanFree, TwiceByOthers
<1>1. CASE Call
  <2>1. CASE Taken({i \in Item : source[i] # None}) = {}
    BY <1>0, <1>1, <2>1 DEF Call, Taken
  <2>2. CASE Taken({i \in Item : source[i] # None}) # {}
    BY <1>0, <1>1, <2>2 DEF Call, Taken
  <2>3. QED
    BY <2>1, <2>2
<1>2. CASE Stop \/ StartRun \/ EndRun \/ ServeSwitch
  BY <1>0, <1>2 DEF Stop, StartRun, EndRun, ServeSwitch
<1>3. ASSUME NEW i \in Item, Move(i) PROVE MoveInv'
  <2>1. /\ source' = [source EXCEPT ![i] = None] /\ home' = [home EXCEPT ![i] = source[i]]
        /\ plan # None /\ i \in plan /\ plan \subseteq Item
        /\ lost' = (lost \/ home[i] # None) /\ cause' = cause /\ refused' = refused
        /\ plan' = None \/ plan' = plan \ {i}
    BY <1>0, <1>3 DEF Move, Left, MoveTypeOK
  <2>2. \A j \in Item \ {i} : source'[j] = source[j] /\ home'[j] = home[j]
    BY <1>0, <2>1 DEF MoveTypeOK
  <2>3. source'[i] = None
    BY <1>0, <2>1 DEF MoveTypeOK
  <2>4. NothingReplaced'
    BY <2>1
  <2>5. PlanFree'
    BY <2>1, <2>2
  <2>6. TwiceByOthers'
    BY <2>1, <2>2, <2>3
  <2>7. QED
    BY <1>0, <2>1, <2>4, <2>5, <2>6
<1>4. ASSUME NEW i \in Item, BoardWrites(i) PROVE MoveInv'
  BY <1>0, <1>4 DEF BoardWrites, MoveTypeOK
<1>5. ASSUME NEW p \in Profile, RunWrites(p) PROVE MoveInv'
  BY <1>0, <1>5 DEF RunWrites, MoveTypeOK
<1>6. CASE UNCHANGED moveVars
  BY <1>0, <1>6 DEF moveVars
<1>7. QED
  BY <1>1, <1>2, <1>3, <1>4, <1>5, <1>6 DEF MoveNext

(* Nothing at the data home is renamed over unless the board wrote it after *)
(* the command had looked, and a stopped move can be made again unless      *)
(* someone wrote to either home (migrate_home.ts: the check of the whole    *)
(* plan, then the renames).                                                 *)
THEOREM MoveHolds == MoveSpec => []MoveSound
<1>1. MoveInit => MoveInv
  BY DEF MoveInit, MoveInv, MoveSound, MoveTypeOK, NothingReplaced, RerunAccepted, PlanFree, TwiceByOthers
<1>2. MoveInv => MoveSound
  BY DEF MoveInv
<1>3. QED
  BY <1>1, <1>2, InvKept, PTL DEF MoveSpec

-----------------------------------------------------------------------------
(* The notice of a failed run, for any failures, any length of a day and   *)
(* any number of faults.                                                   *)

Ending == [action : {"send", "remind", "suppress"}, step : {"notify", "write"}, doc : NoticeRecord]

NoticeTypes ==
  /\ now \in 0 .. MaxHours
  /\ doc \in NoticeRecord \cup {Nil} /\ ending \in Ending \cup {Nil}
  /\ told \in [Failure -> Nat \cup {Nil}]
  /\ inRow \in [signature : Failure \cup {Nil}, count : Nat]
  /\ silenced \in BOOLEAN

(* A record speaks of the past, and its failure was told no earlier than it *)
(* says, but for a notice that no notifier delivered.                       *)
InPast(r) == r.first <= r.last /\ r.last <= now /\ r.count # 0
ToldBy(r) == "undelivered" \in lapses \/ (told[r.signature] # Nil /\ r.last <= told[r.signature])

(* So is the one that a run is about to write, from its notice on; what it  *)
(* keeps back was told within the day.                                      *)
OnRecord == doc # Nil => InPast(doc) /\ ToldBy(doc)
ToBeWritten ==
  ending # Nil =>
    /\ InPast(ending.doc)
    /\ ending.step = "write" \/ ending.action = "suppress" => ToldBy(ending.doc)
    /\ ending.action = "suppress" => now - ending.doc.last < Day

(* While nothing was lost or recovered from, the record's count is that of  *)
(* the failures in a row.                                                   *)
CountsRow(r) == r.signature = inRow.signature /\ r.count = inRow.count
CountKept ==
  lapses \subseteq {"undelivered"} =>
    IF ending # Nil THEN CountsRow(ending.doc)
    ELSE IF doc # Nil THEN CountsRow(doc)
    ELSE inRow.signature = Nil /\ inRow.count = 0

NoticeInv == NoticeTypes /\ OnRecord /\ ToBeWritten /\ CountKept /\ KeptBackWasTold

(* The record after one more failure of its kind. *)
LEMMA AgainIs ==
  ASSUME NEW r \in NoticeRecord, NEW remind, now \in Nat
  PROVE  /\ Again(r, remind) \in NoticeRecord
         /\ Again(r, remind).signature = r.signature /\ Again(r, remind).first = r.first
         /\ Again(r, remind).count = r.count + 1
         /\ Again(r, remind).last = IF remind THEN now ELSE r.last
<1>1. r \in [signature : Failure, first : Nat, last : Nat, count : Nat]
  BY DEF NoticeRecord
<1>2. r.count + 1 \in Nat /\ (IF remind THEN now ELSE r.last) \in Nat
  BY <1>1
<1>3. QED
  BY <1>1, <1>2 DEF Again, NoticeRecord

LEMMA DecisionRecorded ==
  ASSUME NoticeTypes, NEW f \in Failure, RunFails(f)
  PROVE  ending' \in Ending /\ ending' # Nil
<1>1. PICK prior \in {doc, Nil} :
        ending' = [action |-> Action(prior, f), step |-> "notify",
                   doc |-> IF prior # Nil /\ Action(prior, f) # "send"
                           THEN Again(prior, Action(prior, f) = "remind") ELSE First(f)]
  BY DEF RunFails
<1>2. now \in Nat
  BY FailureNoticeAssumption DEF NoticeTypes
<1>3. First(f) \in NoticeRecord
  BY <1>2 DEF First, NoticeRecord
<1>4. prior # Nil => Again(prior, Action(prior, f) = "remind") \in NoticeRecord
  BY <1>2, AgainIs DEF NoticeTypes
<1>5. Action(prior, f) \in {"send", "remind", "suppress"}
  BY DEF Action
<1>6. ending' \in Ending
  BY <1>1, <1>3, <1>4, <1>5 DEF Ending
<1>7. QED
  BY <1>6, FailureNoticeAssumption DEF Ending

LEMMA NoticeTypesKept == NoticeTypes /\ OnRecord /\ [NoticeNext]_noticeVars => NoticeTypes'
<1> SUFFICES ASSUME NoticeTypes, OnRecord, [NoticeNext]_noticeVars PROVE NoticeTypes'
  OBVIOUS
<1> USE FailureNoticeAssumption DEF NoticeTypes
<1>1. ASSUME NEW f \in Failure, RunFails(f) PROVE NoticeTypes'
  <2>5. ending' \in Ending
    BY <1>1, DecisionRecorded
  <2>6. inRow' \in [signature : Failure \cup {Nil}, count : Nat]
    BY <1>1 DEF RunFails
  <2>7. QED
    BY <1>1, <2>5, <2>6 DEF RunFails
<1>2. CASE Notify
  <2>1. ending \in Ending /\ ending.doc.signature \in Failure
    BY <1>2 DEF Notify, Ending, NoticeRecord
  <2>2. ending' \in Ending
    BY <1>2, <2>1 DEF Notify, Ending
  <2>3. told' \in [Failure -> Nat \cup {Nil}]
    BY <1>2, <2>1 DEF Notify
  <2>4. silenced' \in BOOLEAN
    BY <1>2 DEF Notify
  <2>5. QED
    BY <1>2, <2>2, <2>3, <2>4 DEF Notify
<1>3. CASE Write
  BY <1>3 DEF Write, Ending
<1>4. CASE Dies \/ HourPasses
  BY <1>4 DEF Dies, HourPasses
<1>5. CASE RunPasses
  BY <1>5 DEF RunPasses
<1>6. CASE UNCHANGED noticeVars
  BY <1>6 DEF noticeVars
<1>7. QED
  BY <1>1, <1>2, <1>3, <1>4, <1>5, <1>6 DEF NoticeNext

(* What a failing run decides: the record to write tells the truth of now,  *)
(* and a failure that is kept back is the recorded one, of less than a day. *)
LEMMA Decided ==
  ASSUME NoticeInv, NEW f \in Failure, RunFails(f)
  PROVE  /\ ending' # Nil /\ ending'.step = "notify"
         /\ InPast(ending'.doc)
         /\ ending'.action = "suppress" => ToldBy(ending'.doc) /\ now - ending'.doc.last < Day
         /\ lapses' \subseteq {"undelivered"} =>
              ending'.doc.signature = inRow'.signature /\ ending'.doc.count = inRow'.count
<1> USE FailureNoticeAssumption
<1>1. PICK prior \in {doc, Nil} :
        /\ IF prior = doc THEN UNCHANGED <<faults, lapses>> ELSE Faulty("unread")
        /\ ending' = [action |-> Action(prior, f), step |-> "notify",
                      doc |-> IF prior # Nil /\ Action(prior, f) # "send"
                              THEN Again(prior, Action(prior, f) = "remind") ELSE First(f)]
  BY DEF RunFails
<1>2. inRow' = [signature |-> f, count |-> IF inRow.signature = f THEN inRow.count + 1 ELSE 1]
  BY DEF RunFails
<1>3. NoticeTypes /\ NoticeTypes'
  BY NoticeTypesKept DEF NoticeInv, NoticeNext
<1>4. ending' # Nil
  BY <1>3, DecisionRecorded
<1>5. CASE prior = Nil \/ Action(prior, f) = "send"
  <2>1. ending'.doc = First(f) /\ ending'.action = "send"
    BY <1>1, <1>5 DEF Action
  <2>2. InPast(First(f))
    BY <1>3 DEF InPast, First, NoticeTypes
  <2>3. lapses' \subseteq {"undelivered"} => inRow'.count = 1 /\ inRow'.signature = f
    <3> SUFFICES ASSUME lapses' \subseteq {"undelivered"} PROVE inRow.signature = f => inRow.count = 0
      BY <1>2
    <3>1. prior = doc /\ lapses' = lapses
      BY <1>1 DEF Faulty
    <3>2. CASE doc = Nil
      BY <3>1, <3>2 DEF NoticeInv, CountKept, RunFails
    <3>3. CASE doc # Nil
      BY <1>5, <3>1, <3>3 DEF NoticeInv, CountKept, CountsRow, RunFails, Action
    <3>4. QED
      BY <3>2, <3>3
  <2>4. QED
    BY <1>1, <1>2, <1>4, <2>1, <2>2, <2>3 DEF First
<1>6. CASE prior # Nil /\ Action(prior, f) # "send"
  <2>1. prior = doc /\ doc \in NoticeRecord /\ UNCHANGED lapses /\ doc.signature = f
    BY <1>1, <1>3, <1>6 DEF NoticeTypes, Action
  <2>2. ending'.doc = Again(doc, Action(doc, f) = "remind") /\ ending'.action = Action(doc, f)
    BY <1>1, <1>6, <2>1
  <2> DEFINE remind == Action(doc, f) = "remind"
  <2>8. now \in Nat /\ doc.first \in Nat /\ doc.last \in Nat /\ doc.count \in Nat
    BY <1>3, <2>1 DEF NoticeTypes, NoticeRecord
  <2>9. /\ ending'.doc.signature = f /\ ending'.doc.first = doc.first
        /\ ending'.doc.count = doc.count + 1
        /\ ending'.doc.last = IF remind THEN now ELSE doc.last
    <3>1. Again(doc, remind).signature = doc.signature /\ Again(doc, remind).first = doc.first
          /\ Again(doc, remind).count = doc.count + 1
          /\ Again(doc, remind).last = IF remind THEN now ELSE doc.last
      <4> HIDE DEF remind
      <4>1. QED
        BY <2>1, <2>8, AgainIs
    <3>2. QED
      BY <2>1, <2>2, <3>1
  <2>3. InPast(doc) /\ ToldBy(doc)
    BY <2>1, <1>6 DEF NoticeInv, OnRecord
  <2>4. InPast(ending'.doc)
    BY <2>3, <2>8, <2>9 DEF InPast
  <2>5. ASSUME ending'.action = "suppress" PROVE ToldBy(ending'.doc) /\ now - ending'.doc.last < Day
    <3>1. ending'.doc.last = doc.last /\ ending'.doc.signature = doc.signature
      BY <2>1, <2>2, <2>5, <2>9
    <3>2. now - doc.last < Day
      BY <1>3, <2>1, <2>2, <2>5, <1>6 DEF Action, NoticeTypes, NoticeRecord
    <3>3. QED
      BY <2>3, <3>1, <3>2 DEF ToldBy
  <2>6. ASSUME lapses' \subseteq {"undelivered"}
        PROVE ending'.doc.signature = inRow'.signature /\ ending'.doc.count = inRow'.count
    <3>1. doc.count = inRow.count /\ inRow.signature = f
      BY <1>6, <2>1, <2>6 DEF NoticeInv, CountKept, CountsRow, RunFails
    <3>2. ending'.doc.count = doc.count + 1 /\ ending'.doc.signature = f
      BY <2>9
    <3>3. QED
      BY <1>2, <3>1, <3>2
  <2>7. QED
    BY <1>1, <1>4, <2>4, <2>5, <2>6
<1>7. QED
  BY <1>5, <1>6

LEMMA NoticeInvKept == NoticeInv /\ [NoticeNext]_noticeVars => NoticeInv'
<1> SUFFICES ASSUME NoticeInv, [NoticeNext]_noticeVars PROVE NoticeInv'
  OBVIOUS
<1> USE FailureNoticeAssumption
<1>0. NoticeTypes /\ NoticeTypes'
  BY NoticeTypesKept DEF NoticeInv
<1>1. ASSUME NEW f \in Failure, RunFails(f) PROVE NoticeInv'
  <2>1. UNCHANGED <<now, doc, told, silenced>> /\ lapses \subseteq lapses'
    BY <1>1 DEF RunFails, Faulty
  <2>2. OnRecord'
    BY <2>1 DEF NoticeInv, OnRecord, InPast, ToldBy
  <2>3. ToBeWritten'
    BY <1>1, <2>1, Decided DEF ToBeWritten, InPast, ToldBy
  <2>4. CountKept'
    BY <1>1, Decided DEF CountKept, CountsRow
  <2>5. QED
    BY <1>0, <2>1, <2>2, <2>3, <2>4 DEF NoticeInv, KeptBackWasTold
<1>2. CASE Notify
  <2> DEFINE f == ending.doc.signature
  <2>1. /\ ending \in Ending /\ f \in Failure /\ ending.doc.last \in Nat /\ now \in Nat
        /\ UNCHANGED <<now, doc, inRow>> /\ lapses \subseteq lapses'
        /\ told \in [Failure -> Nat \cup {Nil}]
    BY <1>0, <1>2 DEF Notify, NoticeTypes, Ending, NoticeRecord, Faulty
  <2>2. ending' # Nil /\ ending'.doc = ending.doc /\ ending'.step = "write" /\ ending'.action = ending.action
    BY <1>0, <1>2, <2>1 DEF Notify, NoticeTypes, Ending
  <2>3. InPast(ending.doc) /\ (ending.action = "suppress" => ToldBy(ending.doc) /\ now - ending.doc.last < Day)
    BY <1>2 DEF Notify, NoticeInv, ToBeWritten
  <2>4. told' = told \/ told' = [told EXCEPT ![f] = now]
    BY <1>2 DEF Notify
  <2>5. \A g \in Failure : told'[g] = told[g] \/ told'[g] = now
    BY <2>1, <2>4
  <2>6. OnRecord'
    <3> SUFFICES ASSUME doc # Nil PROVE InPast(doc)' /\ ToldBy(doc)'
      BY <2>1 DEF OnRecord
    <3>1. doc \in NoticeRecord /\ doc.signature \in Failure /\ doc.last \in Nat
      BY <1>0 DEF NoticeTypes, NoticeRecord
    <3>2. InPast(doc) /\ ToldBy(doc)
      BY DEF NoticeInv, OnRecord
    <3>3. told'[doc.signature] = told[doc.signature] \/ told'[doc.signature] = now
      BY <2>5, <3>1
    <3>4. QED
      BY <2>1, <3>1, <3>2, <3>3 DEF InPast, ToldBy
  <2>7. ToldBy(ending.doc)'
    <3>1. CASE ending.action = "suppress"
      BY <1>2, <2>1, <2>2, <2>3, <3>1 DEF Notify, ToldBy
    <3>2. CASE ending.action # "suppress" /\ told' = [told EXCEPT ![f] = now]
      <4>1. told'[f] = now
        BY <2>1, <3>2
      <4>2. QED
        BY <2>1, <2>2, <2>3, <4>1 DEF ToldBy, InPast
    <3>3. CASE ending.action # "suppress" /\ Faulty("undelivered")
      BY <3>3 DEF Faulty, ToldBy
    <3>4. QED
      BY <1>2, <3>1, <3>2, <3>3 DEF Notify
  <2>8. ToBeWritten'
    BY <2>1, <2>2, <2>3, <2>7 DEF ToBeWritten, InPast, ToldBy
  <2>9. CountKept'
    BY <1>2, <2>1, <2>2 DEF NoticeInv, CountKept, CountsRow, Notify
  <2>10. KeptBackWasTold'
    <3>1. CASE ending.action = "suppress"
      <4>1. silenced' = (silenced \/ (IF told[f] = Nil THEN TRUE ELSE now - told[f] >= Day)) /\ lapses' = lapses
        BY <1>2, <3>1 DEF Notify
      <4>2. "undelivered" \in lapses \/ (told[f] \in Nat /\ ending.doc.last <= told[f] /\ told[f] # Nil)
        BY <2>1, <2>3, <3>1 DEF ToldBy
      <4>3. "undelivered" \in lapses \/ ~(now - told[f] >= Day)
        BY <2>1, <2>3, <3>1, <4>2
      <4>4. QED
        BY <4>1, <4>2, <4>3 DEF NoticeInv, KeptBackWasTold
    <3>2. CASE ending.action # "suppress"
      BY <1>2, <2>1, <3>2 DEF Notify, NoticeInv, KeptBackWasTold
    <3>3. QED
      BY <3>1, <3>2
  <2>11. QED
    BY <1>0, <2>6, <2>8, <2>9, <2>10 DEF NoticeInv
<1>3. CASE Write
  <2>1. /\ ending # Nil /\ ending' = Nil /\ UNCHANGED <<now, told, inRow, silenced>>
        /\ (doc' = ending.doc /\ UNCHANGED lapses) \/ (doc' = doc /\ lapses' = lapses \cup {"unwritten"})
    BY <1>3 DEF Write, Faulty
  <2>2. InPast(ending.doc) /\ ToldBy(ending.doc)
    BY <1>3 DEF Write, NoticeInv, ToBeWritten
  <2>3. OnRecord'
    BY <2>1, <2>2 DEF NoticeInv, OnRecord, InPast, ToldBy
  <2>4. ending.doc # Nil
    BY <1>0, <2>1 DEF NoticeTypes, Ending
  <2>5. CountKept'
    <3> SUFFICES ASSUME lapses' \subseteq {"undelivered"} PROVE CountsRow(doc)' /\ doc' # Nil
      BY <2>1 DEF CountKept
    <3>1. doc' = ending.doc /\ lapses' = lapses
      BY <2>1
    <3>2. CountsRow(ending.doc)
      BY <2>1, <3>1 DEF NoticeInv, CountKept
    <3>3. QED
      BY <2>1, <2>4, <3>1, <3>2 DEF CountsRow
  <2>6. QED
    BY <1>0, <2>1, <2>3, <2>5 DEF NoticeInv, ToBeWritten, KeptBackWasTold
<1>4. CASE Dies
  BY <1>0, <1>4 DEF NoticeInv, Dies, Faulty, OnRecord, InPast, ToldBy, ToBeWritten, CountKept, KeptBackWasTold
<1>5. CASE RunPasses
  <2>1. OnRecord' /\ ToBeWritten' /\ KeptBackWasTold'
    BY <1>5 DEF NoticeInv, RunPasses, OnRecord, InPast, ToldBy, ToBeWritten, KeptBackWasTold
  <2>2. CountKept'
    BY <1>5 DEF RunPasses, CountKept
  <2>3. QED
    BY <1>0, <2>1, <2>2 DEF NoticeInv
<1>6. CASE HourPasses
  <2>1. OnRecord'
    <3> SUFFICES ASSUME doc # Nil PROVE InPast(doc)' /\ ToldBy(doc)'
      BY <1>6 DEF OnRecord, HourPasses
    <3>1. doc.last \in Nat /\ now \in Nat /\ now' = now + 1
      BY <1>0, <1>6 DEF NoticeTypes, NoticeRecord, HourPasses
    <3>2. QED
      BY <1>6, <3>1 DEF NoticeInv, OnRecord, InPast, ToldBy, HourPasses
  <2>2. ToBeWritten' /\ CountKept' /\ KeptBackWasTold'
    BY <1>6 DEF NoticeInv, HourPasses, ToBeWritten, CountKept, CountsRow, KeptBackWasTold
  <2>3. QED
    BY <1>0, <2>1, <2>2 DEF NoticeInv
<1>7. CASE UNCHANGED noticeVars
  BY <1>0, <1>7 DEF noticeVars, NoticeInv, OnRecord, InPast, ToldBy, ToBeWritten, CountKept, CountsRow, KeptBackWasTold
<1>8. QED
  BY <1>1, <1>2, <1>3, <1>4, <1>5, <1>6, <1>7 DEF NoticeNext

(* A failure is kept back only when the same one was told less than a day   *)
(* before, unless a notice was not delivered by any notifier; and a         *)
(* reminder counts the failures in a row, unless its record was lost, could *)
(* not be read, or a run passed in between (run_failure_notice.ts and       *)
(* notify/dedup.ts), for any failures, any day's length and any faults.     *)
THEOREM NoticeHolds == NoticeSpec => []NoticeSound
<1>1. NoticeInit => NoticeInv
  <2> SUFFICES ASSUME NoticeInit PROVE NoticeInv
    OBVIOUS
  <2>1. inRow \in [signature : Failure \cup {Nil}, count : Nat] /\ inRow.signature = Nil /\ inRow.count = 0
    BY DEF NoticeInit
  <2>2. told \in [Failure -> Nat \cup {Nil}]
    BY DEF NoticeInit
  <2>3. QED
    <3>0. MaxHours \in Nat
      BY FailureNoticeAssumption
    <3>1. NoticeTypes
      <4>1. now \in 0 .. MaxHours
        BY <3>0 DEF NoticeInit
      <4>2. doc \in NoticeRecord \cup {Nil} /\ ending \in Ending \cup {Nil} /\ silenced \in BOOLEAN
        BY DEF NoticeInit
      <4>3. QED
        BY <2>1, <2>2, <4>1, <4>2 DEF NoticeTypes
    <3>2. OnRecord /\ ToBeWritten /\ CountKept /\ KeptBackWasTold
      BY <2>1 DEF NoticeInit, OnRecord, ToBeWritten, CountKept, KeptBackWasTold
    <3>3. QED
      BY <3>1, <3>2 DEF NoticeInv
<1>2. NoticeInv => NoticeSound
  <2> SUFFICES ASSUME NoticeInv PROVE NoticeSound
    OBVIOUS
  <2>1. NoticeTypeOK
    BY FailureNoticeAssumption DEF NoticeInv, NoticeTypes, OnRecord, InPast, NoticeTypeOK, NoticeRecord
  <2>2. CountedInRow
    BY DEF NoticeInv, CountKept, CountsRow, CountedInRow
  <2>3. QED
    BY <2>1, <2>2 DEF NoticeSound, NoticeInv
<1>3. QED
  BY <1>1, <1>2, NoticeInvKept, PTL DEF NoticeSpec

-----------------------------------------------------------------------------
(* A release, for any number of calls, stops, and of things that others do *)
(* meanwhile.  The branch once pushed holds the whole release, and after   *)
(* the merge there is nothing left to open a pull request of, so the       *)
(* release is merged once; the tag follows from that.                      *)

(* What is pushed is whole, and a pull request, open or next, has a branch. *)
PushedWhole ==
  /\ remote # Absent => remote = Part
  /\ "OPEN" \in prs \/ at = "pr" => remote # Absent

(* The branch here is whole too, but before its first push. *)
HereWhole == local # Absent => local = Part \/ (remote = Absent /\ merged = 0 /\ head = "release")

(* The command brings the notes, the version and the badge together. *)
Gathered ==
  /\ at \in {"branch", "pkg", "badge", "commit"} => "notes" \in tree
  /\ at \in {"badge", "commit"} => "pkg" \in tree
  /\ at = "commit" => "badge" \in tree
  /\ at = "push" => local = Part

(* A new branch is cut from a main that has the merge, if there was one. *)
CutFresh == at = "branch" /\ head = "main" /\ remote = Absent => merged <= pulled

(* The release is merged once, and whole. *)
MergedOnce ==
  /\ merged # 0 => content = Part /\ "OPEN" \notin prs
  /\ "MERGED" \in prs \/ at = "checkout" => merged # 0

Tagged == {tagHere, tagThere} \subseteq {0, merged}

(* What is about to be merged was green when it was looked at. *)
LookedAt == at \in {"confirm", "merge"} => checks = "green" \/ "pushed" \in crossed

ReleaseInv ==
  /\ ReleaseTypeOK /\ PushedWhole /\ HereWhole /\ Gathered /\ CutFresh
  /\ MergedOnce /\ Tagged /\ LookedAt /\ MergedChecked

LEMMA ReleaseTypesKept == ReleaseInv /\ [ReleaseNext]_releaseVars => ReleaseTypeOK'
<1> SUFFICES ASSUME ReleaseInv, [ReleaseNext]_releaseVars PROVE ReleaseTypeOK'
  OBVIOUS
<1>0. ReleaseTypeOK /\ PushedWhole /\ HereWhole
  BY DEF ReleaseInv
<1>1. \A commit : OnMain(commit) \subseteq Part
  BY <1>0 DEF OnMain, ReleaseTypeOK
<1>2. Committed \subseteq Part
  BY <1>0, <1>1 DEF Committed, ReleaseTypeOK
<1> USE DEF ReleaseTypeOK, PrState
<1>3. CASE Preflight \/ NoMerge \/ WaitForChecks \/ ConfirmMerge \/ Fails \/ Tag \/ PushTag \/ CheckRun \/ OthersPush \/ ClosedByHand
  BY <1>0, <1>3 DEF Preflight, NoMerge, WaitForChecks, ConfirmMerge, Fails, Tag, PushTag, CheckRun, OthersPush, ClosedByHand,
                    Moved, hub, clone, seen
<1>4. CASE EnsureBranch
  BY <1>0, <1>2, <1>4, ReleaseAssumption DEF EnsureBranch, hub
<1>5. CASE VersionSync \/ EnsureCommit \/ WriteNotes
  BY <1>0, <1>5, ReleaseAssumption DEF VersionSync, EnsureCommit, WriteNotes, Part, hub
<1>6. CASE EnsurePush \/ EnsurePrCreated
  BY <1>0, <1>6 DEF EnsurePush, EnsurePrCreated, clone
<1>7. CASE MergePr
  <2>1. main' \in Nat \ {0} /\ main <= main' /\ merged' \in 0 .. main' /\ content' \subseteq Part
    BY <1>0, <1>7 DEF MergePr
  <2>2. prs' \subseteq {"OPEN", "MERGED", "CLOSED"}
    BY <1>0, <1>7 DEF MergePr
  <2>3. pulled' \in {pulled, main'} /\ tree' \in {tree, content'}
    BY <1>7 DEF MergePr
  <2>4. (remote' = remote \/ remote' = Absent) /\ ((local' = local /\ head' = head) \/ (local' = Absent /\ head' = "main"))
    BY <1>7 DEF MergePr
  <2>5. pulled' \in Nat \ {0} /\ pulled' <= main'
    BY <1>0, <2>1, <2>3
  <2>6. QED
    BY <1>0, <2>1, <2>2, <2>3, <2>4, <2>5
<1>8. CASE CheckoutMain \/ Pull \/ PullMain
  <2>1. (tree' = tree \/ tree' = OnMain(pulled) \/ tree' = OnMain(main)) /\ pulled' \in {pulled, main}
    BY <1>8 DEF CheckoutMain, Pull, PullMain, Pulls
  <2>2. tree' \subseteq Part
    BY <1>0, <1>1, <2>1
  <2>3. UNCHANGED <<hub, local>> /\ head' \in {head, "main"}
    BY <1>8 DEF CheckoutMain, Pull, PullMain
  <2>4. QED
    BY <1>0, <2>1, <2>2, <2>3 DEF hub
<1>9. CASE Clone
  BY <1>0, <1>1, <1>9 DEF Clone, hub
<1>10. CASE CheckoutBranch
  BY <1>0, <1>10 DEF CheckoutBranch, hub
<1>11. CASE OthersMerge \/ MergedByHand
  <2>1. main' = main + 1 /\ UNCHANGED <<remote, clone>>
    BY <1>11 DEF OthersMerge, MergedByHand, Moved
  <2>2. merged' \in {merged, main + 1} /\ (content' = content \/ (content' = remote /\ "OPEN" \in prs))
    BY <1>11 DEF OthersMerge, MergedByHand
  <2>3. merged' \in 0 .. main' /\ main' \in Nat \ {0} /\ pulled <= main'
    BY <1>0, <2>1, <2>2
  <2>4. prs' \subseteq {"OPEN", "MERGED", "CLOSED"}
    BY <1>0, <1>11 DEF OthersMerge, MergedByHand
  <2>5. content' \subseteq Part
    BY <1>0, <2>2 DEF PushedWhole
  <2>6. QED
    BY <1>0, <2>1, <2>3, <2>4, <2>5 DEF clone
<1>12. CASE UNCHANGED releaseVars
  BY <1>0, <1>12 DEF releaseVars
<1>13. QED
  BY <1>3, <1>4, <1>5, <1>6, <1>7, <1>8, <1>9, <1>10, <1>11, <1>12 DEF ReleaseNext

(* A main that has the merge has the release. *)
LEMMA MainWhole ==
  ASSUME ReleaseInv, NEW commit \in Nat
  PROVE  OnMain(commit) = IF merged # 0 /\ merged <= commit THEN Part ELSE {}
BY DEF ReleaseInv, MergedOnce, OnMain, ReleaseTypeOK

LEMMA ReleaseInvKept == ReleaseInv /\ [ReleaseNext]_releaseVars => ReleaseInv'
<1> SUFFICES ASSUME ReleaseInv, [ReleaseNext]_releaseVars PROVE ReleaseInv'
  OBVIOUS
<1>0. /\ ReleaseTypeOK /\ ReleaseTypeOK' /\ PushedWhole /\ HereWhole /\ Gathered /\ CutFresh
      /\ MergedOnce /\ Tagged /\ LookedAt /\ MergedChecked
  BY ReleaseTypesKept DEF ReleaseInv
<1>a. Absent \notin ReleaseSteps \cup PrState /\ \A parts \in SUBSET Part : parts # Absent
  BY ReleaseAssumption
<1>b. pulled \in Nat /\ main \in Nat /\ merged \in Nat /\ merged <= main /\ pulled <= main
  BY <1>0 DEF ReleaseTypeOK
<1>c. /\ OnMain(pulled) = IF merged # 0 /\ merged <= pulled THEN Part ELSE {}
      /\ OnMain(main) = IF merged # 0 THEN Part ELSE {}
  BY <1>b, MainWhole
<1> USE DEF PushedWhole, HereWhole, Gathered, CutFresh, MergedOnce, Tagged, LookedAt, MergedChecked
<1>1. CASE Preflight
  <2>1. PICK pr \in GetPr : at' = ResumeStage(pr)
    BY <1>1 DEF Preflight
  <2>2. pr = "MERGED" => "MERGED" \in prs
    BY <1>a, <2>1 DEF GetPr, PrState
  <2>3. at' \in {Absent, "pushTag", "checkout", "checks", "branch"} /\ (at' = "checkout" => pr = "MERGED")
    BY <1>a, <2>1 DEF ResumeStage, ReleaseSteps
  <2>4. UNCHANGED <<hub, clone, unchecked, crossed>> /\ "notes" \in tree /\ (head = "main" => pulled = main)
    BY <1>1 DEF Preflight
  <2>5. QED
    BY <1>0, <1>a, <1>b, <2>2, <2>3, <2>4 DEF ReleaseInv, hub, clone, ReleaseSteps
<1>2. CASE EnsureBranch
  <2>0. /\ at = "branch" /\ at' = "pkg" /\ "notes" \in tree /\ head' = "release"
        /\ UNCHANGED <<main, merged, content, remote, prs, checks, tagThere, pulled, tagHere, unchecked, crossed>>
    BY <1>0, <1>2 DEF EnsureBranch, hub, seen
  <2>1. "notes" \in Part /\ {} \in SUBSET Part
    BY DEF Part
  <2>2. CASE head = "release" /\ UNCHANGED <<local, tree>>
    BY <1>0, <2>0, <2>2 DEF ReleaseInv
  <2>3. CASE head = "main" /\ local # Absent /\ tree' \in {tree, local} /\ UNCHANGED local
    BY <1>0, <2>0, <2>1, <2>3 DEF ReleaseInv
  <2>4. CASE head = "main" /\ local' = remote /\ remote # Absent /\ tree' \in {tree, remote}
    BY <1>0, <2>0, <2>1, <2>4 DEF ReleaseInv
  <2>5. CASE head = "main" /\ remote = Absent /\ local' = OnMain(pulled) /\ tree' = tree
    BY <1>0, <1>b, <1>c, <2>0, <2>5 DEF ReleaseInv
  <2>6. QED
    BY <1>2, <2>2, <2>3, <2>4, <2>5 DEF EnsureBranch, Committed
<1>3. CASE VersionSync
  BY <1>0, <1>3 DEF VersionSync, ReleaseInv, hub, seen
<1>4. CASE EnsureCommit
  <2>1. tree = Part
    BY <1>0, <1>4 DEF EnsureCommit, Part, ReleaseTypeOK
  <2>2. QED
    BY <1>0, <1>4, <2>1 DEF EnsureCommit, ReleaseInv, hub, seen
<1>5. CASE EnsurePush
  <2>1. local = Part /\ Part # Absent
    BY <1>0, <1>5, <1>a DEF EnsurePush
  <2>2. QED
    BY <1>0, <1>5, <2>1 DEF EnsurePush, ReleaseInv, clone, seen
<1>6. CASE EnsurePrCreated
  <2>1. prs' = prs \/ (prs' = prs \cup {"OPEN"} /\ remote # OnMain(main))
    BY <1>6 DEF EnsurePrCreated
  <2>2. UNCHANGED <<main, merged, content, remote, checks, tagThere, clone, seen>> /\ at = "pr" /\ at' = "checks"
    BY <1>6 DEF EnsurePrCreated
  <2>3. QED
    BY <1>0, <1>c, <2>1, <2>2 DEF ReleaseInv, clone, seen
<1>7. CASE NoMerge \/ WaitForChecks \/ ConfirmMerge \/ Fails
  BY <1>0, <1>7, <1>a DEF NoMerge, WaitForChecks, Passing, ConfirmMerge, Fails, ReleaseInv, hub, clone, seen, ReleaseSteps
<1>8. CASE MergePr
  <2>0. at = "merge" /\ UNCHANGED <<checks, tagThere, tagHere, crossed>>
    BY <1>8 DEF MergePr
  <2>1. \/ /\ "OPEN" \in prs /\ remote # Absent /\ merged' = main + 1 /\ content' = remote
           /\ prs' = (prs \ {"OPEN"}) \cup {"MERGED"} /\ unchecked' = (unchecked \/ checks # "green")
        \/ "OPEN" \notin prs /\ "MERGED" \in prs /\ UNCHANGED <<main, merged, content, prs, unchecked>>
    BY <1>8 DEF MergePr
  <2>2. \/ at' = "checkout" /\ remote' = Absent /\ local' = Absent /\ head' = "main"
        \/ at' = Absent /\ UNCHANGED <<remote, local, head, pulled, tree>>
    BY <1>8 DEF MergePr
  <2>3. MergedOnce' /\ "OPEN" \notin prs' /\ merged' # 0
    BY <1>0, <1>a, <1>b, <2>0, <2>1, <2>2 DEF ReleaseSteps
  <2>4. Tagged'
    BY <1>0, <2>0, <2>1
  <2>5. Gathered' /\ CutFresh' /\ LookedAt'
    BY <1>a, <2>2 DEF ReleaseSteps
  <2>6. PushedWhole' /\ MergedChecked'
    <3>1. PushedWhole'
      BY <1>0, <1>a, <2>2, <2>3 DEF ReleaseSteps
    <3>2. checks = "green" \/ "pushed" \in crossed
      BY <1>0, <2>0
    <3>3. unchecked' => unchecked \/ checks # "green"
      BY <2>1
    <3>4. MergedChecked'
      BY <1>0, <2>0, <3>2, <3>3
    <3>5. QED
      BY <3>1, <3>4
  <2>7. HereWhole'
    <3>1. local # Absent => local = Part
      BY <1>0, <2>1
    <3>2. QED
      BY <2>2, <3>1
  <2>8. QED
    BY <1>0, <2>3, <2>4, <2>5, <2>6, <2>7 DEF ReleaseInv
<1>9. CASE CheckoutMain
  BY <1>0, <1>9, <1>a DEF CheckoutMain, ReleaseInv, hub, seen
<1>10. CASE Pull
  BY <1>0, <1>10, <1>a DEF Pull, Pulls, ReleaseInv, hub, seen
<1>11. CASE Tag
  BY <1>0, <1>11, <1>a DEF Tag, TagsHead, ReleaseInv, hub, seen
<1>12. CASE PushTag
  BY <1>0, <1>12, <1>a DEF PushTag, ReleaseInv, clone, seen, ReleaseSteps
<1>13. CASE WriteNotes
  BY <1>0, <1>13, <1>a DEF WriteNotes, ReleaseInv, hub, seen, ReleaseSteps
<1>14. CASE PullMain
  BY <1>0, <1>14, <1>a, <1>b DEF PullMain, Pulls, ReleaseInv, hub, seen, ReleaseSteps
<1>15. CASE Clone
  BY <1>0, <1>15, <1>a, <1>b DEF Clone, ReleaseInv, hub, seen, ReleaseSteps
<1>16. CASE CheckoutBranch
  BY <1>0, <1>16, <1>a, <1>b DEF CheckoutBranch, ReleaseInv, hub, seen, ReleaseSteps
<1>17. CASE CheckRun
  BY <1>0, <1>17 DEF CheckRun, ReleaseInv, clone, seen
<1>18. CASE OthersMerge
  BY <1>0, <1>b, <1>18 DEF OthersMerge, Moved, ReleaseInv, clone
<1>19. CASE OthersPush
  BY <1>0, <1>19 DEF OthersPush, Moved, ReleaseInv, clone
<1>20. CASE MergedByHand
  <2>1. "OPEN" \in prs /\ remote = Part /\ merged = 0
    BY <1>0, <1>20 DEF MergedByHand
  <2>2. /\ merged' = main + 1 /\ content' = Part /\ prs' = (prs \ {"OPEN"}) \cup {"MERGED"}
        /\ UNCHANGED <<remote, checks, crossed, clone, at, unchecked, tagThere>>
    BY <1>20, <2>1 DEF MergedByHand, Moved
  <2>3. "OPEN" \notin prs' /\ merged' # 0
    BY <1>b, <2>2
  <2>4. QED
    BY <1>0, <2>1, <2>2, <2>3, <1>a DEF ReleaseInv, clone
<1>21. CASE ClosedByHand
  BY <1>0, <1>21 DEF ClosedByHand, Moved, ReleaseInv, clone
<1>22. CASE UNCHANGED releaseVars
  BY <1>0, <1>22 DEF releaseVars, ReleaseInv
<1>23. QED
  BY <1>1, <1>2, <1>3, <1>4, <1>5, <1>6, <1>7, <1>8, <1>9, <1>10, <1>11, <1>12, <1>13, <1>14, <1>15, <1>16,
     <1>17, <1>18, <1>19, <1>20, <1>21, <1>22 DEF ReleaseNext

(* However often the command is called and stopped, and whatever others     *)
(* merge, push and close meanwhile: a tag is at the commit that merged the  *)
(* release, which is whole, and the command merges nothing whose checks had *)
(* not passed, but for a push in between (release/steps.ts).                *)
THEOREM ReleaseHolds == ReleaseSpec => []ReleaseSound
<1>1. ReleaseInit => ReleaseInv
  <2> SUFFICES ASSUME ReleaseInit PROVE ReleaseInv
    OBVIOUS
  <2>1. ReleaseTypeOK
    BY DEF ReleaseInit, ReleaseTypeOK, Part, PrState
  <2>2. Absent \notin ReleaseSteps
    BY ReleaseAssumption
  <2>3. QED
    BY <2>1, <2>2 DEF ReleaseInit, ReleaseInv, PushedWhole, HereWhole, Gathered, CutFresh, MergedOnce, Tagged, LookedAt,
                      MergedChecked, ReleaseSteps
<1>2. ReleaseInv => ReleaseSound
  BY DEF ReleaseInv, ReleaseSound, TaggedAsMerged, Tagged, MergedOnce
<1>3. QED
  BY <1>1, <1>2, ReleaseInvKept, PTL DEF ReleaseSpec

----------------------------------------------------------------------------
(* The decisions on a job: verdicts and scores of any job.                 *)

(* Jobs and configuration of an input. *)
Given ==
  /\ Jobs \in Seq(JD) /\ Index = 1 .. Len(Jobs) /\ Len(Jobs) \in Nat
  /\ Cfg \in FilterConfig /\ Rank \in RankConfig
  /\ IsFiniteSet(Cfg.title) /\ \A k \in Index : Jobs[k] \in JD /\ IsFiniteSet(Jobs[k].skills)

(* Whatever input was chosen is one of those assumed. *)
LEMMA InputGiven ==
  ASSUME input \in Inputs
  PROVE  Given
<1>1. /\ Jobs \in Seq(JD) /\ Cfg \in FilterConfig /\ Rank \in RankConfig /\ IsFiniteSet(Cfg.title)
      /\ \A k \in DOMAIN Jobs : IsFiniteSet(Jobs[k].skills)
  BY DecisionsAssumption DEF Jobs, Cfg, Rank
<1>2. QED
  BY <1>1 DEF Given, Index

(* The verdicts of a job are finitely many, so those it fails are counted. *)
LEMMA VerdictsFinite ==
  ASSUME Given, NEW job
  PROVE  IsFiniteSet(Evaluate(job)) /\ SoftFails(job) \in Nat
<1> DEFINE Verdict == [rule \in Cfg.title |-> MatchRule(rule, job.title)]
<1>1. Verdict \in Surjection(Cfg.title, TitleRule(job))
  BY DEF TitleRule, Surjection
<1>2. IsFiniteSet(TitleRule(job))
  BY <1>1, FS_Surjection DEF Given
<1>3. IsFiniteSet(CompanyRule(job))
  BY FS_EmptySet, FS_Singleton DEF CompanyRule
<1>4. IsFiniteSet(LocationRule(job))
  BY FS_EmptySet, FS_Singleton DEF LocationRule
<1>5. IsFiniteSet(TimezoneRule(job))
  BY FS_EmptySet, FS_Singleton DEF TimezoneRule
<1>6. IsFiniteSet(SkillsRule(job))
  BY FS_EmptySet, FS_Singleton DEF SkillsRule
<1>7. IsFiniteSet(Evaluate(job))
  BY <1>2, <1>3, <1>4, <1>5, <1>6, FS_Union DEF Evaluate
<1>8. IsFiniteSet(Failed(Evaluate(job), "soft"))
  BY <1>7, FS_Subset DEF Failed
<1>9. QED
  BY <1>7, <1>8, FS_CardinalityType DEF SoftFails

(* The quotient of the scores is a natural number. *)
LEMMA QuotientNat ==
  ASSUME NEW a \in Nat, NEW b \in Nat, b > 0
  PROVE  RoundDiv(a, b) \in Nat
<1>1. 2 * b \in Nat /\ 2 * b > 0 /\ 2 * a + b \in Nat
  OBVIOUS
<1>2. \A x \in Nat, y \in Nat : y > 0 => x \div y \in Nat
  OBVIOUS
<1>3. QED
  BY <1>1, <1>2 DEF RoundDiv

(* A product of natural numbers grows with each of them. *)
LEMMA ProductGrows ==
  ASSUME NEW a \in Nat, NEW b \in Nat, NEW c \in Nat, a <= b
  PROVE  a * c \in Nat /\ b * c \in Nat /\ a * c <= b * c
<1>1. PICK d \in Nat : b = a + d
  <2>1. b - a \in Nat /\ b = a + (b - a)
    OBVIOUS
  <2>2. QED
    BY <2>1
<1>2. b * c = a * c + d * c
  BY <1>1
<1>3. a * c \in Nat /\ d * c \in Nat
  OBVIOUS
<1>4. QED
  BY <1>2, <1>3

(* A clamped number is one of the three, and no higher than allowed. *)
LEMMA ClampNat ==
  ASSUME NEW n \in Nat, NEW low \in Nat, NEW high \in Nat
  PROVE  Clamp(n, low, high) \in Nat /\ (Clamp(n, low, high) \in {n, low, high}) /\ Clamp(n, low, high) <= high
BY DEF Clamp

(* What a job is worth before its penalty. *)
Points(job) == SkillPoints(job) + TitlePoints(job) + SeniorityPoints(job) + LocationPoints(job) + 5

(* No part of the points is a debt: only the penalty is taken off. *)
LEMMA PointsNat ==
  ASSUME Given, NEW job \in JD, IsFiniteSet(job.skills)
  PROVE  Points(job) \in Nat
<1>1. /\ Rank.primaryPoints \in Nat /\ Rank.secondaryPoints \in Nat
      /\ Rank.denomMin \in Nat \ {0} /\ Rank.denomMax \in Nat \ {0} /\ Rank.preference \in [WorkType -> Nat]
  BY DEF Given, RankConfig
<1>2. SkillPoints(job) \in Nat
  <2> DEFINE primary == Cardinality(job.skills \cap Rank.primary)
             secondary == Cardinality(job.skills \cap (Rank.secondary \ Rank.primary))
             weight == primary * Rank.primaryPoints + secondary * Rank.secondaryPoints
             denom == 2 * Clamp(Cardinality(job.skills), Rank.denomMin, Rank.denomMax)
  <2>1. primary \in Nat /\ secondary \in Nat /\ Cardinality(job.skills) \in Nat
    <3>1. IsFiniteSet(job.skills \cap Rank.primary) /\ IsFiniteSet(job.skills \cap (Rank.secondary \ Rank.primary))
      BY FS_Subset
    <3>2. QED
      BY <3>1, FS_CardinalityType
  <2>2. primary * Rank.primaryPoints \in Nat /\ secondary * Rank.secondaryPoints \in Nat
    BY <1>1, <2>1
  <2>3. weight \in Nat
    BY <2>2
  <2>4. denom \in Nat /\ denom > 0
    <3>1. Clamp(Cardinality(job.skills), Rank.denomMin, Rank.denomMax) \in Nat \ {0}
      BY <1>1, <2>1 DEF Clamp
    <3>2. QED
      BY <3>1
  <2>5. Clamp(weight, 0, denom) * 40 \in Nat
    <3> HIDE DEF weight, denom
    <3>1. Clamp(weight, 0, denom) \in Nat
      BY <2>3, <2>4, ClampNat
    <3>2. QED
      BY <3>1
  <2>6. RoundDiv(Clamp(weight, 0, denom) * 40, denom) \in Nat
    <3> HIDE DEF weight, denom
    <3>1. QED
      BY <2>4, <2>5, QuotientNat
  <2>7. QED
    BY <2>6 DEF SkillPoints
<1>3. TitlePoints(job) \in Nat /\ SeniorityPoints(job) \in Nat
  BY DEF TitlePoints, SeniorityPoints
<1>4. LocationPoints(job) \in Nat
  <2>1. CASE job.workType = Unset
    BY <2>1 DEF LocationPoints
  <2>2. CASE job.workType # Unset
    <3> DEFINE base == IF job.workType = "remote"
                         THEN IF job.timezone \in Rank.acceptable THEN 20 ELSE 10
                       ELSE IF job.city \in Rank.home THEN 20 ELSE 0
    <3>1. job.workType \in WorkType
      BY <2>2 DEF JD, Option
    <3>2. Rank.preference[job.workType] \in Nat /\ base \in Nat
      BY <1>1, <3>1
    <3>3. base * Rank.preference[job.workType] \in Nat
      <4> HIDE DEF base
      <4>1. QED
        BY <3>2
    <3>4. RoundDiv(base * Rank.preference[job.workType], 10) \in Nat
      <4> HIDE DEF base
      <4>1. QED
        BY <3>3, QuotientNat
    <3>5. QED
      BY <2>2, <3>4 DEF LocationPoints
  <2>3. QED
    BY <2>1, <2>2
<1>5. QED
  BY <1>2, <1>3, <1>4 DEF Points

(* A score is one of 0 .. 100, and no higher for failing more. *)
LEMMA ScoreFacts ==
  ASSUME Given, NEW job \in JD, IsFiniteSet(job.skills), NEW fails \in Nat, NEW more \in Nat, fails <= more
  PROVE  /\ ScoreJob(job, fails) \in 0 .. 100
         /\ ScoreJob(job, more) \in 0 .. 100 /\ ScoreJob(job, more) <= ScoreJob(job, fails)
<1>1. Points(job) \in Nat
  BY PointsNat
<1>2. Rank.penalty \in Nat
  BY DEF Given, RankConfig
<1>3. fails * Rank.penalty \in Nat /\ more * Rank.penalty \in Nat /\ fails * Rank.penalty <= more * Rank.penalty
  BY <1>2, ProductGrows
<1>4. \A n : ScoreJob(job, n) = IF n * Rank.penalty > Points(job) THEN 0 ELSE Clamp(Points(job) - n * Rank.penalty, 0, 100)
  BY DEF ScoreJob, Points
<1>5. QED
  BY <1>1, <1>3, <1>4 DEF Clamp

(* Of two jobs that are the same each is the same as the other. *)
LEMMA SameBoth ==
  ASSUME NEW job, NEW other
  PROVE  SameAs(job, other) <=> SameAs(other, job)
BY DEF SameAs, Conflict

(* What the gate drops the filter would have dropped. *)
LEMMA GateSound == CardGateSound
<1>1. \A job : Failed(EvaluateCard(job), "hard") \subseteq Failed(Evaluate(job), "hard")
  BY DEF EvaluateCard, Evaluate, Failed
<1>2. QED
  BY <1>1 DEF CardGateSound, Decide

----------------------------------------------------------------------------
(* The stages of a run: what each of them has come past is decided for good. *)

Screened(k) == stages > 0 \/ stage # "filter" \/ k < next
Compared(k) == stages > 0 \/ stage \in {"rank", "end"} \/ (stage = "dedup" /\ k < next)

Places ==
  /\ input \in Inputs /\ stage \in {"filter", "dedup", "rank", "end"} /\ next \in 1 .. (Len(Jobs) + 1)
  /\ remaining \subseteq Index /\ kept \subseteq remaining /\ stages \in Nat /\ refiltered \in BOOLEAN
  /\ origin \in Seq([job : Index, of : Index \cup {0}])
  /\ soft \in [Index -> Nat] /\ score \in [Index -> Option(0 .. 100)]

(* The filter keeps what it has kept, and counts as often as it has run. *)
Filtered ==
  /\ \A k \in remaining :
       IF Screened(k)
       THEN /\ Decide(Evaluate(Jobs[k])) = "keep"
            /\ soft[k] >= SoftFails(Jobs[k]) /\ (~refiltered => soft[k] = SoftFails(Jobs[k]))
       ELSE soft[k] = 0
  /\ refiltered => stages > 0
  /\ stages > 0 /\ stage = "filter" => refiltered

(* What dedup has come past is no duplicate of the cache or of each other. *)
Distinct ==
  /\ \A k \in remaining : Compared(k) => \A entry \in input.cache : ~SameAs(Jobs[k], entry)
  /\ \A a, b \in remaining : Compared(a) /\ Compared(b) /\ a # b => ~SameAs(Jobs[a], Jobs[b])
  /\ \A k \in kept : Compared(k)
  /\ stage = "filter" => kept = {}
  /\ stage = "dedup" => kept = {k \in remaining : k < next}
  /\ \A n \in DOMAIN origin :
       origin[n].of # 0 => /\ SameAs(Jobs[origin[n].job], Jobs[origin[n].of])
                           /\ origin[n].of \in remaining /\ Compared(origin[n].of)

DecidedSoFar == Places /\ Filtered /\ Distinct /\ ScoreFair

(* Nothing is screened, compared or scored before the filter has begun. *)
LEMMA DecidedBegins ==
  ASSUME DecisionsInit
  PROVE  DecidedSoFar
<1>1. Given
  BY InputGiven DEF DecisionsInit
<1>2. Places
  <2>1. soft \in [Index -> Nat] /\ score \in [Index -> Option(0 .. 100)]
    BY DEF DecisionsInit, Option
  <2>2. origin \in Seq([job : Index, of : Index \cup {0}])
    BY DEF DecisionsInit
  <2>3. next \in 1 .. (Len(Jobs) + 1)
    BY <1>1 DEF DecisionsInit, Given
  <2>4. QED
    BY <2>1, <2>2, <2>3 DEF DecisionsInit, Places
<1>3. Filtered
  BY <1>1 DEF DecisionsInit, Filtered, Screened, Given
<1>4. Distinct
  BY DEF DecisionsInit, Distinct, Compared
<1>5. ScoreFair
  BY DEF DecisionsInit, ScoreFair
<1>6. QED
  BY <1>2, <1>3, <1>4, <1>5 DEF DecidedSoFar

(* One job more is filtered; by hand, nothing is dropped any more. *)
LEMMA FilterStep ==
  ASSUME DecidedSoFar, FilterJob
  PROVE  DecidedSoFar' /\ (stages > 0 => remaining' = remaining)
<1> USE DEF DecidedSoFar
<1>0. Given /\ next \in Index /\ next \in Nat
  BY InputGiven DEF Places, FilterJob, Given
<1>1. /\ UNCHANGED <<input, stage, kept, origin, score, stages, refiltered>> /\ next' = next + 1 /\ stage = "filter"
      /\ Jobs' = Jobs /\ Index' = Index /\ Cfg' = Cfg /\ Rank' = Rank
  BY DEF FilterJob, Jobs, Index, Cfg, Rank
<1>2. \A job : /\ (Decide(Evaluate(job)))' = Decide(Evaluate(job)) /\ (SoftFails(job))' = SoftFails(job)
               /\ SoftFails(job) \in Nat
  BY <1>0, <1>1, VerdictsFinite
     DEF Evaluate, SoftFails, TitleRule, CompanyRule, LocationRule, TimezoneRule, SkillsRule, Cfg
<1>3. \A job, n : (ScoreJob(job, n))' = ScoreJob(job, n)
  BY <1>1 DEF ScoreJob, SkillPoints, TitlePoints, SeniorityPoints, LocationPoints, Rank
<1>4. \A k \in Index : (Screened(k)' <=> Screened(k) \/ k = next) /\ (stages = 0 => (Screened(next) <=> FALSE))
                       /\ (Compared(k)' <=> Compared(k)) /\ (Compared(k) <=> stages > 0)
  BY <1>0, <1>1 DEF Screened, Compared, Places, Given
<1>5. next \in remaining /\ stages > 0 => Decide(Evaluate(Jobs[next])) = "keep"
  BY DEF Filtered, Screened
<1>6. kept = {} /\ (stages > 0 => refiltered)
  BY <1>1 DEF Distinct, Filtered
<1>7. ASSUME remaining' = remaining \/ (stages = 0 /\ remaining' = remaining \ {next})
      PROVE  Distinct'
  <2>1. \A n \in DOMAIN origin :
          origin[n].of # 0 => /\ SameAs(Jobs[origin[n].job], Jobs[origin[n].of])
                              /\ origin[n].of \in remaining /\ Compared(origin[n].of)
    BY DEF Distinct
  <2>2. stages = 0 => \A n \in DOMAIN origin : origin[n].of = 0
    BY <1>4, <2>1 DEF Places
  <2>3. remaining' \subseteq remaining /\ remaining \subseteq Index
    BY <1>7 DEF Places
  <2>4. QED
    BY <1>1, <1>4, <1>6, <1>7, <2>1, <2>2, <2>3 DEF Distinct
<1>8. ScoreFair'
  <2>1. \A job : (ScoreJob(job, SoftFails(job)))' = ScoreJob(job, SoftFails(job))
    BY <1>2, <1>3
  <2>2. QED
    BY <1>1, <2>1 DEF ScoreFair
<1>9. CASE next \notin remaining
  <2>1. UNCHANGED <<remaining, soft>>
    BY <1>9 DEF FilterJob
  <2>2. Places'
    BY <1>0, <1>1, <2>1 DEF Places, Given
  <2>3. Filtered'
    BY <1>1, <1>2, <1>4, <1>9, <2>1 DEF Filtered, Places
  <2>4. QED
    BY <1>7, <1>8, <2>1, <2>2, <2>3
<1>10. CASE next \in remaining /\ Decide(Evaluate(Jobs[next])) = "drop"
  <2>1. remaining' = remaining \ {next} /\ soft' = soft /\ stages = 0
    BY <1>5, <1>10 DEF FilterJob, Places
  <2>2. Places'
    <3>1. remaining' \subseteq Index /\ kept' \subseteq remaining'
      BY <1>1, <1>6, <2>1 DEF Places
    <3>2. QED
      BY <1>0, <1>1, <2>1, <3>1 DEF Places, Given
  <2>3. Filtered'
    BY <1>1, <1>2, <1>4, <2>1 DEF Filtered, Places
  <2>4. QED
    BY <1>7, <1>8, <2>1, <2>2, <2>3
<1>11. CASE next \in remaining /\ Decide(Evaluate(Jobs[next])) # "drop"
  <2>1. remaining' = remaining /\ soft' = [soft EXCEPT ![next] = @ + SoftFails(Jobs[next])]
    BY <1>11 DEF FilterJob
  <2>2. soft \in [Index -> Nat]
    BY DEF Places
  <2>3. soft'[next] = soft[next] + SoftFails(Jobs[next]) /\ \A k \in Index : k # next => soft'[k] = soft[k]
    BY <1>0, <2>1, <2>2
  <2>4. Places'
    <3>1. soft' \in [Index -> Nat]
      BY <1>0, <1>2, <2>1, <2>2
    <3>2. QED
      BY <1>0, <1>1, <2>1, <3>1 DEF Places, Given
  <2>5. Decide(Evaluate(Jobs[next])) = "keep"
    BY <1>11 DEF Decide
  <2>6. soft[next] \in Nat /\ SoftFails(Jobs[next]) \in Nat
    BY <1>0, <1>2, <2>2
  <2>7. /\ soft'[next] >= SoftFails(Jobs[next])
        /\ ~refiltered => soft'[next] = SoftFails(Jobs[next])
    <3>1. CASE stages = 0
      <4>1. soft[next] = 0
        BY <1>4, <1>0, <1>11, <3>1 DEF Filtered
      <4>2. QED
        BY <2>3, <2>6, <4>1
    <3>2. CASE stages # 0
      <4>1. refiltered
        BY <1>6, <3>2 DEF Places
      <4>2. QED
        BY <2>3, <2>6, <4>1
    <3>3. QED
      BY <3>1, <3>2
  <2>8. Filtered'
    <3>1. ASSUME NEW k \in remaining
          PROVE  IF Screened(k)'
                 THEN /\ Decide(Evaluate(Jobs[k])) = "keep"
                      /\ soft'[k] >= SoftFails(Jobs[k]) /\ (~refiltered => soft'[k] = SoftFails(Jobs[k]))
                 ELSE soft'[k] = 0
      <4>1. k \in Index
        BY DEF Places
      <4>2. CASE k = next
        BY <1>4, <2>5, <2>7, <4>1, <4>2
      <4>3. CASE k # next
        BY <1>4, <2>3, <4>1, <4>3 DEF Filtered
      <4>4. QED
        BY <4>2, <4>3
    <3>2. \A k : Jobs'[k] = Jobs[k]
      BY <1>1
    <3>3. refiltered' = refiltered /\ stages' = stages /\ stage' = stage
      BY <1>1
    <3>4. QED
      BY <1>2, <2>1, <3>1, <3>2, <3>3 DEF Filtered
  <2>9. QED
    BY <1>7, <1>8, <2>1, <2>4, <2>8
<1>12. QED
  BY <1>9, <1>10, <1>11

(* What a dedup by hand comes to is different from all it has kept. *)
LEMMA NothingTwice ==
  ASSUME DecidedSoFar, stage = "dedup", next \in remaining, stages > 0
  PROVE  Origins(Jobs[next]) = {}
<1>1. \A k \in remaining : Compared(k)
  BY DEF Compared
<1>2. \A entry \in input.cache : ~SameAs(Jobs[next], entry)
  BY <1>1 DEF DecidedSoFar, Distinct
<1>3. kept \subseteq remaining /\ next \notin kept
  BY DEF DecidedSoFar, Places, Distinct
<1>4. \A k \in kept : ~SameAs(Jobs[next], Jobs[k])
  BY <1>1, <1>3 DEF DecidedSoFar, Distinct
<1>5. QED
  BY <1>2, <1>4 DEF Origins

(* One job more is compared; by hand, it is like none of those kept. *)
LEMMA DedupStep ==
  ASSUME DecidedSoFar, DedupJob
  PROVE  DecidedSoFar' /\ (stages > 0 => remaining' = remaining)
<1> USE DEF DecidedSoFar
<1>0. Given /\ next \in Index /\ next \in Nat /\ next >= 1
  BY InputGiven DEF Places, DedupJob, Given
<1>1. /\ UNCHANGED <<input, stage, soft, score, stages, refiltered>> /\ next' = next + 1 /\ stage = "dedup"
      /\ Jobs' = Jobs /\ Index' = Index /\ Cfg' = Cfg /\ Rank' = Rank
  BY DEF DedupJob, Jobs, Index, Cfg, Rank
<1>2. \A job : (Decide(Evaluate(job)))' = Decide(Evaluate(job)) /\ (SoftFails(job))' = SoftFails(job)
  BY <1>1 DEF Evaluate, SoftFails, TitleRule, CompanyRule, LocationRule, TimezoneRule, SkillsRule, Cfg
<1>3. \A job, n : (ScoreJob(job, n))' = ScoreJob(job, n)
  BY <1>1 DEF ScoreJob, SkillPoints, TitlePoints, SeniorityPoints, LocationPoints, Rank
<1>4. \A k \in Index : Screened(k)' /\ Screened(k) /\ (Compared(k)' <=> Compared(k) \/ k = next)
                       /\ (stages = 0 => (Compared(k) <=> k < next))
  BY <1>0, <1>1 DEF Screened, Compared, Places, Given
<1>5. /\ remaining \subseteq Index /\ kept = {k \in remaining : k < next} /\ \A k \in Index : k \in Nat
  BY <1>0, <1>1 DEF Places, Distinct, Given
<1>5a. \A k \in Index : k < next + 1 <=> k < next \/ k = next
  BY <1>0, <1>5
<1>6. ScoreFair'
  <2>1. \A job : (ScoreJob(job, SoftFails(job)))' = ScoreJob(job, SoftFails(job))
    BY <1>2, <1>3
  <2>2. QED
    BY <1>1, <2>1 DEF ScoreFair
<1>7. ASSUME remaining' \subseteq remaining
      PROVE  Filtered'
  BY <1>1, <1>2, <1>4, <1>5, <1>7 DEF Filtered
<1>8. CASE next \notin remaining
  <2>1. UNCHANGED <<remaining, kept, origin>>
    BY <1>8 DEF DedupJob
  <2>2. Places'
    BY <1>0, <1>1, <2>1 DEF Places, Given
  <2>3. \A k \in remaining : Compared(k)' <=> Compared(k)
    BY <1>4, <1>5, <1>8
  <2>4. kept = {k \in remaining : k < next + 1}
    BY <1>5, <1>5a, <1>8
  <2>5. Distinct'
    BY <1>1, <1>5, <2>1, <2>3, <2>4 DEF Distinct, Places
  <2>6. QED
    BY <1>6, <1>7, <2>1, <2>2, <2>5
<1>9. CASE next \in remaining /\ Origins(Jobs[next]) = {}
  <2>1. kept' = kept \cup {next} /\ UNCHANGED <<remaining, origin>>
    BY <1>9 DEF DedupJob
  <2>2. Places'
    <3>1. remaining' \subseteq Index /\ kept' \subseteq remaining'
      BY <1>5, <1>9, <2>1
    <3>2. QED
      BY <1>0, <1>1, <2>1, <3>1 DEF Places, Given
  <2>3. kept' = {k \in remaining : k < next + 1}
    BY <1>5, <1>5a, <1>9, <2>1
  <2>4. (\A entry \in input.cache : ~SameAs(Jobs[next], entry)) /\ (\A k \in kept : ~SameAs(Jobs[next], Jobs[k]))
    BY <1>9 DEF Origins
  <2>5. ASSUME NEW a \in remaining, NEW b \in remaining, a # b, Compared(a)', Compared(b)'
        PROVE  ~SameAs(Jobs[a], Jobs[b])
    <3>1. CASE stages > 0
      BY <2>5, <3>1 DEF Distinct, Compared
    <3>2. CASE stages = 0
      <4>1. a \in kept \/ a = next
        BY <1>4, <1>5, <2>5, <3>2
      <4>2. b \in kept \/ b = next
        BY <1>4, <1>5, <2>5, <3>2
      <4>3. CASE a = next
        BY <2>4, <2>5, <4>2, <4>3
      <4>4. CASE b = next
        BY <2>4, <2>5, <4>1, <4>4, SameBoth
      <4>5. CASE a # next /\ b # next
        BY <1>4, <1>5, <2>5, <4>5 DEF Distinct
      <4>6. QED
        BY <4>3, <4>4, <4>5
    <3>3. QED
      BY <3>1, <3>2 DEF Places
  <2>6. \A k \in remaining : Compared(k)' => \A entry \in input.cache : ~SameAs(Jobs[k], entry)
    BY <1>4, <1>5, <2>4 DEF Distinct
  <2>7. \A k \in kept' : Compared(k)'
    BY <1>4, <1>5, <2>1, <1>9 DEF Distinct
  <2>8. \A n \in DOMAIN origin, o \in Index :
          o = origin[n].of => SameAs(Jobs[origin[n].job], Jobs[o]) /\ o \in remaining /\ Compared(o)'
    BY <1>0, <1>4, <1>5 DEF Distinct, Given
  <2>8a. \A n \in DOMAIN origin : origin[n].of # 0 => origin[n].of \in Index
    BY <1>5 DEF Distinct
  <2>9. Distinct'
    BY <1>1, <2>1, <2>3, <2>8a, <2>5, <2>6, <2>7, <2>8 DEF Distinct
  <2>10. QED
    BY <1>6, <1>7, <2>1, <2>2, <2>9
<1>10. CASE next \in remaining /\ Origins(Jobs[next]) # {}
  <2>1. stages = 0
    BY <1>1, <1>10, NothingTwice DEF Places
  <2>2. PICK o \in Origins(Jobs[next]) : origin' = Append(origin, [job |-> next, of |-> o])
    BY <1>10 DEF DedupJob
  <2>3. remaining' = remaining \ {next} /\ kept' = kept
    BY <1>10 DEF DedupJob
  <2>4. o = 0 \/ (o \in kept /\ SameAs(Jobs[next], Jobs[o]))
    BY <2>2 DEF Origins
  <2> DEFINE New == [job |-> next, of |-> o]
  <2>5. New \in [job : Index, of : Index \cup {0}] /\ New.job = next /\ New.of = o
    BY <1>0, <1>5, <2>4
  <2>6. Places'
    <3>1. origin' \in Seq([job : Index, of : Index \cup {0}])
      BY <2>2, <2>5 DEF Places
    <3>2. remaining' \subseteq Index /\ kept' \subseteq remaining'
      BY <1>5, <2>3
    <3>3. QED
      BY <1>0, <1>1, <3>1, <3>2 DEF Places, Given
  <2>7. \A k \in Index : k \in remaining' => (Compared(k)' <=> Compared(k))
    BY <1>4, <1>5, <2>3
  <2>8. kept' = {k \in remaining' : k < next + 1}
    BY <1>5, <1>5a, <2>3
  <2>9. ASSUME NEW n \in Nat, n \in DOMAIN origin', origin'[n].of # 0
        PROVE  /\ SameAs(Jobs[origin'[n].job], Jobs[origin'[n].of])
               /\ \E k \in Index : k = origin'[n].of /\ k \in remaining' /\ Compared(k)'
    <3> HIDE DEF New
    <3>1. origin' = Append(origin, New) /\ origin \in Seq([job : Index, of : Index \cup {0}])
      BY <2>2 DEF Places, New
    <3>2. CASE n \in DOMAIN origin
      <4>1. origin'[n] = origin[n]
        BY <3>1, <3>2
      <4>2. SameAs(Jobs[origin[n].job], Jobs[origin[n].of]) /\ origin[n].of \in remaining /\ Compared(origin[n].of)
        BY <2>9, <3>2, <4>1 DEF Distinct
      <4>3. PICK k \in Index : k = origin[n].of /\ k \in remaining /\ Compared(k)
        BY <1>5, <4>2
      <4>4. k # next
        BY <1>0, <1>4, <1>5, <2>1, <4>3
      <4>5. QED
        BY <1>4, <2>3, <4>1, <4>2, <4>3, <4>4
    <3>3. CASE n \notin DOMAIN origin
      <4>1. origin'[n] = New
        BY <2>9, <3>1, <3>3
      <4>2. o \in kept /\ SameAs(Jobs[next], Jobs[o])
        BY <2>4, <2>5, <2>9, <4>1
      <4>3. PICK k \in Index : k = o /\ k \in remaining /\ k < next
        BY <1>5, <4>2
      <4>4. k \in remaining' /\ Compared(k)'
        BY <1>0, <1>4, <1>5, <2>1, <2>3, <4>3
      <4>5. QED
        BY <2>5, <4>1, <4>2, <4>3, <4>4
    <3>4. QED
      BY <3>2, <3>3
  <2>10. DOMAIN origin' \subseteq Nat
    BY <2>6 DEF Places
  <2>10a. Distinct'
    <3>1. \A n \in DOMAIN origin' :
            origin'[n].of # 0 => /\ SameAs(Jobs[origin'[n].job], Jobs[origin'[n].of])
                                 /\ \E k \in Index : k = origin'[n].of /\ k \in remaining' /\ Compared(k)'
      BY <2>9, <2>10
    <3>2. \A k \in Index : k \in remaining' => k \in remaining /\ (Compared(k)' => Compared(k))
      BY <2>3, <2>7
    <3>3. \A a \in Index, b \in Index :
            a \in remaining' /\ b \in remaining' /\ Compared(a)' /\ Compared(b)' /\ a # b => ~SameAs(Jobs[a], Jobs[b])
      BY <3>2 DEF Distinct
    <3>4. \A k \in Index : k \in remaining' /\ Compared(k)' => \A entry \in input.cache : ~SameAs(Jobs[k], entry)
      BY <3>2 DEF Distinct
    <3>5. \A k \in Index : k \in kept' => Compared(k)'
      BY <1>4, <1>5, <2>3 DEF Distinct
    <3>6. remaining' \subseteq Index /\ kept' \subseteq Index
      BY <1>5, <2>3
    <3>7. QED
      BY <1>1, <2>8, <3>1, <3>3, <3>4, <3>5, <3>6 DEF Distinct
  <2>11. QED
    BY <1>6, <1>7, <2>1, <2>3, <2>6, <2>10a
<1>11. QED
  BY <1>8, <1>9, <1>10

(* A score counts what the filter has found, once each time it ran. *)
LEMMA RankStep ==
  ASSUME DecidedSoFar, RankJobs
  PROVE  DecidedSoFar' /\ remaining' = remaining
<1> USE DEF DecidedSoFar
<1>0. Given
  BY InputGiven DEF Places
<1>1. /\ UNCHANGED <<input, remaining, kept, origin, soft, stages, refiltered>> /\ stage = "rank" /\ stage' = "end" /\ next' = 1
      /\ score' = [k \in Index |-> IF k \in remaining THEN ScoreJob(Jobs[k], soft[k]) ELSE score[k]]
      /\ Jobs' = Jobs /\ Index' = Index /\ Cfg' = Cfg /\ Rank' = Rank
  BY DEF RankJobs, Jobs, Index, Cfg, Rank
<1>2. \A job : (Decide(Evaluate(job)))' = Decide(Evaluate(job)) /\ (SoftFails(job))' = SoftFails(job)
  BY <1>1 DEF Evaluate, SoftFails, TitleRule, CompanyRule, LocationRule, TimezoneRule, SkillsRule, Cfg
<1>3. \A job, n : (ScoreJob(job, n))' = ScoreJob(job, n)
  BY <1>1 DEF ScoreJob, SkillPoints, TitlePoints, SeniorityPoints, LocationPoints, Rank
<1>4. \A k : Screened(k)' /\ Screened(k) /\ Compared(k)' /\ Compared(k)
  BY <1>1 DEF Screened, Compared
<1>5. ASSUME NEW k \in remaining
      PROVE  /\ score'[k] \in 0 .. 100
             /\ \/ score'[k] = ScoreJob(Jobs[k], SoftFails(Jobs[k]))
                \/ refiltered /\ score'[k] < ScoreJob(Jobs[k], SoftFails(Jobs[k]))
  <2>1. k \in Index /\ soft[k] \in Nat /\ Jobs[k] \in JD /\ IsFiniteSet(Jobs[k].skills)
    BY <1>0 DEF Places, Given
  <2>2. SoftFails(Jobs[k]) \in Nat
    BY <1>0, VerdictsFinite
  <2>3. soft[k] >= SoftFails(Jobs[k]) /\ (~refiltered => soft[k] = SoftFails(Jobs[k]))
    BY <1>4 DEF Filtered
  <2>4. score'[k] = ScoreJob(Jobs[k], soft[k])
    BY <1>1, <2>1
  <2>5. /\ ScoreJob(Jobs[k], SoftFails(Jobs[k])) \in 0 .. 100 /\ ScoreJob(Jobs[k], soft[k]) \in 0 .. 100
        /\ ScoreJob(Jobs[k], soft[k]) <= ScoreJob(Jobs[k], SoftFails(Jobs[k]))
    BY <1>0, <2>1, <2>2, <2>3, ScoreFacts
  <2>6. QED
    BY <2>3, <2>4, <2>5
<1>6. \A k \in Index : k \notin remaining => score'[k] = score[k]
  BY <1>1
<1>7. Places'
  <2>1. score' \in [Index -> Option(0 .. 100)]
    <3>1. \A k \in Index : score'[k] \in Option(0 .. 100)
      BY <1>5, <1>6 DEF Places, Option
    <3>2. QED
      BY <1>1, <3>1
  <2>2. QED
    BY <1>0, <1>1, <2>1 DEF Places, Given
<1>8. Filtered' /\ Distinct'
  BY <1>1, <1>2, <1>4 DEF Filtered, Distinct
<1>9. ScoreFair'
  <2>1. \A job : (ScoreJob(job, SoftFails(job)))' = ScoreJob(job, SoftFails(job))
    BY <1>2, <1>3
  <2>2. \A k \in Index : score'[k] # Unset =>
          \/ score'[k] = ScoreJob(Jobs[k], SoftFails(Jobs[k]))
          \/ refiltered /\ score'[k] < ScoreJob(Jobs[k], SoftFails(Jobs[k]))
    BY <1>5, <1>6 DEF ScoreFair
  <2>3. QED
    BY <1>1, <2>1, <2>2 DEF ScoreFair
<1>10. QED
  BY <1>1, <1>7, <1>8, <1>9

(* The end of a stage, and the start of one by hand. *)
LEMMA StageStep ==
  ASSUME DecidedSoFar, StageEnds \/ StageByHand
  PROVE  DecidedSoFar' /\ remaining' = remaining
<1> USE DEF DecidedSoFar
<1>0. Given
  BY InputGiven DEF Places
<1>1. /\ UNCHANGED <<input, remaining, origin, soft, score>> /\ next' = 1
      /\ stage' \in {"filter", "dedup", "rank", "end"}
      /\ Jobs' = Jobs /\ Index' = Index /\ Cfg' = Cfg /\ Rank' = Rank
  BY DEF StageEnds, StageByHand, Jobs, Index, Cfg, Rank
<1>2. \A job : (Decide(Evaluate(job)))' = Decide(Evaluate(job)) /\ (SoftFails(job))' = SoftFails(job)
  BY <1>1 DEF Evaluate, SoftFails, TitleRule, CompanyRule, LocationRule, TimezoneRule, SkillsRule, Cfg
<1>3. \A job, n : (ScoreJob(job, n))' = ScoreJob(job, n)
  BY <1>1 DEF ScoreJob, SkillPoints, TitlePoints, SeniorityPoints, LocationPoints, Rank
<1>4. /\ stages' \in Nat /\ stages' >= stages /\ (refiltered => refiltered') /\ refiltered' \in BOOLEAN
      /\ kept' = {} \/ (kept' = kept /\ UNCHANGED <<stages, refiltered>>)
      /\ stages' > 0 \/ stage' # "filter"
      /\ refiltered' => stages' > 0
      /\ stages' > 0 /\ stage' = "filter" => refiltered'
  <2>1. CASE StageEnds
    BY <2>1 DEF StageEnds, Places, Filtered
  <2>2. CASE StageByHand
    <3>1. refiltered' = (refiltered \/ stage' = "filter") /\ kept' = {}
      BY <2>2 DEF StageByHand
    <3>2. refiltered' \in BOOLEAN
      BY <3>1, Zenon
    <3>3. (refiltered => refiltered') /\ (stage' = "filter" => refiltered')
      BY <3>1
    <3>4. stages' \in Nat /\ stages' >= stages /\ stages' > 0
      BY <2>2 DEF StageByHand, Places
    <3>5. QED
      BY <3>1, <3>2, <3>3, <3>4
  <2>3. QED
    BY <2>1, <2>2
<1>5. \A k \in Index : Screened(k) /\ Screened(k)'
  BY <1>0, <1>4 DEF StageEnds, StageByHand, Screened, Places, Given
<1>6. \A k \in Index : (Compared(k) => Compared(k)') /\ (Compared(k)' => Compared(k))
  BY <1>0 DEF StageEnds, StageByHand, Compared, Places, Given
<1>7. remaining \subseteq Index /\ kept \subseteq remaining
  BY DEF Places
<1>8. Places'
  <2>1. remaining' \subseteq Index /\ kept' \subseteq remaining'
    BY <1>1, <1>4, <1>7
  <2>2. next' \in 1 .. (Len(Jobs) + 1)
    BY <1>0, <1>1 DEF Given
  <2>3. QED
    BY <1>1, <1>4, <2>1, <2>2 DEF Places
<1>9. Filtered'
  BY <1>1, <1>2, <1>4, <1>5, <1>7 DEF Filtered
<1>10. Distinct'
  <2>1. stage' = "dedup" => kept' = {}
    BY DEF StageEnds, StageByHand, Distinct
  <2>2. stage' = "dedup" => kept' = {k \in remaining' : k < next'}
    <3>1. \A k \in Index : ~(k < 1)
      BY <1>0 DEF Given
    <3>2. QED
      BY <1>1, <1>7, <2>1, <3>1
  <2>3. stage' = "filter" => kept' = {}
    BY DEF StageEnds, StageByHand
  <2>4. \A n \in DOMAIN origin :
          origin[n].of # 0 => /\ SameAs(Jobs[origin[n].job], Jobs[origin[n].of])
                              /\ \E k \in Index : k = origin[n].of /\ k \in remaining /\ Compared(k)'
    BY <1>6, <1>7 DEF Distinct
  <2>5. \A k \in kept' : Compared(k)'
    BY <1>4, <1>6, <1>7 DEF Distinct
  <2>6. QED
    BY <1>1, <1>6, <1>7, <2>2, <2>3, <2>4, <2>5 DEF Distinct
<1>11. ScoreFair'
  <2>1. \A job : (ScoreJob(job, SoftFails(job)))' = ScoreJob(job, SoftFails(job))
    BY <1>2, <1>3
  <2>2. QED
    BY <1>1, <1>4, <2>1 DEF ScoreFair
<1>12. QED
  BY <1>1, <1>8, <1>9, <1>10, <1>11

(* What has been decided stays so at every step of the run and by hand. *)
LEMMA DecidedStep ==
  ASSUME DecidedSoFar, [DecisionsNext]_decisionVars
  PROVE  DecidedSoFar' /\ (stages > 0 => remaining' = remaining)
<1>1. CASE DecisionsNext
  BY <1>1, FilterStep, DedupStep, RankStep, StageStep DEF DecisionsNext
<1>2. CASE UNCHANGED decisionVars
  <2>1. Places'
    BY <1>2 DEF decisionVars, DecidedSoFar, Places, Jobs, Index
  <2>2. Filtered'
    BY <1>2 DEF decisionVars, DecidedSoFar, Filtered, Screened, Jobs, Evaluate, SoftFails, TitleRule, CompanyRule, LocationRule,
                TimezoneRule, SkillsRule, Cfg
  <2>3. Distinct'
    BY <1>2 DEF decisionVars, DecidedSoFar, Distinct, Compared, Jobs
  <2>4. ScoreFair'
    <3>1. \A job : (SoftFails(job))' = SoftFails(job)
      BY <1>2 DEF decisionVars, Evaluate, SoftFails, TitleRule, CompanyRule, LocationRule, TimezoneRule, SkillsRule, Cfg
    <3>2. \A job, n : (ScoreJob(job, n))' = ScoreJob(job, n)
      BY <1>2 DEF decisionVars, ScoreJob, SkillPoints, TitlePoints, SeniorityPoints, LocationPoints, Rank
    <3>3. \A job : (ScoreJob(job, SoftFails(job)))' = ScoreJob(job, SoftFails(job))
      BY <3>1, <3>2
    <3>4. QED
      BY <1>2, <3>3 DEF decisionVars, DecidedSoFar, ScoreFair, Jobs, Index
  <2>5. QED
    BY <1>2, <2>1, <2>2, <2>3, <2>4 DEF DecidedSoFar, decisionVars
<1>3. QED
  BY <1>1, <1>2

(* What the card gate drops the filter would have dropped; of jobs that are *)
(* one job the first is kept, and none is dropped for one that is dropped;  *)
(* a score depends on its own job, but for a filter that ran twice.         *)
THEOREM DecisionsHold == DecisionsSpec => []DecisionsSound
<1>1. DecidedSoFar => DecisionsSound
  <2> SUFFICES ASSUME DecidedSoFar PROVE DecisionsSound
    OBVIOUS
  <2>1. Given
    BY InputGiven DEF DecidedSoFar, Places
  <2>2. DecisionsTypeOK
    BY <2>1 DEF DecidedSoFar, Places, Given, DecisionsTypeOK
  <2>3. OneOfEachKept
    BY DEF DecidedSoFar, Places, Distinct, OneOfEachKept
  <2>4. QED
    BY <2>2, <2>3, GateSound DEF DecidedSoFar, DecisionsSound
<1>2. QED
  BY <1>1, DecidedBegins, DecidedStep, PTL DEF DecisionsSpec

(* Once the run has ended, a stage by hand drops no job while configuration *)
(* and cache are those of the run: neither filter nor dedup decides         *)
(* otherwise than it has.                                                   *)
THEOREM ByHandDropsNothing == DecisionsSpec => [][stages > 0 => remaining' = remaining]_decisionVars
<1>1. DecisionsSpec => []DecidedSoFar
  BY DecidedBegins, DecidedStep, PTL DEF DecisionsSpec
<1>2. DecidedSoFar /\ [DecisionsNext]_decisionVars => [stages > 0 => remaining' = remaining]_decisionVars
  BY DecidedStep
<1>3. QED
  BY <1>1, <1>2, PTL DEF DecisionsSpec
=============================================================================
