--------------------------- MODULE PipelineProofs ---------------------------
(***************************************************************************)
(* The pipeline for any jobs, runs, stage commands, options and faults:    *)
(* what the model answered is neither lost nor paid for twice, a resumed   *)
(* run continues the newest checkpoint with its own jobs, no job gets a    *)
(* second page unless a sync was torn, and no emitted job goes out of      *)
(* sight while no process dies.                                            *)
(*                                                                         *)
(* The lemmas ending in Step each show that one part of the invariant is   *)
(* kept.  They go by what an action does to the process and to the store   *)
(* rather than by its stage, as "The actions" below sorts them.            *)
(***************************************************************************)
EXTENDS Pipeline, WellFoundedInduction, TLAPS

----------------------------------------------------------------------------
(* Positions *)

LEMMA Positions ==
  /\ Position = 1 .. 10 /\ Len(Stages) = 10
  /\ Stages[1] = "reconcile" /\ Stages[2] = "farm" /\ Stages[3] = "source" /\ Stages[4] = "compress"
  /\ Stages[5] = "structure" /\ Stages[6] = "assemble" /\ Stages[7] = "filter" /\ Stages[8] = "dedup"
  /\ Stages[9] = "rank" /\ Stages[10] = "sync"
BY DEF Position, Stages

LEMMA AtPosition ==
  ASSUME TypeOK, NEW a \in Actor
  PROVE  /\ proc[a] \in Process /\ proc[a].pos \in 1 .. 10
         /\ At(a, "reconcile") => proc[a].pos = 1
         /\ At(a, "farm") => proc[a].pos = 2
         /\ At(a, "source") => proc[a].pos = 3
         /\ At(a, "compress") => proc[a].pos = 4
         /\ At(a, "structure") => proc[a].pos = 5
         /\ At(a, "assemble") => proc[a].pos = 6
         /\ At(a, "filter") => proc[a].pos = 7
         /\ At(a, "dedup") => proc[a].pos = 8
         /\ At(a, "rank") => proc[a].pos = 9
         /\ At(a, "sync") => proc[a].pos = 10
<1>1. proc[a] \in Process /\ proc[a].pos \in 1 .. 10
  BY Positions DEF TypeOK, Process
<1>2. \A k \in 1 .. 10 : k \in {1, 2, 3, 4, 5, 6, 7, 8, 9, 10}
  OBVIOUS
<1>3. proc[a].pos \in {1, 2, 3, 4, 5, 6, 7, 8, 9, 10}
  BY <1>1, <1>2
<1>4. QED
  BY <1>1, <1>3, Positions DEF At

----------------------------------------------------------------------------
(* What an action does to the processes *)

(* All but a go on as they were. *)
Others(a) == \A b \in Actor : b # a => proc'[b] = proc[b]
(* Process a stays in its stage. *)
InStage(a) ==
  /\ proc'[a].pos = proc[a].pos /\ proc'[a].group = proc[a].group
  /\ proc'[a].dry = proc[a].dry /\ proc'[a].only = proc[a].only

LEMMA Resolves ==
  ASSUME TypeOK, NEW a \in Actor, NEW pay \in Payload, Resolve(a, pay)
  PROVE  /\ proc' \in [Actor -> Process] /\ Others(a) /\ InStage(a)
         /\ proc'[a].step = "write" /\ proc'[a].pay = pay
<1>1. proc \in [Actor -> Process] /\ proc[a] \in Process
  BY DEF TypeOK
<1>2. proc' = [proc EXCEPT ![a] = [proc[a] EXCEPT !.step = "write", !.pay = pay]]
  BY <1>1 DEF Resolve
<1>3. ASSUME NEW p \in Process
      PROVE  LET q == [p EXCEPT !.step = "write", !.pay = pay] IN
             /\ q \in Process /\ q.step = "write" /\ q.pay = pay
             /\ q.pos = p.pos /\ q.group = p.group /\ q.dry = p.dry /\ q.only = p.only
  BY DEF Process
<1>4. QED
  BY <1>1, <1>2, <1>3 DEF Others, InStage

(* A whole record for one process. *)
LEMMA Sets ==
  ASSUME TypeOK, NEW a \in Actor, NEW q \in Process, proc' = [proc EXCEPT ![a] = q]
  PROVE  proc' \in [Actor -> Process] /\ Others(a) /\ proc'[a] = q
BY DEF TypeOK, Others

LEMMA IdleTyped ==
  /\ Idle \in Process /\ Idle.step = "idle" /\ Idle.pay = Seed
  /\ Seed \in Payload /\ Seed.jobs = {} /\ Seed.ready = {} /\ Seed.paged = {} /\ Seed.dropped = {}
<1>1. Seed \in Payload /\ Seed.jobs = {} /\ Seed.ready = {} /\ Seed.paged = {} /\ Seed.dropped = {}
  BY DEF Seed, Payload
<1>2. MaxGroups \in Nat /\ 0 \in 0 .. MaxGroups /\ 1 \in Position /\ 1 \in 1 .. 2
  BY PipelineAssumption, Positions
<1>3. QED
  BY <1>1, <1>2 DEF Idle, Process

(* A step, its rows and its accumulator set for one process. *)
LEMMA Refits ==
  ASSUME NEW a \in Actor, proc \in [Actor -> Process],
         NEW step \in {"batches", "pages"}, NEW acc \in SUBSET Job, NEW todo \in SUBSET Job,
         proc' = [proc EXCEPT ![a] = [proc[a] EXCEPT !.step = step, !.acc = acc, !.todo = todo]]
  PROVE  /\ proc' \in [Actor -> Process] /\ Others(a) /\ InStage(a)
         /\ proc'[a].step = step /\ proc'[a].pay = proc[a].pay
         /\ proc'[a].acc = acc /\ proc'[a].todo = todo
<1>1. ASSUME NEW p \in Process
      PROVE  LET q == [p EXCEPT !.step = step, !.acc = acc, !.todo = todo] IN
             /\ q \in Process /\ q.step = step /\ q.pay = p.pay /\ q.acc = acc /\ q.todo = todo
             /\ q.pos = p.pos /\ q.group = p.group /\ q.dry = p.dry /\ q.only = p.only
  BY DEF Process
<1>2. QED
  BY <1>1 DEF Others, InStage

LEMMA Recounts ==
  ASSUME NEW a \in Actor, proc \in [Actor -> Process],
         NEW acc \in SUBSET Job, NEW todo \in SUBSET Job,
         proc' = [proc EXCEPT ![a] = [proc[a] EXCEPT !.todo = todo, !.acc = acc]]
  PROVE  /\ proc' \in [Actor -> Process] /\ Others(a) /\ InStage(a)
         /\ proc'[a].step = proc[a].step /\ proc'[a].pay = proc[a].pay
         /\ proc'[a].acc = acc /\ proc'[a].todo = todo
<1>1. ASSUME NEW p \in Process
      PROVE  LET q == [p EXCEPT !.todo = todo, !.acc = acc] IN
             /\ q \in Process /\ q.step = p.step /\ q.pay = p.pay /\ q.acc = acc /\ q.todo = todo
             /\ q.pos = p.pos /\ q.group = p.group /\ q.dry = p.dry /\ q.only = p.only
  BY DEF Process
<1>2. QED
  BY <1>1 DEF Others, InStage

LEMMA BeginsStructure ==
  ASSUME TypeOK, NEW a \in Actor, StructureBegin(a), table \subseteq Job
  PROVE  /\ proc' \in [Actor -> Process] /\ Others(a) /\ InStage(a)
         /\ proc'[a].step = "batches" /\ proc'[a].pay = proc[a].pay
         /\ proc'[a].acc = partial /\ proc'[a].todo = table \ partial
<1> DEFINE acc == partial  todo == table \ partial
<1>1. proc \in [Actor -> Process] /\ proc[a] \in Process
  BY DEF TypeOK
<1>2. acc \in SUBSET Job /\ todo \in SUBSET Job
  BY DEF TypeOK
<1>3. proc' = [proc EXCEPT ![a] = [proc[a] EXCEPT !.step = "batches", !.acc = acc, !.todo = todo]]
  BY <1>1 DEF StructureBegin
<1> SUFFICES /\ proc' \in [Actor -> Process] /\ Others(a) /\ InStage(a)
             /\ proc'[a].step = "batches" /\ proc'[a].pay = proc[a].pay
             /\ proc'[a].acc = acc /\ proc'[a].todo = todo
  OBVIOUS
<1> HIDE DEF acc, todo
<1>4. QED
  BY <1>1, <1>2, <1>3, Refits

LEMMA AnswersBatch ==
  ASSUME TypeOK, NEW a \in Actor, StructureBatch(a)
  PROVE  /\ proc' \in [Actor -> Process] /\ Others(a) /\ InStage(a)
         /\ proc'[a].step = "batches" /\ proc'[a].pay = proc[a].pay
         /\ \E j \in proc[a].todo : /\ proc'[a].todo = proc[a].todo \ {j}
                                    /\ \/ proc'[a].acc = proc[a].acc /\ answered' = answered
                                       \/ proc'[a].acc = proc[a].acc \cup {j} /\ answered' = answered \cup {j}
         /\ partial' = proc'[a].acc /\ partial' \subseteq Job /\ answered' \subseteq Job
<1>1. proc \in [Actor -> Process] /\ proc[a] \in Process /\ proc[a].step = "batches" /\ answered \subseteq Job
  BY DEF TypeOK, StructureBatch
<1>2. PICK j \in proc[a].todo, ok \in BOOLEAN :
        LET acc == IF ok THEN proc[a].acc \cup {j} ELSE proc[a].acc IN
        /\ proc' = [proc EXCEPT ![a].todo = @ \ {j}, ![a].acc = acc]
        /\ partial' = acc
        /\ answered' = IF ok THEN answered \cup {j} ELSE answered
  BY DEF StructureBatch
<1> DEFINE acc == IF ok THEN proc[a].acc \cup {j} ELSE proc[a].acc
<1>3. j \in Job /\ acc \in SUBSET Job /\ proc[a].todo \ {j} \in SUBSET Job
  BY <1>1 DEF Process
<1> DEFINE todo == proc[a].todo \ {j}
<1>4. proc' = [proc EXCEPT ![a] = [proc[a] EXCEPT !.todo = todo, !.acc = acc]]
  BY <1>1, <1>2
<1>5. acc \in SUBSET Job /\ todo \in SUBSET Job
  BY <1>3
<1>6. /\ proc' \in [Actor -> Process] /\ Others(a) /\ InStage(a)
      /\ proc'[a].step = proc[a].step /\ proc'[a].pay = proc[a].pay
      /\ proc'[a].acc = acc /\ proc'[a].todo = todo
  <2> HIDE DEF acc, todo
  <2>1. QED
    BY <1>1, <1>4, <1>5, Recounts
<1>7. QED
  BY <1>1, <1>2, <1>3, <1>6

LEMMA Decides ==
  ASSUME TypeOK, NEW a \in Actor, StructureDecide(a)
  PROVE  /\ proc' \in [Actor -> Process] /\ Others(a) /\ InStage(a)
         /\ proc'[a].step = "clear" /\ proc'[a].pay = proc[a].pay
         /\ decisions' = proc[a].acc /\ decisions' \subseteq Job
<1>1. proc \in [Actor -> Process] /\ proc[a] \in Process
  BY DEF TypeOK
<1>2. proc' = [proc EXCEPT ![a] = [proc[a] EXCEPT !.step = "clear"]]
  BY <1>1 DEF StructureDecide
<1>3. ASSUME NEW p \in Process
      PROVE  LET q == [p EXCEPT !.step = "clear"] IN
             /\ q \in Process /\ q.step = "clear" /\ q.pay = p.pay /\ p.acc \subseteq Job
             /\ q.pos = p.pos /\ q.group = p.group /\ q.dry = p.dry /\ q.only = p.only
  BY DEF Process
<1>4. decisions' = proc[a].acc
  BY DEF StructureDecide
<1>5. QED
  BY <1>1, <1>2, <1>3, <1>4 DEF Others, InStage

LEMMA BeginsSync ==
  ASSUME TypeOK, NEW a \in Actor, SyncBegin(a)
  PROVE  /\ proc' \in [Actor -> Process] /\ Others(a) /\ InStage(a)
         /\ proc'[a].step = "pages" /\ proc'[a].pay = proc[a].pay
         /\ proc'[a].todo = proc[a].pay.jobs /\ proc'[a].acc = {}
<1>1. proc \in [Actor -> Process] /\ proc[a] \in Process /\ proc[a].pay.jobs \in SUBSET Job
  BY DEF TypeOK, Process, Payload
<1>2. proc' = [proc EXCEPT ![a] = [proc[a] EXCEPT !.step = "pages", !.todo = proc[a].pay.jobs, !.acc = {}]]
  BY <1>1 DEF SyncBegin
<1>3. ASSUME NEW p \in Process, NEW t \in SUBSET Job
      PROVE  LET q == [p EXCEPT !.step = "pages", !.todo = t, !.acc = {}] IN
             /\ q \in Process /\ q.step = "pages" /\ q.pay = p.pay /\ q.acc = {} /\ q.todo = t
             /\ q.pos = p.pos /\ q.group = p.group /\ q.dry = p.dry /\ q.only = p.only
  BY DEF Process
<1>4. QED
  BY <1>1, <1>2, <1>3 DEF Others, InStage

(* A page is made only for a job the payload knows none of. *)
LEMMA SyncsPage ==
  ASSUME TypeOK, NEW a \in Actor, SyncPage(a)
  PROVE  /\ proc' \in [Actor -> Process] /\ Others(a) /\ InStage(a)
         /\ proc'[a].step = "pages" /\ proc'[a].pay = proc[a].pay
         /\ pages' \in [Job -> Nat]
         /\ \E j \in proc[a].todo :
              /\ j \in Job /\ proc'[a].todo = proc[a].todo \ {j} /\ proc'[a].acc = proc[a].acc \cup {j}
              /\ \A i \in Job : i # j => pages'[i] = pages[i]
              /\ j \in proc[a].pay.paged => pages'[j] = pages[j]
              /\ j \notin proc[a].pay.paged => pages'[j] = pages[j] + 1
<1>1. proc \in [Actor -> Process] /\ proc[a] \in Process /\ proc[a].step = "pages" /\ pages \in [Job -> Nat]
  BY DEF TypeOK, SyncPage
<1>2. PICK j \in proc[a].todo :
        /\ pages' = IF j \in proc[a].pay.paged THEN pages ELSE [pages EXCEPT ![j] = @ + 1]
        /\ proc' = [proc EXCEPT ![a].todo = @ \ {j}, ![a].acc = @ \cup {j}]
  BY DEF SyncPage
<1>3. j \in Job /\ proc[a].todo \ {j} \in SUBSET Job /\ proc[a].acc \cup {j} \in SUBSET Job
  BY <1>1 DEF Process
<1> DEFINE acc == proc[a].acc \cup {j}  todo == proc[a].todo \ {j}
<1>4. proc' = [proc EXCEPT ![a] = [proc[a] EXCEPT !.todo = todo, !.acc = acc]]
  BY <1>1, <1>2
<1>5. acc \in SUBSET Job /\ todo \in SUBSET Job
  BY <1>3
<1>6. /\ proc' \in [Actor -> Process] /\ Others(a) /\ InStage(a)
      /\ proc'[a].step = proc[a].step /\ proc'[a].pay = proc[a].pay
      /\ proc'[a].acc = acc /\ proc'[a].todo = todo
  <2> HIDE DEF acc, todo
  <2>1. QED
    BY <1>1, <1>4, <1>5, Recounts
<1>7. /\ pages' \in [Job -> Nat]
      /\ \A i \in Job : i # j => pages'[i] = pages[i]
      /\ j \in proc[a].pay.paged => pages'[j] = pages[j]
      /\ j \notin proc[a].pay.paged => pages'[j] = pages[j] + 1
  BY <1>1, <1>2, <1>3
<1>8. QED
  BY <1>1, <1>3, <1>6, <1>7

LEMMA PassesPage ==
  ASSUME TypeOK, NEW a \in Actor, SyncPageFails(a)
  PROVE  /\ proc' \in [Actor -> Process] /\ Others(a) /\ InStage(a)
         /\ proc'[a].step = "pages" /\ proc'[a].pay = proc[a].pay
         /\ proc'[a].acc = proc[a].acc /\ proc'[a].todo \subseteq proc[a].todo
<1>1. proc \in [Actor -> Process] /\ proc[a] \in Process /\ proc[a].step = "pages"
  BY DEF TypeOK, SyncPageFails
<1>2. PICK j \in proc[a].todo : proc' = [proc EXCEPT ![a].todo = @ \ {j}]
  BY DEF SyncPageFails
<1>3. proc[a].todo \ {j} \in SUBSET Job
  BY <1>1 DEF Process
<1>4. proc' = [proc EXCEPT ![a] = [proc[a] EXCEPT !.todo = proc[a].todo \ {j}]]
  BY <1>1, <1>2
<1>5. ASSUME NEW p \in Process, NEW t \in SUBSET Job
      PROVE  LET q == [p EXCEPT !.todo = t] IN
             /\ q \in Process /\ q.step = p.step /\ q.pay = p.pay /\ q.acc = p.acc /\ q.todo = t
             /\ q.pos = p.pos /\ q.group = p.group /\ q.dry = p.dry /\ q.only = p.only
  BY DEF Process
<1>6. QED
  BY <1>1, <1>3, <1>4, <1>5 DEF Others, InStage

----------------------------------------------------------------------------
(* Payloads *)

LEMMA Gains ==
  ASSUME NEW p \in Payload, NEW found \in SUBSET Job
  PROVE  LET q == [p EXCEPT !.jobs = @ \cup found] IN
         /\ q \in Payload /\ q.jobs = p.jobs \cup found
         /\ q.ready = p.ready /\ q.paged = p.paged /\ q.dropped = p.dropped
BY DEF Payload

LEMMA Trims ==
  ASSUME NEW p \in Payload, NEW gone
  PROVE  LET q == Without(p, gone) IN
         /\ q \in Payload /\ q.jobs = p.jobs \ gone /\ q.ready = p.ready \ gone
         /\ q.paged = p.paged \ gone /\ q.dropped = p.dropped \cup (p.jobs \cap gone)
BY DEF Payload, Without

LEMMA Pages ==
  ASSUME NEW p \in Payload, NEW s \in SUBSET Job
  PROVE  LET q == [p EXCEPT !.paged = s] IN
         /\ q \in Payload /\ q.jobs = p.jobs /\ q.ready = p.ready
         /\ q.paged = s /\ q.dropped = p.dropped
BY DEF Payload

----------------------------------------------------------------------------
(* The actions, by what they do to the process and the store *)

(* Process a goes on with its stage; its payload changes as the stage ends. *)
Worked(a) ==
  /\ proc' \in [Actor -> Process] /\ Others(a) /\ InStage(a) /\ Busy(a) /\ Busy(a)'
  /\ proc'[a].step # "write" => proc[a].step # "write" /\ proc'[a].pay = proc[a].pay
  /\ UNCHANGED <<checkpoints, count, newest, passed>>

(* ... and its stage is over but for the checkpoint. *)
Wrote(a) == Worked(a) /\ proc'[a].step = "write" /\ UNCHANGED <<answered, torn>>
Bodily(a, k) == proc[a].step = "body" /\ proc[a].pos = k

LEMMA Reconciles ==
  ASSUME TypeOK, NEW a \in Actor, Reconcile(a)
  PROVE  /\ Wrote(a) /\ Bodily(a, 1) /\ proc'[a].pay = proc[a].pay
         /\ cache' = InPages /\ cache' \subseteq Job
         /\ UNCHANGED <<apiSeen, table, partial, decisions, pages, emitted>>
<1>1. proc[a].pay \in Payload
  BY DEF TypeOK, Process
<1>2. QED
  BY <1>1, AtPosition, Resolves
     DEF Reconcile, Worked, Wrote, Bodily, At, Busy, InPages, store, count, obs

LEMMA Farms ==
  ASSUME TypeOK, NEW a \in Actor, Farm(a)
  PROVE  /\ Wrote(a) /\ Bodily(a, 2) /\ UNCHANGED <<docs, pages, emitted>>
         /\ \E found \in SUBSET (Job \ Known) : proc'[a].pay.jobs = proc[a].pay.jobs \cup found
         /\ proc'[a].pay.paged = proc[a].pay.paged /\ proc'[a].pay.dropped = proc[a].pay.dropped
<1>1. proc[a].pay \in Payload
  BY DEF TypeOK, Process
<1>2. PICK found \in SUBSET (Farmed \ Known) : Resolve(a, [proc[a].pay EXCEPT !.jobs = @ \cup found])
  BY DEF Farm
<1>3. found \in SUBSET (Job \ Known) /\ found \in SUBSET Job
  BY <1>2, PipelineAssumption
<1> DEFINE q == [proc[a].pay EXCEPT !.jobs = @ \cup found]
<1>4. /\ q \in Payload /\ q.jobs = proc[a].pay.jobs \cup found
      /\ q.paged = proc[a].pay.paged /\ q.dropped = proc[a].pay.dropped
  BY <1>1, <1>3, Gains
<1>5. Resolve(a, q)
  BY <1>2
<1> HIDE DEF q
<1>6. QED
  BY <1>3, <1>4, <1>5, AtPosition, Resolves
     DEF Farm, Worked, Wrote, Bodily, At, Busy, docs, store, count, obs

LEMMA Sources ==
  ASSUME TypeOK, NEW a \in Actor, Source(a)
  PROVE  /\ Wrote(a) /\ Bodily(a, 3) /\ UNCHANGED <<cache, table, partial, decisions, pages>>
         /\ \E found \in SUBSET (Job \ Known) :
              /\ proc'[a].pay.jobs = proc[a].pay.jobs \cup found
              /\ apiSeen' = apiSeen \cup found
              /\ emitted' = IF a = "run" /\ ~proc[a].dry THEN emitted \cup found ELSE emitted
         /\ proc'[a].pay.paged = proc[a].pay.paged /\ proc'[a].pay.dropped = proc[a].pay.dropped
<1>1. proc[a].pay \in Payload
  BY DEF TypeOK, Process
<1>2. PICK found \in SUBSET (Job \ (Farmed \cup apiSeen \cup Known)) :
        /\ apiSeen' = apiSeen \cup found
        /\ emitted' = IF a = "run" /\ ~proc[a].dry THEN emitted \cup found ELSE emitted
        /\ Resolve(a, [proc[a].pay EXCEPT !.jobs = @ \cup found])
  BY DEF Source
<1>3. found \in SUBSET (Job \ Known) /\ found \in SUBSET Job
  BY <1>2
<1> DEFINE q == [proc[a].pay EXCEPT !.jobs = @ \cup found]
<1>4. /\ q \in Payload /\ q.jobs = proc[a].pay.jobs \cup found
      /\ q.paged = proc[a].pay.paged /\ q.dropped = proc[a].pay.dropped
  BY <1>1, <1>3, Gains
<1>5. Resolve(a, q)
  BY <1>2
<1> HIDE DEF q
<1>6. /\ Wrote(a) /\ Bodily(a, 3) /\ UNCHANGED <<cache, table, partial, decisions, pages>> /\ proc'[a].pay = q
  BY <1>4, <1>5, AtPosition, Resolves
     DEF Source, Worked, Wrote, Bodily, At, Busy, store, count
<1>7. QED
  BY <1>2, <1>3, <1>4, <1>6

LEMMA Compresses ==
  ASSUME TypeOK, NEW a \in Actor, Compress(a)
  PROVE  /\ Wrote(a) /\ Bodily(a, 4) /\ proc'[a].pay = proc[a].pay
         /\ table' = proc[a].pay.jobs /\ table' \subseteq Job
         /\ UNCHANGED <<apiSeen, cache, partial, decisions, pages, emitted>>
<1>1. proc[a].pay \in Payload /\ proc[a].pay.jobs \subseteq Job
  BY DEF TypeOK, Process, Payload
<1>2. QED
  BY <1>1, AtPosition, Resolves
     DEF Compress, Worked, Wrote, Bodily, At, Busy, store, count, obs

LEMMA Begins ==
  ASSUME TypeOK, NEW a \in Actor, StructureBegin(a)
  PROVE  /\ Worked(a) /\ Bodily(a, 5) /\ UNCHANGED <<docs, pages, answered, emitted, torn>>
         /\ proc'[a].step = "batches" /\ proc'[a].pay = proc[a].pay
         /\ proc'[a].acc = partial /\ proc'[a].todo = table \ partial
<1>1. table \subseteq Job
  BY DEF StructureBegin, TypeOK
<1>2. QED
  BY <1>1, AtPosition, BeginsStructure
     DEF StructureBegin, Worked, Bodily, At, Busy, docs, store, count, obs

LEMMA Answers ==
  ASSUME TypeOK, NEW a \in Actor, StructureBatch(a)
  PROVE  /\ Worked(a) /\ UNCHANGED <<apiSeen, cache, table, decisions, pages, emitted, torn>>
         /\ proc[a].step = "batches" /\ proc'[a].step = "batches" /\ proc'[a].pay = proc[a].pay
         /\ \E j \in proc[a].todo : /\ proc'[a].todo = proc[a].todo \ {j}
                                    /\ \/ proc'[a].acc = proc[a].acc /\ answered' = answered
                                       \/ proc'[a].acc = proc[a].acc \cup {j} /\ answered' = answered \cup {j}
         /\ partial' = proc'[a].acc /\ partial' \subseteq Job /\ answered' \subseteq Job
BY AnswersBatch DEF StructureBatch, Worked, Busy, store, count

LEMMA DecidesAll ==
  ASSUME TypeOK, NEW a \in Actor, StructureDecide(a)
  PROVE  /\ Worked(a) /\ UNCHANGED <<apiSeen, cache, table, partial, pages, answered, emitted, torn>>
         /\ proc[a].step = "batches" /\ proc'[a].step = "clear" /\ proc'[a].pay = proc[a].pay
         /\ decisions' = proc[a].acc /\ decisions' \subseteq Job
BY Decides DEF StructureDecide, Worked, Busy, store, count, obs

LEMMA Clears ==
  ASSUME TypeOK, NEW a \in Actor, StructureClear(a)
  PROVE  /\ Worked(a) /\ UNCHANGED <<apiSeen, cache, table, decisions, pages, emitted, torn>>
         /\ proc[a].step = "clear" /\ proc'[a].step = "write" /\ proc'[a].pay = proc[a].pay
         /\ partial' = {} /\ answered' = {}
<1>1. proc[a].pay \in Payload
  BY DEF TypeOK, Process
<1>2. QED
  BY <1>1, Resolves DEF StructureClear, Worked, Busy, store, count

LEMMA AssemblesTable ==
  ASSUME TypeOK, NEW a \in Actor, Assemble(a)
  PROVE  /\ Wrote(a) /\ Bodily(a, 6) /\ UNCHANGED <<docs, pages, emitted>>
         /\ table \subseteq Job /\ decisions \subseteq Job
         /\ proc'[a].pay.jobs = table \cap decisions
         /\ proc'[a].pay.paged = proc[a].pay.paged \cap table \cap decisions
         /\ proc'[a].pay.dropped = proc[a].pay.dropped \cup (table \ decisions)
<1>1. proc[a].pay \in Payload /\ table \subseteq Job /\ decisions \subseteq Job
  BY DEF Assemble, TypeOK, Process
<1> DEFINE in == table \cap decisions  out == table \ decisions
<1> DEFINE q == [proc[a].pay EXCEPT !.jobs = in, !.ready = in, !.paged = @ \cap in, !.dropped = @ \cup out]
<1> DEFINE r == [proc[a].pay EXCEPT !.jobs = in, !.ready = in, !.paged = @ \cap table \cap decisions,
                                    !.dropped = @ \cup out]
<1>2. in \in SUBSET Job /\ out \in SUBSET Job
  BY <1>1
<1>3. proc[a].pay.paged \cap in = proc[a].pay.paged \cap table \cap decisions
  OBVIOUS
<1>4. /\ r \in Payload /\ r.jobs = in
      /\ r.paged = proc[a].pay.paged \cap table \cap decisions /\ r.dropped = proc[a].pay.dropped \cup out
  <2>1. q = r
    BY <1>3
  <2> HIDE DEF in, out
  <2>2. /\ q \in Payload /\ q.jobs = in /\ q.paged = proc[a].pay.paged \cap in
        /\ q.dropped = proc[a].pay.dropped \cup out
    BY <1>1, <1>2 DEF Payload
  <2>3. QED
    BY <1>3, <2>1, <2>2
<1>5. Resolve(a, r)
  BY DEF Assemble
<1> HIDE DEF q, r
<1>6. QED
  BY <1>1, <1>4, <1>5, AtPosition, Resolves
     DEF Assemble, Worked, Wrote, Bodily, At, Busy, docs, store, count, obs

LEMMA Filters ==
  ASSUME TypeOK, NEW a \in Actor, Filter(a)
  PROVE  /\ Wrote(a) /\ Bodily(a, 7) /\ UNCHANGED <<docs, pages, emitted>>
         /\ proc'[a].pay.jobs = proc[a].pay.jobs \ Unwanted
         /\ proc'[a].pay.paged = proc[a].pay.paged \ Unwanted
         /\ proc'[a].pay.dropped = proc[a].pay.dropped \cup (proc[a].pay.jobs \cap Unwanted)
<1>1. proc[a].pay \in Payload
  BY DEF TypeOK, Process
<1>2. QED
  BY <1>1, Trims, AtPosition, Resolves
     DEF Filter, Worked, Wrote, Bodily, At, Busy, docs, store, count, obs

LEMMA Dedups ==
  ASSUME TypeOK, NEW a \in Actor, Dedup(a)
  PROVE  /\ Wrote(a) /\ Bodily(a, 8) /\ UNCHANGED <<docs, pages, emitted>>
         /\ cache = Known
         /\ proc'[a].pay.jobs = proc[a].pay.jobs \ cache
         /\ proc'[a].pay.paged = proc[a].pay.paged \ cache
         /\ proc'[a].pay.dropped = proc[a].pay.dropped \cup (proc[a].pay.jobs \cap cache)
<1>1. proc[a].pay \in Payload
  BY DEF TypeOK, Process
<1>2. QED
  BY <1>1, Trims, AtPosition, Resolves
     DEF Dedup, Known, Worked, Wrote, Bodily, At, Busy, docs, store, count, obs

LEMMA Ranks ==
  ASSUME TypeOK, NEW a \in Actor, RankJobs(a)
  PROVE  Wrote(a) /\ Bodily(a, 9) /\ UNCHANGED <<docs, pages, emitted>> /\ proc'[a].pay = proc[a].pay
<1>1. proc[a].pay \in Payload
  BY DEF TypeOK, Process
<1>2. QED
  BY <1>1, AtPosition, Resolves
     DEF RankJobs, Worked, Wrote, Bodily, At, Busy, docs, store, count, obs

LEMMA SyncsDry ==
  ASSUME TypeOK, NEW a \in Actor, SyncDry(a)
  PROVE  /\ Wrote(a) /\ Bodily(a, 10) /\ UNCHANGED <<docs, pages, emitted>>
         /\ proc[a].dry /\ proc'[a].pay = proc[a].pay
<1>1. proc[a].pay \in Payload
  BY DEF TypeOK, Process
<1>2. QED
  BY <1>1, AtPosition, Resolves
     DEF SyncDry, Worked, Wrote, Bodily, At, Busy, docs, store, count, obs

LEMMA SyncsSqlite ==
  ASSUME TypeOK, NEW a \in Actor, SyncSqlite(a)
  PROVE  /\ Wrote(a) /\ Bodily(a, 10) /\ UNCHANGED <<docs, emitted>>
         /\ ~proc[a].dry /\ Connector = "sqlite"
         /\ pages' = [j \in Job |-> IF j \in proc[a].pay.jobs THEN 1 ELSE pages[j]]
         /\ pages' \in [Job -> Nat]
         /\ proc'[a].pay.jobs = proc[a].pay.jobs /\ proc'[a].pay.paged = proc[a].pay.jobs
         /\ proc'[a].pay.dropped = proc[a].pay.dropped
<1>1. proc[a].pay \in Payload /\ proc[a].pay.jobs \in SUBSET Job /\ pages \in [Job -> Nat]
  BY DEF TypeOK, Process, Payload
<1> DEFINE q == [proc[a].pay EXCEPT !.paged = proc[a].pay.jobs]
<1>2. /\ q \in Payload /\ q.jobs = proc[a].pay.jobs /\ q.paged = proc[a].pay.jobs
      /\ q.dropped = proc[a].pay.dropped
  BY <1>1, Pages
<1>3. Resolve(a, q)
  BY DEF SyncSqlite
<1> HIDE DEF q
<1>4. pages' = [j \in Job |-> IF j \in proc[a].pay.jobs THEN 1 ELSE pages[j]]
  BY DEF SyncSqlite
<1>5. pages' \in [Job -> Nat]
  BY <1>1, <1>4
<1>6. QED
  BY <1>2, <1>3, <1>4, <1>5, AtPosition, Resolves
     DEF SyncSqlite, Worked, Wrote, Bodily, At, Busy, docs, count, obs

LEMMA BeginsPages ==
  ASSUME TypeOK, NEW a \in Actor, SyncBegin(a)
  PROVE  /\ Worked(a) /\ Bodily(a, 10) /\ UNCHANGED <<docs, pages, answered, emitted, torn>>
         /\ ~proc[a].dry /\ Connector = "notion"
         /\ proc'[a].step = "pages" /\ proc'[a].pay = proc[a].pay
         /\ proc'[a].todo = proc[a].pay.jobs /\ proc'[a].acc = {}
BY BeginsSync, AtPosition DEF SyncBegin, Worked, Bodily, At, Busy, docs, store, count, obs

LEMMA SyncsOne ==
  ASSUME TypeOK, NEW a \in Actor, SyncPage(a)
  PROVE  /\ Worked(a) /\ UNCHANGED <<docs, answered, emitted, torn>>
         /\ proc[a].step = "pages" /\ proc'[a].step = "pages" /\ proc'[a].pay = proc[a].pay
         /\ pages' \in [Job -> Nat]
         /\ \E j \in proc[a].todo :
              /\ j \in Job /\ proc'[a].todo = proc[a].todo \ {j} /\ proc'[a].acc = proc[a].acc \cup {j}
              /\ \A i \in Job : i # j => pages'[i] = pages[i]
              /\ j \in proc[a].pay.paged => pages'[j] = pages[j]
              /\ j \notin proc[a].pay.paged => pages'[j] = pages[j] + 1
BY SyncsPage DEF SyncPage, Worked, Busy, docs, count, obs

LEMMA PassesOne ==
  ASSUME TypeOK, NEW a \in Actor, SyncPageFails(a)
  PROVE  /\ Worked(a) /\ UNCHANGED <<docs, pages, answered, emitted, torn>>
         /\ proc[a].step = "pages" /\ proc'[a].step = "pages" /\ proc'[a].pay = proc[a].pay
         /\ proc'[a].acc = proc[a].acc /\ proc'[a].todo \subseteq proc[a].todo
BY PassesPage DEF SyncPageFails, Worked, Busy, docs, store, count, obs

LEMMA EndsPages ==
  ASSUME TypeOK, NEW a \in Actor, SyncEnd(a)
  PROVE  /\ Wrote(a) /\ UNCHANGED <<docs, pages, emitted>>
         /\ proc[a].step = "pages"
         /\ proc'[a].pay.jobs = proc[a].pay.jobs \cap proc[a].acc
         /\ proc'[a].pay.paged = proc[a].acc
         /\ proc'[a].pay.dropped = proc[a].pay.dropped \cup (proc[a].pay.jobs \ proc[a].acc)
<1>1. proc[a].pay \in Payload /\ proc[a].pay.jobs \in SUBSET Job /\ proc[a].acc \in SUBSET Job
  BY DEF TypeOK, Process, Payload
<1> DEFINE gone == proc[a].pay.jobs \ proc[a].acc
<1> DEFINE w == Without(proc[a].pay, gone)
<1> DEFINE q == [w EXCEPT !.paged = proc[a].acc]
<1>2. /\ w \in Payload /\ w.jobs = proc[a].pay.jobs \ gone
      /\ w.dropped = proc[a].pay.dropped \cup (proc[a].pay.jobs \cap gone)
  BY <1>1, Trims
<1>3. Resolve(a, q) /\ proc[a].step = "pages" /\ UNCHANGED <<docs, store, count, obs>>
  BY DEF SyncEnd
<1>4. /\ q \in Payload /\ q.jobs = w.jobs /\ q.paged = proc[a].acc /\ q.dropped = w.dropped
  <2> HIDE DEF w
  <2>1. QED
    BY <1>1, <1>2, Pages
<1>5. /\ proc[a].pay.jobs \ gone = proc[a].pay.jobs \cap proc[a].acc
      /\ proc[a].pay.jobs \cap gone = proc[a].pay.jobs \ proc[a].acc
  OBVIOUS
<1> HIDE DEF gone, w, q
<1>6. /\ Wrote(a) /\ UNCHANGED <<docs, pages, emitted>> /\ proc'[a].pay = q
  BY <1>3, <1>4, Resolves DEF Worked, Wrote, Busy, docs, store, count, obs
<1>7. QED
  BY <1>2, <1>3, <1>4, <1>5, <1>6

(* Process a is over with what it was doing. *)
Ended(a) ==
  /\ proc' \in [Actor -> Process] /\ Others(a) /\ Busy(a) /\ proc'[a] = Idle
  /\ UNCHANGED <<docs, store, count, passed, answered, newest, emitted>>

(* ... or tries the same stage again. *)
Retried(a) ==
  /\ Worked(a) /\ proc'[a].step = "body" /\ proc'[a].pay = proc[a].pay
  /\ proc[a].step # "write"
  /\ UNCHANGED <<docs, pages, answered, emitted>>

LEMMA Attempts ==
  /\ 1 \in 1 .. 2 /\ 2 \in 1 .. 2
  /\ Retries(Stages[5]) = 1 /\ \A k \in 1 .. 10 : k # 5 => Retries(Stages[k]) = 0
<1>1. \A k \in 1 .. 10 : k \in {1, 2, 3, 4, 5, 6, 7, 8, 9, 10}
  OBVIOUS
<1>2. QED
  BY <1>1, Positions DEF Retries

LEMMA Fails ==
  ASSUME TypeOK, NEW a \in Actor, AttemptFails(a)
  PROVE  Tears(a) /\ (Ended(a) \/ (Retried(a) /\ proc[a].pos = 5))
<1>1. proc \in [Actor -> Process] /\ proc[a] \in Process /\ proc[a].pos \in 1 .. 10 /\ proc[a].attempt \in 1 .. 2
  BY AtPosition DEF TypeOK, Process
<1>2. Tears(a) /\ proc[a].step \in {"body", "batches", "clear", "pages"}
      /\ UNCHANGED <<docs, store, count, passed, answered, newest, emitted>>
  BY DEF AttemptFails
<1>3. CASE proc[a].attempt <= Retries(Stages[proc[a].pos])
  <2>1. proc[a].attempt = 1 /\ proc[a].pos = 5
    <3> DEFINE n == Retries(Stages[proc[a].pos])
    <3>1. (proc[a].pos = 5 => n = 1) /\ (proc[a].pos # 5 => n = 0)
      BY <1>1, Attempts
    <3>2. proc[a].attempt <= n
      BY <1>3
    <3> HIDE DEF n
    <3>3. QED
      BY <1>1, <3>1, <3>2
  <2>2. proc' = [proc EXCEPT ![a] = [proc[a] EXCEPT !.step = "body", !.attempt = 2, !.todo = {}, !.acc = {}]]
    BY <1>1, <1>3, <2>1 DEF AttemptFails
  <2>3. ASSUME NEW p \in Process
        PROVE  LET q == [p EXCEPT !.step = "body", !.attempt = 2, !.todo = {}, !.acc = {}] IN
               /\ q \in Process /\ q.step = "body" /\ q.pay = p.pay
               /\ q.pos = p.pos /\ q.group = p.group /\ q.dry = p.dry /\ q.only = p.only
    BY Attempts DEF Process
  <2>4. /\ proc' \in [Actor -> Process] /\ Others(a) /\ InStage(a)
        /\ proc'[a].step = "body" /\ proc'[a].pay = proc[a].pay
    BY <1>1, <2>2, <2>3 DEF Others, InStage
  <2>5. QED
    BY <1>2, <2>1, <2>4 DEF Retried, Worked, Busy, store
<1>4. CASE ~(proc[a].attempt <= Retries(Stages[proc[a].pos]))
  <2>1. proc' = [proc EXCEPT ![a] = Idle]
    BY <1>4 DEF AttemptFails
  <2>2. QED
    BY <1>2, <2>1, Sets, IdleTyped DEF Ended, Busy
<1>5. QED
  BY <1>3, <1>4

LEMMA Deaths ==
  ASSUME TypeOK, NEW a \in Actor, Dies(a)
  PROVE  Ended(a) /\ Tears(a) /\ "die" \in Faults
BY Sets, IdleTyped DEF Dies, Ended

LEMMA Throws ==
  ASSUME TypeOK, NEW a \in Actor, StageThrows(a)
  PROVE  /\ Ended(a) /\ UNCHANGED torn /\ proc[a].step = "body"
         /\ proc[a].pos \in {5, 6, 7, 8, 9}
<1>1. proc' = [proc EXCEPT ![a] = Idle] /\ UNCHANGED <<docs, store, count, obs>>
  BY DEF StageThrows
<1>2. /\ proc[a].step = "body"
      /\ At(a, "structure") \/ At(a, "assemble") \/ At(a, "dedup") \/ At(a, "filter") \/ At(a, "rank")
  BY DEF StageThrows, At
<1>3. QED
  BY <1>1, <1>2, AtPosition, Sets, IdleTyped DEF Ended, Busy, obs

Row(a) == [group |-> proc[a].group, pos |-> proc[a].pos, pay |-> proc[a].pay]

(* A checkpoint takes its row; the next stage follows, or the command ends. *)
Checkpointed(a) ==
  /\ proc[a].step = "write"
  /\ proc' \in [Actor -> Process] /\ Others(a)
  /\ checkpoints' = {c \in checkpoints : c.group # proc[a].group \/ c.pos # proc[a].pos} \cup {Row(a)}
  /\ newest'.pos = proc[a].pos /\ newest'.pay = proc[a].pay
  /\ UNCHANGED <<docs, pages, count, answered, emitted, torn>>
  /\ \/ /\ proc[a].only \/ proc[a].pos = 10
        /\ proc'[a] = Idle
        /\ passed' = IF a = "run" THEN ~proc[a].dry ELSE passed
     \/ /\ ~proc[a].only /\ proc[a].pos < 10
        /\ proc'[a].step = "body" /\ proc'[a].pos = proc[a].pos + 1
        /\ proc'[a].pay = proc[a].pay /\ proc'[a].group = proc[a].group
        /\ proc'[a].dry = proc[a].dry /\ proc'[a].only = proc[a].only
        /\ passed' = passed

LEMMA Checkpoints ==
  ASSUME TypeOK, NEW a \in Actor, Checkpoint(a)
  PROVE  Checkpointed(a)
<1>1. proc \in [Actor -> Process] /\ proc[a] \in Process /\ proc[a].pos \in 1 .. 10 /\ Len(Stages) = 10
  BY AtPosition, Positions DEF TypeOK
<1>2. /\ proc[a].step = "write"
      /\ checkpoints' = {c \in checkpoints : c.group # proc[a].group \/ c.pos # proc[a].pos} \cup {Row(a)}
      /\ newest'.pos = proc[a].pos /\ newest'.pay = proc[a].pay
      /\ UNCHANGED <<docs, pages, count, answered, emitted, torn>>
  BY DEF Checkpoint, Row
<1>3. CASE proc[a].only \/ proc[a].pos = 10
  <2>1. proc' = [proc EXCEPT ![a] = Idle] /\ passed' = IF a = "run" THEN ~proc[a].dry ELSE passed
    BY <1>1, <1>3 DEF Checkpoint
  <2>2. QED
    BY <1>2, <1>3, <2>1, Sets, IdleTyped DEF Checkpointed
<1>4. CASE ~(proc[a].only \/ proc[a].pos = 10)
  <2> DEFINE k == proc[a].pos + 1
  <2>1. /\ proc' = [proc EXCEPT ![a] = [proc[a] EXCEPT !.step = "body", !.pos = k, !.attempt = 1]]
        /\ passed' = passed
    BY <1>1, <1>4 DEF Checkpoint
  <2>2. k \in Position /\ proc[a].pos < 10
    BY <1>1, <1>4, Positions
  <2>3. /\ proc' \in [Actor -> Process] /\ Others(a)
        /\ proc'[a].step = "body" /\ proc'[a].pos = k /\ proc'[a].pay = proc[a].pay
        /\ proc'[a].group = proc[a].group /\ proc'[a].dry = proc[a].dry /\ proc'[a].only = proc[a].only
    <3> HIDE DEF k
    <3>1. ASSUME NEW p \in Process
          PROVE  LET q == [p EXCEPT !.step = "body", !.pos = k, !.attempt = 1] IN
                 /\ q \in Process /\ q.step = "body" /\ q.pay = p.pay /\ q.pos = k
                 /\ q.group = p.group /\ q.dry = p.dry /\ q.only = p.only
      BY <2>2, Attempts DEF Process
    <3>2. QED
      BY <1>1, <2>1, <3>1 DEF Others
  <2>4. QED
    BY <1>2, <1>4, <2>1, <2>2, <2>3 DEF Checkpointed
<1>5. QED
  BY <1>3, <1>4

----------------------------------------------------------------------------
(* The latest checkpoint *)

LEMMA Greatest ==
  ASSUME NEW n \in Nat, NEW S \in SUBSET (1 .. n), S # {}
  PROVE  \E g \in S : \A m \in S : m <= g
<1> DEFINE T == {k \in Nat : n - k \in S}
<1>1. T # {} /\ T \subseteq Nat
  <2>1. PICK m \in S : TRUE
    OBVIOUS
  <2>2. n - m \in Nat /\ n - (n - m) = m
    BY <2>1
  <2>3. QED
    BY <2>1, <2>2
<1>2. PICK x \in T : \A y \in T : ~ (<<y, x>> \in OpToRel(<, Nat))
  <2> HIDE DEF T
  <2>1. QED
    BY <1>1, NatLessThanWellFounded, WFMin
<1>3. \A m \in S : m <= n - x
  <2> SUFFICES ASSUME NEW m \in S, ~(m <= n - x) PROVE FALSE
    OBVIOUS
  <2>1. n - m \in Nat /\ n - (n - m) = m /\ x \in Nat
    OBVIOUS
  <2>2. n - m \in T /\ n - m < x
    BY <2>1
  <2>3. <<n - m, x>> \in OpToRel(<, Nat)
    BY <2>1, <2>2 DEF OpToRel
  <2>4. QED
    BY <1>2, <2>2, <2>3
<1>4. n - x \in S
  OBVIOUS
<1>5. QED
  BY <1>3, <1>4

(* Of some groups one has the greatest name. *)
LEMMA GreatestName ==
  ASSUME NEW S \in SUBSET (1 .. MaxGroups), S # {}
  PROVE  \E g \in S : \A h \in S : Rank[h] <= Rank[g]
<1> DEFINE Has(V) == V # {} => \E g \in V : \A h \in V : Rank[h] <= Rank[g]
<1> DEFINE T == {k \in 0 .. MaxGroups : \E V \in SUBSET (1 .. k) : ~Has(V)}
<1>1. MaxGroups \in Nat /\ \A g \in 1 .. MaxGroups : Rank[g] \in Nat
  BY PipelineAssumption
<1>2. T = {}
  <2> SUFFICES ASSUME T # {} PROVE FALSE
    OBVIOUS
  <2>1. T \subseteq Nat
    BY <1>1
  <2>2. PICK x \in T : \A y \in T : ~ (<<y, x>> \in OpToRel(<, Nat))
    <3> HIDE DEF T
    <3>1. QED
      BY <2>1, NatLessThanWellFounded, WFMin
  <2>3. x \in 0 .. MaxGroups /\ \E V \in SUBSET (1 .. x) : ~Has(V)
    OBVIOUS
  <2>4. PICK V \in SUBSET (1 .. x) : ~Has(V)
    BY <2>3
  <2>5. V # {} /\ x # 0
    <3>1. V # {}
      BY <2>4
    <3> HIDE DEF Has, T
    <3>2. x = 0 => 1 .. x = {}
      OBVIOUS
    <3>3. QED
      BY <3>1, <3>2
  <2>6. x - 1 \in 0 .. MaxGroups /\ x - 1 \notin T
    <3>1. x - 1 \in 0 .. MaxGroups /\ x - 1 < x /\ x \in Nat /\ x - 1 \in Nat
      <4> HIDE DEF T, Has
      <4>1. QED
        BY <1>1, <2>3, <2>5
    <3>2. <<x - 1, x>> \in OpToRel(<, Nat)
      BY <3>1 DEF OpToRel
    <3>3. QED
      BY <2>2, <3>1, <3>2
  <2>7. V \ {x} \in SUBSET (1 .. (x - 1)) /\ V \in SUBSET (1 .. MaxGroups) /\ x \in 1 .. MaxGroups
    <3> HIDE DEF T, Has
    <3>1. QED
      BY <1>1, <2>3, <2>5
  <2>8. Has(V \ {x})
    BY <2>6, <2>7
  <2>9. CASE V \ {x} = {}
    <3> HIDE DEF T
    <3>1. V = {x}
      BY <2>5, <2>9
    <3>2. Rank[x] <= Rank[x]
      BY <1>1, <2>7
    <3>3. QED
      BY <2>4, <3>1, <3>2
  <2>10. CASE V \ {x} # {}
    <3> HIDE DEF T
    <3>1. PICK g \in V \ {x} : \A h \in V \ {x} : Rank[h] <= Rank[g]
      BY <2>8, <2>10
    <3>2. Rank[x] \in Nat /\ g \in V /\ \A h \in V : Rank[h] \in Nat
      BY <1>1, <2>7
    <3>3. CASE Rank[x] <= Rank[g] \/ x \notin V
      <4>1. \A h \in V : Rank[h] <= Rank[g]
        BY <3>1, <3>3
      <4>2. QED
        BY <2>4, <3>2, <4>1
    <3>4. CASE ~(Rank[x] <= Rank[g] \/ x \notin V)
      <4>1. \A h \in V : Rank[h] <= Rank[x]
        BY <3>1, <3>2, <3>4
      <4>2. QED
        BY <2>4, <3>4, <4>1
    <3>5. QED
      BY <3>3, <3>4
  <2>11. QED
    BY <2>9, <2>10
<1>3. MaxGroups \in 0 .. MaxGroups
  BY <1>1
<1>4. Has(S)
  BY <1>2, <1>3
<1>5. QED
  BY <1>4

(* What a resumed run and a stage command read is the last row of the group *)
(* with the greatest name.                                                  *)
LEMMA LatestRow ==
  ASSUME TypeOK, Written # {}
  PROVE  /\ LatestGroup \in Written /\ \A h \in Written : Rank[h] <= Rank[LatestGroup]
         /\ LatestIn(LatestGroup) \in checkpoints
         /\ LatestIn(LatestGroup).group = LatestGroup
         /\ \A d \in checkpoints : d.group = LatestGroup => d.pos <= LatestIn(LatestGroup).pos
<1>1. Written \subseteq 1 .. MaxGroups
  BY PipelineAssumption DEF TypeOK, Written
<1>2. LatestGroup \in Written /\ \A h \in Written : Rank[h] <= Rank[LatestGroup]
  <2>1. \E g \in Written : \A h \in Written : Rank[h] <= Rank[g]
    BY <1>1, GreatestName
  <2>2. QED
    BY <2>1 DEF LatestGroup
<1> DEFINE g == LatestGroup
           K == {c.pos : c \in {d \in checkpoints : d.group = g}}
<1>3. K \subseteq 1 .. 10 /\ K # {}
  <2>1. \A c \in checkpoints : c.pos \in 1 .. 10
    BY Positions DEF TypeOK
  <2>2. \E c \in checkpoints : c.group = g
    BY <1>2 DEF Written
  <2> HIDE DEF g
  <2>3. QED
    BY <2>1, <2>2
<1>4. \E k \in K : \A m \in K : m <= k
  <2> HIDE DEF K
  <2>1. 10 \in Nat
    OBVIOUS
  <2>2. QED
    BY <1>3, <2>1, Greatest
<1>5. \E c \in checkpoints : c.group = g /\ \A d \in checkpoints : d.group = g => d.pos <= c.pos
  <2> HIDE DEF g
  <2>1. QED
    BY <1>4
<1> HIDE DEF g
<1>6. /\ LatestIn(g) \in checkpoints /\ LatestIn(g).group = g
      /\ \A d \in checkpoints : d.group = g => d.pos <= LatestIn(g).pos
  BY <1>5 DEF LatestIn
<1>7. QED
  BY <1>2, <1>6 DEF g

----------------------------------------------------------------------------
(* The two commands *)

(* Actor a begins stage k of group g. *)
Begun(a, k, g, pay, dry) ==
  /\ proc'[a].step = "body" /\ proc'[a].pos = k /\ proc'[a].group = g /\ proc'[a].pay = pay
  /\ proc'[a].dry = dry /\ proc'[a].only = (a = "stage")

LEMMA BeginsRun ==
  ASSUME TypeOK, NEW k \in Position, NEW g \in 0 .. MaxGroups, NEW pay \in Payload, NEW dry \in BOOLEAN,
         proc' = [proc EXCEPT !["run"] =
                    [Idle EXCEPT !.step = "body", !.pos = k, !.group = g, !.pay = pay, !.dry = dry]]
  PROVE  proc' \in [Actor -> Process] /\ Others("run") /\ Begun("run", k, g, pay, dry)
<1> DEFINE q == [Idle EXCEPT !.step = "body", !.pos = k, !.group = g, !.pay = pay, !.dry = dry]
<1>1. /\ q \in Process /\ q.step = "body" /\ q.pos = k /\ q.group = g /\ q.pay = pay /\ q.dry = dry
      /\ q.only = FALSE
  BY Attempts DEF Process, Idle
<1> HIDE DEF q
<1>2. proc' = [proc EXCEPT !["run"] = q] /\ "run" \in Actor /\ "run" # "stage"
  BY DEF q, Actor
<1>3. QED
  BY <1>1, <1>2, Sets DEF Begun

LEMMA BeginsStage ==
  ASSUME TypeOK, NEW k \in Position, NEW g \in 0 .. MaxGroups, NEW pay \in Payload,
         proc' = [proc EXCEPT !["stage"] =
                    [Idle EXCEPT !.step = "body", !.pos = k, !.group = g, !.pay = pay, !.only = TRUE]]
  PROVE  proc' \in [Actor -> Process] /\ Others("stage") /\ Begun("stage", k, g, pay, FALSE)
<1> DEFINE q == [Idle EXCEPT !.step = "body", !.pos = k, !.group = g, !.pay = pay, !.only = TRUE]
<1>1. /\ q \in Process /\ q.step = "body" /\ q.pos = k /\ q.group = g /\ q.pay = pay /\ q.dry = FALSE
      /\ q.only = TRUE
  BY Attempts DEF Process, Idle
<1> HIDE DEF q
<1>2. proc' = [proc EXCEPT !["stage"] = q] /\ "stage" \in Actor
  BY DEF q, Actor
<1>3. QED
  BY <1>1, <1>2, Sets DEF Begun

Latest == LatestIn(LatestGroup)

(* A run starts at the first stage, or at the one after the latest checkpoint, *)
(* or finds nothing to do.                                                     *)
RunStarts(dry) ==
  /\ ~Busy("run") /\ (Alone => ~Busy("stage"))
  /\ groups < MaxGroups /\ groups' = groups + 1
  /\ proc' \in [Actor -> Process] /\ Others("run")
  /\ UNCHANGED <<docs, store, staged, answered, newest, torn>>
  /\ \/ Begun("run", 1, groups + 1, Seed, dry) /\ passed' = FALSE /\ emitted' = {}
     \/ /\ Written # {} /\ Latest \in checkpoints
        /\ emitted' = IF dry THEN {} ELSE emitted
        /\ \/ /\ Latest.pos < 10 /\ passed' = FALSE
              /\ Begun("run", Latest.pos + 1, groups + 1, Latest.pay, dry)
           \/ Latest.pos = 10 /\ passed' = ~dry /\ proc' = proc

LEMMA Starts ==
  ASSUME TypeOK, NEW resume \in BOOLEAN, NEW dry \in BOOLEAN, StartRun(resume, dry)
  PROVE  RunStarts(dry)
<1> DEFINE fresh == ~resume \/ Written = {}
<1>1. proc \in [Actor -> Process] /\ groups \in 0 .. MaxGroups /\ MaxGroups \in Nat
  BY PipelineAssumption DEF TypeOK
<1>2. /\ ~Busy("run") /\ (Alone => ~Busy("stage"))
      /\ groups < MaxGroups /\ groups' = groups + 1
      /\ UNCHANGED <<docs, store, staged, answered, newest, torn>>
  BY DEF StartRun, MayStart, Actor
<1>3. groups + 1 \in 0 .. MaxGroups
  BY <1>1, <1>2
<1>4. CASE fresh
  <2>1. /\ proc' = [proc EXCEPT !["run"] =
                      [Idle EXCEPT !.step = "body", !.pos = 0 + 1, !.group = groups + 1, !.pay = Seed,
                                   !.dry = dry]]
        /\ passed' = FALSE /\ emitted' = {}
    <3> DEFINE from == IF fresh THEN 0 ELSE LatestIn(LatestGroup).pos
    <3>1. from = 0 /\ from # Len(Stages)
      BY <1>4, Positions
    <3>2. /\ proc' = IF from = Len(Stages) THEN proc
                     ELSE [proc EXCEPT !["run"] =
                             [Idle EXCEPT !.step = "body", !.pos = from + 1, !.group = groups + 1,
                                          !.pay = IF fresh THEN Seed ELSE LatestIn(LatestGroup).pay,
                                          !.dry = dry]]
          /\ passed' = (from = Len(Stages) /\ ~dry)
          /\ emitted' = IF fresh \/ dry THEN {} ELSE emitted
      BY DEF StartRun
    <3> HIDE DEF from
    <3>3. passed' = FALSE /\ emitted' = {}
      BY <1>4, <3>1, <3>2
    <3>4. QED
      BY <1>4, <3>1, <3>2, <3>3
  <2>2. 0 + 1 = 1 /\ 1 \in Position /\ Seed \in Payload
    BY Positions, IdleTyped
  <2>3. proc' \in [Actor -> Process] /\ Others("run") /\ Begun("run", 1, groups + 1, Seed, dry)
    BY <1>3, <2>1, <2>2, BeginsRun
  <2>4. QED
    BY <1>2, <2>1, <2>3 DEF RunStarts
<1>5. CASE ~fresh
  <2>1. Written # {} /\ Latest \in checkpoints
    BY <1>5, LatestRow DEF Latest
  <2>2. Latest.pos \in 1 .. 10 /\ Latest.pay \in Payload
    BY <2>1, Positions DEF TypeOK
  <2>3. emitted' = (IF dry THEN {} ELSE emitted) /\ passed' = (Latest.pos = Len(Stages) /\ ~dry)
    BY <1>5 DEF StartRun, Latest
  <2>4. CASE Latest.pos = 10
    <3>1. proc' = proc /\ passed' = ~dry
      BY <1>5, <2>3, <2>4, Positions DEF StartRun, Latest
    <3>2. proc' \in [Actor -> Process] /\ Others("run")
      BY <1>1, <3>1 DEF Others
    <3>3. QED
      BY <1>2, <2>1, <2>3, <2>4, <3>1, <3>2 DEF RunStarts
  <2>5. CASE Latest.pos # 10
    <3>1. Latest.pos < 10 /\ Latest.pos + 1 \in Position
      BY <2>2, <2>5, Positions
    <3>2. proc' = [proc EXCEPT !["run"] =
                     [Idle EXCEPT !.step = "body", !.pos = Latest.pos + 1, !.group = groups + 1,
                                  !.pay = Latest.pay, !.dry = dry]]
      BY <1>5, <2>5, Positions DEF StartRun, Latest
    <3>3. /\ proc' \in [Actor -> Process] /\ Others("run")
          /\ Begun("run", Latest.pos + 1, groups + 1, Latest.pay, dry)
      BY <1>3, <2>2, <3>1, <3>2, BeginsRun
    <3>4. QED
      BY <1>2, <2>1, <2>3, <2>5, <3>1, <3>3, Positions DEF RunStarts
  <2>6. QED
    BY <2>4, <2>5
<1>6. QED
  BY <1>4, <1>5

(* A stage command takes the latest checkpoint, or is the first of its day. *)
StageStarts(k) ==
  /\ ~Busy("stage") /\ (Alone => ~Busy("run"))
  /\ staged' = staged + 1 /\ staged < MaxStages
  /\ proc' \in [Actor -> Process] /\ Others("stage")
  /\ UNCHANGED <<docs, store, obs>>
  /\ \/ /\ Written # {} /\ Latest \in checkpoints /\ Latest.group = LatestGroup
        /\ Begun("stage", k, Latest.group, Latest.pay, FALSE) /\ groups' = groups
     \/ /\ Written = {} /\ groups < MaxGroups /\ groups' = groups + 1
        /\ Begun("stage", k, groups + 1, Seed, FALSE)

LEMMA StartsStage ==
  ASSUME TypeOK, NEW k \in Position, StartStage(k)
  PROVE  StageStarts(k)
<1>1. groups \in 0 .. MaxGroups /\ MaxGroups \in Nat
  BY PipelineAssumption DEF TypeOK
<1>2. /\ ~Busy("stage") /\ (Alone => ~Busy("run"))
      /\ staged' = staged + 1 /\ staged < MaxStages
      /\ UNCHANGED <<docs, store, obs>>
  BY DEF StartStage, MayStart, Actor
<1>3. CASE Written # {}
  <2>1. Latest \in checkpoints /\ Latest.group = LatestGroup
    BY <1>3, LatestRow DEF Latest
  <2>2. Latest.pay \in Payload /\ Latest.group \in 0 .. MaxGroups
    BY <1>1, <2>1 DEF TypeOK
  <2>3. /\ proc' = [proc EXCEPT !["stage"] =
                      [Idle EXCEPT !.step = "body", !.pos = k, !.group = Latest.group,
                                   !.pay = Latest.pay, !.only = TRUE]]
        /\ groups' = groups
    BY <1>3, <2>1 DEF StartStage, Latest
  <2>4. /\ proc' \in [Actor -> Process] /\ Others("stage")
        /\ Begun("stage", k, Latest.group, Latest.pay, FALSE)
    BY <2>2, <2>3, BeginsStage
  <2>5. QED
    BY <1>2, <1>3, <2>1, <2>3, <2>4 DEF StageStarts
<1>4. CASE Written = {}
  <2>1. groups < MaxGroups /\ groups' = groups + 1
        /\ proc' = [proc EXCEPT !["stage"] =
                      [Idle EXCEPT !.step = "body", !.pos = k, !.group = groups + 1, !.only = TRUE]]
    BY <1>4 DEF StartStage
  <2>2. groups + 1 \in 0 .. MaxGroups
    BY <1>1, <2>1
  <2> DEFINE q == [Idle EXCEPT !.step = "body", !.pos = k, !.group = groups + 1, !.only = TRUE]
  <2>3. /\ q \in Process /\ q.step = "body" /\ q.pos = k /\ q.group = groups + 1 /\ q.pay = Seed
        /\ q.dry = FALSE /\ q.only = TRUE
    BY <2>2, Attempts, IdleTyped DEF Process, Idle
  <2> HIDE DEF q
  <2>4. proc' = [proc EXCEPT !["stage"] = q] /\ "stage" \in Actor
    BY <2>1 DEF q, Actor
  <2>5. /\ proc' \in [Actor -> Process] /\ Others("stage")
        /\ Begun("stage", k, groups + 1, Seed, FALSE)
    BY <2>3, <2>4, Sets DEF Begun
  <2>6. QED
    BY <1>2, <1>4, <2>1, <2>5 DEF StageStarts
<1>5. QED
  BY <1>3, <1>4

----------------------------------------------------------------------------
(* Shape *)

(* What a process is doing fits where it is. *)
StepsFit ==
  \A a \in Actor :
    LET p == proc[a] IN
    /\ p.step \in {"batches", "clear"} => p.pos = 5
    /\ p.step = "pages" => p.pos = 10 /\ Connector = "notion" /\ ~p.dry
    /\ p.step # "idle" => p.group \in 1 .. groups /\ p.only = (a = "stage") /\ (a = "stage" => ~p.dry)

(* One row of a group and position. *)
KeysUnique == \A c, d \in checkpoints : c.group = d.group /\ c.pos = d.pos => c = d

Shape == TypeOK /\ StepsFit /\ KeysUnique

(* What is left of TypeOK when the process and the checkpoints are as before. *)
DataOK ==
  /\ apiSeen \subseteq Job /\ partial \subseteq Job /\ answered \subseteq Job /\ emitted \subseteq Job
  /\ (cache # NoDoc => cache \subseteq Job) /\ (table # NoDoc => table \subseteq Job)
  /\ (decisions # NoDoc => decisions \subseteq Job)
  /\ pages \in [Job -> Nat] /\ torn \in BOOLEAN

LEMMA DataTyped == TypeOK => DataOK
BY DEF TypeOK, DataOK

LEMMA WorkedShape ==
  ASSUME Shape, NEW a \in Actor, Worked(a), DataOK',
         proc'[a].step \in {"batches", "clear"} => proc[a].pos = 5,
         proc'[a].step = "pages" => proc[a].pos = 10 /\ Connector = "notion" /\ ~proc[a].dry
  PROVE  Shape'
<1>1. TypeOK'
  BY DEF Shape, TypeOK, DataOK, Worked, count
<1>2. StepsFit'
  BY DEF Shape, StepsFit, Worked, Others, InStage, Busy, count
<1>3. KeysUnique'
  BY DEF Shape, KeysUnique, Worked
<1>4. QED
  BY <1>1, <1>2, <1>3 DEF Shape

LEMMA EndedShape ==
  ASSUME Shape, NEW a \in Actor, Ended(a), torn' \in BOOLEAN
  PROVE  Shape'
<1>1. TypeOK'
  BY DEF Shape, TypeOK, Ended, docs, store, count
<1>2. StepsFit'
  BY IdleTyped DEF Shape, StepsFit, Ended, Others, count
<1>3. KeysUnique'
  BY DEF Shape, KeysUnique, Ended, store
<1>4. QED
  BY <1>1, <1>2, <1>3 DEF Shape

LEMMA CheckpointedShape ==
  ASSUME Shape, NEW a \in Actor, Checkpointed(a)
  PROVE  Shape'
<1>1. /\ TypeOK /\ proc[a] \in Process /\ proc[a].pos \in Position /\ proc[a].pay \in Payload
      /\ proc[a].group \in 1 .. groups /\ proc[a].only = (a = "stage")
      /\ (a = "stage" => ~proc[a].dry) /\ proc[a].dry \in BOOLEAN
  BY DEF Shape, TypeOK, Process, StepsFit, Checkpointed
<1>2. /\ Row(a).group = proc[a].group /\ Row(a).pos = proc[a].pos /\ Row(a).pay = proc[a].pay
  BY DEF Row
<1>3. \A c \in checkpoints' : /\ c.group \in 1 .. groups' /\ c.pos \in Position /\ c.pay \in Payload
  BY <1>1, <1>2 DEF TypeOK, Checkpointed, count
<1>4. passed' \in BOOLEAN
  BY <1>1 DEF Checkpointed, TypeOK
<1>5. TypeOK'
  BY <1>1, <1>3, <1>4 DEF TypeOK, Checkpointed, docs, count
<1>6. StepsFit'
  BY <1>1, IdleTyped DEF Shape, StepsFit, Checkpointed, Others, count
<1>7. KeysUnique'
  BY <1>2 DEF Shape, KeysUnique, Checkpointed
<1>8. QED
  BY <1>5, <1>6, <1>7 DEF Shape

LEMMA RunStartsShape ==
  ASSUME Shape, NEW dry \in BOOLEAN, RunStarts(dry)
  PROVE  Shape'
<1>1. TypeOK /\ groups \in 0 .. MaxGroups /\ MaxGroups \in Nat
  BY PipelineAssumption DEF Shape, TypeOK
<1>2. passed' \in BOOLEAN /\ emitted' \subseteq Job /\ groups' \in 0 .. MaxGroups
  <2>1. passed' \in BOOLEAN
    BY DEF RunStarts
  <2>2. emitted' \subseteq Job
    BY <1>1, DataTyped DEF RunStarts, DataOK
  <2>3. groups' \in 0 .. MaxGroups
    BY <1>1 DEF RunStarts
  <2>4. QED
    BY <2>1, <2>2, <2>3
<1>3. \A c \in checkpoints' : c.group \in 1 .. groups' /\ c.pos \in Position /\ c.pay \in Payload
  BY <1>1 DEF RunStarts, TypeOK, store
<1>4. TypeOK'
  BY <1>1, <1>2, <1>3 DEF TypeOK, RunStarts, docs, store
<1>5. StepsFit'
  BY <1>1, <1>2 DEF Shape, StepsFit, RunStarts, Begun, Others, Actor, Busy
<1>6. KeysUnique'
  BY DEF Shape, KeysUnique, RunStarts, store
<1>7. QED
  BY <1>4, <1>5, <1>6 DEF Shape

LEMMA StageStartsShape ==
  ASSUME Shape, NEW k \in Position, StageStarts(k)
  PROVE  Shape'
<1>1. TypeOK /\ groups \in 0 .. MaxGroups /\ MaxGroups \in Nat /\ staged \in 0 .. MaxStages /\ MaxStages \in Nat
  BY PipelineAssumption DEF Shape, TypeOK
<1>2. groups' \in 0 .. MaxGroups /\ staged' \in 0 .. MaxStages /\ groups' >= groups
  <2>1. staged' = staged + 1 /\ staged < MaxStages
    BY DEF StageStarts
  <2>2. groups' = groups \/ (groups' = groups + 1 /\ groups < MaxGroups)
    BY DEF StageStarts
  <2>3. QED
    BY <1>1, <2>1, <2>2
<1>3. \A c \in checkpoints' : c.group \in 1 .. groups' /\ c.pos \in Position /\ c.pay \in Payload
  BY <1>1, <1>2 DEF StageStarts, TypeOK, store
<1>4. TypeOK'
  BY <1>1, <1>2, <1>3 DEF TypeOK, StageStarts, docs, store, obs
<1>5. proc'["stage"].group \in 1 .. groups'
  BY <1>1, <1>2 DEF StageStarts, TypeOK, Begun
<1>6. StepsFit'
  BY <1>1, <1>2, <1>5 DEF Shape, StepsFit, StageStarts, Begun, Others, Actor, Busy
<1>7. KeysUnique'
  BY DEF Shape, KeysUnique, StageStarts, store
<1>8. QED
  BY <1>4, <1>6, <1>7 DEF Shape

(* Every step of the system is one of these. *)
LEMMA Moves ==
  ASSUME Shape, Next
  PROVE  \/ \E a \in Actor : Worked(a)
         \/ \E a \in Actor : Ended(a)
         \/ \E a \in Actor : Checkpointed(a)
         \/ \E dry \in BOOLEAN : RunStarts(dry)
         \/ \E k \in Position : StageStarts(k)
<1>1. TypeOK
  BY DEF Shape
<1>2. CASE \E resume, dry \in BOOLEAN : StartRun(resume, dry)
  BY <1>1, <1>2, Starts
<1>3. CASE \E k \in Position : StartStage(k)
  BY <1>1, <1>3, StartsStage
<1>4. ASSUME NEW a \in Actor, Body(a) \/ SyncPageFails(a) \/ AttemptFails(a) \/ Dies(a)
      PROVE  Worked(a) \/ Ended(a) \/ Checkpointed(a)
  <2>1. CASE AttemptFails(a) \/ Dies(a) \/ StageThrows(a) \/ Checkpoint(a) \/ SyncPageFails(a)
    BY <1>1, <2>1, Fails, Deaths, Throws, Checkpoints, PassesOne DEF Retried
  <2>2. CASE \/ Reconcile(a) \/ Farm(a) \/ Source(a) \/ Compress(a) \/ Assemble(a)
             \/ Filter(a) \/ Dedup(a) \/ RankJobs(a) \/ SyncDry(a) \/ SyncSqlite(a) \/ SyncEnd(a)
    BY <1>1, <2>2, Reconciles, Farms, Sources, Compresses, AssemblesTable, Filters, Dedups, Ranks,
       SyncsDry, SyncsSqlite, EndsPages DEF Wrote
  <2>3. CASE \/ StructureBegin(a) \/ StructureBatch(a) \/ StructureDecide(a) \/ StructureClear(a)
             \/ SyncBegin(a) \/ SyncPage(a)
    BY <1>1, <2>3, Begins, Answers, DecidesAll, Clears, BeginsPages, SyncsOne
  <2>4. QED
    BY <1>4, <2>1, <2>2, <2>3 DEF Body
<1>5. QED
  BY <1>2, <1>3, <1>4 DEF Next

LEMMA ShapeInit == Init => Shape
<1>1. ASSUME Init PROVE TypeOK
  <2>1. MaxGroups \in Nat /\ MaxStages \in Nat
    BY PipelineAssumption
  <2>2. /\ \A set \in {apiSeen, partial, answered, emitted} : set \subseteq Job
        /\ \A doc \in {cache, table, decisions} : doc # NoDoc => doc \subseteq Job
        /\ pages \in [Job -> Nat] /\ checkpoints = {}
    BY <1>1 DEF Init
  <2>3. groups \in 0 .. MaxGroups /\ staged \in 0 .. MaxStages
    BY <1>1, <2>1 DEF Init
  <2>4. /\ proc \in [Actor -> Process] /\ passed \in BOOLEAN /\ torn \in BOOLEAN /\ newest = NoDoc
    BY <1>1, IdleTyped DEF Init
  <2>5. QED
    BY <2>2, <2>3, <2>4 DEF TypeOK
<1>2. Init => StepsFit /\ KeysUnique
  BY IdleTyped DEF Init, StepsFit, KeysUnique
<1>3. QED
  BY <1>1, <1>2 DEF Shape

LEMMA ShapeStep ==
  ASSUME Shape, [Next]_vars
  PROVE  Shape'
<1>1. TypeOK /\ DataOK
  BY DataTyped DEF Shape
<1>2. CASE UNCHANGED vars
  BY <1>2 DEF Shape, TypeOK, StepsFit, KeysUnique, vars, docs, store, count, obs
<1>3. CASE \E resume, dry \in BOOLEAN : StartRun(resume, dry)
  BY <1>1, <1>3, Starts, RunStartsShape
<1>4. CASE \E k \in Position : StartStage(k)
  BY <1>1, <1>4, StartsStage, StageStartsShape
<1>5. ASSUME NEW a \in Actor, Body(a) \/ SyncPageFails(a) \/ AttemptFails(a) \/ Dies(a)
      PROVE  Shape'
  <2>1. /\ proc[a].step \in {"batches", "clear"} => proc[a].pos = 5
        /\ proc[a].step = "pages" => proc[a].pos = 10 /\ Connector = "notion" /\ ~proc[a].dry
    BY DEF Shape, StepsFit
  <2>2. /\ proc[a].pay.jobs \subseteq Job /\ InPages \subseteq Job
    BY <1>1 DEF TypeOK, Process, Payload, InPages
  <2>3. CASE Ended(a) /\ torn' \in BOOLEAN
    BY <2>3, EndedShape
  <2>4. ASSUME Wrote(a), DataOK' PROVE Shape'
    BY <2>4, WorkedShape DEF Wrote
  <2>5. CASE AttemptFails(a)
    <3>1. torn' \in BOOLEAN /\ (Ended(a) \/ Retried(a))
      BY <1>1, <2>5, Fails DEF Tears, DataOK
    <3>2. Retried(a) => DataOK'
      BY <1>1, <3>1 DEF Retried, DataOK, docs
    <3>3. Retried(a) => Shape'
      BY <3>2, WorkedShape DEF Retried
    <3>4. QED
      BY <2>3, <3>1, <3>3
  <2>6. CASE Dies(a)
    BY <1>1, <2>3, <2>6, Deaths DEF Tears, DataOK
  <2>7. CASE StageThrows(a)
    BY <1>1, <2>3, <2>7, Throws DEF DataOK
  <2>8. CASE Checkpoint(a)
    BY <1>1, <2>8, Checkpoints, CheckpointedShape
  <2>9. CASE Reconcile(a) \/ Compress(a)
    BY <1>1, <2>4, <2>9, Reconciles, Compresses DEF Wrote, DataOK
  <2>10. CASE \/ Farm(a) \/ Assemble(a) \/ Filter(a) \/ Dedup(a) \/ RankJobs(a) \/ SyncDry(a) \/ SyncEnd(a)
    <3>1. Wrote(a) /\ UNCHANGED <<docs, pages, emitted>>
      BY <1>1, <2>10, Farms, AssemblesTable, Filters, Dedups, Ranks, SyncsDry, EndsPages
    <3>2. QED
      BY <1>1, <2>4, <3>1 DEF Wrote, DataOK, docs
  <2>11. CASE Source(a)
    <3>1. Wrote(a) /\ UNCHANGED <<cache, table, partial, decisions, pages>>
          /\ apiSeen' \subseteq Job /\ emitted' \subseteq Job
      BY <1>1, <2>11, Sources DEF DataOK
    <3>2. QED
      BY <1>1, <2>4, <3>1 DEF Wrote, DataOK
  <2>12. CASE SyncSqlite(a)
    BY <1>1, <2>4, <2>12, SyncsSqlite DEF Wrote, DataOK, docs
  <2>13. CASE StructureBegin(a) \/ SyncBegin(a)
    BY <1>1, <2>13, Begins, BeginsPages, WorkedShape DEF Bodily, DataOK, docs
  <2>14. CASE StructureBatch(a)
    <3>1. /\ Worked(a) /\ UNCHANGED <<apiSeen, cache, table, decisions, pages, emitted, torn>>
          /\ proc[a].step = "batches" /\ proc'[a].step = "batches"
          /\ partial' \subseteq Job /\ answered' \subseteq Job
      BY <1>1, <2>14, Answers
    <3>2. DataOK'
      BY <1>1, <3>1 DEF DataOK
    <3>3. QED
      BY <2>1, <3>1, <3>2, WorkedShape
  <2>15. CASE StructureDecide(a)
    BY <1>1, <2>1, <2>15, DecidesAll, WorkedShape DEF DataOK
  <2>16. CASE StructureClear(a)
    BY <1>1, <2>1, <2>16, Clears, WorkedShape DEF DataOK
  <2>17. CASE SyncPage(a)
    <3>1. /\ Worked(a) /\ UNCHANGED <<docs, answered, emitted, torn>>
          /\ proc[a].step = "pages" /\ proc'[a].step = "pages" /\ pages' \in [Job -> Nat]
      BY <1>1, <2>17, SyncsOne
    <3>2. DataOK'
      BY <1>1, <3>1 DEF DataOK, docs
    <3>3. QED
      BY <2>1, <3>1, <3>2, WorkedShape
  <2>18. CASE SyncPageFails(a)
    BY <1>1, <2>1, <2>18, PassesOne, WorkedShape DEF DataOK, docs
  <2>19. QED
    BY <1>5, <2>5, <2>6, <2>7, <2>8, <2>9, <2>10, <2>11, <2>12, <2>13, <2>14, <2>15, <2>16, <2>17, <2>18
       DEF Body
<1>6. QED
  BY <1>2, <1>3, <1>4, <1>5 DEF Next

----------------------------------------------------------------------------
(* Who is at work *)

(* The stage command is at work only when one was started, and, if the user *)
(* keeps the two apart, never beside a run.                                 *)
AtWork ==
  /\ staged = 0 => ~Busy("stage")
  /\ Alone => ~(Busy("run") /\ Busy("stage"))

LEMMA AtWorkInit == Init => AtWork
BY IdleTyped DEF Init, AtWork, Busy, Actor

LEMMA AtWorkStep ==
  ASSUME Shape, AtWork, [Next]_vars
  PROVE  AtWork'
<1>1. staged \in Nat
  BY PipelineAssumption DEF Shape, TypeOK
<1>2. CASE UNCHANGED vars
  BY <1>2 DEF AtWork, Busy, vars, count
<1>3. ASSUME NEW a \in Actor, Worked(a) \/ Ended(a) \/ Checkpointed(a)
      PROVE  AtWork'
  <2>1. Busy(a) /\ Others(a) /\ staged' = staged
    BY <1>3 DEF Worked, Ended, Checkpointed, Busy, count
  <2>2. a = "run" \/ a = "stage"
    BY DEF Actor
  <2>3. QED
    BY <2>1, <2>2 DEF AtWork, Busy, Others, Actor
<1>4. ASSUME NEW dry \in BOOLEAN, RunStarts(dry)
      PROVE  AtWork'
  BY <1>4 DEF AtWork, RunStarts, Busy, Others, Actor
<1>5. ASSUME NEW k \in Position, StageStarts(k)
      PROVE  AtWork'
  BY <1>1, <1>5 DEF AtWork, StageStarts, Busy, Others, Actor
<1>6. QED
  BY <1>2, <1>3, <1>4, <1>5, Moves

(* While it is so, whoever acts acts alone. *)
LEMMA ActsAlone ==
  ASSUME AtWork, Alone, NEW a \in Actor, Busy(a), Others(a), NEW b \in Actor, b # a
  PROVE  proc[b].step = "idle" /\ proc'[b].step = "idle"
BY DEF AtWork, Busy, Others, Actor

----------------------------------------------------------------------------
(* The answers of the model *)

(* An answer is kept with the partial decisions until it is in the final ones, *)
(* and what is left to ask for has none there.                                 *)
AnswersKept ==
  Alone =>
    /\ answered \subseteq partial
    /\ \A a \in Actor :
         /\ proc[a].step = "batches" => proc[a].acc = partial /\ proc[a].todo \cap partial = {}
         /\ proc[a].step = "clear" => answered \subseteq decisions

LEMMA AnswersInit == Init => AnswersKept
BY IdleTyped DEF Init, AnswersKept

LEMMA AnswersAside ==
  ASSUME AnswersKept, NEW a \in Actor, Others(a), UNCHANGED <<partial, decisions, answered>>,
         proc'[a].step \notin {"batches", "clear"}
  PROVE  AnswersKept'
BY DEF AnswersKept, Others

LEMMA AnswersStep ==
  ASSUME Shape, AtWork, AnswersKept, [Next]_vars
  PROVE  AnswersKept'
<1>1. TypeOK
  BY DEF Shape
<1>2. CASE UNCHANGED vars
  BY <1>2 DEF AnswersKept, vars, docs, obs
<1>3. CASE \E resume, dry \in BOOLEAN : StartRun(resume, dry)
  <2>1. PICK dry \in BOOLEAN : RunStarts(dry)
    BY <1>1, <1>3, Starts
  <2>2. "run" \in Actor /\ Others("run") /\ UNCHANGED <<partial, decisions, answered>>
    BY <2>1 DEF RunStarts, docs, Actor
  <2>3. proc'["run"].step = "body" \/ proc' = proc
    BY <2>1 DEF RunStarts, Begun
  <2>4. QED
    BY <2>2, <2>3, AnswersAside DEF AnswersKept
<1>4. CASE \E k \in Position : StartStage(k)
  <2>1. PICK k \in Position : StageStarts(k)
    BY <1>1, <1>4, StartsStage
  <2>2. /\ "stage" \in Actor /\ Others("stage") /\ UNCHANGED <<partial, decisions, answered>>
        /\ proc'["stage"].step = "body"
    BY <2>1 DEF StageStarts, docs, obs, Actor, Begun
  <2>3. QED
    BY <2>2, AnswersAside
<1>5. ASSUME NEW a \in Actor, Body(a) \/ SyncPageFails(a) \/ AttemptFails(a) \/ Dies(a)
      PROVE  AnswersKept'
  <2>1. ASSUME Wrote(a), UNCHANGED <<partial, decisions>>
        PROVE  AnswersKept'
    BY <2>1, AnswersAside DEF Wrote, Worked
  <2>2. CASE AttemptFails(a) \/ Dies(a) \/ StageThrows(a)
    <3>1. Ended(a) \/ Retried(a)
      BY <1>1, <2>2, Fails, Deaths, Throws
    <3>2. /\ Others(a) /\ UNCHANGED <<partial, decisions, answered>>
          /\ proc'[a].step \notin {"batches", "clear"}
      BY <3>1, IdleTyped DEF Ended, Retried, Worked, docs
    <3>3. QED
      BY <3>2, AnswersAside
  <2>3. CASE Checkpoint(a)
    <3>1. Checkpointed(a)
      BY <1>1, <2>3, Checkpoints
    <3>2. /\ Others(a) /\ UNCHANGED <<partial, decisions, answered>>
          /\ proc'[a].step \notin {"batches", "clear"}
      BY <3>1, IdleTyped DEF Checkpointed, docs
    <3>3. QED
      BY <3>2, AnswersAside
  <2>4. CASE \/ Reconcile(a) \/ Farm(a) \/ Source(a) \/ Compress(a) \/ Assemble(a) \/ Filter(a)
             \/ Dedup(a) \/ RankJobs(a) \/ SyncDry(a) \/ SyncSqlite(a) \/ SyncEnd(a)
    <3>1. Wrote(a) /\ UNCHANGED <<partial, decisions>>
      BY <1>1, <2>4, Reconciles, Farms, Sources, Compresses, AssemblesTable, Filters, Dedups, Ranks,
         SyncsDry, SyncsSqlite, EndsPages DEF docs
    <3>2. QED
      BY <2>1, <3>1
  <2>5. CASE SyncBegin(a) \/ SyncPage(a) \/ SyncPageFails(a)
    <3>1. Worked(a) /\ UNCHANGED <<docs, answered>> /\ proc'[a].step = "pages"
      BY <1>1, <2>5, BeginsPages, SyncsOne, PassesOne
    <3>2. QED
      BY <3>1, AnswersAside DEF Worked, docs
  <2>6. CASE StructureBegin(a)
    BY <1>1, <2>6, Begins DEF AnswersKept, Worked, Others, docs
  <2>7. CASE StructureBatch(a)
    <3>1. /\ Worked(a) /\ proc[a].step = "batches" /\ proc'[a].step = "batches"
          /\ partial' = proc'[a].acc
      BY <1>1, <2>7, Answers
    <3>2. \E j \in proc[a].todo : /\ proc'[a].todo = proc[a].todo \ {j}
                                  /\ \/ proc'[a].acc = proc[a].acc /\ answered' = answered
                                     \/ proc'[a].acc = proc[a].acc \cup {j} /\ answered' = answered \cup {j}
      BY <1>1, <2>7, Answers
    <3>3. SUFFICES ASSUME Alone PROVE AnswersKept'
      BY DEF AnswersKept
    <3>4. \A b \in Actor : b # a => proc'[b].step = "idle"
      BY <3>1, <3>3, ActsAlone DEF Worked
    <3>5. answered \subseteq partial /\ proc[a].acc = partial /\ proc[a].todo \cap partial = {}
      BY <3>1, <3>3 DEF AnswersKept
    <3>6. answered' \subseteq partial' /\ proc'[a].todo \cap partial' = {}
      BY <3>1, <3>2, <3>5
    <3>7. QED
      BY <3>1, <3>4, <3>6 DEF AnswersKept
  <2>8. CASE StructureDecide(a)
    <3>1. /\ Worked(a) /\ UNCHANGED <<partial, answered>>
          /\ proc[a].step = "batches" /\ proc'[a].step = "clear" /\ decisions' = proc[a].acc
      BY <1>1, <2>8, DecidesAll
    <3>2. SUFFICES ASSUME Alone PROVE AnswersKept'
      BY DEF AnswersKept
    <3>3. \A b \in Actor : b # a => proc'[b].step = "idle"
      BY <3>1, <3>2, ActsAlone DEF Worked
    <3>4. QED
      BY <3>1, <3>2, <3>3 DEF AnswersKept
  <2>9. CASE StructureClear(a)
    <3>1. /\ Worked(a) /\ proc'[a].step = "write" /\ partial' = {} /\ answered' = {}
      BY <1>1, <2>9, Clears
    <3>2. SUFFICES ASSUME Alone PROVE AnswersKept'
      BY DEF AnswersKept
    <3>3. \A b \in Actor : b # a => proc'[b].step = "idle"
      BY <3>1, <3>2, ActsAlone DEF Worked
    <3>4. QED
      BY <3>1, <3>3 DEF AnswersKept
  <2>10. QED
    BY <1>5, <2>2, <2>3, <2>4, <2>5, <2>6, <2>7, <2>8, <2>9 DEF Body
<1>6. QED
  BY <1>2, <1>3, <1>4, <1>5 DEF Next

LEMMA KeptIsSafe == Alone /\ AnswersKept => NoAnswerLost
BY DEF AnswersKept, NoAnswerLost

(* The property of one step. *)
SendsOnce == \A a \in Actor : proc[a].step = "batches" /\ proc'[a].step = "batches"
               => (proc[a].todo \ proc'[a].todo) \cap partial = {}

AnswersInv == Shape /\ AtWork /\ AnswersKept

(* While the user keeps runs and stage commands apart, structure sends no   *)
(* row to the model a second time that its partial decisions already hold.  *)
THEOREM NoResendHolds == Alone => (Spec => NoResend)
<1> SUFFICES ASSUME Alone PROVE Spec => NoResend
  OBVIOUS
<1>1. Init => AnswersInv
  BY ShapeInit, AtWorkInit, AnswersInit DEF AnswersInv
<1>2. AnswersInv /\ [Next]_vars => AnswersInv'
  BY ShapeStep, AtWorkStep, AnswersStep DEF AnswersInv
<1>3. AnswersInv /\ [Next]_vars => [SendsOnce]_vars
  BY DEF AnswersInv, AnswersKept, SendsOnce
<1>4. QED
  BY <1>1, <1>2, <1>3, PTL DEF Spec, NoResend, SendsOnce

----------------------------------------------------------------------------
(* The order of the checkpoints *)

(* The names of the groups ascend, as those of a clock that is never set back. *)
NamesAscend == \A g, h \in 1 .. MaxGroups : g < h => Rank[g] < Rank[h]

(* The run and the stage command are not at work at the same time. *)
Apart == staged = 0 \/ Alone

Below(d, g, k) == d.group < g \/ (d.group = g /\ d.pos <= k)
IsLatest(c) == c \in checkpoints /\ \A d \in checkpoints : Below(d, c.group, c.pos)

(* The run writes above every checkpoint there is, a stage command into the *)
(* group of the latest.                                                     *)
RunAbove ==
  Busy("run") => /\ proc["run"].group = groups
                 /\ \A d \in checkpoints : d.group < groups \/ d.pos < proc["run"].pos
StageAmong ==
  Busy("stage") /\ checkpoints # {} => \E c \in checkpoints : IsLatest(c) /\ c.group = proc["stage"].group
HasLatest == checkpoints # {} => \E c \in checkpoints : IsLatest(c)

InOrder == Apart => RunAbove /\ StageAmong /\ HasLatest

LEMMA Numbers ==
  ASSUME Shape
  PROVE  /\ MaxGroups \in Nat /\ groups \in Nat /\ groups <= MaxGroups /\ staged \in Nat
         /\ \A c \in checkpoints : c.group \in Nat /\ c.group <= groups /\ c.pos \in 1 .. 10
         /\ \A a \in Actor : proc[a].pos \in 1 .. 10 /\ proc[a].group \in Nat
BY PipelineAssumption, Positions DEF Shape, TypeOK, Process

(* The latest checkpoint is the one that is read. *)
LEMMA LatestIs ==
  ASSUME Shape, NamesAscend, NEW c \in checkpoints, IsLatest(c)
  PROVE  Written # {} /\ Latest = c
<1>1. c.group \in Written /\ TypeOK
  BY DEF Written, Shape
<1>2. /\ LatestGroup \in Written /\ \A h \in Written : Rank[h] <= Rank[LatestGroup]
      /\ Latest \in checkpoints /\ Latest.group = LatestGroup
      /\ \A d \in checkpoints : d.group = LatestGroup => d.pos <= Latest.pos
  BY <1>1, LatestRow DEF Latest
<1>3. LatestGroup \in 1 .. MaxGroups /\ c.group \in 1 .. MaxGroups
  BY <1>2, Numbers DEF Shape, TypeOK
<1>4. LatestGroup = c.group
  <2>1. Below(Latest, c.group, c.pos)
    BY <1>2 DEF IsLatest
  <2>2. ~(LatestGroup < c.group)
    <3>1. Rank[c.group] <= Rank[LatestGroup]
      BY <1>1, <1>2
    <3>2. Rank[c.group] \in Nat /\ Rank[LatestGroup] \in Nat
      BY <1>3, PipelineAssumption
    <3>3. QED
      BY <1>3, <3>1, <3>2 DEF NamesAscend
  <2>3. QED
    BY <1>2, <1>3, <2>1, <2>2 DEF Below
<1>5. Latest.pos <= c.pos /\ c.pos <= Latest.pos
  BY <1>2, <1>3, <1>4 DEF IsLatest, Below
<1>6. Latest.pos = c.pos
  BY <1>2, <1>5, Numbers
<1>7. QED
  BY <1>1, <1>2, <1>4, <1>6 DEF Shape, KeysUnique

(* A run's checkpoint becomes the latest. *)
LEMMA RunsRowIsLatest ==
  ASSUME Shape, RunAbove, Checkpointed("run")
  PROVE  /\ Row("run") \in checkpoints'
         /\ \A d \in checkpoints' : Below(d, Row("run").group, Row("run").pos)
         /\ Row("run").group = proc["run"].group /\ Row("run").pos = proc["run"].pos
         /\ Row("run").pay = proc["run"].pay
<1>1. /\ Row("run").group = proc["run"].group /\ Row("run").pos = proc["run"].pos
      /\ Row("run").pay = proc["run"].pay
  BY DEF Row
<1>2. proc["run"].group = groups /\ \A d \in checkpoints : d.group < groups \/ d.pos < proc["run"].pos
  BY DEF RunAbove, Busy, Checkpointed
<1>3. \A d \in checkpoints' : d = Row("run") \/ d \in checkpoints
  BY DEF Checkpointed
<1>4. "run" \in Actor
  BY DEF Actor
<1>5. \A d \in checkpoints' : Below(d, Row("run").group, Row("run").pos)
  BY <1>1, <1>2, <1>3, <1>4, Numbers DEF Below
<1>6. QED
  BY <1>1, <1>5 DEF Checkpointed

LEMMA InOrderInit == Init => InOrder
BY IdleTyped DEF Init, InOrder, RunAbove, StageAmong, HasLatest, Busy, Actor

LEMMA InOrderStep ==
  ASSUME NamesAscend, Shape, Shape', AtWork, AtWork', InOrder, [Next]_vars
  PROVE  InOrder'
<1> USE DEF IsLatest
<1>1. SUFFICES ASSUME Apart' PROVE (RunAbove /\ StageAmong /\ HasLatest)'
  BY DEF InOrder
<1>2. staged' \in Nat /\ staged \in Nat /\ "run" \in Actor /\ "stage" \in Actor
  BY Numbers DEF Shape, TypeOK, Actor
<1>3. CASE UNCHANGED vars
  BY <1>1, <1>3 DEF InOrder, Apart, RunAbove, StageAmong, HasLatest, Busy, vars, store, count
<1>4. ASSUME NEW a \in Actor, Worked(a) \/ Ended(a) \/ Checkpointed(a)
      PROVE  (RunAbove /\ StageAmong /\ HasLatest)'
  <2>1. RunAbove /\ StageAmong /\ HasLatest
    BY <1>1, <1>4 DEF InOrder, Apart, Worked, Ended, Checkpointed, count
  <2>2. CASE Worked(a)
    BY <2>1, <2>2 DEF RunAbove, StageAmong, HasLatest, Busy, Worked, InStage, Others, Actor, count
  <2>3. CASE Ended(a)
    BY <2>1, <2>3, IdleTyped DEF RunAbove, StageAmong, HasLatest, Busy, Ended, Others, Actor, count, store
  <2>4. CASE Checkpointed(a) /\ a = "run"
    <3>1. /\ Row("run") \in checkpoints'
          /\ \A d \in checkpoints' : Below(d, Row("run").group, Row("run").pos)
          /\ Row("run").group = proc["run"].group /\ Row("run").pos = proc["run"].pos
      BY <2>1, <2>4, RunsRowIsLatest
    <3>2. HasLatest'
      BY <3>1 DEF HasLatest
    <3>3. ~Busy("stage")'
      <4>1. staged = 0 \/ Alone
        BY <1>1, <2>4 DEF Apart, Checkpointed, count
      <4>2. Busy("run") /\ ~Busy("stage") /\ Others("run")
        BY <1>2, <2>4, <4>1 DEF AtWork, Checkpointed, Busy
      <4>3. QED
        BY <1>2, <4>2 DEF Others, Busy
    <3>4. RunAbove'
      <4>1. /\ proc["run"].group = groups /\ groups' = groups
            /\ proc["run"].pos \in 1 .. 10
            /\ proc'["run"] = Idle \/ (proc'["run"].pos = proc["run"].pos + 1 /\ proc'["run"].group = proc["run"].group)
        BY <1>2, <2>1, <2>4, Numbers DEF RunAbove, Busy, Checkpointed, count
      <4>2. \A d \in checkpoints' : d.group \in Nat /\ d.pos \in 1 .. 10
        BY Positions DEF Shape, TypeOK
      <4>3. QED
        BY <3>1, <4>1, <4>2, IdleTyped DEF RunAbove, Busy, Below
    <3>5. QED
      BY <3>2, <3>3, <3>4 DEF StageAmong
  <2>5. CASE Checkpointed(a) /\ a = "stage"
    <3>1. /\ Row("stage") \in checkpoints' /\ proc'["stage"] = Idle
          /\ Row("stage").group = proc["stage"].group /\ Row("stage").pos = proc["stage"].pos
          /\ \A d \in checkpoints' : d = Row("stage") \/ d \in checkpoints
          /\ \A d \in checkpoints : d.group # proc["stage"].group \/ d.pos # proc["stage"].pos => d \in checkpoints'
      BY <1>2, <2>5 DEF Row, Checkpointed, Shape, StepsFit
    <3>2. ~Busy("run")' /\ ~Busy("stage")'
      <4>1. staged = 0 \/ Alone
        BY <1>1, <2>5 DEF Apart, Checkpointed, count
      <4>2. Busy("stage") /\ ~Busy("run") /\ Others("stage")
        BY <1>2, <2>5, <4>1 DEF AtWork, Checkpointed, Busy
      <4>3. QED
        BY <1>2, <3>1, <4>2, IdleTyped DEF Others, Busy
    <3>3. \A d \in checkpoints : d.group \in Nat /\ d.pos \in Nat
      BY Numbers
    <3>4. proc["stage"].pos \in Nat /\ proc["stage"].group \in Nat
      BY <1>2, Numbers
    <3>5. HasLatest'
      <4>1. CASE checkpoints = {}
        BY <3>1, <3>4, <4>1 DEF HasLatest, Below
      <4>2. CASE checkpoints # {}
        <5>1. PICK c \in checkpoints : IsLatest(c) /\ c.group = proc["stage"].group
          BY <2>1, <2>5, <4>2 DEF StageAmong, Busy, Checkpointed
        <5>2. CASE c.pos <= proc["stage"].pos
          <6>1. \A d \in checkpoints' : Below(d, Row("stage").group, Row("stage").pos)
            BY <3>1, <3>3, <3>4, <5>1, <5>2 DEF Below
          <6>2. QED
            BY <3>1, <6>1 DEF HasLatest
        <5>3. CASE ~(c.pos <= proc["stage"].pos)
          <6>1. c \in checkpoints'
            BY <3>1, <3>3, <3>4, <5>1, <5>3
          <6>2. \A d \in checkpoints' : Below(d, c.group, c.pos)
            BY <3>1, <3>3, <3>4, <5>1, <5>3 DEF Below
          <6>3. QED
            BY <6>1, <6>2 DEF HasLatest
        <5>4. QED
          BY <5>2, <5>3
      <4>3. QED
        BY <4>1, <4>2
    <3>6. QED
      BY <3>2, <3>5 DEF RunAbove, StageAmong
  <2>6. QED
    BY <1>4, <2>2, <2>3, <2>4, <2>5 DEF Actor
<1>5. ASSUME NEW dry \in BOOLEAN, RunStarts(dry)
      PROVE  (RunAbove /\ StageAmong /\ HasLatest)'
  <2>1. HasLatest /\ UNCHANGED checkpoints
    BY <1>1, <1>5 DEF InOrder, Apart, RunStarts, store
  <2>2. ~Busy("stage")'
    BY <1>1, <1>2, <1>5 DEF AtWork, Apart, RunStarts, Busy, Others
  <2>3. \A d \in checkpoints : d.group < groups'
    BY <1>5, Numbers DEF RunStarts
  <2>4. RunAbove'
    BY <1>5, <2>1, <2>3 DEF RunAbove, RunStarts, Begun, Busy
  <2>5. QED
    BY <2>1, <2>2, <2>4 DEF StageAmong, HasLatest
<1>6. ASSUME NEW k \in Position, StageStarts(k)
      PROVE  (RunAbove /\ StageAmong /\ HasLatest)'
  <2>1. staged' # 0
    BY <1>2, <1>6 DEF StageStarts
  <2>2. Alone /\ HasLatest /\ UNCHANGED checkpoints
    BY <1>1, <1>6, <2>1 DEF InOrder, Apart, StageStarts, store
  <2>3. ~Busy("run")'
    BY <1>2, <1>6, <2>2 DEF StageStarts, Busy, Others
  <2>4. StageAmong'
    <3>1. SUFFICES ASSUME checkpoints # {} PROVE StageAmong'
      BY <2>2 DEF StageAmong
    <3>2. PICK c \in checkpoints : IsLatest(c)
      BY <2>2, <3>1 DEF HasLatest
    <3>3. Written # {} /\ Latest = c
      BY <3>2, LatestIs
    <3>4. proc'["stage"].group = c.group
      BY <1>6, <3>3 DEF StageStarts, Begun
    <3>5. QED
      BY <2>2, <3>2, <3>4 DEF StageAmong
  <2>5. QED
    BY <2>2, <2>3, <2>4 DEF RunAbove, HasLatest
<1>7. QED
  BY <1>3, <1>4, <1>5, <1>6, Moves

----------------------------------------------------------------------------
(* A resumed run continues the newest checkpoint *)

(* While runs are all there is, the latest checkpoint is the newest, and    *)
(* the run's stage starts from it.                                          *)
FollowsNewest ==
  staged = 0 =>
    /\ checkpoints # {} => \E c \in checkpoints : IsLatest(c) /\ c.pos = newest.pos /\ c.pay = newest.pay
    /\ Busy("run") /\ proc["run"].pos = 1 /\ proc["run"].step # "write" => proc["run"].pay = Seed
    /\ Busy("run") /\ proc["run"].pos > 1 =>
         /\ checkpoints # {} /\ newest.pos = proc["run"].pos - 1
         /\ proc["run"].step # "write" => proc["run"].pay = newest.pay

LEMMA FollowsInit == Init => FollowsNewest
BY IdleTyped DEF Init, FollowsNewest, Busy, Actor

(* Only the run acts, then. *)
LEMMA RunActs ==
  ASSUME AtWork, NEW a \in Actor, Busy(a), staged = 0
  PROVE  a = "run"
BY DEF AtWork, Actor

LEMMA FollowsStep ==
  ASSUME NamesAscend, Shape, AtWork, InOrder, FollowsNewest, [Next]_vars
  PROVE  FollowsNewest'
<1> USE DEF IsLatest
<1>1. SUFFICES ASSUME staged' = 0 PROVE FollowsNewest'
  BY DEF FollowsNewest
<1>2. "run" \in Actor /\ "stage" \in Actor /\ staged \in Nat
  BY Numbers DEF Actor
<1>3. CASE UNCHANGED vars
  BY <1>3 DEF FollowsNewest, Busy, vars, store, count, obs
<1>4. ASSUME NEW a \in Actor, Worked(a) \/ Ended(a) \/ Checkpointed(a)
      PROVE  FollowsNewest'
  <2>1. staged = 0 /\ a = "run" /\ Busy("run")
    BY <1>1, <1>4, RunActs DEF Worked, Ended, Checkpointed, Busy, count
  <2>2. CASE Worked(a)
    BY <2>1, <2>2 DEF FollowsNewest, Busy, Worked, InStage
  <2>3. CASE Ended(a)
    BY <2>1, <2>3, IdleTyped DEF FollowsNewest, Busy, Ended, store
  <2>4. CASE Checkpointed(a)
    <3>1. RunAbove
      BY <2>1 DEF InOrder, Apart
    <3>2. /\ Row("run") \in checkpoints'
          /\ \A d \in checkpoints' : Below(d, Row("run").group, Row("run").pos)
          /\ Row("run").pos = newest'.pos /\ Row("run").pay = newest'.pay
          /\ newest'.pos = proc["run"].pos /\ newest'.pay = proc["run"].pay
      BY <2>1, <2>4, <3>1, RunsRowIsLatest DEF Checkpointed
    <3>3. proc["run"].pos \in 1 .. 10
      BY <1>2, Numbers
    <3>4. \/ proc'["run"] = Idle
          \/ /\ proc'["run"].step = "body" /\ proc'["run"].pos = proc["run"].pos + 1
             /\ proc'["run"].pay = proc["run"].pay
      BY <2>1, <2>4 DEF Checkpointed
    <3>5. \E c \in checkpoints' : IsLatest(c)' /\ c.pos = newest'.pos /\ c.pay = newest'.pay
      BY <3>2
    <3>6. CASE proc'["run"] = Idle
      BY <3>5, <3>6, IdleTyped DEF FollowsNewest, Busy
    <3>7. CASE proc'["run"].step = "body" /\ proc'["run"].pos = proc["run"].pos + 1
               /\ proc'["run"].pay = proc["run"].pay
      BY <3>2, <3>3, <3>5, <3>7 DEF FollowsNewest
    <3>8. QED
      BY <3>4, <3>6, <3>7
  <2>5. QED
    BY <1>4, <2>2, <2>3, <2>4
<1>5. ASSUME NEW dry \in BOOLEAN, RunStarts(dry)
      PROVE  FollowsNewest'
  <2>1. staged = 0 /\ UNCHANGED <<checkpoints, newest>> /\ ~Busy("run")
    BY <1>1, <1>5 DEF RunStarts, store
  <2>2. CASE Begun("run", 1, groups + 1, Seed, dry)
    BY <2>1, <2>2 DEF FollowsNewest, Begun
  <2>3. CASE proc' = proc
    BY <2>1, <2>3 DEF FollowsNewest, Busy
  <2>4. CASE Latest \in checkpoints /\ Begun("run", Latest.pos + 1, groups + 1, Latest.pay, dry)
    <3>1. PICK c \in checkpoints : IsLatest(c) /\ c.pos = newest.pos /\ c.pay = newest.pay
      BY <2>1, <2>4 DEF FollowsNewest
    <3>2. Latest = c /\ c.pos \in 1 .. 10
      BY <3>1, LatestIs, Numbers
    <3>3. proc'["run"].pos = newest.pos + 1 /\ newest.pos \in 1 .. 10 /\ proc'["run"].pay = newest.pay
      BY <2>4, <3>1, <3>2 DEF Begun
    <3>4. \E d \in checkpoints' : IsLatest(d)' /\ d.pos = newest'.pos /\ d.pay = newest'.pay
      BY <2>1, <3>1
    <3>5. QED
      BY <2>1, <3>3, <3>4 DEF FollowsNewest
  <2>5. QED
    BY <1>5, <2>2, <2>3, <2>4 DEF RunStarts
<1>6. ASSUME NEW k \in Position, StageStarts(k)
      PROVE  FollowsNewest'
  BY <1>1, <1>2, <1>6 DEF StageStarts
<1>7. QED
  BY <1>3, <1>4, <1>5, <1>6, Moves

(* The table handed to structure and assemble is of the run's own jobs. *)
TableIsOwn ==
  staged = 0 =>
    /\ checkpoints # {} /\ newest.pos \in {4, 5} => table = newest.pay.jobs
    /\ proc["run"].step = "write" /\ proc["run"].pos \in {4, 5} => table = proc["run"].pay.jobs

LEMMA TableInit == Init => TableIsOwn
BY IdleTyped DEF Init, TableIsOwn, Actor

LEMMA TableKept ==
  ASSUME TableIsOwn, UNCHANGED <<table, checkpoints, newest, staged>>,
         proc'["run"].step = "write" => proc'["run"] = proc["run"] \/ proc'["run"].pos \notin {4, 5}
  PROVE  TableIsOwn'
BY DEF TableIsOwn

LEMMA TableStep ==
  ASSUME Shape, AtWork, FollowsNewest, TableIsOwn, [Next]_vars
  PROVE  TableIsOwn'
<1>1. SUFFICES ASSUME staged' = 0 PROVE TableIsOwn'
  BY DEF TableIsOwn
<1>2. "run" \in Actor /\ "stage" \in Actor /\ staged \in Nat /\ TypeOK
  BY Numbers DEF Actor, Shape
<1>3. CASE UNCHANGED vars
  BY <1>3 DEF TableIsOwn, vars, docs, store, count, obs
<1>4. CASE \E resume, dry \in BOOLEAN : StartRun(resume, dry)
  <2>1. PICK dry \in BOOLEAN : RunStarts(dry)
    BY <1>2, <1>4, Starts
  <2>2. UNCHANGED <<table, checkpoints, newest, staged>>
    BY <2>1 DEF RunStarts, docs, store
  <2>3. proc' = proc \/ proc'["run"].step = "body"
    BY <2>1 DEF RunStarts, Begun
  <2>4. QED
    BY <2>2, <2>3, TableKept
<1>5. CASE \E k \in Position : StartStage(k)
  <2>1. PICK k \in Position : StageStarts(k)
    BY <1>2, <1>5, StartsStage
  <2>2. staged' = staged + 1
    BY <2>1 DEF StageStarts
  <2>3. QED
    BY <1>1, <1>2, <2>2
<1>6. ASSUME NEW a \in Actor, Body(a) \/ SyncPageFails(a) \/ AttemptFails(a) \/ Dies(a)
      PROVE  TableIsOwn'
  <2>1. Worked(a) \/ Ended(a) \/ Checkpointed(a)
    <3>1. CASE AttemptFails(a) \/ Dies(a) \/ StageThrows(a) \/ Checkpoint(a) \/ SyncPageFails(a)
      BY <1>2, <3>1, Fails, Deaths, Throws, Checkpoints, PassesOne DEF Retried
    <3>2. CASE \/ Reconcile(a) \/ Farm(a) \/ Source(a) \/ Compress(a) \/ Assemble(a)
               \/ Filter(a) \/ Dedup(a) \/ RankJobs(a) \/ SyncDry(a) \/ SyncSqlite(a) \/ SyncEnd(a)
      BY <1>2, <3>2, Reconciles, Farms, Sources, Compresses, AssemblesTable, Filters, Dedups, Ranks,
         SyncsDry, SyncsSqlite, EndsPages DEF Wrote
    <3>3. CASE \/ StructureBegin(a) \/ StructureBatch(a) \/ StructureDecide(a) \/ StructureClear(a)
               \/ SyncBegin(a) \/ SyncPage(a)
      BY <1>2, <3>3, Begins, Answers, DecidesAll, Clears, BeginsPages, SyncsOne
    <3>4. QED
      BY <1>6, <3>1, <3>2, <3>3 DEF Body
  <2>2. staged = 0 /\ a = "run"
    BY <1>1, <2>1, RunActs DEF Worked, Ended, Checkpointed, Busy, count
  <2>3. ASSUME Worked(a), UNCHANGED table, proc'[a].step = "write" => proc[a].pos \notin {4, 5}
        PROVE  TableIsOwn'
    BY <2>2, <2>3, TableKept DEF Worked, InStage, count
  <2>4. CASE AttemptFails(a) \/ Dies(a) \/ StageThrows(a)
    <3>1. Ended(a) \/ Retried(a)
      BY <1>2, <2>4, Fails, Deaths, Throws
    <3>2. /\ UNCHANGED <<table, checkpoints, newest, staged>>
          /\ proc'["run"].step # "write"
      BY <2>2, <3>1, IdleTyped DEF Ended, Retried, Worked, docs, store, count
    <3>3. QED
      BY <3>2, TableKept
  <2>5. CASE Checkpoint(a)
    <3>1. Checkpointed("run")
      BY <1>2, <2>2, <2>5, Checkpoints
    <3>2. /\ newest'.pos = proc["run"].pos /\ newest'.pay = proc["run"].pay
          /\ UNCHANGED table /\ proc["run"].step = "write" /\ proc'["run"].step # "write"
      BY <3>1, IdleTyped DEF Checkpointed, docs
    <3>3. QED
      BY <2>2, <3>2 DEF TableIsOwn
  <2>6. CASE \/ Reconcile(a) \/ Farm(a) \/ Source(a) \/ Assemble(a) \/ Filter(a)
             \/ Dedup(a) \/ RankJobs(a) \/ SyncDry(a) \/ SyncSqlite(a)
    <3>1. Wrote(a) /\ UNCHANGED table /\ proc[a].pos \notin {4, 5}
      BY <1>2, <2>6, Reconciles, Farms, Sources, AssemblesTable, Filters, Dedups, Ranks,
         SyncsDry, SyncsSqlite DEF Bodily, docs
    <3>2. QED
      BY <2>3, <3>1 DEF Wrote
  <2>7. CASE SyncEnd(a)
    BY <1>2, <2>3, <2>7, EndsPages DEF Wrote, docs, Shape, StepsFit
  <2>8. CASE StructureBegin(a) \/ StructureBatch(a) \/ StructureDecide(a)
             \/ SyncBegin(a) \/ SyncPage(a) \/ SyncPageFails(a)
    BY <1>2, <2>3, <2>8, Begins, Answers, DecidesAll, BeginsPages, SyncsOne, PassesOne DEF docs
  <2>9. CASE StructureClear(a)
    <3>1. /\ Worked(a) /\ UNCHANGED table /\ proc[a].step = "clear" /\ proc'[a].step = "write"
          /\ proc'[a].pay = proc[a].pay
      BY <1>2, <2>9, Clears
    <3>2. proc["run"].pos = 5 /\ Busy("run")
      BY <1>2, <2>2, <3>1 DEF Shape, StepsFit, Busy
    <3>3. checkpoints # {} /\ newest.pos = 4 /\ proc["run"].pay = newest.pay
      BY <2>2, <3>1, <3>2 DEF FollowsNewest
    <3>4. table = newest.pay.jobs
      BY <2>2, <3>3 DEF TableIsOwn
    <3>5. QED
      BY <2>2, <3>1, <3>3, <3>4 DEF TableIsOwn, Worked, count
  <2>10. CASE Compress(a)
    <3>1. /\ Worked(a) /\ proc[a].pos = 4 /\ proc[a].step = "body" /\ table' = proc[a].pay.jobs
          /\ proc'[a].pay = proc[a].pay
      BY <1>2, <2>10, Compresses DEF Wrote, Bodily
    <3>2. newest.pos = 3
      BY <2>2, <3>1 DEF FollowsNewest, Busy
    <3>3. QED
      BY <2>2, <3>1, <3>2 DEF TableIsOwn, Worked
  <2>11. QED
    BY <1>6, <2>4, <2>5, <2>6, <2>7, <2>8, <2>9, <2>10 DEF Body
<1>7. QED
  BY <1>3, <1>4, <1>5, <1>6 DEF Next

ResumeInv == Shape /\ AtWork /\ InOrder /\ FollowsNewest /\ TableIsOwn

(* The properties of one step. *)
OwnJobs == \A a \in Actor : At(a, "assemble") /\ proc'[a].step = "write" /\ staged = 0
             => proc'[a].pay.jobs \subseteq proc[a].pay.jobs \cup proc[a].pay.dropped
TakesNewest ==
  ~Busy("run") /\ Busy("run")' /\ proc'["run"].pos > 1 /\ staged = 0
    => proc'["run"].pay = newest.pay /\ proc'["run"].pos = newest.pos + 1

LEMMA AssemblesOwn ==
  ASSUME ResumeInv, Next
  PROVE  OwnJobs
<1> SUFFICES ASSUME NEW b \in Actor, At(b, "assemble"), proc'[b].step = "write", staged = 0
             PROVE  proc'[b].pay.jobs \subseteq proc[b].pay.jobs
  BY DEF OwnJobs
<1>1. TypeOK /\ Shape /\ AtWork
  BY DEF ResumeInv, Shape
<1>2. proc[b].pos = 6 /\ proc[b].step = "body" /\ Busy(b)
  BY <1>1, AtPosition DEF At, Busy
<1>3. b = "run"
  BY <1>1, <1>2, RunActs
<1>4. proc'[b] # proc[b]
  BY <1>2
<1>5. CASE \E resume, dry \in BOOLEAN : StartRun(resume, dry)
  BY <1>1, <1>2, <1>3, <1>5, Starts DEF RunStarts
<1>6. CASE \E k \in Position : StartStage(k)
  BY <1>1, <1>2, <1>3, <1>4, <1>6, StartsStage DEF StageStarts, Others
<1>7. ASSUME NEW a \in Actor, Body(a) \/ SyncPageFails(a) \/ AttemptFails(a) \/ Dies(a)
      PROVE  proc'[b].pay.jobs \subseteq proc[b].pay.jobs
  <2>1. Others(a) => a = b
    BY <1>4 DEF Others
  <2>2. CASE AttemptFails(a) \/ Dies(a) \/ StageThrows(a) \/ Checkpoint(a)
    <3>1. Ended(a) \/ Retried(a) \/ Checkpointed(a)
      BY <1>1, <2>2, Fails, Deaths, Throws, Checkpoints
    <3>2. QED
      BY <1>2, <2>1, <3>1, IdleTyped DEF Ended, Retried, Checkpointed, Worked
  <2>3. CASE \/ Reconcile(a) \/ Farm(a) \/ Source(a) \/ Compress(a) \/ Filter(a)
             \/ Dedup(a) \/ RankJobs(a) \/ SyncDry(a) \/ SyncSqlite(a)
    <3>1. Others(a) /\ proc[a].pos # 6
      BY <1>1, <2>3, Reconciles, Farms, Sources, Compresses, Filters, Dedups, Ranks,
         SyncsDry, SyncsSqlite DEF Bodily, Wrote, Worked
    <3>2. QED
      BY <1>2, <2>1, <3>1
  <2>4. CASE \/ StructureBegin(a) \/ StructureBatch(a) \/ StructureDecide(a) \/ StructureClear(a)
             \/ SyncBegin(a) \/ SyncPage(a) \/ SyncPageFails(a) \/ SyncEnd(a)
    <3>1. Others(a) /\ (proc[a].step # "body" \/ proc'[a].step # "write")
      BY <1>1, <2>4, Begins, Answers, DecidesAll, Clears, BeginsPages, SyncsOne, PassesOne, EndsPages
         DEF Wrote, Worked
    <3>2. QED
      BY <1>2, <2>1, <3>1
  <2>5. CASE Assemble(a)
    <3>1. a = b /\ proc'[a].pay.jobs = table \cap decisions
      BY <1>1, <2>1, <2>5, AssemblesTable DEF Wrote, Worked
    <3>2. newest.pos = 5 /\ proc[b].pay = newest.pay /\ checkpoints # {}
      BY <1>2, <1>3 DEF ResumeInv, FollowsNewest
    <3>3. table = proc[b].pay.jobs
      BY <3>2 DEF ResumeInv, TableIsOwn
    <3>4. QED
      BY <3>1, <3>3
  <2>6. QED
    BY <1>7, <2>2, <2>3, <2>4, <2>5 DEF Body
<1>8. QED
  BY <1>5, <1>6, <1>7 DEF Next

LEMMA ResumesFromNewest ==
  ASSUME NamesAscend, ResumeInv, Next
  PROVE  TakesNewest
<1> SUFFICES ASSUME ~Busy("run"), Busy("run")', proc'["run"].pos > 1, staged = 0
             PROVE  proc'["run"].pay = newest.pay /\ proc'["run"].pos = newest.pos + 1
  BY DEF TakesNewest
<1>1. Shape /\ AtWork /\ "run" \in Actor /\ "stage" \in Actor
  BY DEF ResumeInv, Actor
<1>2. CASE \E a \in Actor : Worked(a) \/ Ended(a) \/ Checkpointed(a)
  BY <1>1, <1>2, RunActs DEF Worked, Ended, Checkpointed, Busy
<1>3. CASE \E k \in Position : StageStarts(k)
  BY <1>1, <1>3 DEF StageStarts, Others, Busy
<1>4. CASE \E dry \in BOOLEAN : RunStarts(dry)
  <2>1. PICK dry \in BOOLEAN : RunStarts(dry)
    BY <1>4
  <2>2. Latest \in checkpoints /\ Begun("run", Latest.pos + 1, groups + 1, Latest.pay, dry)
    <3>1. proc' # proc
      BY DEF Busy
    <3>2. ~Begun("run", 1, groups + 1, Seed, dry)
      BY DEF Begun
    <3>3. QED
      BY <2>1, <3>1, <3>2 DEF RunStarts
  <2>3. PICK c \in checkpoints : IsLatest(c) /\ c.pos = newest.pos /\ c.pay = newest.pay
    BY <2>2 DEF ResumeInv, FollowsNewest
  <2>4. Latest = c
    BY <1>1, <2>3, LatestIs
  <2>5. QED
    BY <2>2, <2>3, <2>4 DEF Begun
<1>5. QED
  BY <1>1, <1>2, <1>3, <1>4, Moves

LEMMA ResumeInvInductive ==
  /\ Init => ResumeInv
  /\ NamesAscend /\ ResumeInv /\ [Next]_vars => ResumeInv'
<1>1. Init => ResumeInv
  BY ShapeInit, AtWorkInit, InOrderInit, FollowsInit, TableInit DEF ResumeInv
<1>2. ASSUME NamesAscend, ResumeInv, [Next]_vars PROVE ResumeInv'
  <2>1. Shape /\ AtWork /\ InOrder /\ FollowsNewest /\ TableIsOwn
    BY <1>2 DEF ResumeInv
  <2>2. Shape' /\ AtWork'
    BY <1>2, <2>1, ShapeStep, AtWorkStep
  <2>3. QED
    BY <1>2, <2>1, <2>2, InOrderStep, FollowsStep, TableStep DEF ResumeInv
<1>3. QED
  BY <1>1, <1>2

(* While runs are all the user starts, and the groups' names ascend, a      *)
(* resumed run takes the newest checkpoint and starts at the stage after    *)
(* it, and what assemble puts into a run are jobs that run was given.       *)
THEOREM ResumeHolds == NamesAscend => (Spec => ResumeSound)
<1> SUFFICES ASSUME NamesAscend PROVE Spec => ResumeSound
  OBVIOUS
<1>1. Init => ResumeInv
  BY ResumeInvInductive
<1>2. ResumeInv /\ [Next]_vars => ResumeInv'
  BY ResumeInvInductive
<1>3. ResumeInv /\ [Next]_vars => [OwnJobs]_vars /\ [TakesNewest]_vars
  BY AssemblesOwn, ResumesFromNewest
<1>4. QED
  BY <1>1, <1>2, <1>3, PTL DEF Spec, ResumeSound, NoForeignJobs, ResumesNewest, OwnJobs, TakesNewest

----------------------------------------------------------------------------
(* What a payload says of pages *)

(* A job a payload calls paged has a page, and so have the jobs a sync has left. *)
PagedIsPaged ==
  /\ \A c \in checkpoints : c.pay.paged \subseteq InPages
  /\ \A a \in Actor :
       /\ proc[a].pay.paged \subseteq InPages
       /\ proc[a].step = "pages" => proc[a].acc \subseteq InPages
       /\ proc[a].step = "write" /\ proc[a].pos = 10 /\ ~proc[a].dry => proc[a].pay.jobs \subseteq InPages

(* The part about one process. *)
Paged(a) ==
  /\ proc[a].pay.paged \subseteq InPages
  /\ proc[a].step = "pages" => proc[a].acc \subseteq InPages
  /\ proc[a].step = "write" /\ proc[a].pos = 10 /\ ~proc[a].dry => proc[a].pay.jobs \subseteq InPages

LEMMA PagedInit == Init => PagedIsPaged
BY IdleTyped DEF Init, PagedIsPaged

LEMMA PagedAside ==
  ASSUME PagedIsPaged, NEW a \in Actor, Others(a), InPages \subseteq InPages', Paged(a)',
         \A c \in checkpoints' : c \in checkpoints \/ c.pay.paged \subseteq InPages'
  PROVE  PagedIsPaged'
BY DEF PagedIsPaged, Paged, Others

LEMMA PagedStep ==
  ASSUME Shape, PagedIsPaged, [Next]_vars
  PROVE  PagedIsPaged' /\ InPages \subseteq InPages'
<1>1. TypeOK
  BY DEF Shape
<1>2. CASE UNCHANGED vars
  BY <1>2 DEF PagedIsPaged, InPages, vars, store
<1>3. CASE \E resume, dry \in BOOLEAN : StartRun(resume, dry)
  <2>1. PICK dry \in BOOLEAN : RunStarts(dry)
    BY <1>1, <1>3, Starts
  <2>2. "run" \in Actor /\ Others("run") /\ UNCHANGED <<pages, checkpoints>>
    BY <2>1 DEF RunStarts, store, Actor
  <2>3. InPages' = InPages
    BY <2>2 DEF InPages
  <2>4. CASE proc' = proc
    BY <2>2, <2>3, <2>4 DEF PagedIsPaged
  <2>5. CASE proc'["run"].step = "body" /\ (proc'["run"].pay = Seed \/ \E c \in checkpoints : proc'["run"].pay = c.pay)
    <3>1. Paged("run")'
      BY <2>3, <2>5, IdleTyped DEF Paged, PagedIsPaged
    <3>2. QED
      BY <2>2, <2>3, <3>1, PagedAside
  <2>6. QED
    BY <2>1, <2>3, <2>4, <2>5 DEF RunStarts, Begun
<1>4. CASE \E k \in Position : StartStage(k)
  <2>1. PICK k \in Position : StageStarts(k)
    BY <1>1, <1>4, StartsStage
  <2>2. "stage" \in Actor /\ Others("stage") /\ UNCHANGED <<pages, checkpoints>>
    BY <2>1 DEF StageStarts, store, Actor
  <2>3. InPages' = InPages
    BY <2>2 DEF InPages
  <2>4. proc'["stage"].step = "body" /\ (proc'["stage"].pay = Seed \/ \E c \in checkpoints : proc'["stage"].pay = c.pay)
    BY <2>1 DEF StageStarts, Begun
  <2>5. Paged("stage")'
    BY <2>3, <2>4, IdleTyped DEF Paged, PagedIsPaged
  <2>6. QED
    BY <2>2, <2>3, <2>5, PagedAside
<1>5. ASSUME NEW a \in Actor, Body(a) \/ SyncPageFails(a) \/ AttemptFails(a) \/ Dies(a)
      PROVE  PagedIsPaged' /\ InPages \subseteq InPages'
  <2>1. Paged(a) /\ pages \in [Job -> Nat]
    BY <1>1 DEF PagedIsPaged, Paged, TypeOK
  <2>2. ASSUME Worked(a), InPages \subseteq InPages', Paged(a)' PROVE PagedIsPaged'
    BY <2>2, PagedAside DEF Worked
  <2>3. UNCHANGED pages => InPages' = InPages
    BY DEF InPages
  <2>4. CASE AttemptFails(a) \/ Dies(a) \/ StageThrows(a)
    <3>1. Ended(a) \/ Retried(a)
      BY <1>1, <2>4, Fails, Deaths, Throws
    <3>2. UNCHANGED <<pages, checkpoints>> /\ Others(a)
      BY <3>1 DEF Ended, Retried, Worked, store
    <3>3. Paged(a)'
      BY <2>1, <2>3, <3>1, <3>2, IdleTyped DEF Paged, Ended, Retried
    <3>4. QED
      BY <2>3, <3>2, <3>3, PagedAside
  <2>5. CASE Checkpoint(a)
    <3>1. Checkpointed(a)
      BY <1>1, <2>5, Checkpoints
    <3>2. Paged(a)' /\ UNCHANGED pages
      BY <2>1, <2>3, <3>1, IdleTyped DEF Paged, Checkpointed
    <3>3. Row(a).pay.paged \subseteq InPages
      BY <2>1 DEF Row, Paged
    <3>4. \A c \in checkpoints' : c \in checkpoints \/ c.pay.paged \subseteq InPages'
      BY <2>3, <3>1, <3>2, <3>3 DEF Checkpointed
    <3>5. QED
      BY <2>3, <3>1, <3>2, <3>4, PagedAside DEF Checkpointed
  <2>6. CASE \/ Reconcile(a) \/ Farm(a) \/ Source(a) \/ Compress(a) \/ Assemble(a) \/ Filter(a)
             \/ Dedup(a) \/ RankJobs(a)
    <3>1. /\ Worked(a) /\ proc[a].pos # 10 /\ proc'[a].step = "write" /\ UNCHANGED pages
          /\ proc'[a].pay.paged \subseteq proc[a].pay.paged
      BY <1>1, <2>6, Reconciles, Farms, Sources, Compresses, AssemblesTable, Filters, Dedups, Ranks
         DEF Wrote, Bodily
    <3>2. Paged(a)'
      BY <2>1, <2>3, <3>1 DEF Paged, Worked, InStage
    <3>3. QED
      BY <2>2, <2>3, <3>1, <3>2
  <2>7. CASE SyncDry(a)
    <3>1. /\ Worked(a) /\ proc[a].dry /\ proc'[a].step = "write" /\ UNCHANGED pages
          /\ proc'[a].pay = proc[a].pay
      BY <1>1, <2>7, SyncsDry DEF Wrote
    <3>2. Paged(a)'
      BY <2>1, <2>3, <3>1 DEF Paged, Worked, InStage
    <3>3. QED
      BY <2>2, <2>3, <3>1, <3>2
  <2>8. CASE SyncSqlite(a)
    <3>1. /\ Worked(a) /\ proc'[a].step = "write"
          /\ pages' = [j \in Job |-> IF j \in proc[a].pay.jobs THEN 1 ELSE pages[j]]
          /\ proc'[a].pay.jobs = proc[a].pay.jobs /\ proc'[a].pay.paged = proc[a].pay.jobs
      BY <1>1, <2>8, SyncsSqlite DEF Wrote
    <3>2. proc[a].pay.jobs \subseteq Job
      BY <1>1 DEF TypeOK, Process, Payload
    <3>3. InPages \subseteq InPages' /\ proc[a].pay.jobs \subseteq InPages'
      BY <3>1, <3>2 DEF InPages
    <3>4. Paged(a)'
      BY <3>1, <3>3 DEF Paged
    <3>5. QED
      BY <2>2, <3>1, <3>3, <3>4
  <2>9. CASE StructureBegin(a) \/ StructureBatch(a) \/ StructureDecide(a) \/ StructureClear(a)
    <3>1. /\ Worked(a) /\ UNCHANGED pages /\ proc'[a].pay = proc[a].pay /\ proc'[a].step # "pages"
          /\ proc'[a].step = "write" => proc[a].step = "clear"
      BY <1>1, <2>9, Begins, Answers, DecidesAll, Clears
    <3>2. proc[a].step = "clear" => proc[a].pos # 10
      BY DEF Shape, StepsFit
    <3>3. Paged(a)'
      BY <2>1, <2>3, <3>1, <3>2 DEF Paged, Worked, InStage
    <3>4. QED
      BY <2>2, <2>3, <3>1, <3>3
  <2>10. CASE SyncBegin(a) \/ SyncPageFails(a)
    <3>1. /\ Worked(a) /\ UNCHANGED pages /\ proc'[a].pay = proc[a].pay /\ proc'[a].step = "pages"
          /\ proc'[a].acc = {} \/ (proc[a].step = "pages" /\ proc'[a].acc = proc[a].acc)
      BY <1>1, <2>10, BeginsPages, PassesOne
    <3>2. Paged(a)'
      BY <2>1, <2>3, <3>1 DEF Paged
    <3>3. QED
      BY <2>2, <2>3, <3>1, <3>2
  <2>11. CASE SyncPage(a)
    <3>1. /\ Worked(a) /\ proc[a].step = "pages" /\ proc'[a].step = "pages" /\ proc'[a].pay = proc[a].pay
      BY <1>1, <2>11, SyncsOne
    <3>2. PICK j \in proc[a].todo :
              /\ j \in Job /\ proc'[a].acc = proc[a].acc \cup {j}
              /\ \A i \in Job : i # j => pages'[i] = pages[i]
              /\ j \in proc[a].pay.paged => pages'[j] = pages[j]
              /\ j \notin proc[a].pay.paged => pages'[j] = pages[j] + 1
      BY <1>1, <2>11, SyncsOne
    <3>3. pages[j] \in Nat /\ (j \in proc[a].pay.paged => pages[j] > 0)
      BY <2>1, <3>2 DEF Paged, InPages
    <3>4. pages'[j] > 0
      BY <3>2, <3>3
    <3>5. InPages \subseteq InPages' /\ j \in InPages'
      BY <3>2, <3>4 DEF InPages
    <3>6. Paged(a)'
      BY <2>1, <3>1, <3>2, <3>5 DEF Paged
    <3>7. QED
      BY <2>2, <3>1, <3>5, <3>6
  <2>12. CASE SyncEnd(a)
    <3>1. /\ Worked(a) /\ UNCHANGED pages /\ proc[a].step = "pages" /\ proc'[a].step = "write"
          /\ proc'[a].pay.jobs \subseteq proc[a].acc /\ proc'[a].pay.paged = proc[a].acc
      BY <1>1, <2>12, EndsPages DEF Wrote
    <3>2. Paged(a)'
      BY <2>1, <2>3, <3>1 DEF Paged
    <3>3. QED
      BY <2>2, <2>3, <3>1, <3>2
  <2>13. QED
    BY <1>5, <2>4, <2>5, <2>6, <2>7, <2>8, <2>9, <2>10, <2>11, <2>12 DEF Body
<1>6. QED
  BY <1>2, <1>3, <1>4, <1>5 DEF Next

----------------------------------------------------------------------------
(* No emitted job goes out of sight *)

Held(pay) == pay.jobs \cup pay.dropped
OnRecord == InPages \cup DroppedOnRecord

(* While runs are all there is: what the API lanes emitted has a page or a  *)
(* drop on record, or is held by the run, or by the newest checkpoint.      *)
InSight ==
  staged = 0 =>
    /\ Busy("run") => /\ ~passed
                      /\ emitted \subseteq OnRecord \cup Held(proc["run"].pay)
                      /\ proc["run"].dry \/ (proc["run"].pos = 1) => emitted = {}
    /\ ~Busy("run") => /\ checkpoints = {} => emitted = {}
                       /\ checkpoints # {} => emitted \subseteq OnRecord \cup Held(newest.pay)
                       /\ passed => emitted \subseteq OnRecord
    /\ checkpoints # {} /\ newest.pos = 10 => emitted \subseteq OnRecord

LEMMA InSightInit == Init => InSight
BY IdleTyped DEF Init, InSight, Busy, Actor

(* The run goes on, and holds what it held. *)
LEMMA StillHeld ==
  ASSUME FollowsNewest, InSight, staged = 0, Worked("run"), InPages \subseteq InPages',
         NEW found, Held(proc["run"].pay) \cup found \subseteq Held(proc'["run"].pay),
         emitted' = emitted \/ (/\ emitted' = emitted \cup found
                                /\ ~proc["run"].dry /\ proc["run"].pos = 3)
  PROVE  InSight'
<1>1. OnRecord \subseteq OnRecord'
  BY DEF OnRecord, DroppedOnRecord, Worked
<1>2. /\ Busy("run") /\ Busy("run")' /\ proc'["run"].dry = proc["run"].dry
      /\ proc'["run"].pos = proc["run"].pos /\ UNCHANGED <<checkpoints, staged, newest, passed>>
  BY DEF Worked, InStage, count
<1>3. emitted \subseteq OnRecord \cup Held(proc["run"].pay) /\ ~passed
      /\ (proc["run"].dry \/ proc["run"].pos = 1 => emitted = {})
      /\ (checkpoints # {} /\ newest.pos = 10 => emitted \subseteq OnRecord)
  BY <1>2 DEF InSight
<1>4. emitted' \subseteq OnRecord' \cup Held(proc'["run"].pay)
  BY <1>1, <1>3
<1>5. proc["run"].dry \/ proc["run"].pos = 1 => emitted' = {}
  BY <1>3
<1>6. proc["run"].pos = 3 => newest.pos = 2
  BY <1>2 DEF FollowsNewest
<1>7. checkpoints # {} /\ newest.pos = 10 => emitted' \subseteq OnRecord'
  BY <1>1, <1>3, <1>6
<1>8. QED
  BY <1>2, <1>3, <1>4, <1>5, <1>7 DEF InSight

LEMMA InSightStep ==
  ASSUME NamesAscend, "die" \notin Faults, Shape, AtWork, InOrder, FollowsNewest, TableIsOwn, PagedIsPaged,
         InSight, [Next]_vars
  PROVE  InSight'
<1>1. SUFFICES ASSUME staged' = 0 PROVE InSight'
  BY DEF InSight
<1>2. "run" \in Actor /\ staged \in Nat /\ TypeOK /\ InPages \subseteq InPages'
  BY Numbers, PagedStep DEF Actor, Shape
<1>3. CASE UNCHANGED vars
  BY <1>3 DEF InSight, OnRecord, DroppedOnRecord, InPages, Busy, vars, store, count, obs
<1>4. CASE \E resume, dry \in BOOLEAN : StartRun(resume, dry)
  <2>1. PICK dry \in BOOLEAN : RunStarts(dry)
    BY <1>2, <1>4, Starts
  <2>2. staged = 0 /\ ~Busy("run") /\ UNCHANGED <<pages, checkpoints, newest>>
    BY <1>1, <2>1 DEF RunStarts, store
  <2>3. OnRecord' = OnRecord
    BY <2>2 DEF OnRecord, DroppedOnRecord, InPages
  <2>4. CASE Begun("run", 1, groups + 1, Seed, dry) /\ passed' = FALSE /\ emitted' = {}
    BY <2>4 DEF InSight, Busy, Begun
  <2>5. ASSUME Latest \in checkpoints, emitted' = IF dry THEN {} ELSE emitted
        PROVE  /\ emitted' \subseteq OnRecord' \cup Held(Latest.pay)
               /\ Latest.pay = newest.pay /\ Latest.pos = newest.pos /\ Latest.pos \in 1 .. 10
               /\ Latest.pos = 10 => emitted' \subseteq OnRecord'
    <3>1. PICK c \in checkpoints : IsLatest(c) /\ c.pos = newest.pos /\ c.pay = newest.pay
      BY <2>2, <2>5 DEF FollowsNewest
    <3>2. Latest = c /\ Latest.pos \in 1 .. 10
      BY <3>1, LatestIs, Numbers
    <3>3. /\ emitted \subseteq OnRecord \cup Held(newest.pay)
          /\ newest.pos = 10 => emitted \subseteq OnRecord
      BY <2>2, <2>5 DEF InSight
    <3>4. QED
      BY <2>3, <2>5, <3>1, <3>2, <3>3
  <2>6. CASE /\ Latest \in checkpoints /\ emitted' = (IF dry THEN {} ELSE emitted) /\ Latest.pos < 10
             /\ passed' = FALSE /\ Begun("run", Latest.pos + 1, groups + 1, Latest.pay, dry)
    <3>1. /\ proc'["run"].pay = Latest.pay /\ proc'["run"].pos = Latest.pos + 1
          /\ proc'["run"].dry = dry /\ Busy("run")'
      BY <2>6 DEF Begun, Busy
    <3>2. proc'["run"].pos # 1 /\ newest'.pos # 10
      BY <2>2, <2>5, <2>6, <3>1
    <3>3. emitted' \subseteq OnRecord' \cup Held(proc'["run"].pay) /\ (dry => emitted' = {})
      BY <2>5, <2>6, <3>1
    <3>4. QED
      BY <2>6, <3>1, <3>2, <3>3 DEF InSight
  <2>7. CASE /\ Latest \in checkpoints /\ emitted' = (IF dry THEN {} ELSE emitted) /\ Latest.pos = 10
             /\ passed' = ~dry /\ proc' = proc
    BY <2>2, <2>3, <2>5, <2>7 DEF InSight, Busy
  <2>8. QED
    BY <2>1, <2>4, <2>6, <2>7 DEF RunStarts
<1>5. CASE \E k \in Position : StartStage(k)
  <2>1. PICK k \in Position : StageStarts(k)
    BY <1>2, <1>5, StartsStage
  <2>2. staged' = staged + 1
    BY <2>1 DEF StageStarts
  <2>3. QED
    BY <1>1, <1>2, <2>2
<1>6. ASSUME NEW a \in Actor, Body(a) \/ SyncPageFails(a) \/ AttemptFails(a)
      PROVE  InSight'
  <2>1. ASSUME Busy(a), UNCHANGED staged PROVE a = "run" /\ staged = 0
    BY <1>1, <2>1, RunActs
  <2>2. ASSUME Worked(a), Held(proc[a].pay) \subseteq Held(proc'[a].pay), UNCHANGED emitted
        PROVE  InSight'
    <3>1. a = "run" /\ staged = 0
      BY <2>1, <2>2 DEF Worked, count
    <3>2. Held(proc["run"].pay) \cup {} \subseteq Held(proc'["run"].pay)
      BY <2>2, <3>1
    <3>3. QED
      BY <1>2, <2>2, <3>1, <3>2, StillHeld
  <2>3. ASSUME Ended(a), proc[a].step # "write" PROVE InSight'
    <3>1. a = "run" /\ staged = 0 /\ Busy("run") /\ ~Busy("run")'
      BY <2>1, <2>3, IdleTyped DEF Ended, Busy, count
    <3>2. UNCHANGED <<checkpoints, pages, passed, newest, emitted>>
      BY <2>3 DEF Ended, store
    <3>3. OnRecord' = OnRecord
      BY <3>2 DEF OnRecord, DroppedOnRecord, InPages
    <3>4. /\ ~passed /\ emitted \subseteq OnRecord \cup Held(proc["run"].pay)
          /\ proc["run"].pos = 1 => emitted = {}
          /\ checkpoints # {} /\ newest.pos = 10 => emitted \subseteq OnRecord
      BY <3>1 DEF InSight
    <3>5. proc["run"].pos > 1 => checkpoints # {} /\ proc["run"].pay = newest.pay
      BY <2>3, <3>1 DEF FollowsNewest
    <3>6. proc["run"].pos = 1 \/ proc["run"].pos > 1
      BY <1>2, Numbers
    <3>7. QED
      BY <3>1, <3>2, <3>3, <3>4, <3>5, <3>6 DEF InSight
  <2>4. CASE AttemptFails(a) \/ StageThrows(a)
    <3>1. Ended(a) \/ Retried(a)
      BY <1>2, <2>4, Fails, Throws
    <3>2. proc[a].step # "write"
      BY <1>2, <2>4, Throws DEF AttemptFails
    <3>3. Retried(a) => InSight'
      BY <2>2 DEF Retried
    <3>4. QED
      BY <2>3, <3>1, <3>2, <3>3
  <2>5. CASE Checkpoint(a)
    <3>1. Checkpointed(a)
      BY <1>2, <2>5, Checkpoints
    <3>2. a = "run" /\ staged = 0 /\ Busy("run") /\ Checkpointed("run")
      BY <2>1, <3>1 DEF Checkpointed, Busy, count
    <3>3. RunAbove
      BY <3>2 DEF InOrder, Apart
    <3>4. checkpoints \subseteq checkpoints' /\ Row("run") \in checkpoints'
          /\ Row("run").pay = proc["run"].pay
      <4>1. \A d \in checkpoints : d.group # proc["run"].group \/ d.pos # proc["run"].pos
        BY <1>2, <3>2, <3>3, Numbers DEF RunAbove
      <4>2. QED
        BY <3>2, <4>1 DEF Checkpointed, Row
    <3>5. OnRecord \cup proc["run"].pay.dropped \subseteq OnRecord'
      BY <1>2, <3>4 DEF OnRecord, DroppedOnRecord
    <3>6. /\ ~passed /\ emitted' = emitted /\ emitted \subseteq OnRecord \cup Held(proc["run"].pay)
          /\ proc["run"].dry \/ proc["run"].pos = 1 => emitted = {}
      BY <3>2 DEF InSight, Checkpointed
    <3>7. newest'.pos = proc["run"].pos /\ newest'.pay = proc["run"].pay /\ checkpoints' # {}
      BY <3>2, <3>4 DEF Checkpointed
    <3>8. proc["run"].pos = 10 => emitted' \subseteq OnRecord'
      <4>1. proc["run"].pos = 10 /\ ~proc["run"].dry => proc["run"].pay.jobs \subseteq InPages
        BY <1>2, <3>2 DEF PagedIsPaged, Checkpointed
      <4>2. InPages \subseteq OnRecord
        BY DEF OnRecord
      <4>3. QED
        BY <3>5, <3>6, <4>1, <4>2 DEF Held
    <3>9. emitted' \subseteq OnRecord' \cup Held(newest'.pay)
      BY <3>5, <3>6, <3>7
    <3>10. ~proc["run"].only
      BY <1>2, <3>2 DEF Shape, StepsFit, Busy
    <3>11. CASE proc'["run"] = Idle /\ proc["run"].pos = 10
      BY <3>7, <3>8, <3>9, <3>11, IdleTyped DEF InSight, Busy
    <3>12. CASE /\ proc["run"].pos < 10 /\ proc'["run"].step = "body" /\ proc'["run"].pos = proc["run"].pos + 1
                /\ proc'["run"].pay = proc["run"].pay /\ proc'["run"].dry = proc["run"].dry /\ passed' = passed
      <4>1. proc'["run"].pos # 1 /\ newest'.pos # 10 /\ Busy("run")'
        BY <1>2, <3>7, <3>12, Numbers DEF Busy
      <4>2. QED
        BY <3>6, <3>7, <3>9, <3>12, <4>1 DEF InSight
    <3>13. QED
      BY <3>2, <3>10, <3>11, <3>12 DEF Checkpointed
  <2>6. CASE Reconcile(a) \/ Compress(a) \/ RankJobs(a) \/ SyncDry(a)
    BY <1>2, <2>2, <2>6, Reconciles, Compresses, Ranks, SyncsDry DEF Wrote
  <2>7. CASE StructureBegin(a) \/ StructureBatch(a) \/ StructureDecide(a) \/ StructureClear(a)
             \/ SyncBegin(a) \/ SyncPage(a) \/ SyncPageFails(a)
    BY <1>2, <2>2, <2>7, Begins, Answers, DecidesAll, Clears, BeginsPages, SyncsOne, PassesOne
  <2>8. CASE Farm(a) \/ Filter(a) \/ Dedup(a) \/ SyncSqlite(a) \/ SyncEnd(a)
    <3>1. Worked(a) /\ UNCHANGED emitted
      BY <1>2, <2>8, Farms, Filters, Dedups, SyncsSqlite, EndsPages DEF Wrote
    <3>2. Farm(a) => Held(proc[a].pay) \subseteq Held(proc'[a].pay)
      BY <1>2, Farms DEF Held
    <3>3. Filter(a) => Held(proc[a].pay) \subseteq Held(proc'[a].pay)
      BY <1>2, Filters DEF Held
    <3>4. Dedup(a) => Held(proc[a].pay) \subseteq Held(proc'[a].pay)
      BY <1>2, Dedups DEF Held
    <3>5. SyncSqlite(a) \/ SyncEnd(a) => Held(proc[a].pay) \subseteq Held(proc'[a].pay)
      BY <1>2, SyncsSqlite, EndsPages DEF Held
    <3>6. QED
      BY <2>2, <2>8, <3>1, <3>2, <3>3, <3>4, <3>5
  <2>9. CASE Assemble(a)
    <3>1. /\ Worked(a) /\ UNCHANGED emitted /\ proc[a].pos = 6 /\ proc[a].step = "body"
          /\ proc'[a].pay.jobs = table \cap decisions
          /\ proc'[a].pay.dropped = proc[a].pay.dropped \cup (table \ decisions)
      BY <1>2, <2>9, AssemblesTable DEF Wrote, Bodily
    <3>2. a = "run" /\ staged = 0
      BY <2>1, <3>1 DEF Worked, count
    <3>3. checkpoints # {} /\ newest.pos = 5 /\ proc[a].pay = newest.pay
      BY <3>1, <3>2 DEF FollowsNewest, Busy
    <3>4. table = proc[a].pay.jobs
      BY <3>2, <3>3 DEF TableIsOwn
    <3>5. Held(proc[a].pay) \subseteq Held(proc'[a].pay)
      BY <3>1, <3>4 DEF Held
    <3>6. QED
      BY <2>2, <3>1, <3>5
  <2>10. CASE Source(a)
    <3>1. /\ Worked(a) /\ proc[a].pos = 3 /\ proc'[a].pay.dropped = proc[a].pay.dropped
      BY <1>2, <2>10, Sources DEF Wrote, Bodily
    <3>2. PICK found \in SUBSET (Job \ Known) :
              /\ proc'[a].pay.jobs = proc[a].pay.jobs \cup found
              /\ emitted' = IF a = "run" /\ ~proc[a].dry THEN emitted \cup found ELSE emitted
      BY <1>2, <2>10, Sources
    <3>3. a = "run" /\ staged = 0
      BY <2>1, <3>1 DEF Worked, count
    <3>4. Held(proc["run"].pay) \cup found \subseteq Held(proc'["run"].pay)
      BY <3>1, <3>2, <3>3 DEF Held
    <3>5. QED
      BY <1>2, <3>1, <3>2, <3>3, <3>4, StillHeld
  <2>11. QED
    BY <1>6, <2>4, <2>5, <2>6, <2>7, <2>8, <2>9, <2>10 DEF Body
<1>7. ASSUME NEW a \in Actor, Dies(a) PROVE FALSE
  BY <1>7 DEF Dies
<1>8. QED
  BY <1>3, <1>4, <1>5, <1>6, <1>7 DEF Next

----------------------------------------------------------------------------
(* One page for a job *)

Clean(pay) == pay.jobs \cap InPages \subseteq pay.paged
Cached == InPages \subseteq Known
Syncing(a) == proc[a].pos = 10 /\ proc[a].step \in {"pages", "write"}
NoSync == \A a \in Actor : ~Syncing(a)
(* A stage command has assembled, and the dedup is still to come. *)
Undeduped(k) == staged = 1 /\ k \in {6, 7}

(* What a checkpoint of position k leaves to the next stage. *)
Leaves(pay, k) == Cached /\ (Clean(pay) \/ Undeduped(k))

PagesFirst == NoSync /\ checkpoints = {} => InPages = {}
PagesLatest ==
  NoSync => \A c \in checkpoints : IsLatest(c) => /\ c.pos = 10 => Clean(c.pay)
                                                  /\ c.pos < 10 => Leaves(c.pay, c.pos)
PagesRun ==
  LET p == proc["run"] IN
  Busy("run") /\ ~Syncing("run") =>
    /\ p.pos = 1 => p.pay.jobs = {}
    /\ p.step = "write" => Leaves(p.pay, p.pos)
    /\ p.step # "write" /\ p.pos > 1 => Leaves(p.pay, p.pos - 1)
PagesStage ==
  LET p == proc["stage"] IN
  Busy("stage") /\ ~Syncing("stage") =>
    /\ p.step # "write" => Clean(p.pay)
    /\ p.step = "write" => Clean(p.pay) \/ p.pos = 6 \/ \E c \in checkpoints : IsLatest(c) /\ c.pos = 10
PagesSync ==
  \A a \in Actor :
    /\ proc[a].step = "pages" => \A j \in proc[a].todo : j \in proc[a].pay.paged \/ pages[j] = 0
    /\ Syncing(a) /\ proc[a].step = "write" => Clean(proc[a].pay)

(* A payload on its way to the sync calls paged every job of its own that   *)
(* has a page, and from the reconcile on the cache has them all.            *)
PagesKnown == PagesFirst /\ PagesLatest /\ PagesRun /\ PagesStage /\ PagesSync /\ NoDuplicatePage
Guarded == ~torn /\ staged <= 1 /\ Connector = "notion"
PagesFollow == Alone /\ Guarded => PagesKnown

LEMMA PagesInit == Init => PagesFollow
<1> SUFFICES ASSUME Init PROVE PagesKnown
  BY DEF PagesFollow
<1>1. \A a \in Actor : proc[a].step = "idle"
  BY IdleTyped DEF Init
<1>2. InPages = {} /\ checkpoints = {} /\ \A j \in Job : pages[j] = 0
  BY DEF Init, InPages
<1>3. "run" \in Actor /\ "stage" \in Actor
  BY DEF Actor
<1>4. NoDuplicatePage
  BY <1>2 DEF NoDuplicatePage
<1>5. PagesFirst /\ PagesLatest
  BY <1>2 DEF PagesFirst, PagesLatest
<1>6. PagesRun /\ PagesStage
  BY <1>1, <1>3 DEF PagesRun, PagesStage, Busy
<1>7. PagesSync
  BY <1>1 DEF PagesSync, Syncing
<1>8. QED
  BY <1>4, <1>5, <1>6, <1>7 DEF PagesKnown

(* The latest checkpoint is one. *)
LEMMA OneLatest ==
  ASSUME Shape, NEW c \in checkpoints, NEW d \in checkpoints, IsLatest(c), IsLatest(d)
  PROVE  c = d
<1>1. Below(c, d.group, d.pos) /\ Below(d, c.group, c.pos)
  BY DEF IsLatest
<1>2. c.group = d.group /\ c.pos = d.pos
  BY <1>1, Numbers DEF Below
<1>3. QED
  BY <1>2 DEF Shape, KeysUnique

(* What does not touch pages, cache and the checkpoints leaves these facts be. *)
LEMMA CleanKept ==
  ASSUME UNCHANGED pages
  PROVE  /\ InPages' = InPages /\ (NoDuplicatePage => NoDuplicatePage')
         /\ \A pay : Clean(pay) => Clean(pay)'
BY DEF InPages, NoDuplicatePage, Clean

(* The stage of process a goes on outside of the sync. *)
LEMMA PagesWorked ==
  ASSUME Alone, AtWork, Shape', PagesKnown, NEW a \in Actor, Worked(a), ~Syncing(a), ~Syncing(a)',
         UNCHANGED pages, Cached => Cached',
         a = "run" => PagesRun', a = "stage" => PagesStage'
  PROVE  PagesKnown'
<1>1. /\ UNCHANGED <<checkpoints, staged>> /\ Others(a) /\ Busy(a)
      /\ \A b \in Actor : b # a => proc[b].step = "idle" /\ proc'[b].step = "idle"
  BY ActsAlone DEF Worked, count
<1>2. NoSync /\ NoSync'
  BY <1>1 DEF NoSync, Syncing
<1>3. NoDuplicatePage'
  BY CleanKept DEF PagesKnown
<1>4. PagesFirst'
  BY <1>1, <1>2, CleanKept DEF PagesKnown, PagesFirst
<1>5. PagesLatest'
  BY <1>1, <1>2, CleanKept DEF PagesKnown, PagesLatest, Leaves, Undeduped, IsLatest
<1>6. PagesRun' /\ PagesStage'
  BY <1>1 DEF PagesRun, PagesStage, Busy, Actor
<1>7. PagesSync'
  <2>1. \A b \in Actor : ~Syncing(b)'
    BY <1>2 DEF NoSync
  <2>2. \A b \in Actor : proc'[b].step # "pages"
    <3>1. proc'[a].step # "pages"
      BY DEF Syncing, Shape, StepsFit
    <3>2. QED
      BY <1>1, <3>1
  <2>3. QED
    BY <2>1, <2>2 DEF PagesSync
<1>8. QED
  BY <1>3, <1>4, <1>5, <1>6, <1>7 DEF PagesKnown

(* A stage command finds the cache complete, or the latest group is done. *)
LEMMA CachedOrDone ==
  ASSUME Shape, InOrder, Alone, PagesKnown, NoSync
  PROVE  Cached \/ \E c \in checkpoints : IsLatest(c) /\ c.pos = 10
<1>1. CASE checkpoints = {}
  BY <1>1 DEF PagesKnown, PagesFirst, Cached
<1>2. CASE checkpoints # {}
  <2>1. PICK c \in checkpoints : IsLatest(c)
    BY <1>2 DEF InOrder, Apart, HasLatest
  <2>2. c.pos \in 1 .. 10
    BY Numbers
  <2>3. QED
    BY <2>1, <2>2 DEF PagesKnown, PagesLatest, Leaves
<1>3. QED
  BY <1>1, <1>2

(* ... in the middle of a stage, *)
LEMMA PagesStill ==
  ASSUME Alone, AtWork, Shape', PagesKnown, NEW a \in Actor, Worked(a), ~Syncing(a), ~Syncing(a)',
         UNCHANGED <<pages, cache>>, proc'[a].step # "write"
  PROVE  PagesKnown'
<1>1. /\ proc[a].step # "write" /\ proc'[a].pay = proc[a].pay /\ proc'[a].pos = proc[a].pos
      /\ Busy(a) /\ UNCHANGED staged
  BY DEF Worked, InStage, count
<1>2. InPages' = InPages /\ Known' = Known
  BY DEF InPages, Known
<1>3. a = "run" => PagesRun'
  BY <1>1, <1>2 DEF PagesKnown, PagesRun, Leaves, Cached, Clean, Undeduped
<1>4. a = "stage" => PagesStage'
  BY <1>1, <1>2 DEF PagesKnown, PagesStage, Clean
<1>5. QED
  BY <1>2, <1>3, <1>4, PagesWorked DEF Cached

(* ... and at the end of one that keeps a clean payload clean. *)
LEMMA PagesWrote ==
  ASSUME Alone, AtWork, Shape, Shape', InOrder, PagesKnown,
         NEW a \in Actor, Worked(a), ~Syncing(a), ~Syncing(a)',
         UNCHANGED <<pages, cache>>, proc[a].step # "write", proc'[a].step = "write", proc[a].pos # 1,
         Cached /\ Clean(proc[a].pay) => Clean(proc'[a].pay),
         a = "run" => Leaves(proc'[a].pay, proc[a].pos)
  PROVE  PagesKnown'
<1>1. Busy(a) /\ proc'[a].pos = proc[a].pos /\ UNCHANGED <<staged, checkpoints>> /\ Others(a)
  BY DEF Worked, InStage, count
<1>2. InPages' = InPages /\ Known' = Known
  BY DEF InPages, Known
<1>3. a = "run" => PagesRun'
  BY <1>1, <1>2 DEF PagesRun, Leaves, Cached, Clean, Undeduped
<1>4. ASSUME a = "stage" PROVE PagesStage'
  <2>1. Clean(proc[a].pay)
    BY <1>1, <1>4 DEF PagesKnown, PagesStage
  <2>2. NoSync
    BY <1>1, ActsAlone DEF NoSync, Syncing
  <2>3. Clean(proc'[a].pay) \/ \E c \in checkpoints : IsLatest(c) /\ c.pos = 10
    BY <2>1, <2>2, CachedOrDone
  <2>4. QED
    BY <1>1, <1>2, <1>4, <2>3 DEF PagesStage, Clean, IsLatest
<1>5. QED
  BY <1>2, <1>3, <1>4, PagesWorked DEF Cached

(* In the sync nothing is asked of the checkpoints. *)
LEMMA PagesInSync ==
  ASSUME Alone, AtWork, NEW a \in Actor, Worked(a), Syncing(a)', NoDuplicatePage',
         proc'[a].step = "pages" => \A j \in proc'[a].todo : j \in proc'[a].pay.paged \/ pages'[j] = 0,
         proc'[a].step = "write" => Clean(proc[a].pay)'
  PROVE  PagesKnown'
<1>1. \A b \in Actor : b # a => proc'[b].step = "idle"
  BY ActsAlone DEF Worked
<1>2. ~NoSync'
  BY DEF NoSync
<1>3. PagesSync'
  BY <1>1 DEF PagesSync, Syncing
<1>4. PagesRun' /\ PagesStage'
  BY <1>1 DEF PagesRun, PagesStage, Busy, Actor
<1>5. QED
  BY <1>2, <1>3, <1>4 DEF PagesKnown, PagesFirst, PagesLatest

(* A command that ends outside of the sync. *)
LEMMA PagesEnded ==
  ASSUME Alone, AtWork, PagesKnown, NEW a \in Actor, Ended(a), ~Syncing(a)
  PROVE  PagesKnown'
<1>1. /\ UNCHANGED <<checkpoints, pages, cache, staged>> /\ Others(a) /\ Busy(a)
      /\ \A b \in Actor : b # a => proc[b].step = "idle" /\ proc'[b].step = "idle"
  BY ActsAlone DEF Ended, docs, store, count
<1>2. \A b \in Actor : proc'[b].step = "idle"
  BY <1>1, IdleTyped DEF Ended
<1>3. NoSync /\ NoSync'
  BY <1>1, <1>2 DEF NoSync, Syncing
<1>4. InPages' = InPages /\ Known' = Known
  BY <1>1 DEF InPages, Known
<1>5. NoDuplicatePage' /\ PagesFirst'
  BY <1>1, <1>3, <1>4 DEF PagesKnown, NoDuplicatePage, PagesFirst
<1>6. PagesLatest'
  BY <1>1, <1>3, <1>4 DEF PagesKnown, PagesLatest, Leaves, Cached, Clean, Undeduped, IsLatest
<1>7. PagesRun' /\ PagesStage' /\ PagesSync'
  BY <1>2 DEF PagesRun, PagesStage, PagesSync, Syncing, Busy, Actor
<1>8. QED
  BY <1>5, <1>6, <1>7 DEF PagesKnown

LEMMA PagesRunCheckpointed ==
  ASSUME Alone, AtWork, Shape, Shape', InOrder, PagesKnown, Checkpointed("run")
  PROVE  PagesKnown'
<1>1. RunAbove /\ "run" \in Actor /\ "stage" \in Actor /\ Busy("run")
  BY DEF InOrder, Apart, Actor, Checkpointed, Busy
<1>2. /\ Row("run") \in checkpoints'
      /\ \A d \in checkpoints' : Below(d, Row("run").group, Row("run").pos)
      /\ Row("run").pos = proc["run"].pos /\ Row("run").pay = proc["run"].pay
  BY <1>1, RunsRowIsLatest
<1>3. /\ UNCHANGED <<pages, cache, staged>> /\ Others("run") /\ proc["run"].step = "write"
      /\ proc["stage"].step = "idle" /\ proc'["stage"].step = "idle"
  BY <1>1, ActsAlone DEF Checkpointed, docs, count
<1>4. InPages' = InPages /\ Known' = Known
  BY <1>3 DEF InPages, Known
<1>5. proc["run"].pos \in 1 .. 10
  BY <1>1, Numbers
<1>6. \/ proc'["run"].step = "idle"
      \/ /\ proc["run"].pos < 10 /\ proc'["run"].step = "body" /\ proc'["run"].pos = proc["run"].pos + 1
         /\ proc'["run"].pay = proc["run"].pay
  BY IdleTyped DEF Checkpointed
<1>7. proc["run"].pos = 10 => Clean(proc["run"].pay)
  BY <1>1, <1>3 DEF PagesKnown, PagesSync, Syncing
<1>8. proc["run"].pos # 10 => Leaves(proc["run"].pay, proc["run"].pos)
  BY <1>1, <1>3 DEF PagesKnown, PagesRun, Syncing
<1>9. NoDuplicatePage' /\ PagesFirst'
  BY <1>2, <1>3 DEF PagesKnown, NoDuplicatePage, PagesFirst
<1>10. PagesLatest'
  <2>1. \A c \in checkpoints' : IsLatest(c)' => c = Row("run")
    <3>1. ASSUME NEW c \in checkpoints', IsLatest(c)' PROVE c = Row("run")
      <4>1. Below(c, Row("run").group, Row("run").pos) /\ Below(Row("run"), c.group, c.pos)
        BY <1>2, <3>1 DEF IsLatest
      <4>2. \A d \in checkpoints' : d.group \in Nat /\ d.pos \in 1 .. 10
        BY Positions DEF Shape, TypeOK
      <4>3. c.group = Row("run").group /\ c.pos = Row("run").pos
        BY <1>2, <4>1, <4>2 DEF Below
      <4>4. QED
        BY <1>2, <4>3 DEF Shape, KeysUnique
    <3>2. QED
      BY <3>1
  <2>2. proc["run"].pos < 10 \/ proc["run"].pos = 10
    BY <1>5
  <2>3. /\ Row("run").pos = 10 => Clean(Row("run").pay)
        /\ Row("run").pos < 10 => Leaves(Row("run").pay, Row("run").pos)
    BY <1>2, <1>5, <1>7, <1>8
  <2>4. QED
    BY <1>3, <1>4, <2>1, <2>3 DEF PagesLatest, Leaves, Cached, Clean, Undeduped
<1>11. PagesRun'
  <2>1. CASE proc'["run"].step = "idle"
    BY <2>1 DEF PagesRun, Busy
  <2>2. CASE /\ proc["run"].pos < 10 /\ proc'["run"].step = "body" /\ proc'["run"].pos = proc["run"].pos + 1
             /\ proc'["run"].pay = proc["run"].pay
    <3>1. proc'["run"].pos # 1 /\ proc'["run"].pos - 1 = proc["run"].pos
      BY <1>5, <2>2
    <3>2. Leaves(proc["run"].pay, proc["run"].pos)
      BY <1>8, <2>2, <1>5
    <3>3. QED
      BY <1>3, <1>4, <2>2, <3>1, <3>2 DEF PagesRun, Leaves, Cached, Clean, Undeduped
  <2>3. QED
    BY <1>6, <2>1, <2>2
<1>12. PagesStage' /\ PagesSync'
  BY <1>3, <1>6 DEF PagesStage, PagesSync, Syncing, Busy, Actor
<1>13. QED
  BY <1>9, <1>10, <1>11, <1>12 DEF PagesKnown

LEMMA PagesStageCheckpointed ==
  ASSUME Alone, staged <= 1, AtWork, Shape, Shape', InOrder, PagesKnown, Checkpointed("stage")
  PROVE  PagesKnown'
<1>1. "run" \in Actor /\ "stage" \in Actor /\ Busy("stage") /\ staged = 1
  <2>1. "run" \in Actor /\ "stage" \in Actor /\ Busy("stage")
    BY DEF Actor, Checkpointed, Busy
  <2>2. staged # 0 /\ staged \in Nat
    BY <2>1, Numbers DEF AtWork
  <2>3. QED
    BY <2>1, <2>2
<1>2. /\ UNCHANGED <<pages, cache, staged>> /\ Others("stage") /\ proc["stage"].step = "write"
      /\ proc["run"].step = "idle" /\ proc'["run"].step = "idle" /\ proc'["stage"].step = "idle"
  BY <1>1, ActsAlone, IdleTyped DEF Checkpointed, docs, count, Shape, StepsFit
<1>3. InPages' = InPages /\ Known' = Known
  BY <1>2 DEF InPages, Known
<1>4. /\ Row("stage") \in checkpoints'
      /\ Row("stage").group = proc["stage"].group /\ Row("stage").pos = proc["stage"].pos
      /\ Row("stage").pay = proc["stage"].pay
      /\ \A d \in checkpoints' : d = Row("stage") \/ d \in checkpoints
      /\ \A d \in checkpoints : d.group # proc["stage"].group \/ d.pos # proc["stage"].pos => d \in checkpoints'
  BY DEF Row, Checkpointed
<1>5. /\ \A d \in checkpoints : d.group \in Nat /\ d.pos \in 1 .. 10
      /\ \A d \in checkpoints' : d.group \in Nat /\ d.pos \in 1 .. 10
      /\ proc["stage"].pos \in 1 .. 10 /\ proc["stage"].group \in Nat
  BY <1>1, Numbers, Positions DEF Shape, TypeOK
<1>6. NoDuplicatePage' /\ PagesFirst' /\ PagesRun' /\ PagesStage' /\ PagesSync'
  BY <1>2, <1>4 DEF PagesKnown, NoDuplicatePage, PagesFirst, PagesRun, PagesStage, PagesSync, Syncing,
     Busy, Actor
<1>7. proc["stage"].pos # 10 => NoSync
  BY <1>2 DEF NoSync, Syncing, Actor
<1>8. checkpoints # {} => \E c0 \in checkpoints : IsLatest(c0) /\ c0.group = proc["stage"].group
  BY <1>1 DEF InOrder, Apart, StageAmong
<1>9. ASSUME NEW c \in checkpoints', IsLatest(c)'
      PROVE  /\ c.pos = 10 => Clean(c.pay)
             /\ c.pos < 10 => Leaves(c.pay, c.pos)
  <2>1. \A d \in checkpoints' : Below(d, c.group, c.pos)
    BY <1>9 DEF IsLatest
  <2>2. CASE c = Row("stage")
    <3>1. ASSUME c.pos = 10 PROVE Clean(c.pay)
      BY <1>1, <1>2, <1>4, <2>2, <3>1 DEF PagesKnown, PagesSync, Syncing
    <3>2. ASSUME c.pos < 10 PROVE Leaves(c.pay, c.pos)
      <4>1. NoSync /\ ~Syncing("stage")
        BY <1>1, <1>4, <1>7, <2>2, <3>2 DEF NoSync
      <4>2. ASSUME NEW d \in checkpoints, IsLatest(d), d.pos = 10 PROVE FALSE
        <5>1. PICK c0 \in checkpoints : IsLatest(c0) /\ c0.group = proc["stage"].group
          BY <1>8
        <5>2. c0 = d
          BY <4>2, <5>1, OneLatest
        <5>3. d \in checkpoints'
          BY <1>4, <1>5, <2>2, <3>2, <4>2
        <5>4. QED
          BY <1>4, <1>5, <2>1, <2>2, <3>2, <4>2, <5>1, <5>2, <5>3 DEF Below
      <4>3. Cached
        BY <4>1, <4>2, CachedOrDone
      <4>4. Clean(c.pay) \/ c.pos = 6
        BY <1>1, <1>2, <1>4, <2>2, <4>1, <4>2 DEF PagesKnown, PagesStage
      <4>5. QED
        BY <1>1, <4>3, <4>4 DEF Leaves, Undeduped
    <3>3. QED
      BY <3>1, <3>2
  <2>3. CASE c # Row("stage")
    <3>1. c \in checkpoints
      BY <1>4, <2>3
    <3>2. PICK c0 \in checkpoints : IsLatest(c0) /\ c0.group = proc["stage"].group
      BY <1>8, <3>1
    <3>3. Below(c, c0.group, c0.pos) /\ Below(Row("stage"), c.group, c.pos)
      BY <1>4, <2>1, <3>1, <3>2 DEF IsLatest
    <3>4. c.group = c0.group /\ c.pos <= c0.pos /\ proc["stage"].pos <= c.pos
      BY <1>4, <1>5, <3>1, <3>2, <3>3 DEF Below
    <3>5. c.pos # proc["stage"].pos
      <4>1. SUFFICES ASSUME c.pos = proc["stage"].pos PROVE FALSE
        OBVIOUS
      <4>2. c.group = Row("stage").group /\ c.pos = Row("stage").pos
        BY <1>4, <3>2, <3>4, <4>1
      <4>3. QED
        BY <1>4, <2>3, <4>2 DEF Shape, KeysUnique
    <3>6. c0.pos # proc["stage"].pos /\ proc["stage"].pos # 10
      BY <1>5, <3>1, <3>2, <3>4, <3>5
    <3>7. c0 \in checkpoints'
      BY <1>4, <3>2, <3>6
    <3>8. c0.pos <= c.pos
      BY <1>5, <2>1, <3>1, <3>4, <3>7 DEF Below
    <3>9. c = c0
      <4>1. c.pos = c0.pos
        BY <1>5, <3>1, <3>2, <3>4, <3>8
      <4>2. QED
        BY <3>1, <3>2, <3>4, <4>1 DEF Shape, KeysUnique
    <3>10. QED
      BY <1>7, <3>1, <3>2, <3>6, <3>9 DEF PagesKnown, PagesLatest
  <2>4. QED
    BY <2>2, <2>3
<1>10. PagesLatest'
  BY <1>2, <1>3, <1>9 DEF PagesLatest, Leaves, Cached, Clean, Undeduped
<1>11. QED
  BY <1>6, <1>10 DEF PagesKnown

LEMMA PagesStarts ==
  ASSUME NamesAscend, Alone, AtWork, Shape, InOrder, PagesKnown, NEW dry \in BOOLEAN, RunStarts(dry)
  PROVE  PagesKnown'
<1>1. /\ UNCHANGED <<pages, cache, checkpoints, staged>> /\ proc["run"].step = "idle"
      /\ proc["stage"].step = "idle" /\ proc'["stage"].step = "idle" /\ Others("run")
  BY DEF RunStarts, docs, store, Busy, Others, Actor
<1>2. InPages' = InPages /\ Known' = Known
  BY <1>1 DEF InPages, Known
<1>3. proc'["run"].step \in {"idle", "body"}
  BY <1>1 DEF RunStarts, Begun
<1>4. NoSync /\ NoSync'
  BY <1>1, <1>3 DEF NoSync, Syncing, Actor
<1>5. NoDuplicatePage' /\ PagesFirst'
  BY <1>1, <1>2, <1>4 DEF PagesKnown, NoDuplicatePage, PagesFirst
<1>6. PagesLatest'
  BY <1>1, <1>2, <1>4 DEF PagesKnown, PagesLatest, Leaves, Cached, Clean, Undeduped, IsLatest
<1>7. PagesStage' /\ PagesSync'
  BY <1>1, <1>3 DEF PagesStage, PagesSync, Syncing, Busy, Actor
<1>8. PagesRun'
  <2>1. CASE Begun("run", 1, groups + 1, Seed, dry)
    BY <2>1, IdleTyped DEF Begun, PagesRun
  <2>2. CASE proc' = proc
    BY <1>1, <2>2 DEF PagesRun, Busy
  <2>3. CASE Latest \in checkpoints /\ Latest.pos < 10 /\ Begun("run", Latest.pos + 1, groups + 1, Latest.pay, dry)
    <3>1. PICK c \in checkpoints : IsLatest(c)
      BY <2>3 DEF InOrder, Apart, HasLatest
    <3>2. Latest = c /\ c.pos \in 1 .. 10
      BY <3>1, LatestIs, Numbers
    <3>3. Leaves(Latest.pay, Latest.pos)
      BY <1>4, <2>3, <3>1, <3>2 DEF PagesKnown, PagesLatest
    <3>4. /\ proc'["run"].pos - 1 = Latest.pos /\ proc'["run"].pos # 1 /\ proc'["run"].step = "body"
          /\ proc'["run"].pay = Latest.pay
      BY <2>3, <3>2 DEF Begun
    <3>5. QED
      BY <1>1, <1>2, <3>3, <3>4 DEF PagesRun, Leaves, Cached, Clean, Undeduped
  <2>4. QED
    BY <2>1, <2>2, <2>3 DEF RunStarts
<1>9. QED
  BY <1>5, <1>6, <1>7, <1>8 DEF PagesKnown

LEMMA PagesStarts1 ==
  ASSUME NamesAscend, Alone, AtWork, Shape, InOrder, PagesKnown, NEW k \in Position, StageStarts(k),
         staged = 0
  PROVE  PagesKnown'
<1>1. /\ UNCHANGED <<pages, cache, checkpoints>> /\ proc["run"].step = "idle"
      /\ proc["stage"].step = "idle" /\ proc'["run"].step = "idle" /\ Others("stage")
      /\ proc'["stage"].step = "body"
  BY DEF StageStarts, docs, store, Busy, Others, Actor, Begun
<1>2. InPages' = InPages /\ Known' = Known
  BY <1>1 DEF InPages, Known
<1>3. NoSync /\ NoSync'
  BY <1>1 DEF NoSync, Syncing, Actor
<1>4. NoDuplicatePage' /\ PagesFirst'
  BY <1>1, <1>2, <1>3 DEF PagesKnown, NoDuplicatePage, PagesFirst
<1>5. \A pay, n : Leaves(pay, n) => Cached /\ Clean(pay)
  BY DEF Leaves, Undeduped
<1>6. PagesLatest'
  BY <1>1, <1>2, <1>3, <1>5 DEF PagesKnown, PagesLatest, Leaves, Cached, Clean, IsLatest
<1>7. PagesRun' /\ PagesSync'
  BY <1>1 DEF PagesRun, PagesSync, Syncing, Busy, Actor
<1>8. PagesStage'
  <2>1. CASE Begun("stage", k, groups + 1, Seed, FALSE)
    BY <2>1, IdleTyped DEF Begun, PagesStage, Clean
  <2>2. CASE Latest \in checkpoints /\ Begun("stage", k, Latest.group, Latest.pay, FALSE)
    <3>1. PICK c \in checkpoints : IsLatest(c)
      BY <2>2 DEF InOrder, Apart, HasLatest
    <3>2. Latest = c /\ c.pos \in 1 .. 10
      BY <3>1, LatestIs, Numbers
    <3>3. c.pos = 10 \/ c.pos < 10
      BY <3>2
    <3>4. Clean(Latest.pay)
      BY <1>3, <1>5, <3>1, <3>2, <3>3 DEF PagesKnown, PagesLatest
    <3>5. QED
      BY <1>1, <1>2, <2>2, <3>4 DEF PagesStage, Begun, Clean
  <2>3. QED
    BY <2>1, <2>2 DEF StageStarts
<1>9. QED
  BY <1>4, <1>6, <1>7, <1>8 DEF PagesKnown

LEMMA PagesBody ==
  ASSUME Alone, Guarded, AtWork, Shape, Shape', InOrder, FollowsNewest, TableIsOwn, PagesKnown,
         NEW a \in Actor, Body(a) \/ SyncPageFails(a), UNCHANGED torn
  PROVE  PagesKnown'
<1>1. TypeOK /\ staged \in Nat /\ staged <= 1 /\ Connector = "notion" /\ pages \in [Job -> Nat]
      /\ proc[a].pos \in 1 .. 10 /\ proc[a].step \in {"idle", "body", "batches", "clear", "pages", "write"}
      /\ proc[a].pay.jobs \subseteq Job
  BY Numbers DEF Shape, Guarded, TypeOK, Process, Payload
<1>2. ASSUME proc[a].pos # 10, Worked(a) PROVE ~Syncing(a) /\ ~Syncing(a)'
  BY <1>2 DEF Syncing, Worked, InStage
<1>3. ASSUME a = "run", Busy(a), proc[a].step # "write", proc[a].step # "pages", proc[a].pos # 1
      PROVE  Leaves(proc[a].pay, proc[a].pos - 1)
  BY <1>1, <1>3 DEF PagesKnown, PagesRun, Syncing
<1>4. ASSUME a = "stage", Busy(a), proc[a].step # "write", proc[a].step # "pages"
      PROVE  Clean(proc[a].pay)
  BY <1>4 DEF PagesKnown, PagesStage, Syncing
<1>5. \A pay, n : Leaves(pay, n) /\ n \notin {6, 7} => Cached /\ Clean(pay)
  BY DEF Leaves, Undeduped
<1>6. \A pay, n : Cached /\ Clean(pay) => Leaves(pay, n)
  BY DEF Leaves
<1>7. a = "run" \/ a = "stage"
  BY DEF Actor
<1>8. CASE StageThrows(a)
  <2>1. Ended(a) /\ ~Syncing(a)
    BY <1>1, <1>8, Throws DEF Syncing
  <2>2. QED
    BY <2>1, PagesEnded
<1>9. CASE Checkpoint(a)
  BY <1>1, <1>7, <1>9, Checkpoints, PagesRunCheckpointed, PagesStageCheckpointed
<1>10. CASE Reconcile(a)
  <2>1. /\ Wrote(a) /\ Bodily(a, 1) /\ proc'[a].pay = proc[a].pay /\ cache' = InPages /\ UNCHANGED pages
    BY <1>1, <1>10, Reconciles
  <2>2. /\ Worked(a) /\ Busy(a) /\ proc[a].pos = 1 /\ proc'[a].pos = 1 /\ proc[a].step = "body"
        /\ proc'[a].step = "write" /\ UNCHANGED <<staged, checkpoints>>
    BY <2>1 DEF Wrote, Worked, InStage, Bodily, count
  <2>3. ~Syncing(a) /\ ~Syncing(a)'
    BY <1>2, <2>2
  <2>4. InPages' = InPages /\ Cached'
    <3>1. InPages' = InPages
      BY <2>1 DEF InPages
    <3>2. InPages \in SUBSET Job
      BY DEF InPages
    <3>3. InPages # NoDoc
      BY <3>2, PipelineAssumption
    <3>4. QED
      BY <2>1, <3>1, <3>3 DEF Cached, Known
  <2>5. a = "run" => PagesRun'
    <3>1. a = "run" => proc[a].pay.jobs = {}
      BY <2>2, <2>3 DEF PagesKnown, PagesRun
    <3>2. QED
      BY <2>1, <2>2, <2>4, <3>1 DEF PagesRun, Leaves, Clean
  <2>6. a = "stage" => PagesStage'
    BY <1>4, <2>1, <2>2, <2>4 DEF PagesStage, Clean
  <2>7. QED
    BY <2>1, <2>2, <2>3, <2>4, <2>5, <2>6, PagesWorked
<1>11. CASE Farm(a) \/ Source(a)
  <2>1. /\ Wrote(a) /\ (Bodily(a, 2) \/ Bodily(a, 3)) /\ UNCHANGED <<pages, cache>>
        /\ \E found \in SUBSET (Job \ Known) : proc'[a].pay.jobs = proc[a].pay.jobs \cup found
        /\ proc'[a].pay.paged = proc[a].pay.paged
    <3>1. CASE Farm(a)
      BY <1>1, <3>1, Farms DEF docs
    <3>2. CASE Source(a)
      BY <1>1, <3>2, Sources
    <3>3. QED
      BY <1>11, <3>1, <3>2
  <2>2. /\ Worked(a) /\ Busy(a) /\ proc[a].step = "body" /\ proc'[a].step = "write"
        /\ proc[a].pos \in {2, 3} /\ proc[a].pos - 1 \notin {6, 7}
    BY <2>1 DEF Wrote, Worked, Bodily
  <2>3. Cached /\ Clean(proc[a].pay) => Clean(proc'[a].pay)
    BY <2>1 DEF Cached, Clean
  <2>4. a = "run" => Leaves(proc'[a].pay, proc[a].pos)
    BY <1>3, <1>5, <1>6, <2>2, <2>3
  <2>5. QED
    BY <1>2, <2>1, <2>2, <2>3, <2>4, PagesWrote
<1>12. CASE Compress(a) \/ RankJobs(a)
  <2>1. /\ Wrote(a) /\ (Bodily(a, 4) \/ Bodily(a, 9)) /\ UNCHANGED <<pages, cache>>
        /\ proc'[a].pay = proc[a].pay
    BY <1>1, <1>12, Compresses, Ranks DEF docs
  <2>2. /\ Worked(a) /\ Busy(a) /\ proc[a].step = "body" /\ proc'[a].step = "write"
        /\ proc[a].pos \in {4, 9} /\ proc[a].pos - 1 \notin {6, 7}
    BY <2>1 DEF Wrote, Worked, Bodily
  <2>3. a = "run" => Leaves(proc'[a].pay, proc[a].pos)
    BY <1>3, <1>5, <1>6, <2>1, <2>2
  <2>4. QED
    BY <1>2, <2>1, <2>2, <2>3, PagesWrote
<1>13. CASE StructureBegin(a) \/ StructureBatch(a) \/ StructureDecide(a)
  <2>1. /\ Worked(a) /\ UNCHANGED <<pages, cache>> /\ proc'[a].step \in {"batches", "clear"}
        /\ proc[a].pos = 5
    BY <1>1, <1>13, Begins, Answers, DecidesAll DEF Bodily, docs, Shape, StepsFit
  <2>2. QED
    BY <1>2, <2>1, PagesStill
<1>14. CASE StructureClear(a)
  <2>1. /\ Worked(a) /\ UNCHANGED <<pages, cache>> /\ proc[a].step = "clear" /\ proc'[a].step = "write"
        /\ proc'[a].pay = proc[a].pay
    BY <1>1, <1>14, Clears
  <2>2. proc[a].pos = 5 /\ proc[a].pos - 1 \notin {6, 7} /\ Busy(a)
    BY <2>1 DEF Shape, StepsFit, Busy
  <2>3. a = "run" => Leaves(proc'[a].pay, proc[a].pos)
    BY <1>3, <1>5, <1>6, <2>1, <2>2
  <2>4. QED
    BY <1>2, <2>1, <2>2, <2>3, PagesWrote
<1>15. CASE Assemble(a)
  <2>1. /\ Wrote(a) /\ Bodily(a, 6) /\ UNCHANGED <<pages, cache>>
        /\ proc'[a].pay.jobs = table \cap decisions
        /\ proc'[a].pay.paged = proc[a].pay.paged \cap table \cap decisions
    BY <1>1, <1>15, AssemblesTable DEF docs
  <2>2. /\ Worked(a) /\ Busy(a) /\ proc[a].step = "body" /\ proc'[a].step = "write"
        /\ proc[a].pos = 6 /\ proc[a].pos - 1 \notin {6, 7} /\ proc'[a].pos = 6
        /\ UNCHANGED <<staged, checkpoints>> /\ Others(a)
    BY <2>1 DEF Wrote, Worked, InStage, Bodily, count
  <2>3. InPages' = InPages /\ Known' = Known
    BY <2>1 DEF InPages, Known
  <2>4. a = "run" => PagesRun'
    <3>1. SUFFICES ASSUME a = "run" PROVE PagesRun'
      OBVIOUS
    <3>2. Cached /\ Clean(proc[a].pay)
      BY <1>3, <1>5, <2>2, <3>1
    <3>3. staged = 0 => table = proc[a].pay.jobs
      BY <2>2, <3>1 DEF FollowsNewest, TableIsOwn
    <3>4. Leaves(proc'[a].pay, 6)
      <4>1. CASE staged = 0
        BY <2>1, <3>2, <3>3, <4>1 DEF Leaves, Clean
      <4>2. CASE staged = 1
        BY <3>2, <4>2 DEF Leaves, Undeduped
      <4>3. QED
        BY <1>1, <4>1, <4>2
    <3>5. QED
      BY <2>2, <2>3, <3>1, <3>4 DEF PagesRun, Leaves, Cached, Clean, Undeduped
  <2>5. a = "stage" => PagesStage'
    BY <2>2 DEF PagesStage
  <2>6. Cached => Cached'
    BY <2>3 DEF Cached
  <2>7. QED
    BY <1>2, <2>1, <2>2, <2>4, <2>5, <2>6, PagesWorked
<1>16. CASE Filter(a)
  <2>1. /\ Wrote(a) /\ Bodily(a, 7) /\ UNCHANGED <<pages, cache>>
        /\ proc'[a].pay.jobs = proc[a].pay.jobs \ Unwanted
        /\ proc'[a].pay.paged = proc[a].pay.paged \ Unwanted
    BY <1>1, <1>16, Filters DEF docs
  <2>2. /\ Worked(a) /\ Busy(a) /\ proc[a].step = "body" /\ proc'[a].step = "write"
        /\ proc[a].pos = 7 /\ proc[a].pos - 1 = 6
    BY <2>1 DEF Wrote, Worked, Bodily
  <2>3. Clean(proc[a].pay) => Clean(proc'[a].pay)
    BY <2>1 DEF Clean
  <2>4. a = "run" => Leaves(proc'[a].pay, proc[a].pos)
    <3>1. a = "run" => Leaves(proc[a].pay, 6)
      BY <1>3, <2>2
    <3>2. QED
      BY <2>2, <2>3, <3>1 DEF Leaves, Undeduped
  <2>5. QED
    BY <1>2, <2>1, <2>2, <2>3, <2>4, PagesWrote
<1>17. CASE Dedup(a)
  <2>1. /\ Wrote(a) /\ Bodily(a, 8) /\ UNCHANGED <<pages, cache>> /\ cache = Known
        /\ proc'[a].pay.jobs = proc[a].pay.jobs \ cache
        /\ proc'[a].pay.paged = proc[a].pay.paged \ cache
    BY <1>1, <1>17, Dedups DEF docs
  <2>2. /\ Worked(a) /\ Busy(a) /\ proc[a].step = "body" /\ proc'[a].step = "write"
        /\ proc[a].pos = 8
    BY <2>1 DEF Wrote, Worked, Bodily
  <2>3. Cached => Clean(proc'[a].pay)
    BY <2>1 DEF Clean, Cached
  <2>4. a = "run" => Leaves(proc'[a].pay, proc[a].pos)
    <3>1. a = "run" => Cached
      BY <1>3, <2>2 DEF Leaves
    <3>2. QED
      BY <2>3, <3>1 DEF Leaves
  <2>5. QED
    BY <1>2, <2>1, <2>2, <2>3, <2>4, PagesWrote
<1>18. ASSUME Bodily(a, 10), Busy(a) PROVE Clean(proc[a].pay)
  <2>1. proc[a].step = "body" /\ proc[a].pos = 10 /\ proc[a].pos - 1 \notin {6, 7}
    BY <1>18 DEF Bodily
  <2>2. QED
    BY <1>3, <1>4, <1>5, <1>7, <1>18, <2>1
<1>19. CASE SyncDry(a)
  <2>1. /\ Worked(a) /\ Bodily(a, 10) /\ UNCHANGED pages /\ proc'[a].pay = proc[a].pay
        /\ proc'[a].step = "write"
    BY <1>1, <1>19, SyncsDry DEF Wrote
  <2>2. Syncing(a)' /\ Busy(a)
    BY <2>1 DEF Syncing, Worked, InStage, Bodily
  <2>3. Clean(proc[a].pay)' /\ NoDuplicatePage'
    BY <1>18, <2>1, <2>2 DEF Clean, InPages, PagesKnown, NoDuplicatePage
  <2>4. QED
    BY <2>1, <2>2, <2>3, PagesInSync
<1>20. CASE SyncSqlite(a)
  BY <1>1, <1>20, SyncsSqlite
<1>21. CASE SyncBegin(a)
  <2>1. /\ Worked(a) /\ Bodily(a, 10) /\ UNCHANGED pages /\ proc'[a].pay = proc[a].pay
        /\ proc'[a].step = "pages" /\ proc'[a].todo = proc[a].pay.jobs
    BY <1>1, <1>21, BeginsPages
  <2>2. Syncing(a)' /\ Busy(a)
    BY <2>1 DEF Syncing, Worked, InStage, Bodily
  <2>3. \A j \in proc'[a].todo : j \in proc'[a].pay.paged \/ pages'[j] = 0
    <3>1. Clean(proc[a].pay)
      BY <1>18, <2>1, <2>2
    <3>2. \A j \in Job : j \in InPages \/ pages[j] = 0
      BY <1>1 DEF InPages
    <3>3. QED
      BY <1>1, <2>1, <3>1, <3>2 DEF Clean
  <2>4. NoDuplicatePage'
    BY <2>1 DEF PagesKnown, NoDuplicatePage
  <2>5. QED
    BY <2>1, <2>2, <2>3, <2>4, PagesInSync
<1>22. CASE SyncPage(a)
  <2>1. /\ Worked(a) /\ proc[a].step = "pages" /\ proc'[a].step = "pages" /\ proc'[a].pay = proc[a].pay
    BY <1>1, <1>22, SyncsOne
  <2>2. PICK j \in proc[a].todo :
            /\ j \in Job /\ proc'[a].todo = proc[a].todo \ {j}
            /\ \A i \in Job : i # j => pages'[i] = pages[i]
            /\ j \in proc[a].pay.paged => pages'[j] = pages[j]
            /\ j \notin proc[a].pay.paged => pages'[j] = pages[j] + 1
    BY <1>1, <1>22, SyncsOne
  <2>3. \A i \in proc[a].todo : i \in proc[a].pay.paged \/ pages[i] = 0
    BY <2>1 DEF PagesKnown, PagesSync
  <2>4. proc[a].todo \subseteq Job
    BY <1>1 DEF TypeOK, Process
  <2>5. Syncing(a)'
    BY <2>1 DEF Syncing, Worked, InStage, Shape, StepsFit
  <2>6. NoDuplicatePage'
    <3>1. \A i \in Job : pages[i] <= 1
      BY DEF PagesKnown, NoDuplicatePage
    <3>2. pages'[j] <= 1
      BY <1>1, <2>2, <2>3, <3>1
    <3>3. QED
      BY <2>2, <3>1, <3>2 DEF NoDuplicatePage
  <2>7. \A i \in proc'[a].todo : i \in proc'[a].pay.paged \/ pages'[i] = 0
    BY <2>1, <2>2, <2>3, <2>4
  <2>8. QED
    BY <2>1, <2>5, <2>6, <2>7, PagesInSync
<1>23. CASE SyncPageFails(a)
  <2>1. /\ Worked(a) /\ UNCHANGED pages /\ proc[a].step = "pages" /\ proc'[a].step = "pages"
        /\ proc'[a].pay = proc[a].pay /\ proc'[a].todo \subseteq proc[a].todo
    BY <1>1, <1>23, PassesOne
  <2>2. Syncing(a)'
    BY <2>1 DEF Syncing, Worked, InStage, Shape, StepsFit
  <2>3. \A i \in proc'[a].todo : i \in proc'[a].pay.paged \/ pages'[i] = 0
    BY <2>1 DEF PagesKnown, PagesSync
  <2>4. NoDuplicatePage'
    BY <2>1 DEF PagesKnown, NoDuplicatePage
  <2>5. QED
    BY <2>1, <2>2, <2>3, <2>4, PagesInSync
<1>24. CASE SyncEnd(a)
  <2>1. /\ Worked(a) /\ UNCHANGED pages /\ proc[a].step = "pages" /\ proc'[a].step = "write"
        /\ proc'[a].pay.jobs \subseteq proc[a].acc /\ proc'[a].pay.paged = proc[a].acc
    BY <1>1, <1>24, EndsPages DEF Wrote
  <2>2. Syncing(a)'
    BY <2>1 DEF Syncing, Worked, InStage, Shape, StepsFit
  <2>3. Clean(proc[a].pay)'
    BY <2>1 DEF Clean
  <2>4. NoDuplicatePage'
    BY <2>1 DEF PagesKnown, NoDuplicatePage
  <2>5. QED
    BY <2>1, <2>2, <2>3, <2>4, PagesInSync
<1>25. QED
  BY <1>8, <1>9, <1>10, <1>11, <1>12, <1>13, <1>14, <1>15, <1>16, <1>17, <1>19, <1>20, <1>21, <1>22,
     <1>23, <1>24 DEF Body

(* Ending in the middle of a sync to Notion tears it. *)
LEMMA TearsInSync ==
  ASSUME TypeOK, NEW a \in Actor, Tears(a), ~torn', Connector = "notion"
  PROVE  ~torn /\ ~Syncing(a)
<1>1. torn \in BOOLEAN /\ proc[a].pos \in 1 .. 10
  BY AtPosition DEF TypeOK
<1>2. ~torn /\ ~(Stages[proc[a].pos] = "sync" /\ proc[a].step \in {"pages", "write"})
  BY <1>1 DEF Tears
<1>3. QED
  BY <1>2, Positions DEF Syncing

LEMMA PagesStep ==
  ASSUME NamesAscend, Shape, Shape', AtWork, InOrder, FollowsNewest, TableIsOwn, PagesFollow, [Next]_vars
  PROVE  PagesFollow'
<1>1. SUFFICES ASSUME Alone, Guarded' PROVE PagesKnown'
  BY DEF PagesFollow
<1>2. TypeOK /\ staged \in Nat
  BY Numbers DEF Shape
<1>3. Guarded => PagesKnown
  BY <1>1 DEF PagesFollow
<1>4. CASE UNCHANGED vars
  <2>1. PagesKnown
    BY <1>1, <1>3, <1>4 DEF Guarded, vars, count, obs
  <2>2. UNCHANGED <<pages, cache, checkpoints, proc, staged>>
    BY <1>4 DEF vars, docs, store, count
  <2>3. PagesFirst' /\ PagesLatest' /\ NoDuplicatePage'
    BY <2>1, <2>2 DEF PagesKnown, PagesFirst, PagesLatest, Leaves, Cached, Clean, Known, InPages, Undeduped,
       NoSync, Syncing, IsLatest, NoDuplicatePage
  <2>4. PagesRun' /\ PagesStage' /\ PagesSync'
    BY <2>1, <2>2 DEF PagesKnown, PagesRun, PagesStage, PagesSync, Leaves, Cached, Clean, Known, InPages,
       Undeduped, Syncing, IsLatest, Busy
  <2>5. QED
    BY <2>3, <2>4 DEF PagesKnown
<1>5. CASE \E resume, dry \in BOOLEAN : StartRun(resume, dry)
  <2>1. PICK dry \in BOOLEAN : RunStarts(dry)
    BY <1>2, <1>5, Starts
  <2>2. Guarded
    BY <1>1, <2>1 DEF Guarded, RunStarts
  <2>3. QED
    BY <1>1, <1>3, <2>1, <2>2, PagesStarts
<1>6. CASE \E k \in Position : StartStage(k)
  <2>1. PICK k \in Position : StageStarts(k)
    BY <1>2, <1>6, StartsStage
  <2>2. Guarded /\ staged = 0
    BY <1>1, <1>2, <2>1 DEF Guarded, StageStarts, obs
  <2>3. QED
    BY <1>1, <1>3, <2>1, <2>2, PagesStarts1
<1>7. ASSUME NEW a \in Actor, Body(a) \/ SyncPageFails(a)
      PROVE  PagesKnown'
  <2>1. UNCHANGED <<torn, staged>>
    BY <1>7 DEF Body, Reconcile, Farm, Source, Compress, StructureBegin, StructureBatch, StructureDecide,
       StructureClear, Assemble, Filter, Dedup, RankJobs, SyncDry, SyncSqlite, SyncBegin, SyncPage, SyncEnd,
       StageThrows, Checkpoint, SyncPageFails, count, obs
  <2>2. Guarded
    BY <1>1, <2>1 DEF Guarded
  <2>3. QED
    BY <1>1, <1>3, <1>7, <2>1, <2>2, PagesBody
<1>8. ASSUME NEW a \in Actor, AttemptFails(a) \/ Dies(a)
      PROVE  PagesKnown'
  <2>1. Tears(a) /\ (Ended(a) \/ (Retried(a) /\ proc[a].pos = 5))
    BY <1>2, <1>8, Fails, Deaths
  <2>2. ~torn /\ ~Syncing(a) /\ UNCHANGED staged
    BY <1>1, <1>2, <2>1, TearsInSync DEF Guarded, Ended, Retried, Worked, count
  <2>3. PagesKnown
    BY <1>1, <1>3, <2>2 DEF Guarded
  <2>4. CASE Ended(a)
    BY <1>1, <2>2, <2>3, <2>4, PagesEnded
  <2>5. CASE Retried(a) /\ proc[a].pos = 5
    <3>1. Worked(a) /\ UNCHANGED <<pages, cache>> /\ proc'[a].step = "body" /\ ~Syncing(a)'
      BY <2>5 DEF Retried, Worked, InStage, Syncing, docs
    <3>2. QED
      BY <1>1, <2>2, <2>3, <3>1, PagesStill
  <2>6. QED
    BY <2>1, <2>4, <2>5
<1>9. QED
  BY <1>4, <1>5, <1>6, <1>7, <1>8 DEF Next

(* SqliteConnector upserts by id. *)
SqlitePages == Connector = "sqlite" => NoDuplicatePage

LEMMA SqliteInit == Init => SqlitePages
BY DEF Init, SqlitePages, NoDuplicatePage

LEMMA SqliteStep ==
  ASSUME Shape, SqlitePages, [Next]_vars
  PROVE  SqlitePages'
<1>1. SUFFICES ASSUME Connector = "sqlite" PROVE NoDuplicatePage'
  BY DEF SqlitePages
<1>2. NoDuplicatePage /\ TypeOK
  BY <1>1 DEF SqlitePages, Shape
<1>3. UNCHANGED pages => NoDuplicatePage'
  BY <1>2 DEF NoDuplicatePage
<1>4. ASSUME NEW a \in Actor, SyncSqlite(a) PROVE NoDuplicatePage'
  <2>1. pages' = [j \in Job |-> IF j \in proc[a].pay.jobs THEN 1 ELSE pages[j]]
    BY <1>4 DEF SyncSqlite
  <2>2. QED
    BY <1>2, <2>1 DEF NoDuplicatePage
<1>5. ASSUME NEW a \in Actor, SyncPage(a) PROVE FALSE
  BY <1>1, <1>5 DEF SyncPage, Shape, StepsFit
<1>6. CASE /\ ~ \E a \in Actor : SyncSqlite(a) \/ SyncPage(a)
           /\ [Next]_vars
  <2>1. UNCHANGED pages
    BY <1>6 DEF Next, StartRun, StartStage, Dies, AttemptFails,
       Body, Reconcile, Farm, Source, Compress, StructureBegin, StructureBatch, StructureDecide,
       StructureClear, Assemble, Filter, Dedup, RankJobs, SyncDry, SyncBegin, SyncEnd,
       StageThrows, Checkpoint, SyncPageFails, store, vars
  <2>2. QED
    BY <1>3, <2>1
<1>7. QED
  BY <1>4, <1>5, <1>6

(* All that the pages need, and what is in sight besides. *)
PagesInv == ResumeInv /\ AnswersKept /\ PagesFollow /\ SqlitePages
SightInv == PagesInv /\ PagedIsPaged /\ InSight

LEMMA PagesInvInductive ==
  /\ Init => PagesInv
  /\ NamesAscend /\ PagesInv /\ [Next]_vars => PagesInv'
<1>1. Init => PagesInv
  BY ResumeInvInductive, AnswersInit, PagesInit, SqliteInit DEF PagesInv
<1>2. ASSUME NamesAscend, PagesInv, [Next]_vars PROVE PagesInv'
  <2>1. /\ Shape /\ AtWork /\ InOrder /\ FollowsNewest /\ TableIsOwn
        /\ ResumeInv /\ AnswersKept /\ PagesFollow /\ SqlitePages
    BY <1>2 DEF PagesInv, ResumeInv
  <2>2. ResumeInv'
    BY <1>2, <2>1, ResumeInvInductive
  <2>3. Shape'
    BY <2>2 DEF ResumeInv
  <2>4. QED
    BY <1>2, <2>1, <2>2, <2>3, AnswersStep, PagesStep, SqliteStep DEF PagesInv
<1>3. QED
  BY <1>1, <1>2

LEMMA PagesInvSafe == Alone /\ PagesInv => TypeOK /\ NoAnswerLost /\ DuplicateNeedsTornSync
<1> SUFFICES ASSUME Alone, PagesInv PROVE TypeOK /\ NoAnswerLost /\ DuplicateNeedsTornSync
  OBVIOUS
<1>1. TypeOK /\ NoAnswerLost
  BY KeptIsSafe DEF PagesInv, ResumeInv, Shape
<1>2. ~torn /\ staged <= 1 => NoDuplicatePage
  BY PipelineAssumption DEF PagesInv, PagesFollow, Guarded, PagesKnown, SqlitePages
<1>3. QED
  BY <1>1, <1>2 DEF DuplicateNeedsTornSync

(* Whatever fails or dies: while the user keeps runs and stage commands     *)
(* apart, and the groups' names ascend, structure ends with every answer    *)
(* the model gave for its table, and no job has a second page unless a      *)
(* sync to Notion was left in the middle or two stage commands were given.  *)
THEOREM PagesHold ==
  Alone /\ NamesAscend => (Spec => [](TypeOK /\ NoAnswerLost /\ DuplicateNeedsTornSync))
<1> SUFFICES ASSUME Alone, NamesAscend
             PROVE  Spec => [](TypeOK /\ NoAnswerLost /\ DuplicateNeedsTornSync)
  OBVIOUS
<1>1. Init => PagesInv
  BY PagesInvInductive
<1>2. PagesInv /\ [Next]_vars => PagesInv'
  BY PagesInvInductive
<1>3. PagesInv => TypeOK /\ NoAnswerLost /\ DuplicateNeedsTornSync
  BY PagesInvSafe
<1>4. QED
  BY <1>1, <1>2, <1>3, PTL DEF Spec

(* ... and as long as no process dies, every job the API lanes emitted in   *)
(* the runs that led to a passed one has a page, or a drop on record.       *)
THEOREM StagesHold ==
  Alone /\ NamesAscend /\ "die" \notin Faults => (Spec => []StagesSound)
<1> SUFFICES ASSUME Alone, NamesAscend, "die" \notin Faults PROVE Spec => []StagesSound
  OBVIOUS
<1>1. Init => SightInv
  BY PagesInvInductive, PagedInit, InSightInit DEF SightInv
<1>2. SightInv /\ [Next]_vars => SightInv'
  <2> SUFFICES ASSUME SightInv, [Next]_vars PROVE SightInv'
    OBVIOUS
  <2>1. /\ Shape /\ AtWork /\ InOrder /\ FollowsNewest /\ TableIsOwn
        /\ PagesInv /\ PagedIsPaged /\ InSight
    BY DEF SightInv, PagesInv, ResumeInv
  <2>2. PagesInv'
    BY <2>1, PagesInvInductive
  <2>3. QED
    BY <2>1, <2>2, PagedStep, InSightStep DEF SightInv
<1>3. SightInv => StagesSound
  <2>1. SightInv => Accounted
    BY DEF SightInv, InSight, Accounted, OnRecord
  <2>2. QED
    BY <2>1, PagesInvSafe DEF SightInv, StagesSound
<1>4. QED
  BY <1>1, <1>2, <1>3, PTL DEF Spec
=============================================================================
