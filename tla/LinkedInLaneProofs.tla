------------------------- MODULE LinkedInLaneProofs -------------------------
(***************************************************************************)
(* What the LinkedIn lane guarantees for any saved searches, any jobs, any *)
(* limits, any number of fires and dates, and any combination of faults.   *)
(***************************************************************************)
EXTENDS LinkedInLane, FiniteSetTheorems, TLAPS

(* While the fire visits pages or opens jobs the session is not throttled,  *)
(* and the breaker is open only after the fire's own trip.                  *)
Visiting == {"launch", "probe", "keep", "page", "cards", "sound"}

Respected ==
  pc # "idle" => /\ tripped \/ breaker # "open"
                 /\ pc \in Visiting => ~tripped

TypeInv == TypeOK /\ Respected

(* The steps of a fire that end it. *)
Ending == LaunchFails \/ ProbeEndsFire \/ WriteFails \/ Finish \/ Dies

(* Steps that leave the documents and the throttle alone. *)
Walking ==
  \/ Launch \/ ProbeFindsNothing \/ \E c \in Card : ProbeOpens(c)
  \/ NextUrl \/ PageFails \/ PageUnreadable \/ \E S \in SUBSET Card : PageShows(S)
  \/ PassOver \/ PageEnds \/ Canary \/ Sound

Opening == \E c \in Card : CaptureCard(c) \/ MissCard(c) \/ WithheldCard(c)

Between == FireSkipped \/ ResetFails \/ WorldStep

(* Every step is of one of these kinds. *)
LEMMA StepKinds ==
  ASSUME [Next]_vars
  PROVE  \/ Between \/ FireStarts \/ ProbeKeeps \/ UrlEnds
         \/ Walking \/ Opening \/ Ending \/ UNCHANGED vars
BY DEF Next, FireStep, CardStep, Between, Walking, Opening, Ending

----------------------------------------------------------------------------
(* The world: only its own steps, the start of a fire and the breaker's     *)
(* writes change it.                                                        *)
LEMMA WorldStays ==
  ASSUME WorldOK, [Next]_vars
  PROVE  WorldOK'
<1> USE LinkedInLaneAssumption DEF WorldOK
<1>0. UNCHANGED faults
  BY DEF Next, vars
<1>1. CASE Between
  <2>1. CASE FireSkipped \/ ResetFails
    <3>1. UNCHANGED <<day, urls, cached, breaker>> /\ fires < MaxFires /\ fires' = fires + 1
      BY <2>1 DEF FireSkipped, ResetFails, diskVars
    <3>2. fires' \in 0 .. MaxFires
      BY <3>1
    <3>3. QED
      BY <1>0, <3>1, <3>2
  <2>2. CASE NewDay
    <3>1. UNCHANGED <<fires, urls, cached, breaker>> /\ day < MaxDays /\ day' = day + 1
      BY <2>2 DEF NewDay, diskVars
    <3>2. day' \in 1 .. MaxDays
      BY <3>1
    <3>3. QED
      BY <1>0, <3>1, <3>2
  <2>3. CASE Cools \/ BreakerUnreadable
    BY <1>0, <2>3 DEF Cools, BreakerUnreadable, worldVars
  <2>4. CASE SaveUrls
    BY <1>0, <2>4 DEF SaveUrls, diskVars
  <2>5. ASSUME NEW c \in Card, Publishes(c) PROVE WorldOK'
    BY <1>0, <2>5 DEF Publishes, diskVars
  <2>6. QED
    BY <1>1, <2>1, <2>2, <2>3, <2>4, <2>5 DEF Between, WorldStep
<1>2. CASE FireStarts
  BY <1>0, <1>2 DEF FireStarts
<1>3. CASE ProbeKeeps \/ UrlEnds
  BY <1>0, <1>3 DEF ProbeKeeps, UrlEnds, worldVars
<1>4. CASE Walking
  BY <1>0, <1>4 DEF Walking, Launch, ProbeFindsNothing, ProbeOpens, NextUrl, PageFails,
     PageUnreadable, PageShows, PassOver, PageEnds, Canary, Sound, Sets, worldVars, diskVars
<1>5. CASE Opening
  BY <1>0, <1>5 DEF Opening, CaptureCard, MissCard, WithheldCard, Opens, Sets, worldVars
<1>6. CASE Ending
  BY <1>0, <1>6 DEF Ending, LaunchFails, ProbeEndsFire, WriteFails, Finish, Dies, Ends,
     Sets, worldVars, diskVars
<1>7. CASE UNCHANGED vars
  BY <1>7 DEF vars, worldVars, diskVars
<1>8. QED
  BY <1>1, <1>2, <1>3, <1>4, <1>5, <1>6, <1>7, StepKinds

----------------------------------------------------------------------------
(* The documents and their copies: a fire appends jobs to memory and disk   *)
(* together, or to memory alone.                                            *)
LEMMA DocumentsStay ==
  ASSUME TypeOK, [Next]_vars
  PROVE  DocumentsOK'
<1> USE LinkedInLaneAssumption DEF TypeOK, DocumentsOK
<1>1. CASE Between
  <2>1. UNCHANGED <<resume, captures, done, pc>> /\ (jobs' = {} \/ UNCHANGED jobs)
    BY <1>1 DEF Between, FireSkipped, ResetFails, WorldStep, NewDay, Cools,
       BreakerUnreadable, SaveUrls, Publishes, diskVars, fireVars
  <2>2. pc' # "idle" => UNCHANGED jobs
    BY <1>1 DEF Between, FireSkipped, ResetFails, WorldStep, NewDay, Cools,
       BreakerUnreadable, SaveUrls, Publishes, diskVars, fireVars
  <2>3. QED
    BY <2>1, <2>2
<1>2. CASE FireStarts
  <2>1. DOMAIN <<>> = {}
    OBVIOUS
  <2>2. resume' = resume
    BY <1>2 DEF FireStarts
  <2>3. DOMAIN done' \subseteq Url
    BY <1>2, <2>1 DEF FireStarts, Rescan, DoneToday
  <2>4. \/ jobs' = {} /\ captures' = {}
        \/ jobs' = captures /\ captures' = captures
    BY <1>2 DEF FireStarts, Rescan
  <2>5. QED
    BY <2>2, <2>3, <2>4
<1>3. CASE ProbeKeeps
  <2>1. PICK c \in queue : IF c \in CardsOf(jobs) THEN UNCHANGED <<jobs, captures, owed>>
                           ELSE Append(c) /\ owed' = owed \cup {c}
    BY <1>3 DEF ProbeKeeps
  <2>2. UNCHANGED <<resume, done>> /\ pc # "idle"
    BY <1>3 DEF ProbeKeeps
  <2>3. [card |-> c, day |-> day] \in [card : Card, day : 1 .. MaxDays]
    BY DEF WorldOK, SearchOK
  <2>4. QED
    BY <2>1, <2>2, <2>3 DEF Append
<1>4. CASE UrlEnds
  <2>1. at \in Url /\ date \in 0 .. MaxDays
    BY <1>4 DEF UrlEnds, SearchOK, WorldOK, FireOK
  <2>2. DOMAIN done' \subseteq Url
    BY <1>4, <2>1 DEF UrlEnds, Marked
  <2>3. resume'.date = date /\ resume'.done = done' /\ pc # "idle"
        /\ UNCHANGED <<captures, jobs>>
    BY <1>4 DEF UrlEnds
  <2>4. QED
    BY <2>1, <2>2, <2>3
<1>5. CASE Walking
  <2>1. UNCHANGED <<resume, captures, done, jobs>> /\ pc # "idle"
    BY <1>5 DEF Walking, Launch, ProbeFindsNothing, ProbeOpens, NextUrl, PageFails,
       PageUnreadable, PageShows, PassOver, PageEnds, Canary, Sound, diskVars, fireVars
  <2>2. QED
    BY <2>1
<1>6. CASE Opening
  <2>1. PICK c \in Card : CaptureCard(c) \/ MissCard(c) \/ WithheldCard(c)
    BY <1>6 DEF Opening
  <2>2. UNCHANGED <<resume, done>> /\ pc # "idle"
    BY <2>1 DEF CaptureCard, MissCard, WithheldCard, Opens
  <2>3. [card |-> c, day |-> day] \in [card : Card, day : 1 .. MaxDays]
    BY DEF WorldOK
  <2>4. /\ jobs' = jobs \/ jobs' = jobs \cup {[card |-> c, day |-> day]}
        /\ captures' = captures \/ captures' = jobs'
    BY <2>1 DEF CaptureCard, MissCard, WithheldCard, NotFlushed, Append
  <2>5. QED
    BY <2>2, <2>3, <2>4
<1>7. CASE Ending
  <2>1. UNCHANGED <<resume, captures>> /\ pc' = "idle" /\ (jobs' = {} \/ UNCHANGED jobs)
        /\ done' = <<>>
    BY <1>7 DEF Ending, LaunchFails, ProbeEndsFire, WriteFails, Finish, Dies, Ends, diskVars
  <2>2. QED
    BY <2>1
<1>8. CASE UNCHANGED vars
  BY <1>8 DEF vars, diskVars, fireVars
<1>9. QED
  BY <1>1, <1>2, <1>3, <1>4, <1>5, <1>6, <1>7, <1>8, StepKinds

----------------------------------------------------------------------------
(* Opening a card stays below the cap and only adds to what was opened.     *)
LEMMA OpensBelowCap ==
  ASSUME SearchOK, NEW c \in Card, Opens(c)
  PROVE  IsFiniteSet(tried') /\ Cardinality(tried') <= Cap /\ c \notin processed
<1>1. IsFiniteSet(tried) /\ Cardinality(tried) \in Nat
  BY FS_CardinalityType DEF SearchOK
<1>2. tried' = tried \cup {c} /\ c \in queue /\ Passed = {}
  BY DEF Opens
<1>3. ~(Cardinality(tried) >= Cap) /\ c \notin processed
  BY <1>2 DEF Passed
<1>4. /\ IsFiniteSet(tried')
      /\ Cardinality(tried') = Cardinality(tried) \/ Cardinality(tried') = Cardinality(tried) + 1
  BY <1>1, <1>2, FS_AddElement
<1>5. QED
  BY <1>1, <1>3, <1>4, LinkedInLaneAssumption

(* The searches, their pages and their cards.                               *)
LEMMA SearchStays ==
  ASSUME TypeOK, [Next]_vars
  PROVE  SearchOK'
<1> USE DEF SearchOK
<1>1. SearchOK /\ urls \subseteq Url /\ MaxPages \in Nat \ {0} /\ Cap \in Nat
  BY LinkedInLaneAssumption DEF TypeOK, WorldOK
<1>2. IsFiniteSet({}) /\ Cardinality({}) = 0
  BY FS_EmptySet
<1>3. CASE Between
  <2>1. UNCHANGED <<searchVars, processed, pc, done>> /\ (pc = "idle" \/ UNCHANGED urls)
    BY <1>3 DEF Between, FireSkipped, ResetFails, WorldStep, NewDay, Cools, fireVars,
       BreakerUnreadable, SaveUrls, Publishes, worldVars
  <2>2. QED
    BY <1>1, <2>1 DEF searchVars
<1>4. CASE FireStarts \/ Ending
  <2>1. /\ at' = 0 /\ pageIndex' = 0 /\ queue' = {} /\ tried' = {} /\ got' = {}
        /\ pc' \in {"idle", "launch"}
    BY <1>4 DEF FireStarts, Ending, LaunchFails, ProbeEndsFire, WriteFails, Finish, Dies, Ends
  <2>2. QED
    BY <1>1, <1>2, <2>1
<1>5. CASE ProbeKeeps
  <2>1. UNCHANGED <<at, pageIndex, tried, got>> /\ queue' = {} /\ pc' = "urls"
        /\ processed \subseteq processed'
    BY <1>5 DEF ProbeKeeps
  <2>2. QED
    BY <1>1, <2>1
<1>6. CASE UrlEnds
  BY <1>1, <1>6 DEF UrlEnds, searchVars
<1>7. CASE Walking
  <2>1. CASE Launch \/ ProbeFindsNothing \/ PageFails \/ PageUnreadable \/ PageEnds
             \/ Canary \/ Sound
    <3>1. UNCHANGED <<at, queue, tried, got, processed, done, urls>>
      BY <2>1 DEF Launch, ProbeFindsNothing, PageFails, PageUnreadable, PageEnds,
         Canary, Sound, searchVars, fireVars, worldVars
    <3>2. pageIndex' = pageIndex \/ (pageIndex < MaxPages /\ pageIndex' = pageIndex + 1)
      BY <2>1 DEF Launch, ProbeFindsNothing, PageFails, PageUnreadable, PageEnds,
         Canary, Sound, searchVars
    <3>3. pageIndex' \in 0 .. MaxPages
      BY <1>1, <3>2
    <3>4. pc' \in {"page", "cards", "urlend"} => pc \in {"page", "cards", "urlend"}
      BY <2>1 DEF Launch, ProbeFindsNothing, PageFails, PageUnreadable, PageEnds,
         Canary, Sound
    <3>5. QED
      BY <1>1, <3>1, <3>3, <3>4
  <2>2. ASSUME NEW c \in Card, ProbeOpens(c) PROVE SearchOK'
    BY <1>1, <2>2 DEF ProbeOpens, fireVars
  <2>3. ASSUME NEW S \in SUBSET Card, PageShows(S) PROVE SearchOK'
    BY <1>1, <2>3 DEF PageShows, fireVars, worldVars
  <2>4. CASE PassOver
    BY <1>1, <2>4 DEF PassOver, fireVars, worldVars
  <2>5. CASE NextUrl
    <3>1. /\ pageIndex' = 1 /\ queue' = {} /\ tried' = {} /\ got' = {}
          /\ UNCHANGED <<urls, done, processed>>
      BY <2>5 DEF NextUrl, worldVars, fireVars
    <3>2. \/ pc' = "canary" /\ at' = at
          \/ pc' = "page" /\ at' \in urls \ (NoInventory \cup DOMAIN done)
      BY <2>5 DEF NextUrl, Left, ProbeTargets
    <3>3. QED
      BY <1>1, <1>2, <3>1, <3>2
  <2>6. QED
    BY <1>7, <2>1, <2>2, <2>3, <2>4, <2>5 DEF Walking
<1>8. CASE Opening
  <2>1. PICK c \in Card : CaptureCard(c) \/ MissCard(c) \/ WithheldCard(c)
    BY <1>8 DEF Opening
  <2>2. Opens(c) /\ (got' = got \/ got' = got \cup {c})
    BY <2>1 DEF CaptureCard, MissCard, WithheldCard
  <2>3. /\ UNCHANGED <<at, pageIndex, urls, done>> /\ pc = "cards"
        /\ queue' = queue \ {c} /\ tried' = tried \cup {c} /\ processed' = processed \cup {c}
    BY <2>2 DEF Opens, worldVars
  <2>4. IsFiniteSet(tried') /\ Cardinality(tried') <= Cap
    BY <1>1, <2>2, OpensBelowCap
  <2>5. QED
    BY <1>1, <2>2, <2>3, <2>4
<1>9. CASE UNCHANGED vars
  BY <1>1, <1>9 DEF vars, searchVars, fireVars, worldVars
<1>10. QED
  BY <1>3, <1>4, <1>5, <1>6, <1>7, <1>8, <1>9, StepKinds

----------------------------------------------------------------------------
(* The fire and its throttle.                                               *)
LEMMA FireStays ==
  ASSUME TypeInv, [Next]_vars
  PROVE  FireOK' /\ Respected'
<1> USE DEF FireOK, Respected, Visiting, Places
<1>1. FireOK /\ Respected /\ day \in 0 .. MaxDays /\ Trip \in Nat \ {0}
  BY LinkedInLaneAssumption DEF TypeInv, TypeOK, WorldOK
<1>2. CASE Between
  <2>1. UNCHANGED <<pc, date, streak, tripped, known, opened, owed>>
        /\ (pc = "idle" \/ breaker' # "open" \/ UNCHANGED breaker)
    BY <1>2 DEF Between, FireSkipped, ResetFails, WorldStep, NewDay, Cools, fireVars, obsVars,
       BreakerUnreadable, SaveUrls, Publishes, diskVars
  <2>2. QED
    BY <1>1, <2>1
<1>3. CASE FireStarts
  <2>1. known' \subseteq Card
    BY <1>3 DEF FireStarts, TypeInv, TypeOK, WorldOK
  <2>2. /\ pc' = "launch" /\ date' = day /\ streak' = 0 /\ tripped' = FALSE
        /\ opened' = {} /\ owed' = owed /\ breaker' = breaker /\ breaker # "open"
    BY <1>3 DEF FireStarts
  <2>3. (streak' = Trip) = FALSE
    BY <1>1, <2>2
  <2>4. streak' \in 0 .. Trip /\ tripped' = (streak' = Trip)
    <3>1. tripped' = FALSE
      BY <2>2
    <3>2. tripped' = (streak' = Trip)
      BY <2>3, <3>1
    <3>3. QED
      BY <1>1, <2>2, <3>2
  <2>5. date' \in 0 .. MaxDays /\ owed' \subseteq Card /\ pc' \in Places
    BY <1>1, <2>2
  <2>6. FireOK'
    BY <2>1, <2>2, <2>4, <2>5
  <2>7. Respected'
    BY <2>2
  <2>8. QED
    BY <2>6, <2>7
<1>4. CASE ProbeKeeps
  <2>1. queue \subseteq Card
    BY DEF TypeInv, TypeOK, SearchOK
  <2>2. owed' \subseteq owed \cup queue
    BY <1>4 DEF ProbeKeeps
  <2>3. QED
    BY <1>1, <1>4, <2>1, <2>2 DEF ProbeKeeps
<1>5. CASE UrlEnds
  BY <1>1, <1>5 DEF UrlEnds
<1>6. CASE Walking
  <2>1. CASE Launch
    BY <1>1, <2>1 DEF Launch, diskVars, fireVars, obsVars
  <2>2. CASE ProbeFindsNothing
    BY <1>1, <2>2 DEF ProbeFindsNothing, Sets, fireVars, obsVars
  <2>3. ASSUME NEW c \in Card, ProbeOpens(c) PROVE FireOK' /\ Respected'
    BY <1>1, <2>3 DEF ProbeOpens, Sets, fireVars
  <2>4. CASE NextUrl
    BY <1>1, <2>4 DEF NextUrl, diskVars, fireVars, obsVars
  <2>5. CASE PageFails \/ PageUnreadable
    BY <1>1, <2>5 DEF PageFails, PageUnreadable, diskVars, fireVars, obsVars
  <2>6. ASSUME NEW S \in SUBSET Card, PageShows(S) PROVE FireOK' /\ Respected'
    BY <1>1, <2>6 DEF PageShows, diskVars, fireVars, obsVars
  <2>7. CASE PassOver \/ PageEnds
    BY <1>1, <2>7 DEF PassOver, PageEnds, diskVars, fireVars, obsVars
  <2>8. CASE Canary \/ Sound
    BY <1>1, <2>8 DEF Canary, Sound, diskVars, fireVars, obsVars
  <2>9. QED
    BY <1>6, <2>1, <2>2, <2>3, <2>4, <2>5, <2>6, <2>7, <2>8 DEF Walking
<1>7. CASE Opening
  <2>1. PICK c \in Card : CaptureCard(c) \/ MissCard(c) \/ WithheldCard(c)
    BY <1>7 DEF Opening
  <2>2. /\ UNCHANGED <<date, known>> /\ opened' = opened \cup {c} /\ pc = "cards"
        /\ owed' \subseteq owed \cup {c}
    BY <2>1 DEF CaptureCard, MissCard, WithheldCard, Opens
  <2>3. ~tripped /\ streak # Trip /\ breaker # "open"
    BY <1>1, <2>2
  <2>4. CASE CaptureCard(c) \/ MissCard(c)
    BY <1>1, <2>2, <2>3, <2>4 DEF CaptureCard, MissCard
  <2>5. CASE WithheldCard(c)
    <3>1. streak' = streak + 1
          /\ IF streak + 1 = Trip THEN tripped' = TRUE /\ pc' = "urlend"
             ELSE UNCHANGED <<tripped, breaker, pc>>
      BY <2>5 DEF WithheldCard, Trips
    <3>2. streak' \in 0 .. Trip
      BY <1>1, <2>3, <3>1
    <3>3. CASE streak + 1 = Trip
      <4>1. (streak' = Trip) = TRUE /\ tripped' = TRUE /\ pc' = "urlend"
        BY <3>1, <3>3
      <4>2. tripped' = (streak' = Trip)
        BY <4>1
      <4>3. QED
        BY <1>1, <2>2, <3>2, <4>1, <4>2
    <3>4. CASE streak + 1 # Trip
      <4>1. (streak' = Trip) = FALSE /\ UNCHANGED <<tripped, breaker, pc>>
        BY <3>1, <3>4
      <4>2. tripped' = FALSE
        BY <1>1, <2>3, <4>1
      <4>3. tripped' = (streak' = Trip)
        BY <4>1, <4>2
      <4>4. QED
        BY <1>1, <2>2, <2>3, <3>2, <4>1, <4>2, <4>3
    <3>5. QED
      BY <3>3, <3>4
  <2>6. QED
    BY <2>1, <2>4, <2>5
<1>8. CASE Ending
  <2>1. /\ pc' = "idle" /\ date' = 0 /\ streak' = 0 /\ tripped' = FALSE
        /\ known' = {} /\ opened' = {} /\ owed' \subseteq owed
    BY <1>8 DEF Ending, LaunchFails, ProbeEndsFire, WriteFails, Finish, Dies, Ends
  <2>2. 0 \in 0 .. MaxDays
    BY LinkedInLaneAssumption
  <2>3. (streak' = Trip) = FALSE
    BY <1>1, <2>1
  <2>4. streak' \in 0 .. Trip /\ tripped' = (streak' = Trip)
    <3>1. tripped' = FALSE
      BY <2>1
    <3>2. tripped' = (streak' = Trip)
      BY <2>3, <3>1
    <3>3. QED
      BY <1>1, <2>1, <3>2
  <2>5. owed' \subseteq Card /\ pc' \in Places
    BY <1>1, <2>1
  <2>6. FireOK'
    BY <2>1, <2>2, <2>4, <2>5
  <2>7. Respected'
    BY <2>1
  <2>8. QED
    BY <2>6, <2>7
<1>9. CASE UNCHANGED vars
  BY <1>1, <1>9 DEF vars, diskVars, fireVars, obsVars
<1>10. QED
  BY <1>2, <1>3, <1>4, <1>5, <1>6, <1>7, <1>8, <1>9, StepKinds

----------------------------------------------------------------------------
LEMMA InitTyped == Init => TypeInv
<1> SUFFICES ASSUME Init PROVE TypeInv
  OBVIOUS
<1>1. DOMAIN <<>> = {}
  OBVIOUS
<1>2. WorldOK /\ Respected
  BY LinkedInLaneAssumption DEF Init, WorldOK, Respected
<1>3. DocumentsOK
  BY <1>1, LinkedInLaneAssumption DEF Init, DocumentsOK
<1>4. SearchOK
  BY FS_EmptySet, LinkedInLaneAssumption DEF Init, SearchOK
<1>5. FireOK
  <2>1. pc \in Places /\ date = 0 /\ known = {} /\ opened = {} /\ owed = {}
        /\ streak = 0 /\ tripped = FALSE
    BY DEF Init, Places
  <2>2. (streak = Trip) = FALSE /\ streak \in 0 .. Trip /\ date \in 0 .. MaxDays
    BY <2>1, LinkedInLaneAssumption
  <2>3. QED
    BY <2>1, <2>2 DEF FireOK
<1>6. QED
  BY <1>2, <1>3, <1>4, <1>5 DEF TypeInv, TypeOK

LEMMA TypeStep == TypeInv /\ [Next]_vars => TypeInv'
BY WorldStays, DocumentsStay, SearchStays, FireStays DEF TypeInv, TypeOK

LEMMA Typed == Spec => []TypeInv
BY InitTyped, TypeStep, PTL DEF Spec

(* Type correctness for every value of the constants: no fire opens more    *)
(* cards of a search than the cap, counts shells past the trip, or visits a *)
(* search that is done.                                                     *)
THEOREM TypeInvariant == Spec => []TypeOK
BY Typed, PTL DEF TypeInv

(* The throttled session is left alone, for any trip threshold and whatever *)
(* LinkedIn answers: the invariant behind it is Respected.                  *)
THEOREM LeftAloneHolds == Spec => []LeftAlone
<1>1. TypeInv => LeftAlone
  BY DEF TypeInv, Respected, Visiting, LeftAlone
<1>2. QED
  BY <1>1, Typed, PTL
----------------------------------------------------------------------------
(* Every card the fire has opened is in processedIds, but the probe's while *)
(* it waits to be kept.                                                     *)
OpenedKnown ==
  /\ pc # "keep" => opened \subseteq processed
  /\ pc = "keep" => \E c : queue = {c} /\ opened = {c}

LEMMA OpenedKnownStep ==
  ASSUME TypeInv, OpenedKnown, [Next]_vars
  PROVE  OpenedKnown'
<1> USE DEF OpenedKnown
<1>1. CASE Between \/ UrlEnds \/ UNCHANGED vars
  <2>1. UNCHANGED <<opened, processed, queue>> /\ (UNCHANGED pc \/ (pc = "urlend" /\ pc' = "urls"))
    BY <1>1 DEF Between, FireSkipped, ResetFails, WorldStep, NewDay, Cools, BreakerUnreadable,
       SaveUrls, Publishes, UrlEnds, vars, searchVars, fireVars, obsVars
  <2>2. QED
    BY <2>1
<1>2. CASE FireStarts \/ Ending
  <2>1. opened' = {} /\ pc' # "keep"
    BY <1>2 DEF FireStarts, Ending, LaunchFails, ProbeEndsFire, WriteFails, Finish, Dies, Ends
  <2>2. QED
    BY <2>1
<1>3. CASE ProbeKeeps
  <2>1. PICK c \in queue : processed' = processed \cup {c}
    BY <1>3 DEF ProbeKeeps
  <2>2. pc = "keep" /\ opened' = opened /\ pc' = "urls"
    BY <1>3 DEF ProbeKeeps
  <2>3. QED
    BY <2>1, <2>2
<1>4. CASE Walking
  <2>1. ASSUME NEW c \in Card, ProbeOpens(c) PROVE OpenedKnown'
    BY <2>1 DEF ProbeOpens
  <2>2. CASE ~ \E c \in Card : ProbeOpens(c)
    <3>1. UNCHANGED <<opened, processed>> /\ pc # "keep" /\ pc' # "keep"
      BY <1>4, <2>2 DEF Walking, Launch, ProbeFindsNothing, NextUrl, PageFails, PageUnreadable,
         PageShows, PassOver, PageEnds, Canary, Sound, fireVars, obsVars
    <3>2. QED
      BY <3>1
  <2>3. QED
    BY <2>1, <2>2
<1>5. CASE Opening
  <2>1. PICK c \in Card : CaptureCard(c) \/ MissCard(c) \/ WithheldCard(c)
    BY <1>5 DEF Opening
  <2>2. /\ opened' = opened \cup {c} /\ processed' = processed \cup {c}
        /\ pc = "cards" /\ pc' # "keep"
    BY <2>1 DEF CaptureCard, MissCard, WithheldCard, Opens
  <2>3. QED
    BY <2>2
<1>6. QED
  BY <1>1, <1>2, <1>3, <1>4, <1>5, StepKinds

(* Only the opening of a card adds it to the cards tried.                   *)
LEMMA TriedByOpening ==
  ASSUME [Next]_vars, NEW c \in Card, c \in tried' \ tried
  PROVE  Opens(c)
<1>1. CASE Opening
  <2>1. PICK k \in Card : CaptureCard(k) \/ MissCard(k) \/ WithheldCard(k)
    BY <1>1 DEF Opening
  <2>2. Opens(k) /\ tried' = tried \cup {k}
    BY <2>1 DEF CaptureCard, MissCard, WithheldCard, Opens
  <2>3. QED
    BY <2>2
<1>2. CASE Between \/ ProbeKeeps \/ UrlEnds \/ UNCHANGED vars
  BY <1>2 DEF Between, FireSkipped, ResetFails, WorldStep, NewDay, Cools, BreakerUnreadable,
     SaveUrls, Publishes, UrlEnds, ProbeKeeps, vars, searchVars
<1>3. CASE FireStarts \/ Ending
  BY <1>3 DEF FireStarts, Ending, LaunchFails, ProbeEndsFire, WriteFails, Finish, Dies, Ends
<1>4. CASE Walking
  BY <1>4 DEF Walking, Launch, ProbeFindsNothing, ProbeOpens, NextUrl, PageFails,
     PageUnreadable, PageShows, PassOver, PageEnds, Canary, Sound, searchVars
<1>5. QED
  BY <1>1, <1>2, <1>3, <1>4, StepKinds

(* processedIds keeps a fire from opening a job twice: every card it tries  *)
(* was not opened before, by a search or by the probe.                      *)
THEOREM OpenedOnceHolds == Spec => OpenedOnce
<1>1. Init => OpenedKnown
  BY DEF Init, OpenedKnown
<1>2. TypeInv /\ OpenedKnown /\ [Next]_vars => OpenedKnown'
  BY OpenedKnownStep
<1>3. TypeInv /\ OpenedKnown /\ [Next]_vars
        => [\A c \in Card : c \in tried' \ tried => c \notin opened]_vars
  <2> SUFFICES ASSUME TypeInv, OpenedKnown, [Next]_vars, NEW c \in Card, c \in tried' \ tried
               PROVE  c \notin opened
    OBVIOUS
  <2>1. Opens(c)
    BY TriedByOpening
  <2>2. c \notin processed
    BY <2>1, OpensBelowCap DEF TypeInv, TypeOK
  <2>3. pc = "cards"
    BY <2>1 DEF Opens
  <2>4. QED
    BY <2>2, <2>3 DEF OpenedKnown
<1>4. QED
  BY <1>1, <1>2, <1>3, Typed, PTL DEF Spec, OpenedOnce
----------------------------------------------------------------------------
(* The captures on disk only grow, but at a rescan.                         *)
LEMMA CapturesGrow ==
  ASSUME DocumentsOK, [Next]_vars, ~FireStarts
  PROVE  captures \subseteq captures'
<1>1. CASE Between
  BY <1>1 DEF Between, FireSkipped, ResetFails, WorldStep, NewDay, Cools, BreakerUnreadable,
     SaveUrls, Publishes, diskVars
<1>2. CASE ProbeKeeps
  <2>1. captures' = captures \/ (captures' = jobs' /\ jobs \subseteq jobs')
    BY <1>2 DEF ProbeKeeps, Append
  <2>2. captures \subseteq jobs
    BY <1>2 DEF ProbeKeeps, DocumentsOK
  <2>3. QED
    BY <2>1, <2>2
<1>3. CASE UrlEnds \/ UNCHANGED vars
  BY <1>3 DEF UrlEnds, vars, diskVars
<1>4. CASE Walking
  BY <1>4 DEF Walking, Launch, ProbeFindsNothing, ProbeOpens, NextUrl, PageFails,
     PageUnreadable, PageShows, PassOver, PageEnds, Canary, Sound, diskVars
<1>5. CASE Opening
  <2>1. captures' = captures \/ (captures' = jobs' /\ jobs \subseteq jobs')
    BY <1>5 DEF Opening, CaptureCard, MissCard, WithheldCard, Append
  <2>2. captures \subseteq jobs
    BY <1>5 DEF Opening, CaptureCard, MissCard, WithheldCard, Opens, DocumentsOK
  <2>3. QED
    BY <2>1, <2>2
<1>6. CASE Ending
  BY <1>6 DEF Ending, LaunchFails, ProbeEndsFire, WriteFails, Finish, Dies, diskVars
<1>7. QED
  BY <1>1, <1>2, <1>3, <1>4, <1>5, <1>6, StepKinds

LEMMA CardsGrow ==
  ASSUME NEW J, NEW K, J \subseteq K
  PROVE  CardsOf(J) \subseteq CardsOf(K)
BY DEF CardsOf

(* What the marks promise is in the captures: of the marks on disk, unless  *)
(* they call for a rescan, and of the fire's copy, with what the search at  *)
(* hand has captured.                                                       *)
Held(d, J) == \A u \in DOMAIN d : harvest[u] \subseteq CardsOf(J)

DiskHeld == AllDone(resume.done) \/ Held(resume.done, captures)

FireHeld == pc # "idle" => Held(done, captures) /\ got \subseteq CardsOf(captures)

Contributed == "edit" \in causes \/ (urls = Url /\ DiskHeld /\ FireHeld)

LEMMA ContributedStep ==
  ASSUME TypeInv, Contributed, [Next]_vars
  PROVE  Contributed'
<1>1. causes \subseteq causes'
  <2>1. CASE FireStarts \/ UNCHANGED vars
    BY <2>1 DEF FireStarts, vars, obsVars
  <2>2. CASE Between
    BY <2>2 DEF Between, FireSkipped, ResetFails, WorldStep, NewDay, Cools, BreakerUnreadable,
       SaveUrls, Publishes, obsVars
  <2>3. CASE ProbeKeeps \/ UrlEnds \/ Opening
    BY <2>3 DEF ProbeKeeps, UrlEnds, Opening, CaptureCard, MissCard, WithheldCard, Opens
  <2>4. CASE Walking
    BY <2>4 DEF Walking, Launch, ProbeFindsNothing, ProbeOpens, NextUrl, PageFails,
       PageUnreadable, PageShows, PassOver, PageEnds, Canary, Sound, obsVars
  <2>5. CASE Ending
    BY <2>5 DEF Ending, LaunchFails, ProbeEndsFire, WriteFails, Finish, Dies, NotesLoss
  <2>6. QED
    BY <2>1, <2>2, <2>3, <2>4, <2>5, StepKinds
<1> SUFFICES ASSUME "edit" \notin causes'
             PROVE  urls' = Url /\ DiskHeld' /\ FireHeld'
  BY DEF Contributed
<1>2. urls = Url /\ DiskHeld /\ FireHeld
  BY <1>1 DEF Contributed
<1>3. urls' = urls
  <2>1. CASE Between
    BY <2>1 DEF Between, FireSkipped, ResetFails, WorldStep, NewDay, Cools, BreakerUnreadable,
       SaveUrls, Publishes, worldVars
  <2>2. CASE FireStarts \/ ProbeKeeps \/ UrlEnds \/ Opening \/ UNCHANGED vars
    BY <2>2 DEF FireStarts, ProbeKeeps, UrlEnds, Opening, CaptureCard, MissCard, WithheldCard,
       Opens, vars, worldVars
  <2>3. CASE Walking
    BY <2>3 DEF Walking, Launch, ProbeFindsNothing, ProbeOpens, NextUrl, PageFails,
       PageUnreadable, PageShows, PassOver, PageEnds, Canary, Sound, worldVars
  <2>4. CASE Ending
    BY <2>4 DEF Ending, LaunchFails, ProbeEndsFire, WriteFails, Finish, Dies, Ends, worldVars
  <2>5. QED
    BY <2>1, <2>2, <2>3, <2>4, StepKinds
<1>4. ASSUME UNCHANGED <<resume, harvest>>, CardsOf(captures) \subseteq CardsOf(captures')
      PROVE  DiskHeld'
  BY <1>2, <1>3, <1>4 DEF DiskHeld, Held, AllDone
<1>5. ~FireStarts => CardsOf(captures) \subseteq CardsOf(captures')
  BY CapturesGrow, CardsGrow DEF TypeInv, TypeOK
<1>6. CASE FireStarts
  <2>1. UNCHANGED <<resume, harvest>> /\ got' = {}
    BY <1>6 DEF FireStarts
  <2>2. DOMAIN <<>> = {}
    OBVIOUS
  <2>3. CASE AllDone(DoneToday)
    <3>1. done' = <<>> /\ AllDone(resume.done)
      BY <1>6, <2>2, <2>3 DEF FireStarts, Rescan, DoneToday, AllDone
    <3>2. AllDone(resume.done)'
      BY <1>3, <2>1, <3>1 DEF AllDone
    <3>3. QED
      BY <1>2, <1>3, <2>1, <2>2, <3>1, <3>2 DEF DiskHeld, FireHeld, Held
  <2>4. CASE ~AllDone(DoneToday)
    <3>1. done' = DoneToday /\ captures' = captures
      BY <1>6, <2>4 DEF FireStarts, Rescan
    <3>2. DiskHeld'
      BY <1>4, <2>1, <3>1
    <3>3. Held(DoneToday, captures)
      BY <1>2, <2>2, <2>4 DEF DiskHeld, DoneToday, Held
    <3>4. Held(done, captures)'
      BY <2>1, <3>1, <3>3 DEF Held
    <3>5. QED
      BY <1>2, <1>3, <2>1, <3>2, <3>4 DEF FireHeld
  <2>5. QED
    BY <2>3, <2>4
<1>7. CASE Between \/ Ending \/ UNCHANGED vars
  <2>1. UNCHANGED <<resume, captures, harvest>>
        /\ (pc' = "idle" \/ UNCHANGED <<pc, done, got>>)
    <3>1. CASE Between
      BY <3>1 DEF Between, FireSkipped, ResetFails, WorldStep, NewDay, Cools,
         BreakerUnreadable, SaveUrls, Publishes, diskVars, obsVars, fireVars, searchVars
    <3>2. CASE Ending
      BY <3>2 DEF Ending, LaunchFails, ProbeEndsFire, WriteFails, Finish, Dies, Ends, diskVars
    <3>3. CASE UNCHANGED vars
      BY <3>3 DEF vars, diskVars, obsVars, fireVars, searchVars
    <3>4. QED
      BY <1>7, <3>1, <3>2, <3>3
  <2>2. DiskHeld'
    BY <1>4, <2>1
  <2>3. FireHeld'
    BY <1>2, <2>1 DEF FireHeld, Held
  <2>4. QED
    BY <1>2, <1>3, <2>2, <2>3
<1>8. CASE Walking
  <2>1. UNCHANGED <<resume, captures, harvest, done>> /\ pc # "idle" /\ (got' = {} \/ got' = got)
    BY <1>8 DEF Walking, Launch, ProbeFindsNothing, ProbeOpens, NextUrl, PageFails,
       PageUnreadable, PageShows, PassOver, PageEnds, Canary, Sound, diskVars, obsVars,
       fireVars, searchVars
  <2>2. DiskHeld'
    BY <1>4, <2>1
  <2>3. FireHeld'
    BY <1>2, <2>1 DEF FireHeld, Held
  <2>4. QED
    BY <1>2, <1>3, <2>2, <2>3
<1>9. CASE ProbeKeeps \/ Opening
  <2>1. /\ UNCHANGED <<resume, harvest, done>> /\ pc # "idle"
        /\ got' \subseteq got \cup CardsOf(captures')
    <3>1. CASE ProbeKeeps
      BY <3>1 DEF ProbeKeeps
    <3>2. ASSUME NEW c \in Card, CaptureCard(c) \/ MissCard(c) \/ WithheldCard(c)
          PROVE  UNCHANGED <<resume, harvest, done>> /\ pc # "idle"
      BY <3>2 DEF CaptureCard, MissCard, WithheldCard, Opens
    <3>3. ASSUME NEW c \in Card, CaptureCard(c)
          PROVE  got' \subseteq got \cup CardsOf(captures')
      <4>1. got' = got \cup {c} /\ [card |-> c, day |-> day] \in captures'
        BY <3>3 DEF CaptureCard, Append
      <4>2. c \in CardsOf(captures')
        BY <4>1 DEF CardsOf
      <4>3. QED
        BY <4>1, <4>2
    <3>4. ASSUME NEW c \in Card, MissCard(c) \/ WithheldCard(c) PROVE got' = got
      BY <3>4 DEF MissCard, WithheldCard
    <3>5. QED
      BY <1>9, <3>1, <3>2, <3>3, <3>4 DEF Opening
  <2>2. CardsOf(captures) \subseteq CardsOf(captures')
    BY <1>5, <1>9, <2>1 DEF FireStarts
  <2>3. DiskHeld'
    BY <1>4, <2>1, <2>2
  <2>4. FireHeld'
    BY <1>2, <2>1, <2>2 DEF FireHeld, Held
  <2>5. QED
    BY <1>2, <1>3, <2>3, <2>4
<1>10. CASE UrlEnds
  <2>1. /\ resume' = [date |-> date, done |-> done'] /\ UNCHANGED <<captures, got>>
        /\ harvest' = [u \in Url |-> IF u \notin DOMAIN done' THEN {}
                                     ELSE IF u \notin DOMAIN done THEN got ELSE harvest[u]]
        /\ pc # "idle"
    BY <1>10 DEF UrlEnds, searchVars
  <2>2. DOMAIN done' \subseteq Url
    BY DocumentsStay DEF TypeInv, DocumentsOK
  <2>3. Held(done, captures) /\ got \subseteq CardsOf(captures)
    BY <1>2, <2>1 DEF FireHeld
  <2>4. \A u \in DOMAIN done' : harvest'[u] \subseteq CardsOf(captures')
    BY <2>1, <2>2, <2>3 DEF Held
  <2>5. QED
    BY <1>2, <1>3, <2>1, <2>3, <2>4 DEF DiskHeld, FireHeld, Held
<1>11. QED
  BY <1>6, <1>7, <1>8, <1>9, <1>10, StepKinds

(* As long as the saved searches stay the same, what a search marked as     *)
(* done has captured is in the result of every later fire of the day,       *)
(* wherever fires died and however often the day was scanned again.         *)
THEOREM SkippedContributesHolds == Spec => []SkippedContributes
<1>1. Init => Contributed
  <2>1. DOMAIN <<>> = {}
    OBVIOUS
  <2>2. QED
    BY <2>1 DEF Init, Contributed, DiskHeld, FireHeld, Held
<1>2. TypeInv /\ Contributed /\ [Next]_vars => Contributed'
  BY ContributedStep
<1>3. TypeInv /\ Contributed => SkippedContributes
  <2> SUFFICES ASSUME TypeInv, Contributed, "edit" \notin causes, pc # "idle"
               PROVE  \A u \in urls \cap DOMAIN done : harvest[u] \subseteq CardsOf(jobs)
    BY DEF SkippedContributes
  <2>1. captures \subseteq jobs
    BY DEF TypeInv, TypeOK, DocumentsOK
  <2>2. CardsOf(captures) \subseteq CardsOf(jobs)
    BY <2>1, CardsGrow
  <2>3. Held(done, captures)
    BY DEF Contributed, FireHeld
  <2>4. QED
    BY <2>2, <2>3 DEF Held
<1>4. QED
  BY <1>1, <1>2, <1>3, Typed, PTL DEF Spec
----------------------------------------------------------------------------
(* What is owed is in the captures; and a fire that could clear them finds  *)
(* nothing owed: the day's marks were complete only after a fire returned.  *)
Owing == owed \subseteq CardsOf(captures)

Paid == pc \in {"idle", "launch", "probe"} /\ AllDone(resume.done) => owed = {}

FailedLeavesWork == tally.urls /\ ~tally.ok => ~AllDone(resume.done)

Accounted == causes # {} \/ (Owing /\ Paid /\ FailedLeavesWork)

(* Nothing is owed after a fire that returns, and after one that ends in an *)
(* error the marks do not call for a rescan.                                *)
LEMMA FinishPays ==
  ASSUME DocumentsOK, Owing, FailedLeavesWork, Finish
  PROVE  owed' = {} \/ ~AllDone(resume.done)
<1>1. CardsOf(captures) \subseteq CardsOf(jobs)
  BY CardsGrow DEF DocumentsOK, Finish
<1>2. owed \subseteq CardsOf(jobs)
  BY <1>1 DEF Owing
<1>3. CASE ~Outage
  BY <1>2, <1>3 DEF Finish
<1>4. CASE tally.urls /\ ~tally.ok
  BY <1>4 DEF FailedLeavesWork
<1>5. CASE jobs = {}
  BY <1>2, <1>5 DEF CardsOf, Finish
<1>6. QED
  BY <1>3, <1>4, <1>5 DEF Outage

LEMMA AccountedStep ==
  ASSUME TypeInv, Accounted, [Next]_vars
  PROVE  Accounted'
<1>1. DocumentsOK
  BY DEF TypeInv, TypeOK
<1>2. causes \subseteq causes'
  <2>1. CASE FireStarts \/ UNCHANGED vars
    BY <2>1 DEF FireStarts, vars, obsVars
  <2>2. CASE Between
    BY <2>2 DEF Between, FireSkipped, ResetFails, WorldStep, NewDay, Cools, BreakerUnreadable,
       SaveUrls, Publishes, obsVars
  <2>3. CASE ProbeKeeps \/ UrlEnds \/ Opening
    BY <2>3 DEF ProbeKeeps, UrlEnds, Opening, CaptureCard, MissCard, WithheldCard, Opens
  <2>4. CASE Walking
    BY <2>4 DEF Walking, Launch, ProbeFindsNothing, ProbeOpens, NextUrl, PageFails,
       PageUnreadable, PageShows, PassOver, PageEnds, Canary, Sound, obsVars
  <2>5. CASE Ending
    BY <2>5 DEF Ending, LaunchFails, ProbeEndsFire, WriteFails, Finish, Dies, NotesLoss
  <2>6. QED
    BY <2>1, <2>2, <2>3, <2>4, <2>5, StepKinds
<1> SUFFICES ASSUME causes' = {}
             PROVE  Owing' /\ Paid' /\ FailedLeavesWork'
  BY DEF Accounted
<1>3. Owing /\ Paid /\ FailedLeavesWork
  BY <1>2 DEF Accounted
<1>4. CardsOf(captures) \subseteq CardsOf(captures') \/ FireStarts
  BY <1>1, CapturesGrow, CardsGrow
<1>5. CASE FireStarts
  <2>1. /\ UNCHANGED <<resume, owed, urls>> /\ tally' = NoTally
        /\ pc = "idle" /\ pc' = "launch"
    BY <1>5 DEF FireStarts
  <2>2. CASE AllDone(DoneToday)
    <3>1. AllDone(resume.done)
      BY <2>2 DEF DoneToday, AllDone
    <3>2. owed' = {}
      BY <1>3, <2>1, <3>1 DEF Paid
    <3>3. QED
      BY <2>1, <3>2 DEF Owing, Paid, FailedLeavesWork, NoTally
  <2>3. CASE ~AllDone(DoneToday)
    <3>1. captures' = captures
      BY <1>5, <2>3 DEF FireStarts, Rescan
    <3>2. QED
      BY <1>3, <2>1, <3>1 DEF Owing, Paid, FailedLeavesWork, NoTally, AllDone
  <2>4. QED
    BY <2>2, <2>3
<1>6. CASE Between \/ UNCHANGED vars
  <2>1. UNCHANGED <<resume, captures, owed, tally, pc, urls>>
    BY <1>6 DEF Between, FireSkipped, ResetFails, WorldStep, NewDay, Cools, BreakerUnreadable,
       SaveUrls, Publishes, diskVars, obsVars, fireVars, worldVars, vars
  <2>2. QED
    BY <1>3, <2>1 DEF Owing, Paid, FailedLeavesWork, AllDone
<1>7. CASE Walking
  <2>1. /\ UNCHANGED <<resume, captures, owed, tally, urls>>
        /\ pc' \in {"idle", "launch", "probe"} => pc \in {"idle", "launch", "probe"}
    BY <1>7 DEF Walking, Launch, ProbeFindsNothing, ProbeOpens, NextUrl, PageFails,
       PageUnreadable, PageShows, PassOver, PageEnds, Canary, Sound, diskVars, obsVars,
       fireVars, worldVars
  <2>2. QED
    BY <1>3, <2>1 DEF Owing, Paid, FailedLeavesWork, AllDone
<1>8. CASE ProbeKeeps
  <2>1. PICK c \in queue : IF c \in CardsOf(jobs) THEN UNCHANGED <<jobs, captures, owed>>
                           ELSE Append(c) /\ owed' = owed \cup {c}
    BY <1>8 DEF ProbeKeeps
  <2>2. tally'.ok = TRUE /\ pc' = "urls" /\ pc = "keep"
    BY <1>8 DEF ProbeKeeps
  <2>3. owed' = owed \/ (owed' = owed \cup {c} /\ [card |-> c, day |-> day] \in captures')
    BY <2>1 DEF Append
  <2>4. owed' \subseteq CardsOf(captures')
    BY <1>3, <1>4, <2>2, <2>3 DEF Owing, CardsOf, FireStarts
  <2>5. QED
    BY <2>2, <2>4 DEF Owing, Paid, FailedLeavesWork
<1>9. CASE Opening
  <2>1. PICK c \in Card : CaptureCard(c) \/ MissCard(c) \/ WithheldCard(c)
    BY <1>9 DEF Opening
  <2>2. /\ UNCHANGED <<resume, tally, urls>> /\ pc = "cards" /\ pc' \in {"cards", "urlend"}
    BY <2>1 DEF CaptureCard, MissCard, WithheldCard, Opens, worldVars
  <2>3. owed' = owed \/ (owed' = owed \cup {c} /\ [card |-> c, day |-> day] \in captures')
    BY <2>1 DEF CaptureCard, MissCard, WithheldCard, Append
  <2>4. owed' \subseteq CardsOf(captures')
    BY <1>3, <1>4, <2>2, <2>3 DEF Owing, CardsOf, FireStarts
  <2>5. QED
    BY <1>3, <2>2, <2>4 DEF Owing, Paid, FailedLeavesWork, AllDone
<1>10. CASE UrlEnds
  <2>1. /\ UNCHANGED <<captures, owed, urls>> /\ pc' = "urls"
        /\ resume'.done = Marked /\ tally' = Tallied /\ at \in urls \ DOMAIN done
    BY <1>10 DEF UrlEnds, worldVars, TypeInv, TypeOK, SearchOK
  <2>2. tally'.ok = (tally.ok \/ ~UrlFailed)
    BY <2>1 DEF Tallied
  <2>3. ~tally'.ok => ~(urls \subseteq DOMAIN resume'.done)
    BY <2>1, <2>2 DEF Marked
  <2>4. QED
    BY <1>3, <2>1, <2>3 DEF Owing, Paid, FailedLeavesWork, AllDone
<1>11. CASE Ending
  <2>1. /\ UNCHANGED <<resume, captures, urls>> /\ tally' = NoTally
        /\ owed' \subseteq owed
    BY <1>11 DEF Ending, LaunchFails, ProbeEndsFire, WriteFails, Finish, Dies, Ends, diskVars,
       worldVars
  <2>2. AllDone(resume.done) => owed' = {}
    <3>1. CASE LaunchFails \/ ProbeEndsFire
      BY <1>3, <3>1 DEF LaunchFails, ProbeEndsFire, Paid
    <3>2. CASE WriteFails \/ Dies
      BY <3>2 DEF WriteFails, Dies, NotesLoss
    <3>3. CASE Finish
      BY <1>1, <1>3, <2>1, <3>3, FinishPays
    <3>4. QED
      BY <1>11, <3>1, <3>2, <3>3 DEF Ending
  <2>3. QED
    BY <1>3, <2>1, <2>2 DEF Owing, Paid, FailedLeavesWork, NoTally, AllDone
<1>12. QED
  BY <1>5, <1>6, <1>7, <1>8, <1>9, <1>10, <1>11, StepKinds

(* A captured job is returned by a fire or still on disk, however many      *)
(* fires died: it is lost only after one that died while the marks on disk  *)
(* said "all done", or after a change of the saved searches.                *)
THEOREM LostNeedsCauseHolds == Spec => []LostNeedsCause
<1>1. Init => Accounted
  BY DEF Init, Accounted, Owing, Paid, FailedLeavesWork, NoTally
<1>2. TypeInv /\ Accounted /\ [Next]_vars => Accounted'
  BY AccountedStep
<1>3. Accounted => LostNeedsCause
  BY DEF Accounted, Owing, LostNeedsCause, NothingLost
<1>4. QED
  BY <1>1, <1>2, <1>3, Typed, PTL DEF Spec

(* The three together, as the runs check them.                              *)
THEOREM LaneHolds == Spec => []LaneSound
BY TypeInvariant, LeftAloneHolds, SkippedContributesHolds, PTL DEF LaneSound
=============================================================================
