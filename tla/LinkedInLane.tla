---------------------------- MODULE LinkedInLane ----------------------------
(***************************************************************************)
(* The LinkedIn farming lane (src/adapters/lanes/linkedin): one fire of a  *)
(* run visits the saved searches with a browser, opens the jobs that pass  *)
(* the card gate, and flushes each capture at once.  Two documents outlive *)
(* a fire, the done searches of the day and the captures; a breaker file   *)
(* that all profiles share keeps the lane away from LinkedIn for four      *)
(* hours after it has withheld job texts.                                  *)
(*                                                                         *)
(* A step is what lies between two writes or two visits.  What LinkedIn    *)
(* shows and answers is any choice.  Of a page only the cards that pass    *)
(* the gate matter; of time, the UTC date and whether the breaker's        *)
(* cooldown is over.  Wording, pacing, the companies seen and the funnel's *)
(* records of what was dropped are left out.                               *)
(***************************************************************************)
EXTENDS Naturals, FiniteSets

CONSTANTS
  Url,          \* saved searches, numbered in file order
  NoInventory,  \* those on a page that has no inventory
  Card,         \* jobs
  MaxPages,     \* pages of a search the lane looks at
  Cap,          \* maxCardsPerUrl
  Trip,         \* THROTTLE_CONSECUTIVE_SHELLS_TO_TRIP
  MaxFires,     \* bound: fires
  MaxDays,      \* bound: UTC dates
  Faults        \* what may go wrong together: sets of "die", "disk", "edit"

ASSUME LinkedInLaneAssumption ==
  /\ Url \subseteq Nat \ {0} /\ NoInventory \subseteq Url
  /\ MaxPages \in Nat \ {0} /\ Cap \in Nat \ {0} /\ Trip \in Nat \ {0}
  /\ MaxFires \in Nat /\ MaxDays \in Nat \ {0}
  /\ Faults \subseteq SUBSET {"die", "disk", "edit"}

VARIABLES
  faults,           \* what may go wrong in this behaviour
  day, urls,        \* the date; the searches in search_urls.md
  cached,           \* jobs in the reconciled Notion cache
  breaker,          \* the breaker file: none, open, or past its cooldown
  resume,           \* extract_resume.json: [date, done]
  captures,         \* captures.json: jobs with the date of their capture
  fires,            \* fires so far
  pc, date,         \* of the fire: its place, ResumeState's date
  done, jobs,       \* its copies of the two documents
  known,            \* its cache ids
  processed,        \* processedIds
  at, pageIndex,    \* the search and the page it is at
  queue,            \* cards of the page not handled yet
  tried, got,       \* cards of the search opened, and captured
  failed,           \* the search's stat.failed
  tally,            \* the stats of all searches of the fire, summed up
  streak, shells,   \* consecutive shells; whether there was any
  tripped, healthy, \* throttleTripped; the canary's verdict
  opened,           \* observability: cards the fire opened
  harvest,          \* observability: what a done search of the day captured
  owed,             \* observability: captured, and returned by no fire yet
  causes            \* observability: what may lose captures

diskVars == <<breaker, resume, captures>>
worldVars == <<day, urls, cached, fires>>
searchVars == <<at, pageIndex, queue, tried, got, failed>>
fireVars == <<date, done, jobs, known, processed, tally, streak, shells, tripped, healthy>>
obsVars == <<opened, harvest, owed, causes>>
vars == <<faults, diskVars, worldVars, searchVars, fireVars, obsVars, pc>>

NoTally == [urls |-> FALSE, ok |-> FALSE, tried |-> FALSE, got |-> FALSE]
Places == {"idle", "launch", "probe", "keep", "urls", "page", "cards", "urlend",
           "canary", "sound", "finish"}

CardsOf(J) == {j.card : j \in J}

WorldOK ==
  /\ faults \in Faults
  /\ day \in 1 .. MaxDays /\ urls \subseteq Url /\ cached \subseteq Card
  /\ breaker \in {"none", "open", "cooled"} /\ fires \in 0 .. MaxFires

DocumentsOK ==
  /\ resume.date \in 0 .. MaxDays /\ DOMAIN resume.done \subseteq Url
  /\ captures \subseteq [card : Card, day : 1 .. MaxDays]
  /\ jobs \subseteq [card : Card, day : 1 .. MaxDays]
  /\ DOMAIN done \subseteq Url
  /\ pc # "idle" => captures \subseteq jobs

FireOK ==
  /\ pc \in Places /\ date \in 0 .. MaxDays
  /\ streak \in 0 .. Trip /\ tripped = (streak = Trip)
  /\ known \subseteq Card /\ opened \subseteq Card /\ owed \subseteq Card

SearchOK ==
  /\ at \in Url \cup {0} /\ pageIndex \in 0 .. MaxPages
  /\ pc \in {"page", "cards", "urlend"} => at \in urls \ (NoInventory \cup DOMAIN done)
  /\ queue \subseteq Card /\ got \subseteq tried /\ tried \subseteq processed
  /\ IsFiniteSet(tried) /\ Cardinality(tried) <= Cap

TypeOK == WorldOK /\ DocumentsOK /\ FireOK /\ SearchOK

Init ==
  /\ faults \in Faults
  /\ day = 1 /\ urls = Url /\ cached = {} /\ fires = 0
  /\ breaker = "none" /\ resume = [date |-> 0, done |-> <<>>] /\ captures = {}
  /\ pc = "idle"
  /\ date = 0 /\ done = <<>> /\ jobs = {} /\ known = {} /\ processed = {}
  /\ at = 0 /\ pageIndex = 0 /\ queue = {} /\ tried = {} /\ got = {} /\ failed = FALSE
  /\ tally = NoTally /\ streak = 0 /\ shells = FALSE /\ tripped = FALSE /\ healthy = FALSE
  /\ opened = {} /\ harvest = [u \in Url |-> {}] /\ owed = {} /\ causes = {}

----------------------------------------------------------------------------
(* The world between fires *)

NewDay ==
  /\ day < MaxDays /\ day' = day + 1
  /\ UNCHANGED <<diskVars, urls, cached, fires, searchVars, fireVars, obsVars, pc>>

(* THROTTLE_COOLDOWN_MS after openedAt, breakerPhase reads half-open. *)
Cools ==
  /\ breaker = "open" /\ breaker' = "cooled"
  /\ UNCHANGED <<resume, captures, worldVars, searchVars, fireVars, obsVars, pc>>

(* A breaker file that is torn or unreadable reads as none (readBreaker). *)
BreakerUnreadable ==
  /\ "disk" \in faults /\ pc = "idle" /\ breaker # "none" /\ breaker' = "none"
  /\ UNCHANGED <<resume, captures, worldVars, searchVars, fireVars, obsVars, pc>>

(* A save of the searches in Settings; a lane reads them when it is built. *)
SaveUrls ==
  /\ "edit" \in faults /\ pc = "idle"
  /\ \E U \in SUBSET Url : U # urls /\ urls' = U
  /\ causes' = causes \cup {"edit"}
  /\ UNCHANGED <<diskVars, day, cached, fires, searchVars, fireVars, opened, harvest, owed,
                 pc>>

(* A returned job is published, and the next reconcile has it. *)
Publishes(c) ==
  /\ pc = "idle" /\ c \in CardsOf(jobs) \ cached
  /\ cached' = cached \cup {c}
  /\ UNCHANGED <<diskVars, day, urls, fires, searchVars, fireVars, obsVars, pc>>

----------------------------------------------------------------------------
(* The start of a fire *)

(* The breaker is open: nothing is loaded and no browser is launched. *)
FireSkipped ==
  /\ pc = "idle" /\ fires < MaxFires /\ breaker = "open"
  /\ fires' = fires + 1
  /\ UNCHANGED <<diskVars, day, urls, cached, searchVars, fireVars, obsVars, pc>>

DoneToday == IF resume.date = day THEN resume.done ELSE <<>>

AllDone(d) == urls \subseteq DOMAIN d

(* Mutant of Rescan: the captures are cleared and the marks are kept. *)
RescanKeepsMarks(d) ==
  /\ done' = d
  /\ IF AllDone(d) THEN jobs' = {} /\ captures' = {}
                   ELSE jobs' = captures /\ UNCHANGED captures

(* rescanReset, in memory, and captureStore.reset, which is saved.          *)
Rescan(d) ==
  IF AllDone(d) THEN done' = <<>> /\ jobs' = {} /\ captures' = {}
                ELSE done' = d /\ jobs' = captures /\ UNCHANGED captures

FireStarts ==
  /\ pc = "idle" /\ fires < MaxFires /\ breaker # "open"
  /\ fires' = fires + 1 /\ date' = day
  /\ Rescan(DoneToday)
  /\ known' \in {cached} \cup (IF "disk" \in faults THEN {{}} ELSE {})
  /\ processed' = {} /\ opened' = {}
  /\ tally' = NoTally /\ streak' = 0 /\ shells' = FALSE
  /\ tripped' = FALSE /\ healthy' = FALSE
  /\ at' = 0 /\ pageIndex' = 0 /\ queue' = {} /\ tried' = {} /\ got' = {} /\ failed' = FALSE
  /\ pc' = "launch"
  /\ UNCHANGED <<breaker, resume, day, urls, cached, harvest, owed, causes>>

(* The reset of the captures cannot be saved: the lane throws. *)
ResetFails ==
  /\ "disk" \in faults /\ pc = "idle" /\ fires < MaxFires /\ breaker # "open"
  /\ AllDone(DoneToday)
  /\ fires' = fires + 1 /\ jobs' = {}
  /\ UNCHANGED <<diskVars, day, urls, cached, searchVars, date, done, known, processed,
                 tally, streak, shells, tripped, healthy, obsVars, pc>>

(* The fire is over; what remains of it is what it returned.                *)
Ends ==
  /\ pc' = "idle"
  /\ at' = 0 /\ pageIndex' = 0 /\ queue' = {} /\ tried' = {} /\ got' = {} /\ failed' = FALSE
  /\ processed' = {} /\ opened' = {} /\ done' = <<>> /\ known' = {}
  /\ streak' = 0 /\ shells' = FALSE /\ tripped' = FALSE /\ healthy' = FALSE
  /\ date' = 0 /\ tally' = NoTally
  /\ UNCHANGED worldVars

(* A fire that does not return leaves marks on disk that say "all done":    *)
(* it ended after its last mark, or before the first one of a rescan.       *)
NotesLoss == causes' = IF AllDone(resume.done) THEN causes \cup {"allDone"} ELSE causes

(* browser.launch; the breaker's phase was read when the fire started. *)
Launch ==
  /\ pc = "launch"
  /\ pc' = IF breaker = "cooled" THEN "probe" ELSE "urls"
  /\ UNCHANGED <<diskVars, worldVars, searchVars, fireVars, obsVars>>

LaunchFails ==
  /\ pc = "launch" /\ Ends
  /\ jobs' = {}
  /\ UNCHANGED <<diskVars, harvest, owed, causes>>

----------------------------------------------------------------------------
(* The half-open probe *)

(* A write or an unlink of the breaker file that fails is only logged. *)
Sets(b) == breaker' \in {b} \cup (IF "disk" \in faults THEN {breaker} ELSE {})

ProbeTargets == urls \ NoInventory

(* shell: the breaker is opened again.  inconclusive: it stays as it is.    *)
ProbeEndsFire ==
  /\ pc = "probe"
  /\ \/ ProbeTargets # {} /\ Sets("open")
     \/ UNCHANGED breaker
  /\ Ends /\ jobs' = {}
  /\ UNCHANGED <<resume, captures, harvest, owed, causes>>

(* no-candidate: no evidence of a block, the breaker is closed. *)
ProbeFindsNothing ==
  /\ pc = "probe" /\ ProbeTargets # {}
  /\ Sets("none") /\ pc' = "urls"
  /\ UNCHANGED <<resume, captures, worldVars, searchVars, fireVars, obsVars>>

(* ok: the breaker is closed, then the probe's own capture is kept. *)
ProbeOpens(c) ==
  /\ pc = "probe" /\ ProbeTargets # {}
  /\ Sets("none") /\ pc' = "keep"
  /\ queue' = {c} /\ opened' = {c}
  /\ UNCHANGED <<resume, captures, worldVars, at, pageIndex, tried, got, failed, fireVars,
                 harvest, owed, causes>>

(* captureStore.append: memory first, then the document. *)
Append(c) ==
  /\ jobs' = jobs \cup {[card |-> c, day |-> day]}
  /\ captures' = jobs'

(* Mutant of ProbeKeeps: the card is left to the searches. *)
ProbeForgets ==
  /\ pc = "keep"
  /\ \E c \in queue :
       IF c \in CardsOf(jobs) THEN UNCHANGED <<jobs, captures, owed>>
       ELSE Append(c) /\ owed' = owed \cup {c}
  /\ tally' = [urls |-> TRUE, ok |-> TRUE, tried |-> TRUE, got |-> TRUE]
  /\ queue' = {} /\ pc' = "urls"
  /\ UNCHANGED <<breaker, resume, worldVars, at, pageIndex, tried, got, failed, date, done,
                 known, processed, streak, shells, tripped, healthy, opened, harvest,
                 causes>>

ProbeKeeps ==
  /\ pc = "keep"
  /\ \E c \in queue :
       /\ IF c \in CardsOf(jobs) THEN UNCHANGED <<jobs, captures, owed>>
          ELSE Append(c) /\ owed' = owed \cup {c}
       /\ processed' = processed \cup {c}
  /\ tally' = [urls |-> TRUE, ok |-> TRUE, tried |-> TRUE, got |-> TRUE]
  /\ queue' = {} /\ pc' = "urls"
  /\ UNCHANGED <<breaker, resume, worldVars, at, pageIndex, tried, got, failed, date, done,
                 known, streak, shells, tripped, healthy, opened, harvest, causes>>

----------------------------------------------------------------------------
(* The searches, their pages and their cards *)

Left == {u \in ProbeTargets \ DOMAIN done : u > at}

(* Done searches and those without an inventory are passed over. *)
NextUrl ==
  /\ pc = "urls"
  /\ \/ /\ Left = {} \/ tripped
        /\ pc' = "canary" /\ UNCHANGED at
     \/ /\ ~tripped
        /\ \E u \in Left : (\A v \in Left : u <= v) /\ at' = u
        /\ pc' = "page"
  /\ pageIndex' = 1 /\ queue' = {} /\ tried' = {} /\ got' = {} /\ failed' = FALSE
  /\ UNCHANGED <<diskVars, worldVars, fireVars, obsVars>>

(* newPage, goto or the harvest throws: a failure of the whole search on    *)
(* page 1, the end of its pages later.                                      *)
PageFails ==
  /\ pc = "page" /\ pc' = "urlend"
  /\ failed' = (pageIndex = 1)
  /\ UNCHANGED <<diskVars, worldVars, at, pageIndex, queue, tried, got, fireVars, obsVars>>

(* Every card of the page lost its title or company. *)
PageUnreadable ==
  /\ pc = "page" /\ pc' = "urlend" /\ failed' = TRUE
  /\ UNCHANGED <<diskVars, worldVars, at, pageIndex, queue, tried, got, fireVars, obsVars>>

PageShows(S) ==
  /\ pc = "page" /\ pc' = "cards" /\ queue' = S
  /\ UNCHANGED <<diskVars, worldVars, at, pageIndex, tried, got, failed, fireVars, obsVars>>

(* processCard: what the cache or the fire has, or the cap leaves out; all  *)
(* of a page in one step, for the order among these does not matter.        *)
Passed == IF Cardinality(tried) >= Cap THEN queue ELSE queue \cap (known \cup processed)

PassOver ==
  /\ pc = "cards" /\ Passed # {}
  /\ queue' = queue \ Passed
  /\ UNCHANGED <<diskVars, worldVars, at, pageIndex, tried, got, failed, fireVars, obsVars,
                 pc>>

Opens(c) ==
  /\ pc = "cards" /\ c \in queue /\ Passed = {}
  /\ queue' = queue \ {c}
  /\ processed' = processed \cup {c} /\ tried' = tried \cup {c}
  /\ opened' = opened \cup {c}
  /\ UNCHANGED <<resume, worldVars, at, pageIndex, failed, date, done, known, tally,
                 healthy, harvest, causes>>

(* Mutant of CaptureCard: the capture is flushed at the end of the fire. *)
CaptureUnflushed(c) ==
  /\ Opens(c)
  /\ jobs' = jobs \cup {[card |-> c, day |-> day]} /\ UNCHANGED captures
  /\ got' = got \cup {c} /\ streak' = 0 /\ owed' = owed \cup {c}
  /\ UNCHANGED <<breaker, shells, tripped, pc>>

(* The text is read and the job flushed. *)
CaptureCard(c) ==
  /\ Opens(c)
  /\ Append(c)
  /\ got' = got \cup {c} /\ streak' = 0 /\ owed' = owed \cup {c}
  /\ UNCHANGED <<breaker, shells, tripped, pc>>

(* A flush that fails leaves the job in memory and counts as a failed open. *)
NotFlushed(c) ==
  jobs' \in {jobs} \cup (IF "disk" \in faults THEN {jobs \cup {[card |-> c, day |-> day]}}
                         ELSE {})

(* No pane, a pane with other text, an unreadable title, a page that does   *)
(* not answer.                                                              *)
MissCard(c) ==
  /\ Opens(c)
  /\ NotFlushed(c)
  /\ UNCHANGED <<breaker, captures, got, streak, shells, tripped, owed, pc>>

(* ThrottleCounter.tripped after one more shell; mutant: one too late.      *)
TripsLate == streak = Trip
Trips == streak + 1 = Trip

(* The pane is there and stays empty.  Trip of these with no text between   *)
(* open the breaker and end the searches.                                   *)
WithheldCard(c) ==
  /\ Opens(c)
  /\ shells' = TRUE /\ streak' = streak + 1
  /\ IF Trips
       THEN tripped' = TRUE /\ Sets("open") /\ pc' = "urlend"
       ELSE UNCHANGED <<tripped, breaker, pc>>
  /\ NotFlushed(c)
  /\ UNCHANGED <<captures, got, owed>>

(* Another page, unless this one was empty or a repetition, the last one,   *)
(* or the cap is reached.                                                   *)
PageEnds ==
  /\ pc = "cards" /\ queue = {}
  /\ \/ /\ pageIndex < MaxPages /\ Cardinality(tried) < Cap
        /\ pageIndex' = pageIndex + 1 /\ pc' = "page"
     \/ pc' = "urlend" /\ UNCHANGED pageIndex
  /\ UNCHANGED <<diskVars, worldVars, at, queue, tried, got, failed, fireVars, obsVars>>

UrlFailed == failed \/ (tried # {} /\ got = {})

Marked ==
  IF UrlFailed \/ tripped THEN done
  ELSE [u \in DOMAIN done \cup {at} |-> IF u = at THEN got # {} ELSE done[u]]

Tallied == [urls  |-> TRUE,
            ok    |-> tally.ok \/ ~UrlFailed,
            tried |-> tally.tried \/ tried # {},
            got   |-> tally.got \/ got # {}]

(* The search is marked if it is finished, and the marks are saved. *)
UrlEnds ==
  /\ pc = "urlend" /\ pc' = "urls"
  /\ done' = Marked /\ resume' = [date |-> date, done |-> done']
  /\ harvest' = [u \in Url |-> IF u \notin DOMAIN done' THEN {}
                               ELSE IF u \notin DOMAIN done THEN got ELSE harvest[u]]
  /\ tally' = Tallied
  /\ UNCHANGED <<breaker, captures, worldVars, searchVars, date, jobs, known, processed,
                 streak, shells, tripped, healthy, opened, owed, causes>>

(* The marks or the probe's job cannot be saved, or the search's page       *)
(* cannot be closed: the lane throws.                                       *)
WriteFails ==
  /\ \/ pc = "urlend" /\ faults \cap {"disk", "die"} # {}
     \/ pc = "keep" /\ "disk" \in faults /\ ~ queue \subseteq CardsOf(jobs)
  /\ Ends /\ jobs' = {}
  /\ NotesLoss
  /\ UNCHANGED <<diskVars, harvest, owed>>

----------------------------------------------------------------------------
(* The end of a fire *)

(* Mutant of Canary: a throttled session is sounded, too. *)
CanaryAlways ==
  /\ pc = "canary"
  /\ pc' = IF tally.urls /\ ~tally.ok /\ urls \cap DOMAIN done # {}
             THEN "sound" ELSE "finish"
  /\ UNCHANGED <<diskVars, worldVars, searchVars, fireVars, obsVars>>

(* evaluateAllFailedCanary: all attempted searches failed and LinkedIn did  *)
(* not withhold anything: one search done today is tried again.             *)
Canary ==
  /\ pc = "canary"
  /\ pc' = IF /\ tally.urls /\ ~tally.ok
              /\ ~tripped /\ ~shells
              /\ urls \cap DOMAIN done # {}
             THEN "sound" ELSE "finish"
  /\ UNCHANGED <<diskVars, worldVars, searchVars, fireVars, obsVars>>

Sound ==
  /\ pc = "sound" /\ pc' = "finish"
  /\ healthy' \in BOOLEAN
  /\ UNCHANGED <<diskVars, worldVars, searchVars, date, done, jobs, known, processed, tally,
                 streak, shells, tripped, obsVars>>

(* Every attempted search failed and the canary did not answer; or cards    *)
(* were opened, none was captured, and nothing is there to return.          *)
Outage ==
  \/ tally.urls /\ ~tally.ok /\ ~healthy
  \/ tally.tried /\ ~tally.got /\ jobs = {}

Finish ==
  /\ pc = "finish"
  /\ IF Outage
       THEN Ends /\ jobs' = {} /\ UNCHANGED owed
       ELSE Ends /\ UNCHANGED jobs /\ owed' = owed \ CardsOf(jobs)
  /\ UNCHANGED <<diskVars, harvest, causes>>

(* A kill, a timeout or a stall of the stage. *)
Dies ==
  /\ "die" \in faults /\ pc # "idle"
  /\ Ends /\ jobs' = {}
  /\ NotesLoss
  /\ UNCHANGED <<diskVars, harvest, owed>>

CardStep == PassOver \/ \E c \in Card : CaptureCard(c) \/ MissCard(c) \/ WithheldCard(c)

FireStep ==
  \/ FireSkipped \/ FireStarts \/ ResetFails \/ Launch \/ LaunchFails
  \/ ProbeEndsFire \/ ProbeFindsNothing \/ ProbeKeeps \/ \E c \in Card : ProbeOpens(c)
  \/ NextUrl \/ PageFails \/ PageUnreadable \/ \E S \in SUBSET Card : PageShows(S)
  \/ CardStep \/ PageEnds \/ UrlEnds \/ WriteFails
  \/ Canary \/ Sound \/ Finish \/ Dies

WorldStep ==
  NewDay \/ Cools \/ BreakerUnreadable \/ SaveUrls \/ \E c \in Card : Publishes(c)

Next == (FireStep \/ WorldStep) /\ UNCHANGED faults

Spec == Init /\ [][Next]_vars

----------------------------------------------------------------------------
(* Properties *)

(* throttle.ts, breaker_store.ts: a session that was found throttled is     *)
(* left alone: no page is visited, no job opened and no canary sent in the  *)
(* rest of the fire, nor a browser launched before the cooldown is over.    *)
LeftAlone ==
  pc \in {"launch", "probe", "page", "cards", "sound"} => ~tripped /\ breaker # "open"

(* A fire opens a job once, however many searches and pages show it and     *)
(* though the probe has opened it before.                                   *)
OpenedOnce == [][\A c \in Card : c \in tried' \ tried => c \notin opened]_vars

(* capture_store.ts: a search that is passed over as done still contributes *)
(* its jobs: what it captured is in the fire's result, across deaths and    *)
(* rescans, as long as the saved searches stay the same.                    *)
SkippedContributes ==
  "edit" \in causes \/
    (pc # "idle" => \A u \in urls \cap DOMAIN done : harvest[u] \subseteq CardsOf(jobs))

(* capture_store.ts: "a mid-run crash never loses an already-scraped JD":   *)
(* a captured job is returned by a fire or still on disk for the next one.  *)
NothingLost == owed \subseteq CardsOf(captures)

(* It is lost only after a fire that died while the marks on disk said "all *)
(* done", or after a change of the saved searches.                          *)
LostNeedsCause == NothingLost \/ causes # {}

----------------------------------------------------------------------------
(* A promise of the code's comments that the code does not keep.  No run    *)
(* checks it; README.md says under which constants TLC refutes it.          *)

(* evidence.ts, lane.ts: a fire that opened jobs and captured none ends     *)
(* without an error only if it returns jobs "from an earlier same-day fire".*)
OutageIsLoud ==
  pc = "finish" /\ tally.tried /\ ~tally.got /\ ~Outage => \E j \in jobs : j.day = date

(* A throttled session is left alone, and a search marked as done           *)
(* contributes what it captured.                                            *)
LaneSound == TypeOK /\ LeftAlone /\ SkippedContributes
=============================================================================
