----------------------------- MODULE SetupWizard -----------------------------
(***************************************************************************)
(* The first-run wizard of the board (ui/src/features/wizard): six steps,   *)
(* each saving its answers when Next is pressed, a draft kept in the        *)
(* browser's storage so that the wizard resumes after a reload, and the     *)
(* guard that never writes over a document that holds anything but what the *)
(* wizard wrote itself.                                                     *)
(*                                                                         *)
(* Answers are numbered as they are given; 0 is none.  A document's text is *)
(* the number of the answers it was made of, 0 for a seeded one, Elsewhere  *)
(* for a text written by another tool.                                      *)
(***************************************************************************)
EXTENDS Naturals, Sequences

CONSTANTS
  Name,        \* names a profile can be given
  Nothing,
  MaxAnswers,  \* bound: times the answers of a step are changed
  MaxForeign,  \* bound: documents written by another tool
  MaxErrors,   \* bound: requests that fail
  MaxVisits    \* bound: times the wizard is opened again

VARIABLES
  taken,       \* the profiles that exist
  known,       \* the profiles in the page's cached list
  docs,        \* docs[d]: the text of a document of the wizard's profile
  profileJson,  \* what profile.json says: linkedin among the lanes, settings, schedule
  secret,      \* the token is in .env
  page,        \* "off", "loading", "on" or "done"
  step,        \* the step shown
  answers,     \* the answers the page holds
  stored,      \* the draft in the browser's storage, Nothing when there is none
  submit,      \* the step being saved, Nothing when none is
  blocked,     \* the step says that the profile has existing configuration
  typed,       \* observability: the answers as they were given last
  given, foreign, errors, visits,
  beside       \* observability: what went on beside the saves

wizardVars == <<taken, known, docs, profileJson, secret, page, step, answers, stored, submit, blocked, typed, given, foreign, errors, visits, beside>>

Doc == {"resume", "filter", "urls"}
Elsewhere == MaxAnswers + 1
Normal(n) == n + Elsewhere  \* the server files each link under its page's heading
Answers == [about : 0 .. MaxAnswers, hunt : 0 .. MaxAnswers]
Unwritten == [d \in Doc |-> Nothing]
Draft ==
  [profile : Name \cup {Nothing}, step : 1 .. 6, about : 0 .. MaxAnswers, hunt : 0 .. MaxAnswers,
   tokenSaved : BOOLEAN, written : [Doc -> {Nothing} \cup ((0 .. Normal(MaxAnswers)) \ {Elsewhere})]]
Config == [lanes : BOOLEAN, settings : BOOLEAN, schedule : BOOLEAN]
SaveRequest == {"create", "guard", "resume", "filter", "urls", "config", "lanes", "secret", "settings", "schedule"}
Submit ==
  [step : 1 .. 6, draft : Draft, name : Name, todo : Seq(SaveRequest),
   config : Config \cup {Nothing}, wrote : BOOLEAN, orphan : BOOLEAN]

ASSUME AnswersBounded == MaxAnswers \in Nat
ASSUME NothingApart == Nothing \notin Name /\ Nothing \notin Nat /\ Nothing \notin Draft /\ Nothing \notin Submit

InitialDraft == [profile |-> Nothing, step |-> 1, about |-> 0, hunt |-> 0, tokenSaved |-> FALSE, written |-> Unwritten]

----------------------------------------------------------------------------
(* The page                                                                *)

OpenWizard ==
  /\ page = "off" /\ visits < MaxVisits
  /\ page' = "loading" /\ visits' = visits + 1
  /\ UNCHANGED <<taken, known, docs, profileJson, secret, step, answers, stored, submit, blocked, typed, given, foreign, errors, beside>>

(* Rehydration, on the first profiles list the page has, a cached one too:  *)
(* a draft of a profile that is not on it is cleared.                       *)
Rehydrate ==
  LET kept == stored # Nothing /\ stored.profile \in known
  IN  /\ page = "loading"
      /\ page' = "on" /\ blocked' = FALSE
      /\ answers' = IF kept THEN stored ELSE InitialDraft
      /\ step' = answers'.step
      /\ stored' = IF kept THEN stored ELSE Nothing
      /\ typed' = [about |-> answers'.about, hunt |-> answers'.hunt]
      /\ beside' = beside \cup (IF submit # Nothing THEN {"left"} ELSE {})
      /\ UNCHANGED <<taken, known, docs, profileJson, secret, submit, given, foreign, errors, visits>>

(* The profiles list is read: once invalidated, and on opening the board.   *)
ReadProfiles ==
  /\ known # taken
  /\ known' = taken
  /\ UNCHANGED <<taken, docs, profileJson, secret, page, step, answers, stored, submit, blocked, typed, given, foreign, errors, visits, beside>>

Wrote == submit # Nothing /\ submit.wrote

(* Another route: a save goes on without its page. *)
Leave ==
  /\ page = "on"
  /\ page' = "off" /\ answers' = InitialDraft /\ step' = 1
  /\ submit' = IF submit = Nothing THEN Nothing ELSE [submit EXCEPT !.orphan = TRUE]
  /\ UNCHANGED <<taken, known, docs, profileJson, secret, stored, blocked, typed, given, foreign, errors, visits, beside>>

Reload ==
  /\ page \in {"on", "off"} /\ submit # Nothing
  /\ page' = "off" /\ answers' = InitialDraft /\ step' = 1
  /\ submit' = Nothing /\ known' = taken
  /\ beside' = beside \cup (IF Wrote THEN {"left"} ELSE {})
  /\ UNCHANGED <<taken, docs, profileJson, secret, stored, blocked, typed, given, foreign, errors, visits>>

(* writeDraft, once the draft names a profile. *)
Written(d) == IF d.profile = Nothing THEN stored ELSE d

(* onDraftChange of a field edit.  The persona of step 2 is part of what    *)
(* "about" stands for.                                                      *)
GiveAnswer(field, n) ==
  /\ page = "on" /\ given < MaxAnswers
  /\ (field = "about" /\ step \in {2, 3}) \/ (field = "hunt" /\ step = 4)
  /\ n \in {given + 1} \cup (IF field = "hunt" THEN {0} \ {answers.hunt} ELSE {})
  /\ given' = given + 1
  /\ answers' = [answers EXCEPT ![field] = n] /\ stored' = Written(answers')
  /\ typed' = [typed EXCEPT ![field] = n]
  /\ beside' = beside \cup (IF submit # Nothing THEN {"edited"} ELSE {})
  /\ UNCHANGED <<taken, known, docs, profileJson, secret, page, step, submit, blocked, foreign, errors, visits>>

GoTo(n) ==
  /\ step' = n /\ blocked' = FALSE
  /\ answers' = [answers EXCEPT !.step = n] /\ stored' = Written(answers')
  /\ UNCHANGED <<taken, known, docs, profileJson, secret, page, submit, typed, given, foreign, errors, visits>>

(* handleBack: not refused while a step is being saved. *)
Back ==
  /\ page = "on" /\ step > 1
  /\ beside' = beside \cup (IF submit # Nothing THEN {"back"} ELSE {})
  /\ GoTo(step - 1)

(* onSkip of step 5 *)
Skip == page = "on" /\ step = 5 /\ GoTo(6) /\ UNCHANGED beside

----------------------------------------------------------------------------
(* Saving a step                                                           *)

(* The requests of a step, in order: those whose answers are not left empty. *)
Requests(d) ==
  CASE step = 1 -> IF d.profile = Nothing THEN <<"create">> ELSE <<>>
    [] step = 2 -> <<>>
    [] step = 3 -> <<"guard", "resume", "filter">>
    [] step = 4 -> IF d.hunt = 0 THEN <<"config", "lanes">> ELSE <<"guard", "urls", "config", "lanes">>
    [] step = 5 -> <<"secret", "config", "settings">>
    [] step = 6 -> <<"config", "schedule">>

(* The handler a step registered: without a persona there is none, and      *)
(* answers that are not valid are refused before any request.               *)
ValidAbout == answers.about # 0
CanSubmit == step \in {2, 3} => ValidAbout

(* handleNext: one save at a time. *)
PressNext(name) ==
  /\ page = "on" /\ submit = Nothing /\ CanSubmit
  /\ (step = 1 /\ answers.profile = Nothing) \/ name = CHOOSE n \in Name : TRUE
  /\ submit' = [step |-> step, draft |-> answers, name |-> name, todo |-> Requests(answers),
                config |-> Nothing, wrote |-> FALSE, orphan |-> FALSE]
  /\ blocked' = FALSE
  /\ UNCHANGED <<taken, known, docs, profileJson, secret, page, step, answers, stored, typed, given, foreign, errors, visits, beside>>

Doing(request) == submit # Nothing /\ submit.todo # <<>> /\ Head(submit.todo) = request
Done(s) == [s EXCEPT !.todo = Tail(@)]

(* A submit that ends without advancing. *)
Refused == submit' = Nothing

CreateProfile ==
  /\ Doing("create")
  /\ \/ submit.name \in taken /\ Refused /\ UNCHANGED <<taken, docs, profileJson>>
     \/ /\ submit.name \notin taken
        /\ taken' = taken \cup {submit.name}
        /\ docs' = [d \in Doc |-> 0] /\ profileJson' = [lanes |-> FALSE, settings |-> FALSE, schedule |-> FALSE]
        /\ submit' = [Done(submit) EXCEPT !.draft.profile = submit.name]
  /\ UNCHANGED <<known, secret, page, step, answers, stored, blocked, typed, given, foreign, errors, visits, beside>>

(* Mutant of OwnWrite: that the wizard wrote the document once will do.     *)
OwnWriteOnce(d) == submit.draft.written[d] # Nothing

(* The document still holds exactly what this wizard wrote there. *)
OwnWrite(d) == submit.draft.written[d] # Nothing /\ docs[d] = submit.draft.written[d]

(* hasExistingContent and hasBulletLine, of what is not the wizard's own.   *)
Existing(d) == ~OwnWrite(d) /\ docs[d] # 0

(* The guard reads every document the step writes, before it writes any. *)
Guard ==
  /\ Doing("guard")
  /\ LET guarded == {d \in Doc : \E i \in DOMAIN submit.todo : submit.todo[i] = d}
     IN  \/ (\E d \in guarded : Existing(d)) /\ Refused /\ blocked' = (page = "on" /\ ~submit.orphan)
         \/ (\A d \in guarded : ~Existing(d)) /\ submit' = Done(submit) /\ UNCHANGED blocked
  /\ UNCHANGED <<taken, known, docs, profileJson, secret, page, step, answers, stored, typed, given, foreign, errors, visits, beside>>

(* What the answers are written as: deriveFilter takes the persona's rules,  *)
(* the seniority and the places from them, serializeResume the rest.        *)
FilterText(d) == d.about
ResumeText(d) == d.about
UrlsText(d) == d.hunt

SentText(d) ==
  CASE d = "filter" -> FilterText(submit.draft) [] d = "resume" -> ResumeText(submit.draft) [] d = "urls" -> UrlsText(submit.draft)

TextOf(d) == IF d = "urls" THEN Normal(SentText(d)) ELSE SentText(d)

(* Mutant of Recorded: the text that was sent, not the one that was stored. *)
RecordedAsSent(d) == SentText(d)

(* What the draft records of a write: what the server answered. *)
Recorded(d) == TextOf(d)

PutDoc(d) ==
  /\ Doing(d)
  /\ docs' = [docs EXCEPT ![d] = TextOf(d)]
  /\ submit' = [Done(submit) EXCEPT !.draft.written[d] = Recorded(d), !.wrote = TRUE]
  /\ UNCHANGED <<taken, known, profileJson, secret, page, step, answers, stored, blocked, typed, given, foreign, errors, visits, beside>>

(* putSecret, the first request of step 5. *)
PutSecret ==
  /\ Doing("secret")
  /\ secret' = TRUE
  /\ submit' = [Done(submit) EXCEPT !.draft.tokenSaved = TRUE]
  /\ UNCHANGED <<taken, known, docs, profileJson, page, step, answers, stored, blocked, typed, given, foreign, errors, visits, beside>>

(* patchProfileConfig: the document is read, changed and put back whole. *)
ReadConfig ==
  /\ Doing("config")
  /\ submit' = [Done(submit) EXCEPT !.config = profileJson]
  /\ UNCHANGED <<taken, known, docs, profileJson, secret, page, step, answers, stored, blocked, typed, given, foreign, errors, visits, beside>>

Patched(slice) == [submit.config EXCEPT ![slice] = IF slice = "lanes" THEN submit.draft.hunt # 0 ELSE TRUE]

PutConfig(slice) ==
  /\ Doing(slice)
  /\ profileJson' = Patched(slice)
  /\ submit' = Done(submit)
  /\ UNCHANGED <<taken, known, docs, secret, page, step, answers, stored, blocked, typed, given, foreign, errors, visits, beside>>

(* A request fails: the submit throws, and what it had written stays, with  *)
(* no record of it in the draft.                                            *)
RequestFails ==
  /\ errors < MaxErrors /\ submit # Nothing
  /\ errors' = errors + 1
  /\ Refused
  /\ beside' = beside \cup (IF Wrote THEN {"failed"} ELSE {})
  /\ UNCHANGED <<taken, known, docs, profileJson, secret, page, step, answers, stored, blocked, typed, given, foreign, visits>>

(* onDraftChange of a submit that went through: the draft as it was when    *)
(* Next was pressed, with what the save adds to it.                         *)
SavedDraft == IF submit.step \in {2, 6} THEN answers ELSE submit.draft

(* Mutant of Advanced: the step is moved, and the draft stored, every time. *)
AdvancedAlways(d) == [draft |-> [d EXCEPT !.step = IF step = 6 THEN 6 ELSE step + 1], stores |-> TRUE]

(* handleNext, after a save: one step on from where the page is, never past *)
(* the last; the draft is stored only when that is another step.            *)
Advanced(d) == [draft |-> IF step = 6 THEN d ELSE [d EXCEPT !.step = step + 1], stores |-> step # 6]

Complete ==
  /\ submit # Nothing /\ submit.todo = <<>> /\ submit.step # 6 /\ ~submit.orphan
  /\ answers' = Advanced(SavedDraft).draft /\ step' = answers'.step
  /\ stored' = IF Advanced(SavedDraft).stores THEN Written(answers') ELSE Written(SavedDraft)
  /\ submit' = Nothing /\ blocked' = FALSE
  /\ UNCHANGED <<taken, known, docs, profileJson, secret, page, typed, given, foreign, errors, visits, beside>>

(* Without its page, a save still stores the draft. *)
CompleteAlone ==
  /\ submit # Nothing /\ submit.todo = <<>> /\ submit.step # 6 /\ submit.orphan
  /\ stored' = IF submit.step = 2 THEN stored ELSE Written(submit.draft)
  /\ submit' = Nothing
  /\ UNCHANGED <<taken, known, docs, profileJson, secret, page, step, answers, blocked, typed, given, foreign, errors, visits, beside>>

(* Step 6 clears the draft and goes to the runs. *)
Launch ==
  /\ submit # Nothing /\ submit.todo = <<>> /\ submit.step = 6
  /\ page' = "done" /\ submit' = Nothing
  /\ stored' = IF ~submit.orphan /\ Advanced(answers).stores THEN Written(Advanced(answers).draft) ELSE Nothing
  /\ UNCHANGED <<taken, known, docs, profileJson, secret, step, answers, blocked, typed, given, foreign, errors, visits, beside>>

----------------------------------------------------------------------------
(* Another tool writes a document. *)
WriteElsewhere(d) ==
  /\ foreign < MaxForeign /\ taken # {}
  /\ foreign' = foreign + 1
  /\ docs' = [docs EXCEPT ![d] = Elsewhere]
  /\ beside' = beside \cup {"outside"} \cup (IF submit # Nothing /\ \A i \in DOMAIN submit.todo : submit.todo[i] # "guard" THEN {"crossed"} ELSE {})
  /\ UNCHANGED <<taken, known, profileJson, secret, page, step, answers, stored, blocked, submit, typed, given, errors, visits>>

WizardInit ==
  /\ taken = {} /\ known = {} /\ docs = [d \in Doc |-> 0]
  /\ profileJson = [lanes |-> FALSE, settings |-> FALSE, schedule |-> FALSE] /\ secret = FALSE
  /\ page = "loading" /\ step = 1 /\ answers = InitialDraft /\ stored = Nothing /\ submit = Nothing /\ blocked = FALSE
  /\ typed = [about |-> 0, hunt |-> 0] /\ given = 0 /\ foreign = 0 /\ errors = 0 /\ visits = 0 /\ beside = {}

WizardNext ==
  \/ OpenWizard \/ Rehydrate \/ ReadProfiles \/ Leave \/ Reload
  \/ Back \/ Skip \/ \E f \in {"about", "hunt"}, n \in 0 .. MaxAnswers : GiveAnswer(f, n)
  \/ \E name \in Name : PressNext(name)
  \/ CreateProfile \/ Guard \/ PutSecret \/ ReadConfig \/ RequestFails
  \/ \E slice \in {"lanes", "settings", "schedule"} : PutConfig(slice)
  \/ Complete \/ CompleteAlone \/ Launch
  \/ \E d \in Doc : PutDoc(d) \/ WriteElsewhere(d)

WizardSpec == WizardInit /\ [][WizardNext]_wizardVars

----------------------------------------------------------------------------
WizardTypeOK ==
  /\ known \subseteq taken /\ taken \subseteq Name
  /\ docs \in [Doc -> 0 .. Normal(MaxAnswers)]
  /\ profileJson \in Config /\ page \in {"off", "loading", "on", "done"} /\ step \in 1 .. 6
  /\ answers \in Draft /\ stored \in Draft \cup {Nothing} /\ submit \in Submit \cup {Nothing}
  /\ stored # Nothing => stored.profile \in taken
  /\ typed \in Answers /\ blocked \in BOOLEAN

(* A text another tool wrote is written over by the wizard only when it came *)
(* after the guard's read of the step that was being saved.                 *)
NeverClobbersStep ==
  \A d \in Doc : docs[d] = Elsewhere /\ docs'[d] \notin {0, Elsewhere} => "crossed" \in beside
NeverClobbers == [][NeverClobbersStep]_wizardVars

(* A profile the wizard made is refused as having existing configuration    *)
(* only when another tool wrote to it, or an earlier save of that step      *)
(* failed, or its page was left, after its first write: the draft then has  *)
(* no record of that write, and the step refuses its own text ever after.   *)
BlockedNeedsCause == blocked => beside \cap {"outside", "failed", "left"} # {}

(* A finished wizard has stored the answers as they were given last and     *)
(* leaves no draft behind, unless a field or the step was changed while a   *)
(* step was being saved (the draft as it was when Next was pressed comes    *)
(* back over the edit, and Back during the last save stores the draft of a  *)
(* finished wizard again), a page was left meanwhile, or another tool wrote.*)
FinishedAsAnswered ==
  page = "done" /\ beside \cap {"edited", "back", "left", "outside"} = {} =>
    /\ stored = Nothing
    /\ docs["resume"] = typed.about /\ docs["filter"] = typed.about
    /\ typed.hunt # 0 => docs["urls"] = Normal(typed.hunt)
    /\ profileJson.lanes = (typed.hunt # 0) /\ profileJson.schedule

(* All of it: no refusal without a cause, and finished as answered. *)
WizardSound == WizardTypeOK /\ BlockedNeedsCause /\ FinishedAsAnswered
=============================================================================
