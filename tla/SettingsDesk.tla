----------------------------- MODULE SettingsDesk ---------------------------
(***************************************************************************)
(* The settings pages of one browser tab (ui/src/features/settings) over   *)
(* the configuration documents of the profiles (src/app/features/config).  *)
(*                                                                         *)
(* A document is a function of its fields; a field's value is the profile  *)
(* it was entered for and the number of the edit that entered it, 0 for    *)
(* the first text.  A section is a form over some fields of one or two     *)
(* documents: useDocForm holds the text as the section loaded it, the      *)
(* draft is what the user sees, and a save writes whole documents: the     *)
(* loaded text with the section's own fields put in.                       *)
(*                                                                         *)
(* One action is one event of the tab: a click, an answer, or the effects  *)
(* of one commit of React, which run before the next click is handled.     *)
(* A section is mounted anew for each visit and each profile.              *)
(***************************************************************************)
EXTENDS Naturals, FiniteSets

CONSTANTS
  Prof,         \* profiles of the home
  Opened,       \* the sections the user visits
  NoText,       \* no text, no target
  MaxChanges,   \* bound: edits, by the user and by others
  MaxForeign,   \* bound: of those, edits by another tab or the command line
  MaxSaves,     \* bound: saves
  MaxRefusals,  \* bound: saves refused, or whose answer is lost
  MaxNavs,      \* bound: navigations
  Bad           \* values that no check accepts

VARIABLES
  store,     \* store[p]: the documents of a profile, all their fields
  queries,   \* queries[p][d]: the query cache's text of a document, or NoText
  fetching,  \* fetching[p][d]: the text a GET has read and not delivered, or NoText
  at,        \* [prof, section, doc]: where the user is; doc is the raw editor's
  ran,       \* ran[d]: what useDocForm's effect last ran for
  raw,       \* raw[d]: the text the section works on, or NoText
  synced,    \* synced[d]: the profile that text was synced for, or NoText
  seeded,    \* what the draft was seeded for, or NoText
  form,      \* the draft: the fields as the user sees them
  baseline,  \* the fields as last loaded or saved
  saves,     \* saves not yet answered in full
  puts,      \* the requests of those saves
  dialog,    \* where "Unsaved changes" would go, or NoText
  edits, foreign, refusals, navs, sent,  \* counters of the bounds
  lost,      \* observability: a save put an older value over a newer one
  dropped,   \* observability: the user left an edit behind that was not saved
  excuses    \* observability: what may explain either: "stale", a text out of date;
             \* "left", a place left during a save; "unguarded", a way out without a question;
             \* "reseeded", an answer put into the form over a later edit

settingsVars == <<store, queries, fetching, at, ran, raw, synced, seeded, form, baseline, saves, puts,
                  dialog, edits, foreign, refusals, navs, sent, lost, dropped, excuses>>

----------------------------------------------------------------------------
(* The sections: the fields each one parses and writes back.  What only one *)
(* section writes, and writes at once, is one field.                        *)

RolesState     == {<<"filter", "title">>, <<"filter", "avoid">>, <<"profile", "rank.roles">>}
PlaceRules     == {<<"filter", "locations">>, <<"filter", "timezones">>}
PlaceWishes    == {<<"profile", "rank.place">>}
FilterState    == {<<"filter", "title">>, <<"filter", "locations">>, <<"filter", "skills">>}
FetchingState  == {<<"profile", "caps">>}

RolesCompanies == RolesState
WhereYouWork   == PlaceRules \cup PlaceWishes
Skills         == FilterState
AboutYou       == {<<"resume", "fields">>}
WhereJobsCome  == {<<"profile", "lanes">>, <<"urls", "rows">>}
ScheduleForm   == {<<"profile", "schedule">>}
Fetching       == FetchingState
Delivery       == {<<"profile", "delivery">>}
Housekeeping   == {<<"profile", "cleanup">>}

Owned ==
  [roles |-> RolesCompanies, where |-> WhereYouWork, skills |-> Skills, about |-> AboutYou, jobs |-> WhereJobsCome,
   schedule |-> ScheduleForm, fetching |-> Fetching, delivery |-> Delivery, housekeeping |-> Housekeeping]

Forms == Opened \ {"raw"}
Fields == UNION {Owned[s] : s \in Forms}
Doc == {f[1] : f \in Fields}
FieldsOf(d) == {f \in Fields : f[1] = d}

Texts(d) == [FieldsOf(d) -> Prof \X (0 .. MaxChanges)]
TextOf(docs, d) == [f \in FieldsOf(d) |-> docs[f]]

(* There is a document to edit, and NoText is no text and no key.           *)
ASSUME SettingsAssumption ==
  /\ MaxChanges \in Nat
  /\ Doc # {}
  /\ NoText \notin Prof \cup Opened
  /\ \A d \in Doc : NoText \notin Texts(d) /\ \A p \in Prof : NoText # <<p, d>>
  /\ \A p \in Prof : NoText # <<p, "form">> /\ \A known \in BOOLEAN : NoText # <<p, known>>

(* The document that the raw editor opens with. *)
FirstDoc == CHOOSE d \in Doc : TRUE

(* The fields before the user, and the documents they come from. *)
Own == IF at.section = "raw" THEN FieldsOf(at.doc) ELSE Owned[at.section]
OwnDocs == {f[1] : f \in Own}

----------------------------------------------------------------------------
(* What a section knows                                                    *)

(* The raw editor's document and the list of searches are taken from the   *)
(* query and saved as they are; the others pass through useDocForm.        *)
Direct(d) == at.section = "raw" \/ d = "urls"

(* useDocForm.isLoading: its text is synced after the query has answered.  *)
Loaded(d) == queries[at.prof][d] # NoText /\ synced[d] = at.prof

Ready(d) == IF Direct(d) THEN queries[at.prof][d] # NoText ELSE Loaded(d)

SeedKey == IF at.section = "raw" THEN <<at.prof, at.doc>> ELSE <<at.prof, "form">>

(* What the user would return to: the raw editor compares with the query.  *)
Pristine == IF at.section = "raw" THEN (IF queries[at.prof][at.doc] = NoText THEN form ELSE queries[at.prof][at.doc])
            ELSE baseline

IsDirty == seeded = SeedKey /\ form # Pristine

EffectDeps(d) == <<at.prof, queries[at.prof][d] # NoText>>
SyncDue == {d \in OwnDocs : ~Direct(d) /\ ran[d] # EffectDeps(d)}

SeedDue == seeded # SeedKey /\ \A d \in OwnDocs : Ready(d)

(* A section's checks of its own fields, and the server's of the document.  *)
Valid(value) == \A f \in DOMAIN value : value[f] \notin Bad
Accepts(text) == \A f \in DOMAIN text : text[f] \notin Bad

Settled == SyncDue = {} /\ ~SeedDue

----------------------------------------------------------------------------
(* Effects of a commit: they see the values the commit was rendered with.  *)

Synced(d) == d \in SyncDue /\ queries[at.prof][d] # NoText

Commit ==
  /\ ~Settled
  /\ ran' = [d \in Doc |-> IF d \in SyncDue THEN EffectDeps(d) ELSE ran[d]]
  /\ synced' = [d \in Doc |-> IF Synced(d) THEN at.prof ELSE synced[d]]
  /\ raw' = [d \in Doc |-> IF Synced(d) \/ (SeedDue /\ d \in OwnDocs /\ Direct(d))
                           THEN queries[at.prof][d] ELSE raw[d]]
  /\ IF SeedDue
     THEN /\ seeded' = SeedKey
          /\ form' = [f \in Own |-> IF Direct(f[1]) THEN queries[at.prof][f[1]][f] ELSE raw[f[1]][f]]
          /\ baseline' = form'
     ELSE UNCHANGED <<seeded, form, baseline>>
  /\ UNCHANGED <<store, queries, fetching, at, saves, puts, dialog, edits, foreign, refusals, navs, sent, lost, dropped, excuses>>

(* The query of a document: at a mount, a focus, or when it has gone stale. *)
Fetch(d) ==
  /\ Settled
  /\ fetching[at.prof][d] = NoText
  /\ queries[at.prof][d] # TextOf(store[at.prof], d)
  /\ fetching' = [fetching EXCEPT ![at.prof][d] = TextOf(store[at.prof], d)]
  /\ UNCHANGED <<store, queries, at, ran, raw, synced, seeded, form, baseline, saves, puts, dialog,
                 edits, foreign, refusals, navs, sent, lost, dropped, excuses>>

(* Its answer.  One that was read before a save was stored is out of date. *)
Fetched(p, d) ==
  /\ Settled
  /\ fetching[p][d] # NoText
  /\ queries' = [queries EXCEPT ![p][d] = fetching[p][d]]
  /\ fetching' = [fetching EXCEPT ![p][d] = NoText]
  /\ excuses' = excuses \cup (IF fetching[p][d] # TextOf(store[p], d) THEN {"stale"} ELSE {})
  /\ UNCHANGED <<store, at, ran, raw, synced, seeded, form, baseline, saves, puts, dialog,
                 edits, foreign, refusals, navs, sent, lost, dropped>>

----------------------------------------------------------------------------
(* The user in a section                                                   *)

EditField(f) ==
  /\ Settled /\ seeded = SeedKey /\ dialog = NoText
  /\ edits < MaxChanges
  /\ edits' = edits + 1
  /\ form' = [form EXCEPT ![f] = <<at.prof, edits + 1>>]
  /\ UNCHANGED <<store, queries, fetching, at, ran, raw, synced, seeded, baseline, saves, puts, dialog,
                 foreign, refusals, navs, sent, lost, dropped, excuses>>

(* The text of a save: the section's own fields over the text it loaded. *)
Written(d) == [f \in FieldsOf(d) |-> IF f \in Own THEN form[f] ELSE raw[d][f]]

(* Save, from the bar, which is there as long as there are changes, or from *)
(* the dialog.  Fields that fail the section's checks stop it; the raw      *)
(* editor leaves them to the server.                                        *)
SaveForm ==
  /\ Settled /\ seeded = SeedKey /\ sent < MaxSaves
  /\ IsDirty \/ dialog # NoText
  /\ at.section # "raw" => Valid(form)
  /\ saves' = saves \cup {[n |-> sent, value |-> form, ok |-> TRUE, some |-> FALSE, go |-> dialog, live |-> TRUE]}
  /\ puts' = puts \cup
       {[n |-> sent, doc |-> d, prof |-> at.prof, text |-> Written(d), base |-> raw[d], stage |-> "sent"] : d \in OwnDocs}
  /\ sent' = sent + 1
  /\ excuses' = excuses \cup (IF saves # {} THEN {"stale"} ELSE {})
  /\ UNCHANGED <<store, queries, fetching, at, ran, raw, synced, seeded, form, baseline, dialog,
                 edits, foreign, refusals, navs, lost, dropped>>

(* The server stores the document, or refuses it. *)
StorePut(put) ==
  /\ Settled
  /\ put.stage = "sent" /\ Accepts(put.text)
  /\ store' = [store EXCEPT ![put.prof] = [f \in Fields |-> IF f \in DOMAIN put.text THEN put.text[f] ELSE @[f]]]
  /\ lost' = (lost \/ \E f \in DOMAIN put.text : put.text[f] = put.base[f] /\ store[put.prof][f] # put.text[f])
  /\ puts' = (puts \ {put}) \cup {[put EXCEPT !.stage = "stored"]}
  /\ UNCHANGED <<queries, fetching, at, ran, raw, synced, seeded, form, baseline, saves, dialog,
                 edits, foreign, refusals, navs, sent, dropped, excuses>>

RefusePut(put) ==
  /\ Settled
  /\ put.stage = "sent" /\ (refusals < MaxRefusals \/ ~Accepts(put.text))
  /\ puts' = (puts \ {put}) \cup {[put EXCEPT !.stage = "refused"]}
  /\ refusals' = IF Accepts(put.text) THEN refusals + 1 ELSE refusals
  /\ UNCHANGED <<store, queries, fetching, at, ran, raw, synced, seeded, form, baseline, saves, dialog,
                 edits, foreign, navs, sent, lost, dropped, excuses>>

LoseAnswer(put) ==
  /\ Settled
  /\ put.stage = "stored" /\ refusals < MaxRefusals
  /\ puts' = (puts \ {put}) \cup {[put EXCEPT !.stage = "refused"]}
  /\ refusals' = refusals + 1
  /\ excuses' = excuses \cup {"stale"}
  /\ UNCHANGED <<store, queries, fetching, at, ran, raw, synced, seeded, form, baseline, saves, dialog,
                 edits, foreign, navs, sent, lost, dropped>>

----------------------------------------------------------------------------
(* Navigation                                                              *)

Here == {at.prof, at.section}

(* The section of another route or profile is mounted, for the profile is   *)
(* its key: nothing of the one before is kept.                              *)
Mounted(target, left) ==
  /\ at' = [at EXCEPT !.prof = IF target \in Prof THEN target ELSE @,
                      !.section = IF target \in Prof THEN @ ELSE target,
                      !.doc = FirstDoc]
  /\ saves' = {[s EXCEPT !.live = FALSE] : s \in left}
  /\ seeded' = NoText /\ form' = <<>> /\ baseline' = <<>>
  /\ raw' = [d \in Doc |-> NoText] /\ synced' = [d \in Doc |-> NoText] /\ ran' = [d \in Doc |-> NoText]

(* The dialog is closed although the save it began has yet to be answered. *)
Closing(left) == IF \E s \in left : s.go # NoText THEN {"unguarded"} ELSE {}
Leaving(left) == IF left # {} THEN {"left"} ELSE {}

(* To where the user is already, nothing moves.  The guard of the sections  *)
(* and the guard of the profiles each close their own dialog.              *)
Arrive(target, left, known, shown) ==
  /\ dialog' = IF (target \in Prof) = (dialog \in Prof) THEN NoText ELSE dialog
  /\ navs' = navs + 1
  /\ IF target \in Here
     THEN /\ saves' = left /\ form' = shown /\ baseline' = known
          /\ UNCHANGED <<at, seeded, raw, synced, ran>>
     ELSE Mounted(target, left)
  /\ excuses' = excuses \cup Closing(left) \cup Leaving(left)

(* guardedNavigate *)
Go(target) ==
  /\ Settled /\ dialog = NoText /\ navs < MaxNavs
  /\ IF IsDirty
     THEN /\ dialog' = target
          /\ UNCHANGED <<at, saves, seeded, form, baseline, raw, synced, ran, navs, excuses>>
     ELSE Arrive(target, saves, baseline, form)
  /\ UNCHANGED <<store, queries, fetching, puts, edits, foreign, refusals, sent, lost, dropped>>

(* handleDiscardAndContinue: the form shows what is pristine, and is left. *)
Discard ==
  /\ Settled
  /\ dialog # NoText /\ navs < MaxNavs
  /\ Arrive(dialog, saves, baseline, Pristine)
  /\ UNCHANGED <<store, queries, fetching, puts, edits, foreign, refusals, sent, lost, dropped>>

(* Discard of the save bar. *)
Undo ==
  /\ Settled /\ IsDirty /\ dialog = NoText
  /\ form' = Pristine
  /\ excuses' = excuses \cup (IF saves # {} THEN {"stale"} ELSE {})
  /\ UNCHANGED <<store, queries, fetching, at, ran, raw, synced, seeded, baseline, saves, puts, dialog,
                 edits, foreign, refusals, navs, sent, lost, dropped>>

Stay ==
  /\ Settled
  /\ dialog # NoText
  /\ dialog' = NoText
  /\ excuses' = excuses \cup Closing(saves)
  /\ UNCHANGED <<store, queries, fetching, at, ran, raw, synced, seeded, form, baseline, saves, puts,
                 edits, foreign, refusals, navs, sent, lost, dropped>>

(* The browser's own back button, or an address typed in: no guard, and a   *)
(* dialog stays open over the section that comes.                           *)
Back(section) ==
  /\ Settled /\ navs < MaxNavs /\ section # at.section
  /\ navs' = navs + 1
  /\ Mounted(section, saves)
  /\ dropped' = (dropped \/ IsDirty)
  /\ excuses' = excuses \cup {"unguarded"} \cup Leaving(saves)
  /\ UNCHANGED <<store, queries, fetching, puts, dialog, edits, foreign, refusals, sent, lost>>

(* The raw editor's list of documents asks no guard either. *)
SelectDoc(d) ==
  /\ Settled /\ at.section = "raw" /\ dialog = NoText /\ d # at.doc /\ navs < MaxNavs
  /\ navs' = navs + 1
  /\ at' = [at EXCEPT !.doc = d]
  /\ dropped' = (dropped \/ IsDirty)
  /\ excuses' = excuses \cup {"unguarded"} \cup Leaving(saves)
  /\ UNCHANGED <<store, queries, fetching, ran, raw, synced, seeded, form, baseline, saves, puts, dialog,
                 edits, foreign, refusals, sent, lost>>

----------------------------------------------------------------------------
(* The answer to a request, and the end of its save when it is the last.   *)

(* A save has succeeded when every document of it was stored. *)
Succeeded(s, put) == s.ok /\ put.stage = "stored"

(* Mutant of CacheAfter: the text goes to the profile the user sees.       *)
CacheAfterHere(put) == IF put.stage = "stored" THEN [queries EXCEPT ![at.prof][put.doc] = put.text] ELSE queries

(* useConfigMutation: the cache takes the text that was stored. *)
CacheAfter(put) == IF put.stage = "stored" THEN [queries EXCEPT ![put.prof][put.doc] = put.text] ELSE queries

(* A section that is still mounted takes the value as saved. *)
BaselineAfter(s, ok) == IF ok /\ s.live /\ at.section # "raw" THEN s.value ELSE baseline

(* "Where jobs come from" puts it into the form besides. *)
FormAfter(s, ok) == IF ok /\ s.live /\ at.section = "jobs" THEN s.value ELSE form
Reseeded(s, ok) == FormAfter(s, ok) # form

(* handleSaveAndContinue goes on, wherever the user is by then. *)
Follows(s, ok) == ok /\ s.go # NoText /\ navs < MaxNavs

(* What the user has typed and not saved as he is taken away. *)
LeftBehind(s, ok, put) ==
  IF at.section = "raw" THEN IsDirty /\ form # put.text ELSE seeded # NoText /\ form # BaselineAfter(s, ok)

AnswerPut(put) ==
  /\ Settled
  /\ put.stage # "sent"
  /\ puts' = puts \ {put}
  /\ queries' = CacheAfter(put)
  /\ \E s \in saves :
       /\ s.n = put.n
       /\ LET ok == Succeeded(s, put)
              rest == saves \ {s}
          IN  IF \E other \in puts \ {put} : other.n = s.n
              THEN /\ saves' = rest \cup {[s EXCEPT !.ok = ok, !.some = s.some \/ put.stage = "stored"]}
                   /\ UNCHANGED <<at, seeded, form, baseline, raw, synced, ran, dialog, navs, dropped, excuses>>
              ELSE IF Follows(s, ok)
              THEN /\ dropped' = (dropped \/ (s.go \notin Here /\ LeftBehind(s, ok, put)))
                   /\ Arrive(s.go, rest, BaselineAfter(s, ok), FormAfter(s, ok))
              ELSE /\ saves' = rest
                   /\ baseline' = BaselineAfter(s, ok)
                   /\ form' = FormAfter(s, ok)
                   /\ dropped' = (dropped \/ Reseeded(s, ok))
                   /\ excuses' = excuses \cup (IF ~ok /\ (s.some \/ put.stage = "stored") THEN {"stale"} ELSE {})
                                    \cup (IF Reseeded(s, ok) THEN {"reseeded"} ELSE {})
                   /\ UNCHANGED <<at, seeded, raw, synced, ran, dialog, navs>>
  /\ UNCHANGED <<store, fetching, edits, foreign, refusals, sent, lost>>

----------------------------------------------------------------------------
(* Another tab, `jobbunny config set` or `lane add-url` writes a document. *)
OutsideWrite(p, f) ==
  /\ Settled
  /\ foreign < MaxForeign /\ edits < MaxChanges /\ <<p, edits + 1>> \notin Bad
  /\ foreign' = foreign + 1
  /\ edits' = edits + 1
  /\ store' = [store EXCEPT ![p][f] = <<p, edits + 1>>]
  /\ excuses' = excuses \cup {"stale"}
  /\ UNCHANGED <<queries, fetching, at, ran, raw, synced, seeded, form, baseline, saves, puts, dialog,
                 refusals, navs, sent, lost, dropped>>

SettingsInit ==
  /\ store = [p \in Prof |-> [f \in Fields |-> <<p, 0>>]]
  /\ at \in [prof : Prof, section : Opened, doc : {FirstDoc}]
  /\ queries = [p \in Prof |-> [d \in Doc |-> IF p = at.prof THEN TextOf(store[p], d) ELSE NoText]]
  /\ fetching = [p \in Prof |-> [d \in Doc |-> NoText]]
  /\ ran = [d \in Doc |-> NoText] /\ raw = [d \in Doc |-> NoText] /\ synced = [d \in Doc |-> NoText]
  /\ seeded = NoText /\ form = <<>> /\ baseline = <<>>
  /\ saves = {} /\ puts = {} /\ dialog = NoText
  /\ edits = 0 /\ foreign = 0 /\ refusals = 0 /\ navs = 0 /\ sent = 0
  /\ lost = FALSE /\ dropped = FALSE /\ excuses = {}

SettingsNext ==
  \/ Commit
  \/ \E d \in OwnDocs : Fetch(d)
  \/ \E p \in Prof, d \in Doc : Fetched(p, d)
  \/ \E f \in Own : EditField(f)
  \/ SaveForm
  \/ \E put \in puts : StorePut(put) \/ RefusePut(put) \/ LoseAnswer(put) \/ AnswerPut(put)
  \/ \E target \in Prof \cup Opened : Go(target)
  \/ Discard \/ Undo \/ Stay
  \/ \E section \in Opened : Back(section)
  \/ \E d \in Doc : SelectDoc(d)
  \/ \E p \in Prof, f \in Fields : OutsideWrite(p, f)

SettingsSpec == SettingsInit /\ [][SettingsNext]_settingsVars

----------------------------------------------------------------------------
SettingsTypeOK ==
  /\ store \in [Prof -> [Fields -> Prof \X (0 .. MaxChanges)]]
  /\ \A p \in Prof, d \in Doc : queries[p][d] \in Texts(d) \cup {NoText} /\ fetching[p][d] \in Texts(d) \cup {NoText}
  /\ \A d \in Doc : raw[d] \in Texts(d) \cup {NoText} /\ synced[d] \in Prof \cup {NoText}
  /\ at.prof \in Prof /\ at.section \in Opened
  /\ \A put \in puts : \E s \in saves : s.n = put.n
  /\ dialog \in Prof \cup Opened \cup {NoText}

(* What was entered for one profile is never stored in another's            *)
(* documents, whatever the user left, and when.                             *)
OwnProfile == \A p \in Prof, f \in Fields : store[p][f][1] = p

(* A save writes whole documents, yet puts an older value over a newer one *)
(* only when another writer, a save overtaken by a second one or by a      *)
(* change of section, a GET that crossed a save, a lost answer, a save of  *)
(* two documents that stored one, or a discard during a save made its text *)
(* out of date.                                                            *)
LostNeedsCause == lost => excuses \cap {"stale", "left"} # {}

(* An edit is left behind only by the back button, the raw editor's list   *)
(* of documents, "Stay here" while the dialog's save was on its way, or by *)
(* the answer that "Where jobs come from" puts into its form.              *)
DroppedNeedsCause == dropped => excuses \cap {"unguarded", "reseeded"} # {}

(* A section that shows no unsaved change shows what is stored, once its   *)
(* saves are answered and nobody interfered.                               *)
CleanIsStored ==
  (/\ Settled /\ seeded = SeedKey /\ saves = {} /\ ~IsDirty
   /\ excuses \cap {"stale", "left"} = {})
    => \A f \in Own : form[f] = store[at.prof][f]

(* All of it: a settings section writes what was typed for the profile it   *)
(* was typed for, an accepted save is in the document, no edit is dropped   *)
(* without a question, and a clean form shows what is stored.               *)
SettingsSound ==
  SettingsTypeOK /\ OwnProfile /\ LostNeedsCause /\ DroppedNeedsCause /\ CleanIsStored
=============================================================================
