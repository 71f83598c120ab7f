------------------------------- MODULE JobDesk ------------------------------
(***************************************************************************)
(* A job's tracking (its status, and text such as the notes) as the board  *)
(* edits it: the optimistic patches of ui/src/features/board/useTracking.ts *)
(* from the triage list and the job's panel, the cached list and details   *)
(* they write to, and the handlers that merge a patch into the tracking    *)
(* row (src/app/features/board, src/adapters/db/sqlite/board/board.ts).    *)
(*                                                                         *)
(* The values of a field are numbered in the order the users chose or      *)
(* typed them; 0 is what was there at first.                               *)
(***************************************************************************)
EXTENDS Naturals, FiniteSets

CONSTANTS
  Job,
  Absent,
  MaxTyped,    \* bound: values chosen or typed in this window
  MaxOutside,  \* bound: edits from another window, and jobs archived
  MaxSends,    \* bound: patches of a job
  MaxReads,    \* bound: times a list or a job is read
  MaxRefused   \* bound: requests that fail

VARIABLES
  row,      \* row[j]: the tracking row in jobbunny.db
  open,     \* the jobs that are not archived
  list,     \* the cached list, a function of the jobs on it
  detail,   \* detail[j]: the cached job, Absent before its first answer
  fetch,    \* fetch[j]: the answer that is on its way, or Absent
  sel,      \* the selected job
  text,     \* the panel's text, Absent without a panel
  patches,  \* the patches in flight
  owner,    \* owner[n]: the job value n was chosen for, Absent when not in use
  order,    \* order[j]: how often j's row was written
  shown,    \* shown[j]: the write of j the cached detail shows
  outside, reads, refused,
  flagged,  \* observability: fields written from elsewhere, or by two patches at once
  stale     \* observability: stale[j], why j's detail may be out of date

jobsVars == <<row, open, list, detail, fetch, sel, text, patches, owner, order, shown, outside, reads, refused, flagged, stale>>

Field == {"status", "notes"}
Value == 0 .. MaxTyped + MaxOutside
Row == [Field -> Value]

(* The jobs are finite, and what is absent is told from what is there.      *)
ASSUME JobDeskAssumption ==
  /\ IsFiniteSet(Job) /\ MaxTyped \in Nat /\ MaxOutside \in Nat
  /\ Absent \notin Job /\ Absent \notin Nat /\ Absent \notin Row
  /\ Absent \notin [row : Row, order : Nat]

New == Cardinality({n \in Value : owner[n] # Absent}) + 1

----------------------------------------------------------------------------
(* The caches                                                              *)

(* readTracking: the detail when it is cached, else the list's row. *)
Tracking(j) == IF detail[j] # Absent THEN detail[j]
               ELSE IF j \in DOMAIN list THEN list[j] ELSE [f \in Field |-> 0]

(* write, of useTrackingMutation: both caches, where they hold the job. *)
WrittenBoth(j, r) ==
  /\ detail' = IF detail[j] = Absent THEN detail ELSE [detail EXCEPT ![j] = r]
  /\ list' = IF j \in DOMAIN list THEN [list EXCEPT ![j] = r] ELSE list

Rank(js) == CHOOSE f \in [js -> 1 .. Cardinality(js)] : \A a, b \in js : a # b => f[a] # f[b]
FirstOf(js) == IF js = {} THEN Absent ELSE CHOOSE j \in js : \A o \in js : Rank(Job)[j] <= Rank(Job)[o]

(* Mutant of Seeded: the panel takes its text once.                         *)
SeededOnce(j, d) == IF j = Absent \/ d[j] = Absent THEN Absent ELSE IF text = Absent THEN d[j]["notes"] ELSE text

(* The panel is shown once the job's detail is there, and takes its text    *)
(* from it when the job changes, not when the detail does.                  *)
Seeded(j, d) ==
  IF j = Absent \/ d[j] = Absent THEN Absent
  ELSE IF j = sel /\ text # Absent THEN text ELSE d[j]["notes"]

Rivals(j, field) == {p \in patches : p.job = j /\ p.field = field}

(* The panel takes its text from a detail that is out of date, or about to be. *)
SeededLate(j, d) ==
  IF Seeded(j, d) = Absent \/ (j = sel /\ text # Absent) THEN {}
  ELSE IF {row[j]["notes"]} \cup {p.value : p \in Rivals(j, "notes")} = {Seeded(j, d)} THEN {} ELSE {<<j, "notes">>}

(* GET /jobs, whenever the list may be stale and after every patch: the      *)
(* selected job is kept while it is on the list; else the first is.          *)
ReadList ==
  LET next == IF sel # Absent /\ sel \in open THEN sel ELSE FirstOf(open)
  IN  /\ reads < MaxReads /\ reads' = reads + 1
      /\ list' = [j \in open |-> row[j]]
      /\ sel' = next /\ text' = Seeded(next, detail)
      /\ flagged' = flagged \cup SeededLate(next, detail)
      /\ UNCHANGED <<row, open, detail, fetch, patches, owner, order, shown, outside, refused, stale>>

AskDetail ==
  /\ sel # Absent /\ fetch[sel] = Absent
  /\ reads < MaxReads /\ reads' = reads + 1
  /\ fetch' = [fetch EXCEPT ![sel] = [row |-> row[sel], order |-> order[sel]]]
  /\ UNCHANGED <<row, open, list, detail, sel, text, patches, owner, order, shown, outside, refused, flagged, stale>>

(* What the cause of an out-of-date detail becomes when r, the answer to    *)
(* j's write n, is put in the cache.                                        *)
CauseAfter(j, n) == IF n = order[j] THEN {} ELSE IF n < shown[j] THEN stale[j] \cup {"overtaken"} ELSE stale[j]

DetailAnswered(j) ==
  /\ fetch[j] # Absent
  /\ detail' = [detail EXCEPT ![j] = fetch[j].row]
  /\ fetch' = [fetch EXCEPT ![j] = Absent]
  /\ text' = Seeded(sel, detail')
  /\ flagged' = flagged \cup SeededLate(sel, detail')
  /\ shown' = [shown EXCEPT ![j] = fetch[j].order]
  /\ stale' = [stale EXCEPT ![j] = CauseAfter(j, fetch[j].order)]
  /\ UNCHANGED <<row, open, list, sel, patches, owner, order, outside, reads, refused>>

----------------------------------------------------------------------------
(* Editing                                                                 *)

Contested(rivals) == (patches \ rivals) \cup {[p EXCEPT !.rival = TRUE] : p \in rivals}

(* mutate, and its onMutate: what is on its way of the job and of the lists *)
(* is cancelled, and both caches take the patch before it is sent.          *)
Mutated(j, field, value, late) ==
  LET base == Tracking(j)
      rivals == Rivals(j, field)
      patch == [job |-> j, field |-> field, value |-> value, base |-> base, at |-> 0, answer |-> Absent, rival |-> rivals # {} \/ base[field] # row[j][field]]
  IN  /\ patch \notin patches /\ Cardinality(patches) + order[j] + refused < MaxSends + outside
      /\ patches' = {patch} \cup Contested(rivals)
      /\ flagged' = flagged \cup late \cup (IF rivals = {} THEN {} ELSE {<<j, field>>})
      /\ fetch' = [fetch EXCEPT ![j] = Absent]
      /\ WrittenBoth(j, [base EXCEPT ![field] = value])

(* decide, the panel's Select, and a card dropped on another column. *)
ChooseStatus(j) ==
  /\ j \in DOMAIN list /\ New <= MaxTyped + outside
  /\ owner' = [owner EXCEPT ![New] = j]
  /\ Mutated(j, "status", New, {})
  /\ UNCHANGED <<row, open, text, sel, order, shown, outside, reads, refused, stale>>

(* nextUndecided, from the rows after the decided one round to it. *)
Undecided(j) == {o \in DOMAIN list \ {j} : list[o]["status"] = 0}

Decide ==
  /\ sel # Absent /\ sel \in DOMAIN list /\ New <= MaxTyped + outside
  /\ owner' = [owner EXCEPT ![New] = sel]
  /\ \E next \in IF Undecided(sel) = {} THEN {sel} ELSE Undecided(sel) :
       /\ sel' = next /\ text' = Seeded(next, detail)
       /\ Mutated(sel, "status", New, SeededLate(next, detail))
  /\ UNCHANGED <<row, open, order, shown, outside, reads, refused, stale>>

Type ==
  /\ text # Absent /\ New <= MaxTyped + outside
  /\ owner' = [owner EXCEPT ![New] = sel]
  /\ text' = New
  /\ UNCHANGED <<row, open, list, detail, fetch, sel, patches, order, shown, outside, reads, refused, flagged, stale>>

(* fieldPatch: nothing is sent for a text that is what the cache holds. *)
FieldPatch == text # Absent /\ text # detail[sel]["notes"]

Blur ==
  /\ FieldPatch
  /\ Mutated(sel, "notes", text, {})
  /\ UNCHANGED <<row, open, sel, text, owner, order, shown, outside, reads, refused, stale>>

(* A click on another row leaves the field first: see Blur. *)
Select(j) ==
  /\ j \in DOMAIN list \ {sel} /\ ~FieldPatch
  /\ sel' = j /\ text' = Seeded(j, detail)
  /\ flagged' = flagged \cup SeededLate(j, detail)
  /\ UNCHANGED <<row, open, list, detail, fetch, patches, owner, order, shown, outside, reads, refused, stale>>

----------------------------------------------------------------------------
(* PATCH /jobs/:id/tracking                                                *)

(* Mutant of Merged: the row is written as the page had it.                 *)
MergedWhole(r, p) == [p.base EXCEPT ![p.field] = p.value]

(* mergeFields *)
Merged(r, p) == [r EXCEPT ![p.field] = p.value]

(* The requests are handled in whatever order they come through.           *)
Store(p) ==
  /\ p.at = 0
  /\ row' = [row EXCEPT ![p.job] = Merged(@, p)]
  /\ order' = [order EXCEPT ![p.job] = @ + 1]
  /\ patches' = (patches \ {p}) \cup {[p EXCEPT !.at = order[p.job] + 1, !.answer = row'[p.job]]}
  /\ UNCHANGED <<open, list, detail, fetch, sel, text, owner, shown, outside, reads, refused, flagged, stale>>

(* onSuccess; the lists are read anew after it: see ReadList. *)
Stored(p) ==
  /\ p.at > 0
  /\ patches' = patches \ {p}
  /\ WrittenBoth(p.job, p.answer)
  /\ shown' = [shown EXCEPT ![p.job] = p.at]
  /\ stale' = [stale EXCEPT ![p.job] = CauseAfter(p.job, p.at)]
  /\ UNCHANGED <<row, open, fetch, sel, text, owner, order, outside, reads, refused, flagged>>

(* Mutant of RolledBack: the row is put back as it was before the patch.    *)
RolledBackWhole(p) == p.base

(* onError: the field is put back, in the row as it stands. *)
RolledBack(p) == [Tracking(p.job) EXCEPT ![p.field] = p.base[p.field]]

(* A patch fails, and was stored or not. *)
PatchFails(p) ==
  /\ refused < MaxRefused
  /\ refused' = refused + 1
  /\ patches' = patches \ {p}
  /\ WrittenBoth(p.job, RolledBack(p))
  /\ stale' = [stale EXCEPT ![p.job] = @ \cup (IF p.at > 0 THEN {"lost"} ELSE {}) \cup (IF p.rival THEN {"rival"} ELSE {})]
  /\ UNCHANGED <<row, open, fetch, sel, text, owner, order, shown, outside, reads, flagged>>

----------------------------------------------------------------------------
(* Another window edits the job, or a run archives it. *)
EditElsewhere(j, field) ==
  /\ outside < MaxOutside
  /\ outside' = outside + 1
  /\ owner' = [owner EXCEPT ![New] = j]
  /\ row' = [row EXCEPT ![j][field] = New]
  /\ order' = [order EXCEPT ![j] = @ + 1]
  /\ flagged' = flagged \cup {<<j, field>>}
  /\ patches' = Contested(Rivals(j, field))
  /\ stale' = [stale EXCEPT ![j] = @ \cup {"outside"}]
  /\ UNCHANGED <<open, list, detail, fetch, sel, text, shown, reads, refused>>

Archive(j) ==
  /\ outside < MaxOutside /\ j \in open
  /\ outside' = outside + 1
  /\ open' = open \ {j}
  /\ UNCHANGED <<row, list, detail, fetch, sel, text, patches, owner, order, shown, reads, refused, flagged, stale>>

JobsInit ==
  /\ row = [j \in Job |-> [f \in Field |-> 0]]
  /\ open = Job /\ list = row
  /\ detail = [j \in Job |-> Absent] /\ fetch = [j \in Job |-> Absent]
  /\ sel = FirstOf(Job) /\ text = Absent
  /\ patches = {} /\ owner = [n \in Value \cup {MaxTyped + MaxOutside + 1} |-> Absent]
  /\ order = [j \in Job |-> 0] /\ shown = [j \in Job |-> 0]
  /\ outside = 0 /\ reads = 0 /\ refused = 0 /\ flagged = {} /\ stale = [j \in Job |-> {}]

JobsNext ==
  \/ ReadList \/ AskDetail \/ Decide \/ Type \/ Blur
  \/ \E j \in Job : DetailAnswered(j) \/ ChooseStatus(j) \/ Select(j) \/ Archive(j) \/ \E f \in Field : EditElsewhere(j, f)
  \/ \E p \in patches : Store(p) \/ Stored(p) \/ PatchFails(p)

JobsSpec == JobsInit /\ [][JobsNext]_jobsVars

----------------------------------------------------------------------------
JobsTypeOK ==
  /\ row \in [Job -> Row] /\ open \subseteq Job /\ DOMAIN list \subseteq Job
  /\ \A j \in Job : detail[j] \in Row \cup {Absent}
  /\ sel \in Job \cup {Absent} /\ text \in Value \cup {Absent}
  /\ text # Absent => sel # Absent /\ detail[sel] # Absent

(* A text or a status is only ever stored for the job it was typed or       *)
(* chosen for, however the selection moves: by a click, by a decision, or   *)
(* because the job left the list.                                           *)
OwnJob == \A j \in Job, f \in Field : row[j][f] # 0 => owner[row[j][f]] = j

(* What is stored never goes back to an earlier choice, unless another      *)
(* window wrote that field or the panel took its text from a detail that    *)
(* was out of date (the text is not renewed with the detail, and to leave   *)
(* the field untouched then sends it), or two patches of that field were in *)
(* flight at once (their order on the server is open).                      *)
StoredForwardStep == \A j \in Job, f \in Field : row'[j][f] < row[j][f] => <<j, f>> \in flagged
StoredForward == [][StoredForwardStep]_jobsVars

(* With nothing of the job in flight its detail shows what is stored,       *)
(* unless another window wrote it, the answer of a stored patch was lost,   *)
(* one of two patches of one field failed (the earlier value comes back     *)
(* over the later one), or an older answer came after a newer one: the      *)
(* lists are read again after every patch, the detail is not.               *)
ShownIsStored ==
  \A j \in Job : detail[j] # Absent /\ fetch[j] = Absent /\ stale[j] = {} /\ (\A p \in patches : p.job # j)
                   => detail[j] = row[j]

(* All of it: a text goes to its own job, and what is shown is stored. *)
JobsSound == JobsTypeOK /\ OwnJob /\ ShownIsStored
=============================================================================
