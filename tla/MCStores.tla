------------------------------ MODULE MCStores ------------------------------
(***************************************************************************)
(* What is stored and what is decided about it: the job stores, the        *)
(* company registry, the decisions on a job, the failure notice, the move  *)
(* of the data home, and a release.                                        *)
(*                                                                         *)
(* The parts share no step: a behaviour is of one part, that Init chooses, *)
(* and what is not of the part stays as it begins.                         *)
(***************************************************************************)
EXTENDS JobStores, CompanyRegistry, JobDecisions, HomeMove, FailureNotice, Release, TLC

CONSTANT Parts  \* the parts to check

VARIABLE part   \* the part of the project that this behaviour is of

vars == <<part, decisionVars, storeVars, registryVars, moveVars, noticeVars, releaseVars>>

(* No definition of JobStores tells one job from another by its name.       *)
Alike == Permutations(Job)

Wired == <<"greenhouse", "keka">>

(* Inputs for JobDecisions: three jobs that may be each other's duplicates, *)
(* and two jobs under every kind of filter and preference.                  *)
FuzzyOf == [r \in {"react dev", "React-dev", "ml"} |-> IF r = "ml" THEN "ml" ELSE "react dev"]

Plain == [id |-> "i1", role |-> "ml", company |-> "acme", city |-> Unset, title |-> {"frontend"},
          workType |-> "onsite", timezone |-> Unset, skills |-> {"react"}, seniority |-> "Lead"]

Preferences ==
  [primary |-> {"react"}, secondary |-> {"css"}, primaryPoints |-> 2, secondaryPoints |-> 1,
   denomMin |-> 3, denomMax |-> 8, domain |-> {"frontend"}, targets |-> {"Lead"},
   acceptable |-> {"APAC"}, home |-> {"Pune"}, preference |-> [onsite |-> 10, hybrid |-> 5, remote |-> 13],
   penalty |-> 5]

NoFilter == [title |-> {}, avoid |-> Unset, locations |-> Unset, timezones |-> Unset, skills |-> Unset]

Twins == {[Plain EXCEPT !.id = id, !.role = role, !.city = city] :
            id \in {"i1", "i2"}, role \in {"react dev", "React-dev"}, city \in {Unset, "Pune", "Delhi"}}

DedupInputs ==
  {[jobs |-> <<a, b, c>>, cache |-> cache, filter |-> NoFilter, rank |-> Preferences] :
     a \in Twins, b \in Twins, c \in Twins,
     cache \in {{}, {[Plain EXCEPT !.id = Unset, !.role = "react dev", !.city = "Pune"]}}}

Filters ==
  {[title |-> title, avoid |-> avoid, locations |-> locations, timezones |-> timezones, skills |-> skills] :
     title \in {{}, {[name |-> "title.domain", match |-> {"frontend"}, reject |-> {"intern"}, severity |-> "hard"]},
                {[name |-> "title.domain", match |-> {}, reject |-> {"intern"}, severity |-> "soft"]}},
     avoid \in {Unset, {"acme"}},
     locations \in {Unset, {[city |-> "Pune", workTypes |-> {"onsite", "remote"}]}},
     timezones \in {Unset, [accept |-> {"APAC"}, severity |-> "soft"]},
     skills \in {[core |-> {"react", "css"}, minMatch |-> 2, severity |-> sev] : sev \in {"hard", "soft"}}}

Postings ==
  {[Plain EXCEPT !.title = title, !.city = city, !.workType = workType, !.timezone = timezone, !.skills = skills] :
     title \in {{"frontend"}, {"frontend", "intern"}}, city \in {Unset, "Delhi"},
     workType \in {Unset, "onsite", "remote"}, timezone \in {Unset, "EMEA"},
     skills \in {{}, {"react", "css"}}}

FilterInputs ==
  {[jobs |-> <<job, [Plain EXCEPT !.id = "i2", !.role = "react dev"]>>, cache |-> {},
    filter |-> filter, rank |-> [Preferences EXCEPT !.domain = domain]] :
     job \in Postings, filter \in Filters, domain \in {{}, {"frontend"}}}

(* What there is to decide about in a behaviour of another part. *)
NoJobs == [jobs |-> <<>>, cache |-> {}, filter |-> NoFilter, rank |-> Preferences]

AllInputs == DedupInputs \cup FilterInputs \cup {NoJobs}

(* Jobs, a registry, decisions, a checkout, a record of failures and a     *)
(* release that nothing happens to.                                        *)
Undecided == DecisionsInit /\ input = NoJobs
Unmoved == MoveInit /\ source = [i \in Item |-> None] /\ ~daemon
Quiet == NoticeInit /\ ReleaseInit /\ StoresInit
Still == RegistryInit /\ Unmoved /\ Quiet

Init ==
  \/ part = "decisions" /\ "decisions" \in Parts /\ DecisionsInit /\ Still
  \/ part \in {"jobs", "registry", "notice", "release"} \cap Parts /\ Still /\ Undecided
  \/ part = "move" /\ "move" \in Parts /\ MoveInit /\ RegistryInit /\ Quiet /\ Undecided

DecideStep == part = "decisions" /\ UNCHANGED <<part, storeVars, registryVars, moveVars, noticeVars, releaseVars>> /\ DecisionsNext
JobsStep == part = "jobs" /\ UNCHANGED <<part, decisionVars, registryVars, moveVars, noticeVars, releaseVars>> /\ StoresNext
RegistryStep == part = "registry" /\ UNCHANGED <<part, decisionVars, storeVars, moveVars, noticeVars, releaseVars>> /\ RegistryNext
MoveStep == part = "move" /\ UNCHANGED <<part, decisionVars, storeVars, registryVars, noticeVars, releaseVars>> /\ MoveNext
NoticeStep == part = "notice" /\ UNCHANGED <<part, decisionVars, storeVars, registryVars, moveVars, releaseVars>> /\ NoticeNext
ReleaseStep == part = "release" /\ UNCHANGED <<part, decisionVars, storeVars, registryVars, moveVars, noticeVars>> /\ ReleaseNext

Next ==
  \/ JobsStep \/ DecideStep \/ RegistryStep \/ MoveStep \/ NoticeStep \/ ReleaseStep

Spec == Init /\ [][Next]_vars

=============================================================================
