------------------------------- MODULE MCDesk -------------------------------
(***************************************************************************)
(* The browser's side, against the board and the stores behind it:         *)
(* settings, the list of searches, the schedule page, the jobs page, and   *)
(* the cleanup of what runs leave, with the preview of a rule against it.  *)
(*                                                                         *)
(* The parts share no step: a behaviour is of one part, that Init chooses, *)
(* and what is not of the part stays as it begins.                         *)
(***************************************************************************)
EXTENDS Retention, ScheduleDesk, JobDesk, SearchUrls, SettingsDesk

VARIABLE part   \* the part of the project that this behaviour is of

vars == <<part, settingsVars, retentionVars, schedVars, jobsVars, urlVars>>

(* Imported texts of search_urls.md: links ahead of the channel heading and *)
(* under a page heading or none, clean or not, of one page or another.      *)
At(h, links) == [g \in Heading |-> IF g = h THEN links ELSE {}]
ImportedTexts ==
  {[early |-> At(h, a), filed |-> At(g, b), channel |-> c, bad |-> FALSE] :
     h \in Heading, g \in Heading, c \in BOOLEAN,
     a \in {{}, {[page |-> "search", id |-> 1, dirty |-> TRUE]}},
     b \in {{}, {[page |-> "search", id |-> 1, dirty |-> FALSE]},
            {[page |-> "results", id |-> 1, dirty |-> TRUE], [page |-> "search", id |-> 2, dirty |-> TRUE]},
            {[page |-> NoHeading, id |-> 1, dirty |-> FALSE]}}}
  \cup {[early |-> At(NoHeading, {}), filed |-> At("search", {[page |-> "search", id |-> 1, dirty |-> FALSE]}),
         channel |-> TRUE, bad |-> TRUE]}

(* A retention rule that nobody edits and no run that it is about, a page   *)
(* that is not looked at.                                                  *)
QuietRule == RetentionInit /\ ttl = [runs |-> 1, ckpts |-> 1]
QuietSchedule == ScheduleInit /\ \A p \in Profile : config[p].enabled
QuietUrls == SearchUrlsInit /\ doc = [early |-> Nowhere, filed |-> Nowhere, channel |-> TRUE, bad |-> FALSE]
QuietSettings == SettingsInit /\ at.prof = "p" /\ at.section = "schedule"
QuietElse(own) ==
  /\ own = "rule" \/ QuietRule
  /\ own = "schedule" \/ QuietSchedule
  /\ own = "urls" \/ QuietUrls
  /\ own = "settings" \/ QuietSettings

(* The parts with one profile, and with one job. *)
OneProfile == CHOOSE p \in Profile : TRUE
Others == Profile \ {OneProfile}

Init ==
  /\ JobsInit /\ RetentionInit /\ ScheduleInit /\ SearchUrlsInit /\ SettingsInit
  /\ \/ part = "settings" /\ at.section = "schedule" /\ QuietElse("settings")
     \/ part = "settings jobs" /\ at.prof = "p" /\ at.section = "jobs" /\ QuietElse("settings")
     \/ part = "settings pair" /\ at.prof = "q" /\ at.section \in {"schedule", "delivery"} /\ QuietElse("settings")
     \/ part = "settings raw" /\ at.prof = "q" /\ at.section = "raw" /\ QuietElse("settings")
     \/ part = "urls" /\ QuietElse("urls")
     \/ part = "schedules" /\ QuietElse("schedule")
     \/ part = "schedule" /\ (\A p \in Others : ~config[p].enabled) /\ QuietElse("schedule")
     \/ part \in {"job", "jobs"} /\ QuietElse("jobs")
     \/ part = "cleanup" /\ QuietElse("rule")

(* What no check takes: the second value typed for one of the profiles.    *)
Unwanted == {<<"q", 2>>}

(* Two profiles and one form, beside another writer; the form that takes    *)
(* its answer in; two forms of one document; a form and the raw editor.     *)
SettingsBounds ==
  /\ part = "settings" =>
       /\ at'.section = "schedule" /\ dialog' \notin Opened /\ refusals' = 0
       /\ foreign' = foreign \/ \A p \in Prof, f \in Fields \ ScheduleForm : store'[p][f] = store[p][f]
  /\ part = "settings jobs" => at' = at /\ dialog' = NoText /\ navs' = 0 /\ foreign' = 0
  /\ part = "settings pair" =>
       /\ at'.prof = "q" /\ at'.section \in {"schedule", "delivery"}
       /\ dialog' \in {"schedule", "delivery", NoText} /\ foreign' = 0 /\ refusals' = 0
  /\ part = "settings raw" =>
       /\ at'.prof = "q" /\ at'.section \in {"jobs", "raw"} /\ dialog' \in {"jobs", "raw", NoText}
       /\ navs' <= 1 /\ foreign' = 0 /\ refusals' = 0 /\ fetching'["q"]["urls"] = NoText
       /\ \A f \in ScheduleForm \cup Delivery : f \in DOMAIN form' => form'[f][2] = 0
SettingsStep ==
  /\ part \in {"settings", "settings jobs", "settings pair", "settings raw"}
  /\ SettingsNext /\ SettingsBounds
  /\ UNCHANGED <<part, retentionVars, schedVars, jobsVars, urlVars>>

UrlsStep ==
  /\ part = "urls"
  /\ SearchUrlsNext
  /\ UNCHANGED <<part, settingsVars, retentionVars, schedVars, jobsVars>>

(* Two profiles with two presses and no failures; or one profile, the other *)
(* one paused for good.                                                    *)
ScheduleBounds ==
  /\ part = "schedules" => presses' <= 2 /\ putFails' = 0
  /\ part = "schedule" => /\ presses' + putFails' <= 3
                          /\ \A p \in Others : config'[p] = config[p]
                          /\ \A c \in changes' : c.kind = "all" \/ c.prof = OneProfile
ScheduleStep ==
  /\ part \in {"schedules", "schedule"}
  /\ ScheduleNext /\ ScheduleBounds
  /\ UNCHANGED <<part, settingsVars, retentionVars, jobsVars, urlVars>>

(* Two jobs with one value typed and no failures; or edits of one job only. *)
JobBounds ==
  /\ part = "jobs" => refused' = 0 /\ reads' <= 2 /\ Cardinality({n \in Value : owner'[n] # Absent}) <= 1 + outside'
  /\ part = "job" => /\ sel' = sel /\ reads' <= 2
                     /\ \A p \in patches' : p.job = sel
                     /\ \A n \in Value : owner'[n] \in {sel, Absent}
JobStep ==
  /\ part \in {"job", "jobs"}
  /\ JobsNext /\ JobBounds
  /\ UNCHANGED <<part, settingsVars, retentionVars, schedVars, urlVars>>

CleanupStep ==
  /\ part = "cleanup"
  /\ RetentionNext
  /\ UNCHANGED <<part, settingsVars, schedVars, jobsVars, urlVars>>

Next ==
  \/ SettingsStep \/ UrlsStep \/ ScheduleStep \/ JobStep \/ CleanupStep

Spec == Init /\ [][Next]_vars

-----------------------------------------------------------------------------
(* What no step does, but for the causes named: launch a paused profile;    *)
(* put an earlier choice over a later one; lose a link of the search list.  *)
StepsSound ==
  /\ PauseHonoured
  /\ StoredForward
  /\ LinksKept
=============================================================================
