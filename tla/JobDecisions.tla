----------------------------- MODULE JobDecisions ----------------------------
(***************************************************************************)
(* What the pipeline decides of a job: the card gate and the filter        *)
(* (src/core/filter), dedup (src/core/dedup) and rank (src/core/rank), run *)
(* by the stages filter, dedup and rank over a table of jobs and again by  *)
(* hand with `jobbunny stage`.                                             *)
(*                                                                         *)
(* Texts are tokens already folded by normalizeToken and companyKey; a     *)
(* role is what exactKey keeps of title and company, Fuzzy[role] what      *)
(* fuzzyKey keeps.  Weights are in halves and tenths, to stay integers.    *)
(***************************************************************************)
EXTENDS Naturals, Sequences, FiniteSets

CONSTANTS
  Inputs,      \* [jobs, cache, filter, rank] to decide about
  Fuzzy,       \* a function of the roles
  Unset,       \* an absent part of the configuration
  MaxStages    \* bound: stages run by hand

VARIABLES
  input,
  stage,     \* the stage that runs, or "end"
  next,      \* the job it has come to
  remaining, \* the jobs that are left, by their index in input.jobs
  kept,      \* jobs dedup has kept so far
  origin,    \* what dedup dropped a job for: 0 for the cache, or the index of a job
  soft,      \* soft verdicts a job has failed, by index
  score,     \* by index, once ranked
  stages,    \* stages run by hand
  refiltered \* observability: the filter has run twice over the table

decisionVars == <<input, stage, next, remaining, kept, origin, soft, score, stages, refiltered>>

Jobs == input.jobs
Cfg == input.filter
Rank == input.rank
Index == DOMAIN Jobs

Option(S) == S \cup {Unset}
WorkType == {"onsite", "hybrid", "remote"}
Severity == {"hard", "soft"}
Texts == SUBSET STRING

JD ==
  [id : Option(STRING), role : DOMAIN Fuzzy, company : STRING, city : Option(STRING), title : Texts,
   workType : Option(WorkType), timezone : Option(STRING), skills : Texts, seniority : Option(STRING)]

FilterConfig ==
  [title : SUBSET [name : STRING, match : Texts, reject : Texts, severity : Severity],
   avoid : Option(Texts),
   locations : Option(SUBSET [city : STRING, workTypes : SUBSET WorkType]),
   timezones : Option([accept : Texts, severity : Severity]),
   skills : Option([core : Texts, minMatch : Nat \ {0}, severity : Severity])]

RankConfig ==
  [primary : Texts, secondary : Texts, primaryPoints : Nat, secondaryPoints : Nat,
   denomMin : Nat \ {0}, denomMax : Nat \ {0}, domain : Texts, targets : Texts,
   acceptable : Texts, home : Texts, preference : [WorkType -> Nat], penalty : Nat]

(* Jobs, their skills and the rules are finite lists. *)
ASSUME DecisionsAssumption ==
  \A i \in Inputs :
    /\ i.jobs \in Seq(JD) /\ i.filter \in FilterConfig /\ i.rank \in RankConfig
    /\ IsFiniteSet(i.filter.title) /\ \A k \in DOMAIN i.jobs : IsFiniteSet(i.jobs[k].skills)

DecisionsInit ==
  /\ input \in Inputs
  /\ stage = "filter" /\ next = 1
  /\ remaining = Index
  /\ kept = {} /\ origin = <<>>
  /\ soft = [k \in Index |-> 0]
  /\ score = [k \in Index |-> Unset]
  /\ stages = 0 /\ refiltered = FALSE

----------------------------------------------------------------------------
(* Filter: the verdicts of a job are a set, one of each rule that applies *)

Hits(tokens, title) == tokens \cap title # {}

(* evalMatchRule *)
MatchRule(rule, title) ==
  [rule |-> rule.name, severity |-> rule.severity,
   pass |-> ~Hits(rule.reject, title) /\ (rule.match = {} \/ Hits(rule.match, title))]

TitleRule(job) == {MatchRule(rule, job.title) : rule \in Cfg.title}

CompanyRule(job) ==
  IF Cfg.avoid = Unset THEN {}
  ELSE {[rule |-> "company", severity |-> "hard", pass |-> job.company \notin Cfg.avoid]}

(* A work type nobody knows passes; without a city any entry will do. *)
LocationRule(job) ==
  IF Cfg.locations = Unset THEN {}
  ELSE {[rule |-> "location", severity |-> "hard",
         pass |-> \/ job.workType = Unset
                  \/ \E entry \in Cfg.locations :
                       /\ job.workType \in entry.workTypes
                       /\ job.city # Unset => entry.city \in {"*", job.city}]}

TimezoneRule(job) ==
  IF job.workType # "remote" \/ job.timezone = Unset \/ Cfg.timezones = Unset THEN {}
  ELSE {[rule |-> "timezone", severity |-> Cfg.timezones.severity, pass |-> job.timezone \in Cfg.timezones.accept]}

SkillsRule(job) ==
  IF Cfg.skills = Unset THEN {}
  ELSE {[rule |-> "skills", severity |-> Cfg.skills.severity,
         pass |-> Cardinality(Cfg.skills.core \cap job.skills) >= Cfg.skills.minMatch]}

Evaluate(job) ==
  TitleRule(job) \cup CompanyRule(job) \cup LocationRule(job) \cup TimezoneRule(job) \cup SkillsRule(job)

(* Mutant of EvaluateCard: the gate asks for the skills too, which no card  *)
(* tells.                                                                   *)
EvaluateCardBySkills(job) ==
  TitleRule(job) \cup CompanyRule(job) \cup SkillsRule([job EXCEPT !.skills = {}])

(* What can be told from a card. *)
EvaluateCard(job) == TitleRule(job) \cup CompanyRule(job)

Failed(verdicts, severity) == {v \in verdicts : v.severity = severity /\ ~v.pass}

Decide(verdicts) == IF Failed(verdicts, "hard") # {} THEN "drop" ELSE "keep"

SoftFails(job) == Cardinality(Failed(Evaluate(job), "soft"))

(* The stage, for its next job.  Verdicts are added to those it had. *)
FilterJob ==
  /\ stage = "filter" /\ next <= Len(Jobs)
  /\ next' = next + 1
  /\ IF next \notin remaining THEN UNCHANGED <<remaining, soft>>
     ELSE IF Decide(Evaluate(Jobs[next])) = "drop"
       THEN remaining' = remaining \ {next} /\ UNCHANGED soft
     ELSE soft' = [soft EXCEPT ![next] = @ + SoftFails(Jobs[next])] /\ UNCHANGED remaining
  /\ UNCHANGED <<input, stage, kept, origin, score, stages, refiltered>>

----------------------------------------------------------------------------
(* Dedup *)

(* Mutant of Conflict: a city nobody knows differs from every city. *)
ConflictIfUnknown(a, b) == a = Unset \/ b = Unset \/ a # b

(* citiesConflict *)
Conflict(a, b) == a # Unset /\ b # Unset /\ a # b

(* dedupe: the same id, or the same role in no other city *)
SameAs(job, other) ==
  \/ job.id = other.id
  \/ /\ job.role = other.role \/ Fuzzy[job.role] = Fuzzy[other.role]
     /\ ~Conflict(job.city, other.city)

(* What a job is a duplicate of: rows of the cache come before jobs of the  *)
(* run.                                                                     *)
Origins(job) ==
  IF \E entry \in input.cache : SameAs(job, entry) THEN {0}
  ELSE {k \in kept : SameAs(job, Jobs[k])}

(* Mutant of DedupJob: a job is indexed before it is looked up, and so are  *)
(* those that are dropped.                                                  *)
DedupJobIndexingAll ==
  /\ stage = "dedup" /\ next <= Len(Jobs)
  /\ next' = next + 1
  /\ IF next \notin remaining THEN UNCHANGED <<remaining, kept, origin>>
     ELSE IF Origins(Jobs[next]) = {} THEN kept' = kept \cup {next} /\ UNCHANGED <<remaining, origin>>
     ELSE /\ remaining' = remaining \ {next} /\ kept' = kept \cup {next}
          /\ \E o \in Origins(Jobs[next]) : origin' = Append(origin, [job |-> next, of |-> o])
  /\ UNCHANGED <<input, stage, soft, score, stages, refiltered>>

DedupJob ==
  /\ stage = "dedup" /\ next <= Len(Jobs)
  /\ next' = next + 1
  /\ IF next \notin remaining THEN UNCHANGED <<remaining, kept, origin>>
     ELSE IF Origins(Jobs[next]) = {} THEN kept' = kept \cup {next} /\ UNCHANGED <<remaining, origin>>
     ELSE /\ remaining' = remaining \ {next} /\ UNCHANGED kept
          /\ \E o \in Origins(Jobs[next]) : origin' = Append(origin, [job |-> next, of |-> o])
  /\ UNCHANGED <<input, stage, soft, score, stages, refiltered>>

----------------------------------------------------------------------------
(* Rank *)

Clamp(n, low, high) == IF n < low THEN (IF low < high THEN low ELSE high) ELSE IF n > high THEN high ELSE n
RoundDiv(a, b) == (2 * a + b) \div (2 * b)

(* computeSkills: weights in halves *)
SkillPoints(job) ==
  IF job.skills = {} THEN 0
  ELSE LET primary == Cardinality(job.skills \cap Rank.primary)
           secondary == Cardinality(job.skills \cap (Rank.secondary \ Rank.primary))
           weight == primary * Rank.primaryPoints + secondary * Rank.secondaryPoints
           denom == 2 * Clamp(Cardinality(job.skills), Rank.denomMin, Rank.denomMax)
       IN RoundDiv(Clamp(weight, 0, denom) * 40, denom)

(* computeTitle *)
TitlePoints(job) ==
  IF Rank.domain = {} THEN 8 ELSE IF Hits(Rank.domain, job.title) THEN 15 ELSE 0

(* computeSeniority *)
SeniorityPoints(job) == IF job.seniority \in Rank.targets THEN 15 ELSE 0

(* computeLocation: preferences in tenths *)
LocationPoints(job) ==
  IF job.workType = Unset THEN 0
  ELSE LET base == IF job.workType = "remote"
                     THEN IF job.timezone \in Rank.acceptable THEN 20 ELSE 10
                   ELSE IF job.city \in Rank.home THEN 20 ELSE 0
       IN RoundDiv(base * Rank.preference[job.workType], 10)

(* scoreJob, given the soft verdicts that failed *)
ScoreJob(job, fails) ==
  LET points == SkillPoints(job) + TitlePoints(job) + SeniorityPoints(job) + LocationPoints(job) + 5
      penalty == fails * Rank.penalty
  IN IF penalty > points THEN 0 ELSE Clamp(points - penalty, 0, 100)

(* Mutant of RankJobs: every failed verdict of the jobs of the run counts.  *)
RankJobsTogether ==
  /\ stage = "rank"
  /\ score' = [k \in Index |-> IF k \notin remaining THEN score[k]
                               ELSE ScoreJob(Jobs[k], Cardinality({h \in Index : soft[h] > 0}))]
  /\ stage' = "end" /\ next' = 1
  /\ UNCHANGED <<input, remaining, kept, origin, soft, stages, refiltered>>

RankJobs ==
  /\ stage = "rank"
  /\ score' = [k \in Index |-> IF k \in remaining THEN ScoreJob(Jobs[k], soft[k]) ELSE score[k]]
  /\ stage' = "end" /\ next' = 1
  /\ UNCHANGED <<input, remaining, kept, origin, soft, stages, refiltered>>

----------------------------------------------------------------------------
(* On to the stage after this one, and past the end of the run a stage by   *)
(* hand, over what the last one left.                                       *)
StageEnds ==
  /\ stage \in {"filter", "dedup"} /\ next > Len(Jobs)
  /\ stage' = IF stages > 0 THEN "end" ELSE IF stage = "filter" THEN "dedup" ELSE "rank"
  /\ next' = 1
  /\ UNCHANGED <<input, remaining, kept, origin, soft, score, stages, refiltered>>

StageByHand ==
  /\ stage = "end" /\ stages < MaxStages
  /\ stage' \in {"filter", "dedup", "rank"}
  /\ stages' = stages + 1 /\ next' = 1
  /\ kept' = {}
  /\ refiltered' = (refiltered \/ stage' = "filter")
  /\ UNCHANGED <<input, remaining, origin, soft, score>>

DecisionsNext == FilterJob \/ DedupJob \/ RankJobs \/ StageEnds \/ StageByHand

DecisionsSpec == DecisionsInit /\ [][DecisionsNext]_decisionVars

----------------------------------------------------------------------------
(* Properties *)

(* Type correctness of what is decided about and of what has been decided.  *)
DecisionsTypeOK ==
  /\ \A k \in Index : Jobs[k] \in JD
  /\ Cfg \in FilterConfig /\ Rank \in RankConfig
  /\ stage \in {"filter", "dedup", "rank", "end"} /\ next \in 1..(Len(Jobs) + 1)
  /\ remaining \subseteq Index /\ kept \subseteq Index
  /\ \A k \in Index : soft[k] \in Nat /\ score[k] \in Option(0..100)

(* A job that the card gate turns away, before its posting has been read,   *)
(* would have been dropped by the filter whatever its posting says.         *)
CardGateSound ==
  \A k \in Index : Decide(EvaluateCard(Jobs[k])) = "drop" => Decide(Evaluate(Jobs[k])) = "drop"

(* Dedup drops a job for a row of the cache, or for a job that it has kept  *)
(* itself: no job vanishes for one that has vanished; and of the jobs kept  *)
(* no two are the same.                                                     *)
OneOfEachKept ==
  /\ \A n \in DOMAIN origin :
       \/ origin[n].of = 0
       \/ SameAs(Jobs[origin[n].job], Jobs[origin[n].of]) /\ origin[n].of \in remaining
  /\ \A a, b \in kept \cap remaining : a # b => ~SameAs(Jobs[a], Jobs[b])

(* The score of a job depends on the job and the configuration alone, not   *)
(* on its company in the table or on what ran before, unless the filter was *)
(* run over the same table again: its soft verdicts then count twice.       *)
ScoreFair ==
  \A k \in Index :
    score[k] # Unset =>
      \/ score[k] = ScoreJob(Jobs[k], SoftFails(Jobs[k]))
      \/ refiltered /\ score[k] < ScoreJob(Jobs[k], SoftFails(Jobs[k]))

(* All of it: what is dropped, kept and scored. *)
DecisionsSound == DecisionsTypeOK /\ CardGateSound /\ OneOfEachKept /\ ScoreFair
=============================================================================
