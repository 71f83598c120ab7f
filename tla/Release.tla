------------------------------- MODULE Release -------------------------------
(***************************************************************************)
(* `jobbunny release <version>` (src/cli/commands/release/): every call     *)
(* looks at git and GitHub, resolves how far the release has come, and goes *)
(* on from there: the branch, the version sync, the commit, the push, the   *)
(* pull request, its checks, the merge and the tag.  Any step may fail and  *)
(* the command may stop anywhere; other people merge, push and close.       *)
(***************************************************************************)
EXTENDS Naturals, FiniteSets

CONSTANTS
  Absent,
  MaxTries, \* bound: calls of the command
  MaxMoves  \* bound: things other people do on GitHub

(* The dated block of the change log, package.json and the README's badge. *)
Part == {"notes", "pkg", "badge"}
Synced == {"pkg", "badge"}

(* Where the command is: before the step of that name. *)
ReleaseSteps == {"branch", "pkg", "badge", "commit", "push", "pr", "checks", "confirm", "merge", "checkout", "pull", "tag", "pushTag"}

PrState == {"OPEN", "MERGED", "CLOSED"}

ASSUME ReleaseAssumption == Absent \notin ReleaseSteps \cup PrState /\ \A parts \in SUBSET Part : parts # Absent

VARIABLES
  main,     \* origin/main: the number of commits on it
  pulled,   \* the local main
  merged,   \* the commit that merged the release, 0 before
  content,  \* which Parts that commit holds
  local, remote, \* the release branch here and on GitHub: the Parts its head holds, or Absent
  head,     \* the branch checked out here: "main" or "release"
  tree,     \* the Parts in the working copy
  prs,      \* the states of the branch's pull requests
  checks,   \* the checks of the pushed head: "none" until they are registered
  tagHere, tagThere, \* the commit of the tag here and on GitHub, 0 without
  at,       \* where the command is, Absent when it is not running
  tries, moves,
  unchecked,\* observability: the command merged a head whose checks had not passed
  crossed   \* observability: what came between a look and what it was for

releaseVars == <<main, pulled, merged, content, local, remote, head, tree, prs, checks,
                 tagHere, tagThere, at, tries, moves, unchecked, crossed>>
hub == <<main, merged, content, remote, prs, checks, tagThere>>
clone == <<pulled, local, head, tree, tagHere>>
seen == <<tries, moves, unchecked, crossed>>

OnMain(commit) == IF merged # 0 /\ commit >= merged THEN content ELSE {}
Committed == IF head = "main" THEN OnMain(pulled) ELSE local

(* Of the branch's pull requests: the open one, the merged one, any.  A     *)
(* listing that fails reads as no pull request.                             *)
GetPr ==
  {Absent} \cup
  {IF "OPEN" \in prs THEN "OPEN" ELSE IF "MERGED" \in prs THEN "MERGED"
   ELSE IF prs # {} THEN "CLOSED" ELSE Absent}

(* How far the release has come, and so where the command goes on.          *)
ResumeStage(pr) ==
  CASE tagHere # 0 /\ tagThere # 0 -> Absent
    [] tagHere # 0 /\ tagThere = 0 -> "pushTag"
    [] tagHere = 0 /\ pr = "MERGED" -> "checkout"
    [] tagHere = 0 /\ pr = "OPEN" -> "checks"
    [] tagHere = 0 /\ pr = "CLOSED" -> Absent
    [] OTHER -> "branch"

(* The looks of one call are taken as one step. *)
Preflight ==
  /\ at = Absent /\ tries < MaxTries
  /\ head = "main" => pulled = main
  /\ "notes" \in tree
  /\ \E pr \in GetPr : at' = ResumeStage(pr)
  /\ tries' = tries + 1
  /\ UNCHANGED <<hub, clone, moves, unchecked, crossed>>

(* git refuses to switch when a changed file differs between the branches.  *)
Switches(to) == tree = Committed \/ to = Committed

EnsureBranch ==
  /\ at = "branch" /\ at' = "pkg"
  /\ \/ head = "release" /\ UNCHANGED <<local, tree>>
     \/ /\ head = "main" /\ local # Absent /\ Switches(local)
        /\ tree' = IF tree = Committed THEN local ELSE tree
        /\ UNCHANGED local
     \/ /\ head = "main" /\ local = Absent /\ remote # Absent /\ Switches(remote)
        /\ local' = remote
        /\ tree' = IF tree = Committed THEN remote ELSE tree
     \/ /\ head = "main" /\ local = Absent /\ remote = Absent
        /\ local' = Committed
        /\ UNCHANGED tree
  /\ head' = "release"
  /\ UNCHANGED <<hub, pulled, tagHere, seen>>

(* `npm version` and the badge are two writes. *)
VersionSync ==
  /\ \/ at = "pkg" /\ at' = "badge" /\ tree' = tree \cup {"pkg"}
     \/ at = "badge" /\ at' = "commit" /\ tree' = tree \cup {"badge"}
  /\ UNCHANGED <<hub, pulled, local, head, tagHere, seen>>

EnsureCommit ==
  /\ at = "commit" /\ at' = "push"
  /\ local' = tree
  /\ UNCHANGED <<hub, pulled, head, tree, tagHere, seen>>

(* A push that is not a fast-forward is rejected; a new head has no checks. *)
EnsurePush ==
  /\ at = "push" /\ at' = "pr"
  /\ remote # Absent => remote \subseteq local
  /\ remote' = local
  /\ checks' = IF remote = local THEN checks ELSE "none"
  /\ UNCHANGED <<main, merged, content, prs, tagThere, clone, seen>>

EnsurePrCreated ==
  /\ at = "pr" /\ at' = "checks"
  /\ \E pr \in GetPr :
       \/ pr \in {"OPEN", "MERGED"} /\ UNCHANGED prs
       \/ /\ pr = Absent /\ "OPEN" \notin prs /\ remote # OnMain(main)
          /\ prs' = prs \cup {"OPEN"}
  /\ UNCHANGED <<main, merged, content, remote, checks, tagThere, clone, seen>>

NoMerge == at = "checks" /\ at' = Absent /\ UNCHANGED <<hub, clone, seen>>

(* Mutant of Passing: no check has failed, and an empty list passes.        *)
PassingUnregistered == checks \in {"none", "green"}

(* A list that is still empty is not a passing one. *)
Passing == checks = "green"

WaitForChecks ==
  /\ at = "checks" /\ at' = "confirm"
  /\ Passing
  /\ UNCHANGED <<hub, clone, seen>>

ConfirmMerge == at = "confirm" /\ at' = "merge" /\ UNCHANGED <<hub, clone, seen>>

(* `gh pr merge --squash --delete-branch` merges the head GitHub has, then  *)
(* deletes the branch there and here; it may fail after the merge.  A pull  *)
(* request already merged only loses its branches.                          *)
MergePr ==
  /\ at = "merge"
  /\ \/ /\ "OPEN" \in prs /\ remote # Absent
        /\ main' = main + 1 /\ merged' = main + 1 /\ content' = remote
        /\ prs' = (prs \ {"OPEN"}) \cup {"MERGED"}
        /\ unchecked' = (unchecked \/ checks # "green")
     \/ "OPEN" \notin prs /\ "MERGED" \in prs /\ UNCHANGED <<main, merged, content, prs, unchecked>>
  /\ \/ /\ at' = "checkout"
        /\ remote' = Absent /\ local' = Absent /\ head' = "main"
        /\ pulled' = IF head = "release" THEN main' ELSE pulled
        /\ tree' = IF tree # Committed THEN tree
                   ELSE IF head = "release" THEN content' ELSE tree
     \/ at' = Absent /\ UNCHANGED <<remote, local, head, pulled, tree>>
  /\ UNCHANGED <<checks, tagThere, tagHere, tries, moves, crossed>>

CheckoutMain ==
  /\ at = "checkout" /\ at' = "pull"
  /\ Switches(OnMain(pulled))
  /\ head' = "main"
  /\ tree' = IF tree = Committed THEN OnMain(pulled) ELSE tree
  /\ UNCHANGED <<hub, pulled, local, tagHere, seen>>

(* A pull brings the tag along when GitHub has it. *)
Pulls ==
  /\ tree = Committed \/ OnMain(main) = Committed
  /\ pulled' = main
  /\ tree' = IF tree = Committed THEN OnMain(main) ELSE tree
  /\ tagHere' = IF tagHere = 0 THEN tagThere ELSE tagHere

Pull ==
  /\ at = "pull" /\ at' = "tag"
  /\ Pulls
  /\ UNCHANGED <<hub, local, head, seen>>

(* Mutant of TagsHead: main's head is tagged, whatever it is.               *)
TagsAnyHead == merged # 0

(* Only the commit that merged the release is tagged: main's head once      *)
(* someone else has merged is not it, and stays so.                         *)
TagsHead == merged # 0 /\ merged = pulled

Tag ==
  /\ at = "tag" /\ at' = "pushTag"
  /\ TagsHead /\ tagHere = 0
  /\ tagHere' = pulled
  /\ UNCHANGED <<hub, pulled, local, head, tree, seen>>

PushTag ==
  /\ at = "pushTag" /\ at' = Absent
  /\ tagThere \in {0, tagHere}
  /\ tagThere' = tagHere
  /\ UNCHANGED <<main, merged, content, remote, prs, checks, clone, seen>>

(* A git or gh call that fails, checks that fail or take ten minutes, a     *)
(* merge not confirmed, and Ctrl-C: the command ends, what it did stays.    *)
Fails == at # Absent /\ at' = Absent /\ UNCHANGED <<hub, clone, seen>>

----------------------------------------------------------------------------
(* The maintainer. *)
WriteNotes == at = Absent /\ tree' = tree \cup {"notes"} /\ UNCHANGED <<hub, pulled, local, head, tagHere, at, seen>>

PullMain == at = Absent /\ head = "main" /\ Pulls /\ UNCHANGED <<hub, local, head, at, seen>>

(* Another clone goes on with the release. *)
Clone ==
  /\ at = Absent
  /\ pulled' = main /\ head' = "main" /\ local' = Absent
  /\ tree' = OnMain(main) /\ tagHere' = tagThere
  /\ UNCHANGED <<hub, at, seen>>

CheckoutBranch ==
  /\ at = Absent /\ head = "main" /\ local = Absent /\ remote # Absent /\ tree = Committed
  /\ local' = remote /\ tree' = remote /\ head' = "release"
  /\ UNCHANGED <<hub, pulled, tagHere, at, seen>>

(* GitHub, and other people on it. *)
CheckRun ==
  /\ "OPEN" \in prs /\ checks \in {"none", "pending"}
  /\ checks' \in (IF checks = "none" THEN {"pending"} ELSE {"green", "failed"})
  /\ UNCHANGED <<main, merged, content, remote, prs, tagThere, clone, at, seen>>

Moved == moves < MaxMoves /\ moves' = moves + 1 /\ UNCHANGED <<clone, at, tries, unchecked, tagThere>>

OthersMerge == Moved /\ main' = main + 1 /\ UNCHANGED <<merged, content, remote, prs, checks, crossed>>

(* A commit pushed onto the release branch, after the checks were read too. *)
OthersPush ==
  /\ Moved /\ remote # Absent /\ "OPEN" \in prs
  /\ checks' = "none"
  /\ crossed' = crossed \cup (IF at \in {"confirm", "merge"} THEN {"pushed"} ELSE {})
  /\ UNCHANGED <<main, merged, content, remote, prs>>

MergedByHand ==
  /\ Moved /\ "OPEN" \in prs
  /\ main' = main + 1 /\ merged' = main + 1 /\ content' = remote
  /\ prs' = (prs \ {"OPEN"}) \cup {"MERGED"}
  /\ UNCHANGED <<remote, checks, crossed>>

ClosedByHand ==
  /\ Moved /\ "OPEN" \in prs
  /\ prs' = (prs \ {"OPEN"}) \cup {"CLOSED"}
  /\ UNCHANGED <<main, merged, content, remote, checks, crossed>>

----------------------------------------------------------------------------
ReleaseInit ==
  /\ main = 1 /\ pulled = 1 /\ merged = 0 /\ content = {}
  /\ local = Absent /\ remote = Absent /\ head = "main" /\ tree = {}
  /\ prs = {} /\ checks = "none" /\ tagHere = 0 /\ tagThere = 0
  /\ at = Absent /\ tries = 0 /\ moves = 0 /\ unchecked = FALSE /\ crossed = {}

ReleaseNext ==
  \/ Preflight \/ EnsureBranch \/ VersionSync \/ EnsureCommit \/ EnsurePush \/ EnsurePrCreated
  \/ NoMerge \/ WaitForChecks \/ ConfirmMerge \/ MergePr \/ CheckoutMain \/ Pull \/ Tag \/ PushTag
  \/ Fails \/ WriteNotes \/ PullMain \/ Clone \/ CheckoutBranch
  \/ CheckRun \/ OthersMerge \/ OthersPush \/ MergedByHand \/ ClosedByHand

ReleaseSpec == ReleaseInit /\ [][ReleaseNext]_releaseVars

----------------------------------------------------------------------------
ReleaseTypeOK ==
  /\ {main, pulled} \subseteq Nat \ {0} /\ merged \in 0..main /\ pulled <= main
  /\ tree \subseteq Part /\ content \subseteq Part
  /\ local = Absent \/ local \subseteq Part
  /\ remote = Absent \/ remote \subseteq Part
  /\ head \in {"main", "release"}
  /\ head = "release" => local # Absent
  /\ prs \subseteq PrState

(* However often the command is stopped and called again, and whatever is   *)
(* merged meanwhile: a tag is at the commit that merged the release, and    *)
(* that commit holds the notes, the version and the badge.                  *)
TaggedAsMerged == \A tag \in {tagHere, tagThere} \ {0} : tag = merged /\ content = Part

(* What the command merges has passed its checks, unless someone pushed     *)
(* between the checks it read and the merge it asked for.                   *)
MergedChecked == unchecked => "pushed" \in crossed

(* All of it: what is tagged was merged, what was merged was checked. *)
ReleaseSound == ReleaseTypeOK /\ TaggedAsMerged /\ MergedChecked
=============================================================================
