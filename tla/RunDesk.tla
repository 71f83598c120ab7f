-------------------------------- MODULE RunDesk ------------------------------
(***************************************************************************)
(* The run control of the sidebar and the runs page of one browser tab     *)
(* (ui/src/features/runcontrol, ui/src/features/runs) over the read routes *)
(* of the board (src/app/features/runs).  The tab polls the list of runs,  *)
(* the requests and the detail of the newest run, each on its own timer,   *)
(* and stops when what it holds shows nothing left to wait for.            *)
(*                                                                         *)
(* A query is <<its kind, the run it is about>>, 0 for none.               *)
(***************************************************************************)
EXTENDS Naturals, Sequences, FiniteSets

CONSTANTS
  None,
  Daemons,      \* what the daemon may be: running, down
  Silences,     \* whether a process may die or its machine sleep
  MaxRows,      \* bound: runs
  MaxRequests,  \* bound: requests
  MaxFails      \* bound: requests that fail

VARIABLES
  rows,      \* the runs of the profile, oldest first
  requests,  \* the requests of the profile, oldest first
  daemon,    \* what /api/daemon says: "running", or a down daemon ("stale", "stopped")
  cache,     \* cache[q]: the query cache
  due,       \* queries to be asked again
  post,      \* the outcome of a POST on its way, or None
  conflict,  \* the run a 409 named, 0 when there is none
  fails,
  cause  \* observability: why the tab may be out of date

runsVars == <<rows, requests, daemon, cache, due, post, conflict, fails, cause>>

RunId == 1 .. MaxRows
Query == ({"runs", "requests", "daemon"} \X {0}) \cup ({"detail"} \X RunId)
RunsKey == <<"runs", 0>>
RequestsKey == <<"requests", 0>>

Status == {"running", "passed", "failed"}
Row == [status : Status, silent : BOOLEAN]

(* What a list may show, and what a POST answers. *)
Shown == Status \cup {"crashed", "pending", "claimed", "expired", "cancelled"}
Outcome == [kind : {"run_in_progress", "queued"}, run : RunId \cup {0}]

(* A query without an answer is told from every list, no POST from each.   *)
ASSUME RunDeskAssumption == MaxRows \in Nat /\ None \notin Seq(Shown) /\ None \notin Outcome

----------------------------------------------------------------------------
(* The read routes                                                         *)

(* deriveStatus: a run whose heartbeat has gone silent reads as crashed. *)
StatusOf(run) == IF run.status = "running" /\ run.silent THEN "crashed" ELSE run.status

(* A claimed request that has its run is told from another by the run's id, *)
(* which the tab does not read.                                             *)
Answer(q) ==
  CASE q[1] = "runs" -> [i \in DOMAIN rows |-> StatusOf(rows[i])]
    [] q[1] = "requests" ->
         [i \in DOMAIN requests |-> IF requests[i] = "taken" THEN "claimed" ELSE requests[i]]
    [] q[1] = "daemon" -> daemon
    [] q[1] = "detail" -> StatusOf(rows[q[2]])

----------------------------------------------------------------------------
(* The tab                                                                 *)

Listed == IF cache[RunsKey] = None THEN <<>> ELSE cache[RunsKey]
Asked == IF cache[RequestsKey] = None THEN <<>> ELSE cache[RequestsKey]
NewestRow == Len(Listed)
SomeRunning == \E i \in DOMAIN Listed : Listed[i] = "running"

(* Mutant of Polling: only runs are waited for. *)
PollingRuns == SomeRunning

(* pollFlag *)
Polling == SomeRunning \/ \E i \in DOMAIN Asked : Asked[i] = "pending"

Polled == {RunsKey, RequestsKey} \cup {<<"detail", NewestRow>>}

(* What the sidebar and the runs page ask for: rows that ended are          *)
(* hydrated, the newest run is the selected one.                           *)
Observed ==
  {q \in Query : \/ q[2] = 0
                 \/ q[2] = NewestRow
                 \/ q[1] = "detail" /\ q[2] \in DOMAIN Listed /\ Listed[q[2]] \in {"passed", "crashed"}}

Running == {i \in DOMAIN Listed : Listed[i] = "running"}
PendingAsked == {i \in DOMAIN Asked : Asked[i] = "pending"}

(* pickLastRunStatus, without its ten minutes. *)
LastRun ==
  IF NewestRow = 0 THEN "idle"
  ELSE CASE Listed[NewestRow] \in {"failed", "crashed"} -> "failed"
         [] Listed[NewestRow] = "passed" -> "done"
         [] OTHER -> "idle"

(* pickRunControlState *)
Control ==
  IF Running # {} THEN "running"
  ELSE IF conflict # 0 THEN "conflict"
  ELSE IF PendingAsked # {} THEN CASE cache[<<"daemon", 0>>] = None -> "daemon-unknown"
                              [] cache[<<"daemon", 0>>] = "running" -> "queued"
                              [] OTHER -> "daemon-down"
  ELSE IF \E i \in DOMAIN Asked : Asked[i] = "expired" THEN "expired"
  ELSE LastRun

(* A row that ended is shown as its detail has it, once there is one. *)
RowStatus(i) ==
  LET detail == cache[<<"detail", i>>]
  IN  IF Listed[i] \in {"passed", "crashed"} /\ detail # None THEN detail ELSE Listed[i]

(* A change to the server that the tab has no reason to look for. *)
Unasked(q) == q \in due \/ cache[q] = None
Unseen == IF Polling \/ post # None \/ (Unasked(RunsKey) /\ Unasked(RequestsKey)) THEN {} ELSE {"unseen"}
(* The first causes are kept. *)
Caused(why) == IF cause = {} THEN why ELSE cause

server == <<rows, requests, daemon>>
tab == <<cache, due, post, conflict>>

----------------------------------------------------------------------------
(* What happens behind the board                                           *)

(* The daemon claims a request; its run's row comes with the child.         *)
ClaimRequest(i) ==
  /\ requests[i] = "pending" /\ daemon = "running"
  /\ requests' = [requests EXCEPT ![i] = "claimed"]
  /\ cause' = Caused(Unseen)
  /\ UNCHANGED <<rows, daemon, tab, fails>>

BeginRun(i) ==
  /\ Len(rows) < MaxRows
  /\ \A k \in DOMAIN rows : StatusOf(rows[k]) # "running"
  /\ IF i = 0 THEN requests' = requests
     ELSE requests[i] = "claimed" /\ requests' = [requests EXCEPT ![i] = "taken"]
  /\ rows' = Append(rows, [status |-> "running", silent |-> FALSE])
  /\ cause' = Caused(Unseen)
  /\ UNCHANGED <<daemon, tab, fails>>

EndRun(i, status) ==
  /\ rows[i].status = "running" /\ ~rows[i].silent
  /\ rows' = [rows EXCEPT ![i].status = status]
  /\ cause' = Caused(Unseen)
  /\ UNCHANGED <<requests, daemon, tab, fails>>

(* The process dies, or its machine sleeps; after a sleep it goes on. *)
Silence(i) ==
  /\ Silences /\ rows[i].status = "running"
  /\ rows' = [rows EXCEPT ![i].silent = ~@]
  /\ \A k \in DOMAIN rows \ {i} : StatusOf(rows'[k]) # "running"
  /\ cause' = Caused(Unseen \cup (IF rows[i].silent THEN {"revived"} ELSE {}))
  /\ UNCHANGED <<requests, daemon, tab, fails>>

Expire(i) ==
  /\ requests[i] = "pending"
  /\ requests' = [requests EXCEPT ![i] = "expired"]
  /\ cause' = Caused(Unseen)
  /\ UNCHANGED <<rows, daemon, tab, fails>>

----------------------------------------------------------------------------
(* The tab's queries                                                       *)

(* The conflict of a 409 is cleared by a list in which its run does not run. *)
ConflictAfter(list) ==
  IF conflict # 0 /\ ~(conflict \in DOMAIN list /\ list[conflict] = "running") THEN 0 ELSE conflict

(* Why the polls may stop too early: a run has begun since the list was     *)
(* read, or the last look at a run, while it was the newest, was before its *)
(* end.                                                                     *)
StopsEarly ==
  LET list == IF cache'[RunsKey] = None THEN <<>> ELSE cache'[RunsKey]
  IN  (IF Len(rows) > Len(list) THEN {"begun"} ELSE {})
      \cup (IF \E i \in DOMAIN list : cache'[<<"detail", i>>] \notin {None, list[i]}
            THEN {"straddled"} ELSE {})

(* A query asked and answered. *)
Look(q) ==
  /\ q \in Observed
  /\ q \in due \/ cache[q] = None \/ (Polling /\ q \in Polled)
  /\ cache' = [cache EXCEPT ![q] = Answer(q)]
  /\ due' = due \ {q}
  /\ conflict' = IF q = RunsKey THEN ConflictAfter(Answer(q)) ELSE conflict
  /\ cause' = Caused(StopsEarly)
  /\ UNCHANGED <<server, post, fails>>

(* An error leaves the answer there was; a query with none stays to be asked. *)
LookFails(q) ==
  /\ q \in Observed \cap due /\ fails < MaxFails
  /\ due' = due \ {q}
  /\ fails' = fails + 1
  /\ cause' = Caused({"failed"})
  /\ UNCHANGED <<server, cache, post, conflict>>

(* The user comes back to a tab whose answers have gone stale. *)
Focus ==
  /\ post = None
  /\ due' = Observed
  /\ cause' = {}
  /\ UNCHANGED <<server, cache, post, conflict, fails>>

----------------------------------------------------------------------------
(* Run now, and Cancel                                                     *)

(* POST /run-intents: 409 beside a run, else the request there is or a new one. *)
RunNow ==
  /\ Control # "running" /\ post = None
  /\ LET live == {i \in DOMAIN rows : StatusOf(rows[i]) = "running"}
     IN  IF live # {} THEN /\ post' = [kind |-> "run_in_progress", run |-> CHOOSE i \in live : TRUE]
                           /\ requests' = requests
         ELSE /\ post' = [kind |-> "queued", run |-> 0]
              /\ IF \E i \in DOMAIN requests : requests[i] = "pending" THEN requests' = requests
                 ELSE Len(requests) < MaxRequests /\ requests' = Append(requests, "pending")
  /\ UNCHANGED <<rows, daemon, cache, due, conflict, fails, cause>>

(* Mutant of Invalidated: the answer to the POST is taken as it is. *)
InvalidatedNot(keys) == due

(* invalidateQueries: what is on its way is dropped and asked again. *)
Invalidated(keys) == due \cup keys

(* The list's key is a prefix of the details' keys. *)
UnderRuns == {q \in Query : q[1] \in {"runs", "detail"}}

Posted ==
  /\ post # None
  /\ post' = None
  /\ conflict' = post.run
  /\ due' = Invalidated(IF post.kind = "queued" THEN UnderRuns \cup {RequestsKey} ELSE UnderRuns)
  /\ UNCHANGED <<server, cache, fails, cause>>

PostFails ==
  /\ post # None /\ fails < MaxFails
  /\ post' = None
  /\ fails' = fails + 1
  /\ cause' = Caused({"failed"})
  /\ UNCHANGED <<server, cache, due, conflict>>

(* DELETE of the newest pending request the tab knows; one that is taken or *)
(* expired by now is left as it is.                                         *)
Cancel ==
  /\ Control \in {"queued", "daemon-down"}
  /\ LET i == CHOOSE k \in PendingAsked : \A j \in PendingAsked : j <= k
     IN  requests' = [requests EXCEPT ![i] = IF @ = "pending" THEN "cancelled" ELSE @]
  /\ due' = Invalidated(UnderRuns \cup {RequestsKey})
  /\ UNCHANGED <<rows, daemon, cache, post, conflict, fails, cause>>

----------------------------------------------------------------------------
RunsInit ==
  /\ rows = <<>> /\ requests = <<>>
  /\ daemon \in Daemons
  /\ cache = [q \in Query |-> None]
  /\ due = {} /\ post = None /\ conflict = 0 /\ fails = 0 /\ cause = {}

RunsNext ==
  \/ \E i \in DOMAIN requests : ClaimRequest(i) \/ BeginRun(i) \/ Expire(i)
  \/ BeginRun(0)
  \/ \E i \in DOMAIN rows :
       \/ \E status \in Status \ {"running"} : EndRun(i, status)
       \/ Silence(i)
  \/ \E q \in Query : Look(q) \/ LookFails(q)
  \/ Focus \/ RunNow \/ Posted \/ PostFails \/ Cancel

RunsSpec == RunsInit /\ [][RunsNext]_runsVars

----------------------------------------------------------------------------
RunsTypeOK ==
  /\ rows \in Seq(Row) /\ Len(rows) <= MaxRows
  /\ due \subseteq Query
  /\ conflict \in 0 .. MaxRows
  /\ cache[RunsKey] # None => Len(cache[RunsKey]) <= Len(rows)

Quiet ==
  /\ ~Polling /\ post = None
  /\ due \cap Observed = {}
  /\ \A q \in Observed : cache[q] # None

(* A tab that has stopped polling, with nothing left to ask, shows the      *)
(* runs and requests there are, and each row as it is.  It stops too early  *)
(* only when a run began after the list was read (the gap between the claim *)
(* of a request and the row of its run is one way to get there) or when its *)
(* last look at a run was before its end (a row is shown as its detail has  *)
(* it, and only the newest run's detail is polled); and a run may begin, or *)
(* go on after a sleep, with nobody looking, until the next focus.          *)
UpToDateUnlessCause ==
  Quiet /\ cause = {} =>
    /\ \A q \in Polled \cap Observed : cache[q] = Answer(q)
    /\ \A i \in DOMAIN Listed : RowStatus(i) = StatusOf(rows[i])

(* All of it: a tab that stopped polling is up to date. *)
RunsSound == RunsTypeOK /\ UpToDateUnlessCause
=============================================================================
