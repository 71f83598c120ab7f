--------------------------- MODULE ChromeProvider ---------------------------
(***************************************************************************)
(* How a run gets a Chrome and gives it back                               *)
(* (src/adapters/browser/cdp-chrome): probe the debugging port, prove that *)
(* the browser on it runs Job Bunny's user data dir, attach to it, recycle *)
(* it or launch one, and at the end kill exactly what was launched.        *)
(*                                                                         *)
(* Processes (runs, and stage commands, which take no run lock) share the  *)
(* port, the user data dir, and one ownership pidfile in it.  A Chrome is  *)
(* named by its pid, a number from 1; the browsers' own behaviour (who     *)
(* gets the port, one browser per user data dir, exits) is external.       *)
(* Clocks are left out: every bounded wait may end at any time.            *)
(***************************************************************************)
EXTENDS Naturals, FiniteSets

CONSTANTS
  Proc,         \* processes that call launch() once
  MaxChromes,   \* bound: browsers ever started
  LockVisible,  \* existsSync sees the SingletonLock of a running Chrome
  ProviderCases \* which of ProviderCaseKinds a behaviour may meet, one each

(* A fault, the variable JOBBUNNY_KEEP_BROWSER, or a Chrome of the user.    *)
ProviderCaseKinds == {"user", "keep", "crash", "slow", "write", "pidReuse", "noPid"}
User == "user"

ASSUME ChromeProviderAssumption ==
  /\ User \notin Proc
  /\ MaxChromes \in Nat /\ LockVisible \in BOOLEAN
  /\ ProviderCases \subseteq ProviderCaseKinds

NoPidfile == 0
Torn == MaxChromes + 1
Chrome == 1..MaxChromes

VARIABLES
  chrome,   \* each Chrome: its state, its user data dir, who spawned it
  pidfile,  \* the pid in .jobbunny-chrome.json, NoPidfile, or Torn
  old,      \* that record is over CHROME_MAX_AGE_MS old
  reused,   \* dead Chromes whose pid the system has given to another process
  proc,     \* each process: see Idle
  met,      \* the one of ProviderCases that this behaviour may meet
  notes     \* observability: what has happened, see NoteKinds

providerVars == <<chrome, pidfile, old, reused, proc, met, notes>>

States == {"none", "starting", "listening", "mute", "dead"}
Ends   == {"failed", "closed", "dead"}
Steps  == {"probe", "prove", "read", "clear", "spawn", "record", "connect", "up",
           "term", "wait", "unlink"} \cup Ends
(* A Chrome's record was never written, was overwritten, or was removed in  *)
(* a kill of another; tabs were removed beneath a running Chrome; a user's  *)
(* Chrome was signalled.                                                    *)
LossKinds == {"unrecorded", "overwritten", "cleared"}
NoteKinds == LossKinds \cup {"session", "foreign"}

Gone == [state |-> "dead", dir |-> "ours", by |-> User]

Running(c)  == chrome[c].state \in {"listening", "mute"}
Alive(c)    == chrome[c].state \in {"starting", "listening", "mute"}
Ours(c)     == c # 0 /\ chrome[c].dir = "ours"
Listener    == {c \in Chrome : chrome[c].state = "listening"}
Holders     == {c \in Chrome : Running(c) /\ Ours(c)}
(* process.kill(pid, 0), of whatever process has the pid now. *)
PidIsAlive(c) == Alive(c) \/ c \in reused
Fresh ==
  {c \in Chrome : chrome[c].state = "none" /\ \A d \in 1..(c - 1) : chrome[d].state # "none"}

(* Where a process is; the pid it spawned and whether it spawned (the       *)
(* handle's ownsProcess); the Chrome that was on the port when it probed;   *)
(* the Chrome it is connected to; the pid killChrome was called with, and   *)
(* what follows that call.                                                  *)
Idle(step) == [at |-> step, own |-> 0, owner |-> FALSE, seen |-> 0,
               conn |-> 0, victim |-> 0, after |-> "closed"]

ProviderInit ==
  /\ chrome = [c \in Chrome |-> [state |-> "none", dir |-> "ours", by |-> User]]
  /\ pidfile = NoPidfile /\ old = FALSE /\ reused = {}
  /\ proc = [p \in Proc |-> Idle("probe")]
  /\ met \in ProviderCases
  /\ notes = {}

browsers == <<chrome, reused>>
record == <<pidfile, old>>
At(p) == proc[p].at
Goes(p, r) == proc' = [proc EXCEPT ![p] = IF r.at \in Ends THEN Idle(r.at) ELSE r]
To(p, step) == Goes(p, [proc[p] EXCEPT !.at = step])
Note(n) == notes' = notes \cup n

(* killChrome is called with pid c; step follows it. *)
Kill(p, c, step) ==
  Goes(p, [proc[p] EXCEPT !.at = "term", !.victim = c, !.after = step, !.conn = 0])

(* killChrome returns. *)
Killed(p) == Goes(p, [proc[p] EXCEPT !.at = proc[p].after, !.victim = 0])

(* A connection ends with its browser. *)
Cut(c) == [q \in Proc |-> IF proc[q].conn = c THEN [proc[q] EXCEPT !.conn = 0] ELSE proc[q]]

----------------------------------------------------------------------------
(* launch() *)

(* GET /json/version, answered or not within two seconds. *)
Probe(p) ==
  /\ At(p) = "probe"
  /\ \/ Listener = {} /\ To(p, "clear")
     \/ \E c \in Listener :
          \/ Goes(p, [proc[p] EXCEPT !.at = "prove", !.seen = c])
          \/ /\ met = "slow"
             /\ Goes(p, [proc[p] EXCEPT !.at = "clear", !.seen = c])
  /\ UNCHANGED <<browsers, record, met, notes>>

(* readBrowserUserDataDir on the socket of the probed browser. *)
Proved(c) == Running(c) /\ Ours(c)

(* Mutant of Prove: a browser on the port is taken to be ours. *)
ProveNothing(p) ==
  /\ At(p) = "prove"
  /\ To(p, "read")
  /\ UNCHANGED <<browsers, record, met, notes>>

(* assertOurChrome asks the probed browser for its command line.  A dead    *)
(* socket, no answer in three seconds, an abort or another dir: the launch  *)
(* fails, whatever is on the port.                                          *)
Prove(p) ==
  /\ At(p) = "prove"
  /\ \/ Proved(proc[p].seen) /\ To(p, "read")
     \/ To(p, "failed")
  /\ UNCHANGED <<browsers, record, met, notes>>

(* readChromePidfile removes a torn record and one whose pid is gone. *)
Healed == IF pidfile \in Chrome /\ PidIsAlive(pidfile) THEN pidfile ELSE NoPidfile

Heal == pidfile' = Healed /\ old' = (old /\ Healed # NoPidfile)

(* decideChromeAction, asked of a reachable browser. *)
Recycles == Healed # NoPidfile /\ old

(* Without a record, or with a young one, attach; recycle an old browser by *)
(* the recorded pid.                                                        *)
ReadPidfile(p) ==
  /\ At(p) = "read"
  /\ Heal
  /\ IF Recycles THEN Kill(p, Healed, "clear") ELSE To(p, "connect")
  /\ UNCHANGED <<browsers, met, notes>>

(* Mutant of ClearSession: the lock of a running Chrome is not looked at. *)
ClearSessionAlways(p) ==
  /\ At(p) = "clear"
  /\ To(p, "spawn")
  /\ Note(IF Holders = {} THEN {} ELSE {"session"})
  /\ UNCHANGED <<browsers, record, met>>

(* clearSessionState removes the saved tabs unless a Chrome's lock is seen; *)
(* it never throws.                                                         *)
ClearSession(p) ==
  /\ At(p) = "clear"
  /\ To(p, "spawn")
  /\ Note(IF Holders = {} \/ LockVisible THEN {} ELSE {"session"})
  /\ UNCHANGED <<browsers, record, met>>

(* No Chrome executable among the candidates: launchChrome throws. *)
NoExecutable(p) ==
  /\ At(p) = "spawn"
  /\ To(p, "failed")
  /\ UNCHANGED <<browsers, record, met, notes>>

(* A child that could not be started has no pid, and the launch goes on. *)
Spawn(p) ==
  /\ At(p) = "spawn"
  /\ \/ \E c \in Fresh :
          /\ chrome' = [chrome EXCEPT ![c] = [state |-> "starting", dir |-> "ours", by |-> p]]
          /\ Goes(p, [proc[p] EXCEPT !.at = "record", !.own = c, !.owner = TRUE])
     \/ /\ met = "noPid"
        /\ Goes(p, [proc[p] EXCEPT !.at = "connect", !.owner = TRUE])
        /\ UNCHANGED chrome
  /\ UNCHANGED <<record, reused, met, notes>>

(* writeChromePidfile replaces whatever record is there. *)
Record(p) ==
  /\ At(p) = "record"
  /\ pidfile' = proc[p].own /\ old' = FALSE
  /\ Note(IF pidfile \in Chrome /\ Alive(pidfile) THEN {"overwritten"} ELSE {})
  /\ To(p, "connect")
  /\ UNCHANGED <<browsers, met>>

(* The write fails: launchChrome throws outside of the try that would kill. *)
RecordFails(p) ==
  /\ met = "write"
  /\ At(p) = "record"
  /\ Note({"unrecorded"})
  /\ To(p, "failed")
  /\ UNCHANGED <<browsers, record, met>>

(* connectWithRetry, an attempt that wins its race. *)
Connect(p) ==
  /\ At(p) = "connect"
  /\ \E c \in Listener : Goes(p, [proc[p] EXCEPT !.at = "up", !.conn = c])
  /\ UNCHANGED <<browsers, record, met, notes>>

(* Mutant of LetGo: an owner kills the browser it is connected to. *)
LetGoConnected(p, step) ==
  IF proc[p].owner
    THEN Kill(p, IF proc[p].conn = 0 THEN proc[p].own ELSE proc[p].conn, step)
    ELSE To(p, step)

(* What a process owns it kills before it goes on to step. *)
LetGo(p, step) == IF proc[p].owner THEN Kill(p, proc[p].own, step) ELSE To(p, step)

(* Mutant of GiveUp: attempts go on for as long as nothing listens. *)
GiveUpNever(p) ==
  /\ At(p) = "connect" /\ Listener # {}
  /\ LetGo(p, "failed")
  /\ UNCHANGED <<browsers, record, met, notes>>

(* The deadline or an abort of the run ends connectWithRetry; the browser   *)
(* that was spawned for it is killed first.                                 *)
GiveUp(p) ==
  /\ At(p) = "connect"
  /\ LetGo(p, "failed")
  /\ UNCHANGED <<browsers, record, met, notes>>

(* CdpChromeBrowserHandle.close: the owner kills, everyone disconnects.     *)
Close(p) ==
  /\ At(p) = "up"
  /\ LetGo(p, "closed")
  /\ UNCHANGED <<browsers, record, met, notes>>

----------------------------------------------------------------------------
(* killChrome *)

(* Nothing to kill, or told to keep it. *)
KillNothing(p) ==
  /\ At(p) = "term" /\ (met = "keep" \/ proc[p].victim = 0)
  /\ Killed(p)
  /\ UNCHANGED <<browsers, record, met, notes>>

(* clearChromePidfile removes the file whatever it records by now. *)
RemoveRecord(p) ==
  /\ pidfile' = NoPidfile /\ old' = FALSE
  /\ Note(IF pidfile \in Chrome /\ Alive(pidfile) /\ pidfile # proc[p].victim
          THEN {"cleared"} ELSE {})

(* SIGTERM is refused: already gone. *)
KillGone(p) ==
  /\ At(p) = "term" /\ met # "keep" /\ proc[p].victim # 0 /\ ~PidIsAlive(proc[p].victim)
  /\ RemoveRecord(p)
  /\ Killed(p)
  /\ UNCHANGED <<browsers, met>>

KillTerm(p) ==
  /\ At(p) = "term" /\ met # "keep" /\ proc[p].victim # 0 /\ PidIsAlive(proc[p].victim)
  /\ Note(IF Alive(proc[p].victim) /\ chrome[proc[p].victim].by = User THEN {"foreign"} ELSE {})
  /\ To(p, "wait")
  /\ UNCHANGED <<browsers, record, met>>

(* Mutant of KillWait: after the grace period it is taken to be gone. *)
KillWaitGently(p) ==
  /\ At(p) = "wait"
  /\ To(p, "unlink")
  /\ UNCHANGED <<browsers, record, met, notes>>

(* The grace polls end with the process gone, or SIGKILL makes it so. *)
KillWait(p) ==
  /\ At(p) = "wait"
  /\ LET c == proc[p].victim IN
     /\ chrome' = IF Alive(c) THEN [chrome EXCEPT ![c] = Gone] ELSE chrome
     /\ reused' = reused \ {c}
     /\ proc' = [Cut(c) EXCEPT ![p].at = "unlink"]
  /\ UNCHANGED <<record, met, notes>>

KillDone(p) ==
  /\ At(p) = "unlink"
  /\ RemoveRecord(p)
  /\ Killed(p)
  /\ UNCHANGED <<browsers, met>>

----------------------------------------------------------------------------
(* Faults, browsers and users *)

(* A process is killed; in the middle of a write it leaves a torn record.   *)
Crash(p) ==
  /\ met = "crash"
  /\ At(p) \notin Ends
  /\ To(p, "dead")
  /\ Note(IF At(p) = "record" THEN {"unrecorded"} ELSE {})
  /\ \/ UNCHANGED record
     \/ At(p) = "record" /\ pidfile' = Torn /\ old' = FALSE
  /\ UNCHANGED <<browsers, met>>

(* A browser comes up: on a dir in use it hands over and exits, and the     *)
(* port goes to the first.                                                  *)
ComeUp(c) ==
  /\ chrome[c].state = "starting"
  /\ LET taken == \E d \in Chrome \ {c} : Running(d) /\ chrome[d].dir = chrome[c].dir
         up    == IF Listener = {} THEN "listening" ELSE "mute"
     IN  chrome' = [chrome EXCEPT ![c] = IF taken THEN Gone ELSE [@ EXCEPT !.state = up]]
  /\ UNCHANGED <<record, reused, proc, met, notes>>

(* A browser crashes or is closed by the user. *)
Exit(c) ==
  /\ Running(c)
  /\ chrome' = [chrome EXCEPT ![c] = Gone]
  /\ proc' = Cut(c)
  /\ UNCHANGED <<record, reused, met, notes>>

(* The user starts a Chrome with a debugging port, on one dir or the other. *)
UserStarts ==
  /\ met = "user"
  /\ \A c \in Chrome : chrome[c].by = User => chrome[c].state = "none"
  /\ \E c \in Fresh, d \in {"ours", "foreign"} :
       chrome' = [chrome EXCEPT ![c] = [state |-> "starting", dir |-> d, by |-> User]]
  /\ UNCHANGED <<record, reused, proc, met, notes>>

(* The record of a browser passes its 24 hours. *)
Age ==
  /\ pidfile \in Chrome /\ ~old /\ Running(pidfile)
  /\ old' = TRUE
  /\ UNCHANGED <<browsers, pidfile, proc, met, notes>>

(* A pid that somebody still has in hand goes to an unrelated process. *)
Reuse(c) ==
  /\ met = "pidReuse"
  /\ chrome[c].state = "dead" /\ c \notin reused
  /\ pidfile = c \/ \E p \in Proc : c \in {proc[p].own, proc[p].victim}
  /\ reused' = reused \cup {c}
  /\ UNCHANGED <<chrome, record, proc, met, notes>>

(* cdpReachableCheck of the doctor reads, and so heals, the record of a     *)
(* browser that is reachable and ours.                                      *)
Doctor ==
  /\ \E c \in Listener : Ours(c)
  /\ pidfile # Healed /\ Heal
  /\ UNCHANGED <<browsers, proc, met, notes>>

ProcStep(p) ==
  \/ Probe(p) \/ Prove(p) \/ ReadPidfile(p) \/ ClearSession(p) \/ NoExecutable(p)
  \/ Spawn(p) \/ Record(p) \/ RecordFails(p) \/ Connect(p) \/ GiveUp(p) \/ Close(p)
  \/ KillNothing(p) \/ KillGone(p) \/ KillTerm(p) \/ KillWait(p) \/ KillDone(p)

ProviderNext ==
  \/ \E p \in Proc : ProcStep(p) \/ Crash(p)
  \/ \E c \in Chrome : ComeUp(c) \/ Exit(c) \/ Reuse(c)
  \/ UserStarts \/ Age \/ Doctor

(* The event loop of a live process goes on: its waits are all bounded. *)
ProviderFairness == \A p \in Proc : WF_providerVars(ProcStep(p))

ProviderSpec == ProviderInit /\ [][ProviderNext]_providerVars /\ ProviderFairness

----------------------------------------------------------------------------
(* Properties *)

ProviderTypeOK ==
  /\ chrome \in [Chrome -> [state : States, dir : {"ours", "foreign"}, by : Proc \cup {User}]]
  /\ pidfile \in 0..(MaxChromes + 1)
  /\ old \in BOOLEAN /\ reused \subseteq Chrome
  /\ proc \in [Proc -> [at : Steps, own : 0..MaxChromes, owner : BOOLEAN,
                        seen : 0..MaxChromes, conn : 0..MaxChromes,
                        victim : 0..MaxChromes, after : {"closed", "failed", "clear"}]]
  /\ met \in ProviderCases /\ notes \subseteq NoteKinds

(* No browser that the user started is ever signalled: what is killed was   *)
(* spawned by a run, whoever has the port at that moment (or is an          *)
(* unrelated process with a dead Chrome's pid).                             *)
SparesForeign == "foreign" \notin notes

(* A Chrome that a run spawned, and that runs on after that run, is on      *)
(* record, unless its record was never written, was overwritten by another  *)
(* spawn, or was removed by a kill of another Chrome.                       *)
OnRecordUnlessLost ==
  \A c \in Chrome :
    Running(c) /\ chrome[c].by # User =>
      \/ pidfile = c
      \/ \E p \in Proc : proc[p].own = c
      \/ notes \cap LossKinds # {}

(* A run is never connected to the foreign browser that was on the port     *)
(* when it probed.  (It may still connect to one that takes the port after  *)
(* the probe.)                                                              *)
AttachedOurs ==
  \A p \in Proc :
    proc[p].conn # 0 /\ ~Ours(proc[p].conn) => proc[p].conn # proc[p].seen

(* The saved tabs are not removed beneath a running Chrome. *)
SessionSpared == "session" \notin notes

Launching(p) == proc[p].at = "probe"
Launched(p) == proc[p].at \in {"up"} \cup Ends

(* Every launch ends in a browser or an error, whatever the browsers do.    *)
LaunchSettles == \A p \in Proc : Launching(p) ~> Launched(p)

(* All of it: the browsers a run touches are its own, on record, and keep their tabs. *)
BrowserSafe == ProviderTypeOK /\ SparesForeign /\ OnRecordUnlessLost /\ AttachedOurs /\ SessionSpared
=============================================================================
