---------------------------- MODULE ServicesProofs ---------------------------
(***************************************************************************)
(* The Chrome provider, for any number of processes and browsers: no       *)
(* browser of the user is signalled, and one that a run leaves running is  *)
(* on record.  The daemon's alert about newer databases, for any number of *)
(* profiles and any interval.  And the job stores: one page to a job, no   *)
(* job archived that the user follows, nothing left out of a migration.    *)
(***************************************************************************)
EXTENDS DriftAlert, ChromeProvider, JobStores, FiniteSetTheorems, SequenceTheorems,
        WellFoundedInduction, TLAPS

----------------------------------------------------------------------------
(* The Chrome provider *)

(* A pid in hand was once a browser that a run spawned.  While it is alive  *)
(* it is that browser still: a pid is not given to a Chrome a second time.  *)
Spawned(c) == c # 0 => chrome[c].state # "none" /\ (Alive(c) => chrome[c].by # User)

(* What a process has in hand fits where it is; and what it found on the    *)
(* port and went past is on our dir.                                        *)
InHand(p) ==
  /\ Spawned(proc[p].own) /\ Spawned(proc[p].victim)
  /\ At(p) = "record" => proc[p].own # 0
  /\ At(p) \in {"wait", "unlink"} => proc[p].victim # 0
  /\ At(p) = "unlink" => ~Alive(proc[p].victim)
  /\ proc[p].seen # 0 =>
       /\ chrome[proc[p].seen].state # "none"
       /\ At(p) # "prove" => Ours(proc[p].seen)

(* Only a run that is up is connected. *)
Connected == \A p \in Proc : proc[p].conn # 0 => At(p) = "up"

OnFile == pidfile \in Chrome => Spawned(pidfile)

(* Only the user starts a browser on another dir. *)
DirsOurs == met # "user" => \A c \in Chrome : chrome[c].dir = "ours"

(* A run's browser is in the pidfile, or about to be put there. *)
Recorded ==
  notes \cap LossKinds = {} =>
    \A c \in Chrome : Alive(c) /\ chrome[c].by # User =>
      pidfile = c \/ \E p \in Proc : At(p) = "record" /\ proc[p].own = c

Spared == "foreign" \notin notes /\ (LockVisible => "session" \notin notes)

ProviderInv ==
  /\ ProviderTypeOK /\ (\A p \in Proc : InHand(p)) /\ Connected
  /\ OnFile /\ DirsOurs /\ Recorded /\ Spared
----------------------------------------------------------------------------
(* What a step does to the browsers *)

Process == [at : Steps, own : 0..MaxChromes, owner : BOOLEAN, seen : 0..MaxChromes,
            conn : 0..MaxChromes, victim : 0..MaxChromes, after : {"closed", "failed", "clear"}]
Browser == [state : States, dir : {"ours", "foreign"}, by : Proc \cup {User}]

LEMMA ProviderTypes ==
  ASSUME ProviderTypeOK
  PROVE  /\ chrome \in [Chrome -> Browser] /\ proc \in [Proc -> Process]
         /\ pidfile \in 0..(MaxChromes + 1) /\ old \in BOOLEAN /\ reused \subseteq Chrome
         /\ met \in ProviderCaseKinds /\ notes \subseteq NoteKinds
BY ChromeProviderAssumption DEF ProviderTypeOK, Browser, Process

LEMMA ProviderNumbers ==
  /\ MaxChromes \in Nat /\ 0 \in 0..MaxChromes /\ 0 \in 0..(MaxChromes + 1)
  /\ Torn \in 0..(MaxChromes + 1) /\ Torn \notin Chrome /\ 0 \notin Chrome
  /\ \A c : c \in Chrome <=> c \in 0..MaxChromes /\ c # 0
BY ChromeProviderAssumption DEF Torn, Chrome

(* A browser once started is never started again, keeps its spawner while   *)
(* it lives, and its dir if that is ours.                                   *)
Evolves ==
  \A c \in Chrome :
    chrome[c].state # "none" =>
      /\ chrome'[c].state # "none"
      /\ Alive(c)' => Alive(c) /\ chrome'[c].by = chrome[c].by
      /\ chrome[c].dir = "ours" => chrome'[c].dir = "ours"

LEMMA BrowsersEvolve ==
  ASSUME ProviderTypeOK, [ProviderNext]_providerVars
  PROVE  Evolves /\ chrome' \in [Chrome -> Browser]
<1>1. chrome \in [Chrome -> Browser] /\ proc \in [Proc -> Process]
  BY ProviderTypes
<1>2. Gone \in Browser /\ Gone.state = "dead" /\ Gone.dir = "ours"
  BY DEF Gone, Browser, States
<1>3. CASE UNCHANGED chrome
  BY <1>1, <1>3 DEF Evolves, Alive
<1>4. ASSUME NEW p \in Proc, Spawn(p), chrome' # chrome PROVE Evolves /\ chrome' \in [Chrome -> Browser]
  <2>1. PICK c \in Fresh : chrome' = [chrome EXCEPT ![c] = [state |-> "starting", dir |-> "ours", by |-> p]]
    BY <1>4 DEF Spawn
  <2>2. c \in Chrome /\ chrome[c].state = "none"
    BY <2>1 DEF Fresh
  <2>3. [state |-> "starting", dir |-> "ours", by |-> p] \in Browser
    BY DEF Browser, States
  <2>4. QED
    BY <1>1, <2>1, <2>2, <2>3 DEF Evolves, Alive
<1>5. ASSUME NEW p \in Proc, KillWait(p) PROVE Evolves /\ chrome' \in [Chrome -> Browser]
  <2>1. UNCHANGED chrome \/ (Alive(proc[p].victim) /\ chrome' = [chrome EXCEPT ![proc[p].victim] = Gone])
    BY <1>5 DEF KillWait
  <2>2. QED
    BY <1>1, <1>2, <1>3, <2>1 DEF Evolves, Alive
<1>6. ASSUME NEW c \in Chrome, ComeUp(c) PROVE Evolves /\ chrome' \in [Chrome -> Browser]
  <2>1. chrome[c].state = "starting"
    BY <1>6 DEF ComeUp
  <2>2. PICK up \in {"listening", "mute"} :
          chrome' = [chrome EXCEPT ![c] = Gone] \/ chrome' = [chrome EXCEPT ![c].state = up]
    BY <1>6, Zenon DEF ComeUp
  <2>3. QED
    BY <1>1, <1>2, <2>1, <2>2 DEF Evolves, Alive, Browser, States
<1>7. ASSUME NEW c \in Chrome, Exit(c) PROVE Evolves /\ chrome' \in [Chrome -> Browser]
  BY <1>1, <1>2, <1>7 DEF Exit, Running, Evolves, Alive
<1>8. CASE UserStarts
  <2>1. PICK c \in Fresh, d \in {"ours", "foreign"} :
          chrome' = [chrome EXCEPT ![c] = [state |-> "starting", dir |-> d, by |-> User]]
    BY <1>8 DEF UserStarts
  <2>2. c \in Chrome /\ chrome[c].state = "none"
    BY <2>1 DEF Fresh
  <2>3. [state |-> "starting", dir |-> d, by |-> User] \in Browser
    BY DEF Browser, States
  <2>4. QED
    BY <1>1, <2>1, <2>2, <2>3 DEF Evolves, Alive
<1>9. QED
  BY <1>3, <1>4, <1>5, <1>6, <1>7, <1>8
     DEF ProviderNext, ProcStep, Probe, Prove, ReadPidfile, ClearSession, NoExecutable, Record, RecordFails,
         Connect, GiveUp, Close, KillNothing, KillGone, KillTerm, KillDone, Crash, Reuse, Age, Doctor,
         browsers, providerVars
----------------------------------------------------------------------------
(* What a step does to the processes *)

LEMMA Going ==
  ASSUME ProviderTypeOK, NEW p \in Proc, NEW r \in Process, Goes(p, r)
  PROVE  /\ proc' \in [Proc -> Process]
         /\ \A q \in Proc : q # p => proc'[q] = proc[q]
         /\ r.at \notin Ends => proc'[p] = r
         /\ r.at \in Ends => proc'[p] = Idle(r.at)
<1>1. proc \in [Proc -> Process]
  BY ProviderTypes
<1>2. Idle(r.at) \in Process
  BY ProviderNumbers DEF Idle, Process
<1>3. QED
  BY <1>1, <1>2 DEF Goes

LEMMA IdleHas ==
  ASSUME NEW step
  PROVE  Idle(step).at = step /\ Idle(step).own = 0 /\ Idle(step).seen = 0 /\ Idle(step).conn = 0
         /\ Idle(step).victim = 0
BY DEF Idle

(* The fields that the invariant speaks of are as they were. *)
Stays(q) ==
  /\ At(q)' = At(q) /\ proc'[q].own = proc[q].own
  /\ proc'[q].seen = proc[q].seen /\ proc'[q].victim = proc[q].victim

(* The process is at another step with the same in hand, or at its end. *)
LEMMA Stepping ==
  ASSUME ProviderTypeOK, NEW p \in Proc, NEW step \in Steps, To(p, step)
  PROVE  /\ proc' \in [Proc -> Process] /\ At(p)' = step
         /\ \A q \in Proc : q # p => Stays(q)
         /\ step \notin Ends => proc'[p].own = proc[p].own /\ proc'[p].seen = proc[p].seen
                                /\ proc'[p].victim = proc[p].victim
         /\ step \in Ends => proc'[p].own = 0 /\ proc'[p].seen = 0 /\ proc'[p].victim = 0
<1> DEFINE r == [proc[p] EXCEPT !.at = step]
<1>1. proc[p] \in Process
  BY ProviderTypes
<1>2. r \in Process /\ r.at = step /\ r.own = proc[p].own /\ r.seen = proc[p].seen /\ r.victim = proc[p].victim
  BY <1>1 DEF Process
<1>3. Goes(p, r)
  BY DEF To
<1> HIDE DEF r
<1>4. /\ proc' \in [Proc -> Process] /\ \A q \in Proc : q # p => proc'[q] = proc[q]
      /\ proc'[p] = r \/ (r.at \in Ends /\ proc'[p] = Idle(r.at))
      /\ r.at \notin Ends => proc'[p] = r
      /\ r.at \in Ends => proc'[p] = Idle(r.at)
  BY <1>2, <1>3, Going
<1>5. QED
  BY <1>2, <1>4, IdleHas DEF Stays, At

LEMMA Killing ==
  ASSUME ProviderTypeOK, NEW p \in Proc, NEW c \in 0..MaxChromes, NEW step \in {"closed", "failed", "clear"},
         Kill(p, c, step)
  PROVE  /\ proc' \in [Proc -> Process] /\ At(p)' = "term"
         /\ \A q \in Proc : q # p => Stays(q)
         /\ proc'[p].own = proc[p].own /\ proc'[p].seen = proc[p].seen /\ proc'[p].victim = c
<1> DEFINE r == [proc[p] EXCEPT !.at = "term", !.victim = c, !.after = step, !.conn = 0]
<1>1. proc[p] \in Process
  BY ProviderTypes
<1>2. r \in Process /\ r.at = "term" /\ r.own = proc[p].own /\ r.seen = proc[p].seen /\ r.victim = c
  BY <1>1, ProviderNumbers DEF Process, Steps
<1>3. Goes(p, r)
  BY DEF Kill
<1> HIDE DEF r
<1>4. QED
  BY <1>2, <1>3, Going DEF Stays, At, Ends

LEMMA KillReturns ==
  ASSUME ProviderTypeOK, NEW p \in Proc, Killed(p)
  PROVE  /\ proc' \in [Proc -> Process] /\ At(p)' \in {"closed", "failed", "clear"}
         /\ \A q \in Proc : q # p => Stays(q)
         /\ proc'[p].own \in {proc[p].own, 0} /\ proc'[p].seen \in {proc[p].seen, 0} /\ proc'[p].victim = 0
<1> DEFINE r == [proc[p] EXCEPT !.at = proc[p].after, !.victim = 0]
<1>1. proc[p] \in Process
  BY ProviderTypes
<1>2. r \in Process /\ r.at \in {"closed", "failed", "clear"}
      /\ r.own = proc[p].own /\ r.seen = proc[p].seen /\ r.victim = 0
  BY <1>1, ProviderNumbers DEF Process, Steps, Ends
<1>3. Goes(p, r)
  BY DEF Killed
<1> HIDE DEF r
<1>4. /\ proc' \in [Proc -> Process] /\ \A q \in Proc : q # p => proc'[q] = proc[q]
      /\ proc'[p] = r \/ (r.at \in Ends /\ proc'[p] = Idle(r.at))
      /\ r.at \notin Ends => proc'[p] = r
      /\ r.at \in Ends => proc'[p] = Idle(r.at)
  BY <1>2, <1>3, Going
<1>5. QED
  BY <1>2, <1>4, IdleHas DEF Stays, At

(* What is in hand stays good while the browsers go on. *)
LEMMA HandKept ==
  ASSUME ProviderTypeOK, Evolves, NEW q \in Proc, InHand(q), Stays(q)
  PROVE  InHand(q)'
<1>1. proc[q] \in Process
  BY ProviderTypes
<1>2. QED
  BY <1>1, ProviderNumbers DEF InHand, Stays, At, Spawned, Evolves, Ours, Process

LEMMA PidKept ==
  ASSUME Evolves, NEW c \in 0..MaxChromes
  PROVE  /\ Spawned(c) => Spawned(c)'
         /\ c # 0 /\ chrome[c].state # "none" => chrome'[c].state # "none" /\ (Ours(c) => Ours(c)')
BY ProviderNumbers DEF Evolves, Spawned, Ours, Alive

LEMMA EndsHand ==
  ASSUME NEW p \in Proc, proc'[p].own = 0, proc'[p].seen = 0, proc'[p].victim = 0, At(p)' \in Ends
  PROVE  InHand(p)'
BY DEF InHand, Spawned, Ends, At

(* The same in hand, at a step that asks nothing more of it. *)
LEMMA GoesOnHand ==
  ASSUME ProviderTypeOK, Evolves, NEW p \in Proc, InHand(p),
         proc'[p].own \in {proc[p].own, 0}, proc'[p].seen \in {proc[p].seen, 0},
         NEW v \in 0..MaxChromes, Spawned(v), proc'[p].victim = v,
         At(p) # "prove", At(p)' \notin {"record", "wait", "unlink", "prove"}
  PROVE  InHand(p)'
<1>1. proc[p] \in Process
  BY ProviderTypes
<1>2. PICK o \in 0..MaxChromes : o = proc'[p].own /\ Spawned(o)
  BY <1>1, ProviderNumbers DEF InHand, Process, Spawned
<1>3. PICK e \in 0..MaxChromes : e = proc'[p].seen /\ (e # 0 => chrome[e].state # "none" /\ Ours(e))
  BY <1>1, ProviderNumbers DEF InHand, Process
<1>4. Spawned(o)' /\ Spawned(v)' /\ (e # 0 => chrome'[e].state # "none" /\ Ours(e)')
  BY <1>2, <1>3, PidKept
<1>5. QED
  BY <1>2, <1>3, <1>4 DEF InHand, At, Spawned, Ours, Alive

----------------------------------------------------------------------------
(* Every step keeps the invariant *)

LEMMA CutStays ==
  ASSUME ProviderTypeOK, NEW c
  PROVE  /\ Cut(c) \in [Proc -> Process]
         /\ \A q \in Proc : /\ Cut(c)[q].at = proc[q].at /\ Cut(c)[q].own = proc[q].own
                            /\ Cut(c)[q].seen = proc[q].seen /\ Cut(c)[q].victim = proc[q].victim
<1> SUFFICES ASSUME NEW q \in Proc
             PROVE  /\ Cut(c) \in [Proc -> Process]
                    /\ Cut(c)[q].at = proc[q].at /\ Cut(c)[q].own = proc[q].own
                    /\ Cut(c)[q].seen = proc[q].seen /\ Cut(c)[q].victim = proc[q].victim
  BY DEF Cut
<1>1. proc \in [Proc -> Process]
  BY ProviderTypes
<1>2. QED
  BY <1>1, ProviderNumbers DEF Cut, Process

(* No step takes anything in hand beyond what InHand allows. *)
LEMMA HandsStep ==
  ASSUME ProviderInv, [ProviderNext]_providerVars
  PROVE  proc' \in [Proc -> Process] /\ \A p \in Proc : InHand(p)'
<1> DEFINE Good == proc' \in [Proc -> Process] /\ \A p \in Proc : InHand(p)'
<1>1. ProviderTypeOK /\ Evolves /\ \A p \in Proc : InHand(p)
  BY BrowsersEvolve DEF ProviderInv
<1>2. proc \in [Proc -> Process] /\ pidfile \in 0..(MaxChromes + 1)
  BY <1>1, ProviderTypes
<1>3. ASSUME NEW p \in Proc, proc' \in [Proc -> Process], \A q \in Proc : q # p => Stays(q), InHand(p)'
      PROVE  Good
  BY <1>1, <1>3, HandKept
<1>4. ASSUME proc' \in [Proc -> Process], \A q \in Proc : Stays(q) PROVE Good
  BY <1>1, <1>4, HandKept
<1>5. \A q \in Proc : proc'[q] = proc[q] => Stays(q)
  BY DEF Stays, At
<1>6. ASSUME NEW p \in Proc, NEW step \in Steps, To(p, step), At(p) # "prove",
             step \notin {"record", "wait", "unlink", "prove"}
      PROVE  Good
  <2>1. InHand(p)'
    BY <1>1, <1>2, <1>6, Stepping, EndsHand, GoesOnHand, ProviderNumbers DEF InHand, Process
  <2>2. QED
    BY <1>1, <1>3, <1>6, <2>1, Stepping
<1>7. ASSUME NEW p \in Proc, NEW c \in 0..MaxChromes, NEW step \in {"closed", "failed", "clear"}, Kill(p, c, step),
             At(p) # "prove", Spawned(c)
      PROVE  Good
  <2>1. InHand(p)'
    BY <1>1, <1>7, Killing, GoesOnHand
  <2>2. QED
    BY <1>1, <1>3, <1>7, <2>1, Killing
<1>8. ASSUME NEW p \in Proc, Killed(p), At(p) # "prove" PROVE Good
  <2>1. Spawned(0) /\ 0 \in 0..MaxChromes
    BY ProviderNumbers DEF Spawned
  <2>2. InHand(p)'
    BY <1>1, <1>8, <2>1, KillReturns, GoesOnHand
  <2>3. QED
    BY <1>1, <1>3, <1>8, <2>2, KillReturns
<1>9. ASSUME NEW p \in Proc, Probe(p) PROVE Good
  <2>1. CASE To(p, "clear")
    BY <1>6, <1>9, <2>1 DEF Probe, Steps
  <2>2. ASSUME NEW c \in Listener, NEW step \in {"prove", "clear"}, step = "prove" \/ met = "slow",
               Goes(p, [proc[p] EXCEPT !.at = step, !.seen = c])
        PROVE  Good
    <3> DEFINE r == [proc[p] EXCEPT !.at = step, !.seen = c]
    <3>1. c \in Chrome /\ c \in 0..MaxChromes /\ c # 0 /\ chrome[c].state # "none"
      BY <2>2, ProviderNumbers DEF Listener
    <3>2. proc[p] \in Process
      BY <1>2
    <3>3. r \in Process /\ r.at = step /\ r.own = proc[p].own /\ r.seen = c /\ r.victim = proc[p].victim
      BY <3>1, <3>2 DEF Process, Steps
    <3>4. Goes(p, r)
      BY <2>2
    <3> HIDE DEF r
    <3>5. proc' \in [Proc -> Process] /\ proc'[p] = r /\ \A q \in Proc : q # p => proc'[q] = proc[q]
      BY <1>1, <3>3, <3>4, Going DEF Ends
    <3>6. PICK o \in 0..MaxChromes, v \in 0..MaxChromes :
            o = proc[p].own /\ v = proc[p].victim /\ Spawned(o) /\ Spawned(v)
      BY <1>1, <3>2 DEF Process, InHand
    <3>7. step = "clear" => Ours(c)
      BY <2>2, <3>1 DEF ProviderInv, DirsOurs, Ours
    <3>8. Spawned(o)' /\ Spawned(v)' /\ chrome'[c].state # "none" /\ (step = "clear" => Ours(c)')
      BY <1>1, <3>1, <3>6, <3>7, PidKept
    <3>9. InHand(p)'
      BY <2>2, <3>3, <3>5, <3>6, <3>8 DEF InHand, At, Spawned, Ours, Alive
    <3>10. QED
      BY <1>3, <1>5, <3>5, <3>9
  <2>3. QED
    BY <1>9, <2>1, <2>2 DEF Probe
<1>10. ASSUME NEW p \in Proc, Prove(p) PROVE Good
  <2>1. PICK step \in {"read", "failed"} : To(p, step) /\ (step = "read" => Proved(proc[p].seen))
    BY <1>10 DEF Prove
  <2>2. step \in Steps /\ (step = "failed" <=> step \in Ends) /\ step \notin {"record", "wait", "unlink"}
    BY DEF Steps, Ends
  <2>3. CASE step = "failed"
    BY <1>1, <1>3, <2>1, <2>2, <2>3, Stepping, EndsHand
  <2>4. CASE step = "read"
    <3>1. /\ proc' \in [Proc -> Process] /\ At(p)' = "read" /\ \A q \in Proc : q # p => Stays(q)
          /\ proc'[p].own = proc[p].own /\ proc'[p].seen = proc[p].seen /\ proc'[p].victim = proc[p].victim
      BY <1>1, <2>1, <2>2, <2>4, Stepping
    <3>2. PICK o \in 0..MaxChromes, v \in 0..MaxChromes, e \in 0..MaxChromes :
            o = proc[p].own /\ v = proc[p].victim /\ e = proc[p].seen /\ Spawned(o) /\ Spawned(v)
      BY <1>1, <1>2 DEF Process, InHand
    <3>3. e # 0 => chrome[e].state # "none" /\ Ours(e)
      BY <1>1, <2>1, <2>4, <3>2 DEF InHand, Proved
    <3>4. Spawned(o)' /\ Spawned(v)' /\ (e # 0 => chrome'[e].state # "none" /\ Ours(e)')
      BY <1>1, <3>2, <3>3, PidKept
    <3>5. InHand(p)'
      BY <3>1, <3>2, <3>4 DEF InHand, At, Spawned, Ours, Alive
    <3>6. QED
      BY <1>3, <3>1, <3>5
  <2>5. QED
    BY <2>3, <2>4
<1>11. ASSUME NEW p \in Proc, ReadPidfile(p) PROVE Good
  <2>1. CASE Recycles /\ Kill(p, Healed, "clear")
    <3>1. Healed \in 0..MaxChromes /\ Spawned(Healed)
      BY <2>1, ProviderNumbers DEF Recycles, Healed, NoPidfile, ProviderInv, OnFile
    <3>2. QED
      BY <1>7, <1>11, <2>1, <3>1 DEF ReadPidfile
  <2>2. CASE To(p, "connect")
    BY <1>6, <1>11, <2>2 DEF ReadPidfile, Steps
  <2>3. QED
    BY <1>11, <2>1, <2>2 DEF ReadPidfile
<1>12. ASSUME NEW p \in Proc, NEW step \in {"failed", "closed"}, LetGo(p, step), At(p) # "prove" PROVE Good
  <2>1. proc[p].own \in 0..MaxChromes /\ Spawned(proc[p].own)
    BY <1>1, <1>2 DEF Process, InHand
  <2>2. QED
    BY <1>6, <1>7, <1>12, <2>1 DEF LetGo, Steps, Ends
<1>13. ASSUME NEW p \in Proc, Spawn(p) PROVE Good
  <2> DEFINE r(c) == [proc[p] EXCEPT !.at = "record", !.own = c, !.owner = TRUE]
             n == [proc[p] EXCEPT !.at = "connect", !.owner = TRUE]
  <2>1. proc[p] \in Process
    BY <1>2
  <2>2. CASE Goes(p, n)
    <3>1. n \in Process /\ n.at = "connect" /\ n.own = proc[p].own /\ n.seen = proc[p].seen /\ n.victim = proc[p].victim
      BY <2>1 DEF Process, Steps
    <3> HIDE DEF n
    <3>2. proc' \in [Proc -> Process] /\ proc'[p] = n /\ \A q \in Proc : q # p => proc'[q] = proc[q]
      BY <1>1, <2>2, <3>1, Going DEF Ends
    <3>3. proc[p].victim \in 0..MaxChromes /\ Spawned(proc[p].victim) /\ At(p) = "spawn"
      BY <1>1, <1>13, <2>1 DEF Process, InHand, Spawn
    <3>4. InHand(p)'
      BY <1>1, <3>1, <3>2, <3>3, GoesOnHand DEF At
    <3>5. QED
      BY <1>3, <1>5, <3>2, <3>4
  <2>3. ASSUME NEW c \in Fresh, Goes(p, r(c)),
               chrome' = [chrome EXCEPT ![c] = [state |-> "starting", dir |-> "ours", by |-> p]]
        PROVE  Good
    <3>1. c \in Chrome /\ c \in 0..MaxChromes /\ c # 0
      BY <2>3, ProviderNumbers DEF Fresh
    <3>2. /\ r(c) \in Process /\ r(c).at = "record" /\ r(c).own = c /\ r(c).seen = proc[p].seen
          /\ r(c).victim = proc[p].victim
      BY <2>1, <3>1 DEF Process, Steps
    <3> HIDE DEF r
    <3>3. proc' \in [Proc -> Process] /\ proc'[p] = r(c) /\ \A q \in Proc : q # p => proc'[q] = proc[q]
      BY <1>1, <2>3, <3>2, Going DEF Ends
    <3>4. PICK v \in 0..MaxChromes, e \in 0..MaxChromes :
            v = proc[p].victim /\ e = proc[p].seen /\ Spawned(v)
      BY <1>1, <2>1 DEF Process, InHand
    <3>5. e # 0 => chrome[e].state # "none" /\ Ours(e)
      BY <1>1, <1>13, <3>4 DEF InHand, Spawn
    <3>6. Spawned(v)' /\ (e # 0 => chrome'[e].state # "none" /\ Ours(e)')
      BY <1>1, <3>4, <3>5, PidKept
    <3>7. chrome'[c].state = "starting" /\ chrome'[c].by = p /\ p # User
      BY <1>1, <2>3, <3>1, ProviderTypes, ChromeProviderAssumption
    <3>8. InHand(p)'
      BY <3>1, <3>2, <3>3, <3>4, <3>6, <3>7 DEF InHand, At, Spawned, Ours, Alive
    <3>9. QED
      BY <1>3, <1>5, <3>3, <3>8
  <2>4. QED
    BY <1>13, <2>2, <2>3 DEF Spawn
<1>14. ASSUME NEW p \in Proc, Connect(p) PROVE Good
  <2>1. PICK c \in Listener : Goes(p, [proc[p] EXCEPT !.at = "up", !.conn = c])
    BY <1>14 DEF Connect
  <2> DEFINE r == [proc[p] EXCEPT !.at = "up", !.conn = c]
  <2>2. proc[p] \in Process /\ c \in 0..MaxChromes
    BY <1>2, ProviderNumbers DEF Listener
  <2>3. r \in Process /\ r.at = "up" /\ r.own = proc[p].own /\ r.seen = proc[p].seen /\ r.victim = proc[p].victim
    BY <2>2 DEF Process, Steps
  <2>4. Goes(p, r)
    BY <2>1
  <2> HIDE DEF r
  <2>5. proc' \in [Proc -> Process] /\ proc'[p] = r /\ \A q \in Proc : q # p => proc'[q] = proc[q]
    BY <1>1, <2>3, <2>4, Going DEF Ends
  <2>6. proc[p].victim \in 0..MaxChromes /\ Spawned(proc[p].victim) /\ At(p) = "connect"
    BY <1>1, <1>14, <2>2 DEF Process, InHand, Connect
  <2>7. InHand(p)'
    BY <1>1, <2>3, <2>5, <2>6, GoesOnHand DEF At
  <2>8. QED
    BY <1>3, <1>5, <2>5, <2>7
<1>15. ASSUME NEW p \in Proc, Record(p) \/ RecordFails(p) \/ ClearSession(p) \/ NoExecutable(p) PROVE Good
  BY <1>6, <1>15 DEF Record, RecordFails, ClearSession, NoExecutable, Steps, Ends
<1>16. ASSUME NEW p \in Proc, GiveUp(p) \/ Close(p) PROVE Good
  BY <1>12, <1>16 DEF GiveUp, Close
<1>17. ASSUME NEW p \in Proc, KillNothing(p) \/ KillGone(p) \/ KillDone(p) PROVE Good
  BY <1>8, <1>17 DEF KillNothing, KillGone, KillDone
<1>18. ASSUME NEW p \in Proc, KillTerm(p) PROVE Good
  <2>1. /\ proc' \in [Proc -> Process] /\ At(p)' = "wait" /\ \A q \in Proc : q # p => Stays(q)
        /\ proc'[p].own = proc[p].own /\ proc'[p].seen = proc[p].seen /\ proc'[p].victim = proc[p].victim
    BY <1>1, <1>18, Stepping DEF KillTerm, Steps, Ends
  <2>2. PICK o \in 0..MaxChromes, v \in 0..MaxChromes, e \in 0..MaxChromes :
          o = proc[p].own /\ v = proc[p].victim /\ e = proc[p].seen /\ Spawned(o) /\ Spawned(v)
    BY <1>1, <1>2 DEF Process, InHand
  <2>3. v # 0 /\ (e # 0 => chrome[e].state # "none" /\ Ours(e))
    BY <1>1, <1>18, <2>2 DEF InHand, KillTerm
  <2>4. Spawned(o)' /\ Spawned(v)' /\ (e # 0 => chrome'[e].state # "none" /\ Ours(e)')
    BY <1>1, <2>2, <2>3, PidKept
  <2>5. InHand(p)'
    BY <2>1, <2>2, <2>3, <2>4 DEF InHand, At, Spawned, Ours, Alive
  <2>6. QED
    BY <1>3, <2>1, <2>5
<1>19. ASSUME NEW p \in Proc, KillWait(p) PROVE Good
  <2>1. PICK o \in 0..MaxChromes, v \in 0..MaxChromes, e \in 0..MaxChromes :
          o = proc[p].own /\ v = proc[p].victim /\ e = proc[p].seen /\ Spawned(o) /\ Spawned(v)
    BY <1>1, <1>2 DEF Process, InHand
  <2>2. proc' = [Cut(v) EXCEPT ![p].at = "unlink"]
    BY <1>19, <2>1 DEF KillWait
  <2>3. "unlink" \in Steps
    BY DEF Steps
  <2>4. proc' \in [Proc -> Process]
    BY <1>1, <2>2, <2>3, CutStays DEF Process
  <2>5. /\ At(p)' = "unlink" /\ proc'[p].own = o /\ proc'[p].seen = e /\ proc'[p].victim = v
    BY <1>1, <2>1, <2>2, CutStays DEF At, Process
  <2>6. \A q \in Proc : q # p => Stays(q)
    BY <1>1, <2>2, CutStays DEF At, Stays
  <2>7. v # 0 /\ v \in Chrome /\ (e # 0 => chrome[e].state # "none" /\ Ours(e))
    BY <1>1, <1>19, <2>1, ProviderNumbers DEF InHand, KillWait
  <2>8. Spawned(o)' /\ Spawned(v)' /\ (e # 0 => chrome'[e].state # "none" /\ Ours(e)')
    BY <1>1, <2>1, <2>7, PidKept
  <2>9. ~Alive(v)'
    BY <1>1, <1>19, <2>1, <2>7, ProviderTypes DEF KillWait, Alive, Gone
  <2>10. InHand(p)'
    BY <2>5, <2>7, <2>8, <2>9 DEF InHand, At, Spawned, Ours, Alive
  <2>11. QED
    BY <1>3, <2>4, <2>6, <2>10
<1>20. ASSUME NEW p \in Proc, Crash(p) PROVE Good
  <2>1. To(p, "dead") /\ "dead" \in Steps /\ "dead" \in Ends
    BY <1>20 DEF Crash, Steps, Ends
  <2>2. InHand(p)'
    BY <1>1, <2>1, Stepping, EndsHand
  <2>3. QED
    BY <1>1, <1>3, <2>1, <2>2, Stepping
<1>21. CASE UNCHANGED proc
  BY <1>2, <1>4, <1>5, <1>21
<1>22. ASSUME NEW c \in Chrome, Exit(c) PROVE Good
  <2>1. proc' = Cut(c)
    BY <1>22 DEF Exit
  <2>2. QED
    BY <1>1, <1>4, <2>1, CutStays DEF Stays, At
<1>23. QED
  BY <1>9, <1>10, <1>11, <1>13, <1>14, <1>15, <1>16, <1>17, <1>18, <1>19, <1>20, <1>21, <1>22
     DEF ProviderNext, ProcStep, ComeUp, Reuse, UserStarts, Age, Doctor, providerVars

LEMMA ConnectedStep ==
  ASSUME ProviderInv, [ProviderNext]_providerVars
  PROVE  Connected'
<1>1. ProviderTypeOK /\ Connected /\ proc \in [Proc -> Process]
  BY ProviderTypes DEF ProviderInv
<1>2. ASSUME NEW p \in Proc, NEW r \in Process, Goes(p, r), r.conn # 0 => r.at = "up" PROVE Connected'
  <2>1. /\ \A q \in Proc : q # p => proc'[q] = proc[q]
        /\ proc'[p] = r \/ proc'[p] = Idle(r.at)
    BY <1>1, <1>2, Going
  <2>2. proc'[p].conn # 0 => proc'[p].at = "up"
    BY <1>2, <2>1, IdleHas
  <2>3. QED
    BY <1>1, <2>1, <2>2 DEF Connected, At
<1>3. ASSUME NEW p \in Proc, NEW step \in Steps, To(p, step), At(p) # "up" PROVE Connected'
  <2>1. [proc[p] EXCEPT !.at = step] \in Process /\ [proc[p] EXCEPT !.at = step].conn = 0
    BY <1>1, <1>3, ProviderNumbers DEF Process, Connected
  <2>2. QED
    BY <1>2, <1>3, <2>1 DEF To
<1>4. ASSUME NEW p \in Proc, NEW step \in Ends, To(p, step) PROVE Connected'
  <2>1. [proc[p] EXCEPT !.at = step] \in Process /\ [proc[p] EXCEPT !.at = step].at = step
    BY <1>1, <1>4 DEF Process, Steps
  <2>2. proc'[p] = Idle(step) /\ \A q \in Proc : q # p => proc'[q] = proc[q]
    BY <1>1, <1>4, <2>1, Going DEF To
  <2>3. QED
    BY <1>1, <2>2 DEF Connected, At, Idle
<1>5. ASSUME NEW p \in Proc, NEW c \in 0..MaxChromes, NEW step \in {"closed", "failed", "clear"}, Kill(p, c, step)
      PROVE  Connected'
  <2> DEFINE r == [proc[p] EXCEPT !.at = "term", !.victim = c, !.after = step, !.conn = 0]
  <2>1. r \in Process /\ r.conn = 0
    BY <1>1, ProviderNumbers DEF Process, Steps
  <2>2. QED
    BY <1>2, <1>5, <2>1 DEF Kill
<1>6. ASSUME NEW p \in Proc, Killed(p), At(p) # "up" PROVE Connected'
  <2> DEFINE r == [proc[p] EXCEPT !.at = proc[p].after, !.victim = 0]
  <2>1. r \in Process /\ r.conn = 0
    BY <1>1, <1>6, ProviderNumbers DEF Process, Steps, Ends, Connected
  <2>2. QED
    BY <1>2, <1>6, <2>1 DEF Killed
<1>7. ASSUME NEW p \in Proc, NEW c \in 0..MaxChromes, NEW step \in Steps, At(p) # "up",
             Goes(p, [proc[p] EXCEPT !.at = step, !.seen = c])
      PROVE  Connected'
  <2>1. [proc[p] EXCEPT !.at = step, !.seen = c] \in Process /\ [proc[p] EXCEPT !.at = step, !.seen = c].conn = 0
    BY <1>1, <1>7, ProviderNumbers DEF Process, Connected
  <2>2. QED
    BY <1>2, <1>7, <2>1
<1>8. ASSUME NEW p \in Proc, Probe(p) PROVE Connected'
  BY <1>3, <1>7, <1>8, ProviderNumbers DEF Probe, Steps, Listener
<1>9. ASSUME NEW p \in Proc, ReadPidfile(p) PROVE Connected'
  <2>1. Recycles => Healed \in 0..MaxChromes
    BY ProviderNumbers DEF Recycles, Healed, NoPidfile
  <2>2. QED
    BY <1>3, <1>5, <1>9, <2>1 DEF ReadPidfile, Steps
<1>10. ASSUME NEW p \in Proc, Spawn(p) PROVE Connected'
  <2>1. CASE Goes(p, [proc[p] EXCEPT !.at = "connect", !.owner = TRUE])
    <3>1. /\ [proc[p] EXCEPT !.at = "connect", !.owner = TRUE] \in Process
          /\ [proc[p] EXCEPT !.at = "connect", !.owner = TRUE].conn = 0
      BY <1>1, <1>10, ProviderNumbers DEF Process, Connected, Spawn, Steps
    <3>2. QED
      BY <1>2, <2>1, <3>1
  <2>2. ASSUME NEW c \in Fresh, Goes(p, [proc[p] EXCEPT !.at = "record", !.own = c, !.owner = TRUE])
        PROVE  Connected'
    <3>1. /\ [proc[p] EXCEPT !.at = "record", !.own = c, !.owner = TRUE] \in Process
          /\ [proc[p] EXCEPT !.at = "record", !.own = c, !.owner = TRUE].conn = 0
      BY <1>1, <1>10, ProviderNumbers DEF Process, Connected, Spawn, Steps, Fresh
    <3>2. QED
      BY <1>2, <2>2, <3>1
  <2>3. QED
    BY <1>10, <2>1, <2>2 DEF Spawn
<1>11. ASSUME NEW p \in Proc, Connect(p) PROVE Connected'
  <2>1. PICK c \in Listener : Goes(p, [proc[p] EXCEPT !.at = "up", !.conn = c])
    BY <1>11 DEF Connect
  <2>2. [proc[p] EXCEPT !.at = "up", !.conn = c] \in Process /\ [proc[p] EXCEPT !.at = "up", !.conn = c].at = "up"
    BY <1>1, ProviderNumbers DEF Process, Steps, Listener
  <2>3. QED
    BY <1>2, <2>1, <2>2
<1>12. ASSUME NEW p \in Proc, NEW step \in {"failed", "closed"}, LetGo(p, step) PROVE Connected'
  <2>1. proc[p].own \in 0..MaxChromes
    BY <1>1 DEF Process
  <2>2. QED
    BY <1>4, <1>5, <1>12, <2>1 DEF LetGo, Ends
<1>13. ASSUME NEW p \in Proc,
              Prove(p) \/ Record(p) \/ RecordFails(p) \/ ClearSession(p) \/ NoExecutable(p) \/ KillTerm(p)
       PROVE  Connected'
  BY <1>3, <1>13 DEF Prove, Record, RecordFails, ClearSession, NoExecutable, KillTerm, Steps, Ends
<1>14. ASSUME NEW p \in Proc, KillNothing(p) \/ KillGone(p) \/ KillDone(p) PROVE Connected'
  BY <1>6, <1>14 DEF KillNothing, KillGone, KillDone
<1>15. ASSUME NEW p \in Proc, GiveUp(p) \/ Close(p) PROVE Connected'
  BY <1>12, <1>15 DEF GiveUp, Close
<1>16. ASSUME NEW p \in Proc, Crash(p) PROVE Connected'
  BY <1>4, <1>16 DEF Crash, Ends
<1>17. \A c : \A q \in Proc : Cut(c)[q].conn \in {proc[q].conn, 0} /\ Cut(c)[q].at = proc[q].at /\ Cut(c)[q] \in Process
  <2> SUFFICES ASSUME NEW c, NEW q \in Proc
               PROVE  Cut(c)[q].conn \in {proc[q].conn, 0} /\ Cut(c)[q].at = proc[q].at /\ Cut(c)[q] \in Process
    OBVIOUS
  <2>1. Cut(c)[q] = IF proc[q].conn = c THEN [proc[q] EXCEPT !.conn = 0] ELSE proc[q]
    BY DEF Cut
  <2>2. QED
    BY <1>1, <2>1, ProviderNumbers DEF Process
<1>18. ASSUME NEW p \in Proc, KillWait(p) PROVE Connected'
  <2>1. PICK c : proc' = [Cut(c) EXCEPT ![p].at = "unlink"]
    BY <1>18 DEF KillWait
  <2>2. proc[p].conn = 0
    BY <1>1, <1>18 DEF KillWait, Connected
  <2>3. \A q \in Proc : q # p => proc'[q] = Cut(c)[q]
    BY <2>1 DEF Cut
  <2>4. proc'[p].conn = Cut(c)[p].conn
    BY <2>1, <1>17 DEF Cut, Process
  <2>5. QED
    BY <1>1, <1>17, <2>2, <2>3, <2>4 DEF Connected, At
<1>19. ASSUME NEW c \in Chrome, Exit(c) PROVE Connected'
  BY <1>1, <1>17, <1>19 DEF Exit, Connected, At
<1>20. CASE UNCHANGED proc
  BY <1>1, <1>20 DEF Connected, At
<1>21. QED
  BY <1>8, <1>9, <1>10, <1>11, <1>13, <1>14, <1>15, <1>16, <1>18, <1>19, <1>20
     DEF ProviderNext, ProcStep, ComeUp, Reuse, UserStarts, Age, Doctor, providerVars

(* What is in the pidfile, or about to be put there, is a run's browser.    *)
LEMMA RecordStep ==
  ASSUME ProviderInv, [ProviderNext]_providerVars
  PROVE  /\ pidfile' \in 0..(MaxChromes + 1) /\ old' \in BOOLEAN
         /\ OnFile'
<1>1. ProviderTypeOK /\ Evolves /\ OnFile /\ \A p \in Proc : InHand(p)
  BY BrowsersEvolve DEF ProviderInv
<1>2. pidfile \in 0..(MaxChromes + 1) /\ old \in BOOLEAN /\ proc \in [Proc -> Process]
  BY <1>1, ProviderTypes
<1>3. ASSUME pidfile' \in {pidfile, NoPidfile, Torn}, old' \in BOOLEAN
      PROVE  pidfile' \in 0..(MaxChromes + 1) /\ old' \in BOOLEAN /\ OnFile'
  <2>1. pidfile' \in 0..(MaxChromes + 1)
    BY <1>2, <1>3, ProviderNumbers DEF NoPidfile
  <2>2. pidfile' \in Chrome => pidfile' = pidfile /\ pidfile \in 0..MaxChromes /\ Spawned(pidfile)
    BY <1>1, <1>3, ProviderNumbers DEF NoPidfile, OnFile
  <2>3. \A c \in 0..MaxChromes : Spawned(c) => Spawned(c)'
    BY <1>1, PidKept
  <2>4. PICK f : f = pidfile'
    OBVIOUS
  <2>5. f \in Chrome => f \in 0..MaxChromes /\ Spawned(f)
    BY <2>2, <2>4
  <2>6. f \in Chrome => Spawned(f)'
    BY <2>3, <2>5
  <2>7. QED
    BY <1>3, <2>1, <2>4, <2>6 DEF OnFile, Spawned, Alive
<1>4. ASSUME NEW p \in Proc, Record(p) PROVE pidfile' \in 0..(MaxChromes + 1) /\ old' \in BOOLEAN /\ OnFile'
  <2>1. PICK o \in 0..MaxChromes : o = proc[p].own /\ Spawned(o)
    BY <1>1, <1>2 DEF Process, InHand
  <2>2. pidfile' = o /\ old' = FALSE /\ Spawned(o)'
    BY <1>1, <1>4, <2>1, PidKept DEF Record
  <2>3. o # 0 => chrome'[o].state # "none" /\ (Alive(o)' => chrome'[o].by # User)
    BY <2>2 DEF Spawned
  <2>4. OnFile'
    BY <2>2, <2>3, ProviderNumbers DEF OnFile, Spawned, Alive
  <2>5. o \in 0..(MaxChromes + 1)
    BY ProviderNumbers
  <2>6. QED
    BY <2>2, <2>4, <2>5
<1>5. Healed \in {pidfile, NoPidfile}
  BY DEF Healed
<1>6. CASE ~ \E p \in Proc : Record(p)
  <2>1. pidfile' \in {pidfile, NoPidfile, Torn} /\ old' \in BOOLEAN
    BY <1>2, <1>5, <1>6
       DEF ProviderNext, ProcStep, Probe, Prove, ReadPidfile, ClearSession, NoExecutable, Spawn, RecordFails,
           Connect, GiveUp, Close, KillNothing, KillGone, KillTerm, KillWait, KillDone, Crash, ComeUp, Exit,
           Reuse, UserStarts, Age, Doctor, Heal, RemoveRecord, browsers, record, providerVars
  <2>2. QED
    BY <1>3, <2>1
<1>7. QED
  BY <1>4, <1>6

LEMMA DirsStep ==
  ASSUME ProviderInv, [ProviderNext]_providerVars
  PROVE  met' = met /\ DirsOurs'
<1>1. chrome \in [Chrome -> Browser] /\ DirsOurs /\ Evolves
  BY BrowsersEvolve, ProviderTypes DEF ProviderInv
<1>2. met' = met
  BY DEF ProviderNext, ProcStep, Probe, Prove, ReadPidfile, ClearSession, NoExecutable, Spawn, Record, RecordFails,
     Connect, GiveUp, Close, KillNothing, KillGone, KillTerm, KillWait, KillDone, Crash, ComeUp, Exit,
     Reuse, UserStarts, Age, Doctor, browsers, providerVars
<1>3. SUFFICES ASSUME met # "user" PROVE \A c \in Chrome : chrome'[c].dir = "ours"
  BY <1>2 DEF DirsOurs
<1>4. ASSUME NEW c \in Chrome PROVE chrome'[c].dir = "ours"
  <2>1. chrome[c].dir = "ours"
    BY <1>1, <1>3 DEF DirsOurs
  <2>2. CASE chrome[c].state # "none"
    BY <1>1, <2>1, <2>2 DEF Evolves
  <2>3. CASE chrome[c].state = "none"
    <3>1. CASE chrome'[c] = chrome[c]
      BY <2>1, <3>1
    <3>2. ASSUME NEW p \in Proc, Spawn(p) PROVE chrome'[c].dir = "ours"
      <4>1. PICK d \in Chrome : \/ UNCHANGED chrome
                               \/ chrome' = [chrome EXCEPT ![d] = [state |-> "starting", dir |-> "ours", by |-> p]]
        BY <3>2 DEF Spawn, Fresh
      <4>2. QED
        BY <1>1, <2>1, <4>1
    <3>3. ASSUME NEW p \in Proc, KillWait(p) PROVE chrome'[c].dir = "ours"
      <4>1. \/ UNCHANGED chrome
            \/ chrome' = [chrome EXCEPT ![proc[p].victim] = Gone]
        BY <3>3 DEF KillWait
      <4>2. QED
        BY <1>1, <2>1, <4>1 DEF Gone
    <3>4. ASSUME NEW d \in Chrome, ComeUp(d) \/ Exit(d) PROVE chrome'[c].dir = "ours"
      <4>1. c # d
        BY <2>3, <3>4 DEF ComeUp, Exit, Running
      <4>2. PICK v : chrome' = [chrome EXCEPT ![d] = v]
        BY <3>4 DEF ComeUp, Exit
      <4>3. QED
        BY <1>1, <2>1, <4>1, <4>2
    <3>5. CASE UNCHANGED chrome
      BY <2>1, <3>5
    <3>6. QED
      BY <1>3, <3>2, <3>3, <3>4, <3>5
         DEF ProviderNext, ProcStep, Probe, Prove, ReadPidfile, ClearSession, NoExecutable, Record, RecordFails,
             Connect, GiveUp, Close, KillNothing, KillGone, KillTerm, KillDone, Crash, Reuse, UserStarts, Age, Doctor,
             browsers, providerVars
  <2>4. QED
    BY <2>2, <2>3
<1>5. QED
  BY <1>4

(* A browser that is alive after a step was so before, or was just begun.   *)
LEMMA Begun ==
  ASSUME ProviderInv, [ProviderNext]_providerVars, NEW c \in Chrome, Alive(c)', chrome'[c].by # User
  PROVE  \/ Alive(c) /\ chrome[c].by # User
         \/ \E p \in Proc : /\ Spawn(p) /\ At(p)' = "record" /\ proc'[p].own = c
<1>1. chrome \in [Chrome -> Browser] /\ proc \in [Proc -> Process] /\ ProviderTypeOK /\ Evolves
  BY BrowsersEvolve, ProviderTypes DEF ProviderInv
<1>2. CASE chrome[c].state # "none"
  BY <1>1, <1>2 DEF Evolves
<1>3. CASE chrome[c].state = "none"
  <2>1. CASE UNCHANGED chrome
    BY <1>3, <2>1 DEF Alive
  <2>2. ASSUME NEW p \in Proc, Spawn(p), chrome' # chrome
        PROVE  At(p)' = "record" /\ proc'[p].own = c
    <3>1. PICK d \in Fresh :
            /\ chrome' = [chrome EXCEPT ![d] = [state |-> "starting", dir |-> "ours", by |-> p]]
            /\ Goes(p, [proc[p] EXCEPT !.at = "record", !.own = d, !.owner = TRUE])
      BY <2>2 DEF Spawn
    <3>2. d = c
      <4>1. d # c => chrome'[c] = chrome[c]
        BY <1>1, <3>1 DEF Fresh
      <4>2. QED
        BY <1>3, <4>1 DEF Alive
    <3> DEFINE r == [proc[p] EXCEPT !.at = "record", !.own = d, !.owner = TRUE]
    <3>3. r \in Process /\ r.at = "record" /\ r.own = d
      BY <1>1, <3>1, ProviderNumbers DEF Process, Steps, Fresh
    <3>4. Goes(p, r)
      BY <3>1
    <3> HIDE DEF r
    <3>5. proc'[p] = r
      BY <1>1, <3>3, <3>4, Going DEF Ends
    <3>6. QED
      BY <3>2, <3>3, <3>5 DEF At
  <2>3. ASSUME NEW p \in Proc, KillWait(p) PROVE FALSE
    <3>1. \/ UNCHANGED chrome
          \/ chrome' = [chrome EXCEPT ![proc[p].victim] = Gone]
      BY <2>3 DEF KillWait
    <3>2. QED
      BY <1>1, <1>3, <3>1 DEF Alive, Gone
  <2>4. ASSUME NEW d \in Chrome, ComeUp(d) \/ Exit(d) PROVE FALSE
    <3>1. c # d
      BY <1>3, <2>4 DEF ComeUp, Exit, Running
    <3>2. PICK v : chrome' = [chrome EXCEPT ![d] = v]
      BY <2>4 DEF ComeUp, Exit
    <3>3. QED
      BY <1>1, <1>3, <3>1, <3>2 DEF Alive
  <2>5. ASSUME UserStarts PROVE FALSE
    <3>1. PICK d \in Chrome, dir \in {"ours", "foreign"} :
            chrome' = [chrome EXCEPT ![d] = [state |-> "starting", dir |-> dir, by |-> User]]
      BY <2>5 DEF UserStarts, Fresh
    <3>2. QED
      BY <1>1, <1>3, <3>1 DEF Alive
  <2>6. QED
    BY <2>1, <2>2, <2>3, <2>4, <2>5
       DEF ProviderNext, ProcStep, Probe, Prove, ReadPidfile, ClearSession, NoExecutable, Record, RecordFails,
           Connect, GiveUp, Close, KillNothing, KillGone, KillTerm, KillDone, Crash, Reuse, Age, Doctor,
           browsers, providerVars
<1>4. QED
  BY <1>2, <1>3

LEMMA NotesStep ==
  ASSUME ProviderInv, [ProviderNext]_providerVars
  PROVE  notes \subseteq notes' /\ notes' \subseteq NoteKinds /\ Spared'
<1>1. /\ ProviderTypeOK /\ Spared /\ (\A p \in Proc : InHand(p))
      /\ notes \subseteq NoteKinds /\ proc \in [Proc -> Process]
  BY ProviderTypes DEF ProviderInv
<1>2. CASE UNCHANGED notes
  BY <1>1, <1>2 DEF Spared
<1>3. ASSUME NEW n \in SUBSET LossKinds, Note(n) PROVE notes \subseteq notes' /\ notes' \subseteq NoteKinds /\ Spared'
  BY <1>1, <1>3 DEF Note, Spared, NoteKinds, LossKinds
<1>4. ASSUME NEW p \in Proc, ClearSession(p)
      PROVE  notes \subseteq notes' /\ notes' \subseteq NoteKinds /\ Spared'
  BY <1>1, <1>4 DEF ClearSession, Note, Spared, NoteKinds
<1>5. ASSUME NEW p \in Proc, KillTerm(p) PROVE UNCHANGED notes
  <2>1. Spawned(proc[p].victim) /\ proc[p].victim # 0
    BY <1>1, <1>5 DEF InHand, KillTerm
  <2>2. QED
    BY <1>5, <2>1 DEF KillTerm, Note, Spawned
<1>6. ASSUME NEW p \in Proc, Record(p) \/ RecordFails(p) \/ KillGone(p) \/ KillDone(p) \/ Crash(p)
      PROVE  \E n \in SUBSET LossKinds : Note(n)
  BY <1>6 DEF Record, RecordFails, KillGone, KillDone, RemoveRecord, Crash, LossKinds
<1>7. QED
  BY <1>2, <1>3, <1>4, <1>5, <1>6
     DEF ProviderNext, ProcStep, Probe, Prove, ReadPidfile, NoExecutable, Spawn,
         Connect, GiveUp, Close, KillNothing, KillWait, ComeUp, Exit,
         Reuse, UserStarts, Age, Doctor, browsers, providerVars

LEMMA RecordedStep ==
  ASSUME ProviderInv, [ProviderNext]_providerVars
  PROVE  Recorded'
<1>1. /\ ProviderTypeOK /\ Recorded /\ notes \subseteq notes' /\ Evolves
      /\ \A p \in Proc : InHand(p)
  BY NotesStep, BrowsersEvolve DEF ProviderInv
<1>2. proc \in [Proc -> Process] /\ pidfile \in 0..(MaxChromes + 1)
  BY <1>1, ProviderTypes
<1>3. SUFFICES ASSUME notes' \cap LossKinds = {}, NEW c \in Chrome, Alive(c)', chrome'[c].by # User
               PROVE  pidfile' = c \/ \E p \in Proc : At(p)' = "record" /\ proc'[p].own = c
  BY DEF Recorded
<1>4. CASE \E p \in Proc : Spawn(p) /\ At(p)' = "record" /\ proc'[p].own = c
  BY <1>4
<1>5. CASE ~ \E p \in Proc : Spawn(p) /\ At(p)' = "record" /\ proc'[p].own = c
  <2>1. Alive(c) /\ chrome[c].by # User
    BY <1>3, <1>5, Begun
  <2>2. pidfile = c \/ \E p \in Proc : At(p) = "record" /\ proc[p].own = c
    BY <1>1, <1>3, <2>1 DEF Recorded
  <2>3. ASSUME pidfile = c PROVE pidfile' = c \/ \E p \in Proc : Record(p)
    <3>1. Healed = c
      BY <2>1, <2>3 DEF Healed, PidIsAlive
    <3>2. ASSUME NEW p \in Proc, KillGone(p) \/ KillDone(p) PROVE FALSE
      <4>1. proc[p].victim # c
        <5>1. KillDone(p) => ~Alive(proc[p].victim)
          BY <1>1 DEF InHand, KillDone
        <5>2. KillGone(p) => ~Alive(proc[p].victim)
          BY DEF KillGone, PidIsAlive
        <5>3. QED
          BY <2>1, <3>2, <5>1, <5>2
      <4>2. "cleared" \in notes'
        BY <2>1, <2>3, <3>2, <4>1 DEF KillGone, KillDone, RemoveRecord, Note
      <4>3. QED
        BY <1>3, <4>2 DEF LossKinds
    <3>3. ASSUME NEW p \in Proc, Crash(p) PROVE pidfile' = pidfile
      <4>1. At(p) = "record" => "unrecorded" \in notes'
        BY <3>3 DEF Crash, Note
      <4>2. QED
        BY <1>3, <3>3, <4>1 DEF Crash, LossKinds, record
    <3>4. QED
      BY <2>3, <3>1, <3>2, <3>3
         DEF ProviderNext, ProcStep, Probe, Prove, ReadPidfile, ClearSession, NoExecutable, Spawn, RecordFails,
             Connect, GiveUp, Close, KillNothing, KillTerm, KillWait, ComeUp, Exit,
             Reuse, UserStarts, Age, Doctor, Heal, browsers, record, providerVars
  <2>4. ASSUME pidfile = c, NEW p \in Proc, Record(p) PROVE FALSE
    BY <1>3, <2>1, <2>4 DEF Record, Note, LossKinds
  <2>5. ASSUME NEW p \in Proc, At(p) = "record", proc[p].own = c
        PROVE  pidfile' = c \/ (At(p)' = "record" /\ proc'[p].own = c)
    <3>1. ASSUME RecordFails(p) \/ Crash(p) PROVE FALSE
      BY <1>3, <2>5, <3>1 DEF RecordFails, Crash, Note, LossKinds
    <3>2. CASE Record(p)
      BY <2>5, <3>2 DEF Record
    <3>3. ASSUME ~Record(p) PROVE Stays(p)
      <4>1. proc[p] \in Process
        BY <1>2
      <4>2. CASE UNCHANGED proc
        BY <4>2 DEF Stays, At
      <4>3. ASSUME NEW q \in Proc, q # p, NEW r, Goes(q, r) PROVE Stays(p)
        BY <1>2, <4>3 DEF Goes, Stays, At
      <4>4. ASSUME NEW q \in Proc, q # p, ProcStep(q) \/ Crash(q), ~KillWait(q) PROVE \E r : Goes(q, r)
        BY <4>4 DEF ProcStep, Probe, Prove, ReadPidfile, ClearSession, NoExecutable, Spawn, Record, RecordFails,
           Connect, GiveUp, Close, KillNothing, KillGone, KillTerm, KillDone, Crash, To, Kill, Killed, LetGo
      <4>5. ASSUME NEW q \in Proc, q # p, KillWait(q) PROVE Stays(p)
        <5>1. PICK v : proc' = [Cut(v) EXCEPT ![q].at = "unlink"]
          BY <4>5 DEF KillWait
        <5>2. proc'[p] = Cut(v)[p]
          BY <1>1, <4>5, <5>1, CutStays
        <5>3. QED
          BY <1>1, <5>2, CutStays DEF Stays, At
      <4>6. ASSUME ProcStep(p) PROVE FALSE
        BY <2>5, <3>1, <3>3, <4>6
           DEF ProcStep, Probe, Prove, ReadPidfile, ClearSession, NoExecutable, Spawn,
               Connect, GiveUp, Close, KillNothing, KillGone, KillTerm, KillWait, KillDone
      <4>7. ASSUME NEW d \in Chrome, Exit(d) PROVE Stays(p)
        BY <1>1, <4>7, CutStays DEF Exit, Stays, At
      <4>8. QED
        BY <3>1, <4>2, <4>3, <4>4, <4>5, <4>6, <4>7
           DEF ProviderNext, ComeUp, Reuse, UserStarts, Age, Doctor, providerVars
    <3>4. QED
      BY <2>5, <3>2, <3>3 DEF Stays
  <2>6. QED
    BY <2>2, <2>3, <2>4, <2>5
<1>6. QED
  BY <1>4, <1>5

LEMMA ProviderInvInit == ProviderInit => ProviderInv
<1> SUFFICES ASSUME ProviderInit PROVE ProviderInv
  OBVIOUS
<1>1. /\ \A c \in Chrome : chrome[c] = [state |-> "none", dir |-> "ours", by |-> User]
      /\ \A p \in Proc : proc[p] = Idle("probe")
      /\ pidfile = 0 /\ notes = {} /\ met \in ProviderCases
  BY DEF ProviderInit, NoPidfile
<1>2. ProviderTypeOK
  <2>1. [state |-> "none", dir |-> "ours", by |-> User] \in Browser /\ Idle("probe") \in Process
    BY ProviderNumbers DEF Browser, States, Idle, Process, Steps
  <2>2. QED
    BY <2>1, ProviderNumbers DEF ProviderInit, ProviderTypeOK, Browser, Process, NoPidfile
<1>3. \A p \in Proc : InHand(p) /\ proc[p].conn = 0
  BY <1>1, IdleHas DEF InHand, At, Spawned
<1>4. QED
  BY <1>1, <1>2, <1>3, ProviderNumbers DEF ProviderInv, OnFile, DirsOurs, Connected, Recorded, Spared, Alive

LEMMA ProviderInvKept == ProviderInv /\ [ProviderNext]_providerVars => ProviderInv'
<1> SUFFICES ASSUME ProviderInv, [ProviderNext]_providerVars PROVE ProviderInv'
  OBVIOUS
<1>1. reused' \subseteq Chrome
  <2>1. reused \subseteq Chrome
    BY DEF ProviderInv, ProviderTypeOK
  <2>2. QED
    BY <2>1 DEF ProviderNext, ProcStep, Probe, Prove, ReadPidfile, ClearSession, NoExecutable, Spawn, Record, RecordFails,
       Connect, GiveUp, Close, KillNothing, KillGone, KillTerm, KillWait, KillDone, Crash, ComeUp, Exit,
       Reuse, UserStarts, Age, Doctor, browsers, providerVars
<1>2. ProviderTypeOK'
  <2>1. met' \in ProviderCases
    BY DirsStep DEF ProviderInv, ProviderTypeOK
  <2>2. /\ chrome' \in [Chrome -> Browser] /\ proc' \in [Proc -> Process]
        /\ pidfile' \in 0..(MaxChromes + 1) /\ old' \in BOOLEAN /\ notes' \subseteq NoteKinds
    BY BrowsersEvolve, HandsStep, RecordStep, NotesStep DEF ProviderInv
  <2>3. QED
    BY <1>1, <2>1, <2>2 DEF ProviderTypeOK, Browser, Process
<1>3. /\ (\A p \in Proc : InHand(p))' /\ Connected' /\ OnFile' /\ DirsOurs' /\ Recorded' /\ Spared'
  BY HandsStep, ConnectedStep, RecordStep, DirsStep, RecordedStep, NotesStep
<1>4. QED
  BY <1>2, <1>3 DEF ProviderInv

LEMMA ProviderInvSafe ==
  ASSUME ProviderInv
  PROVE  /\ ProviderTypeOK /\ SparesForeign /\ OnRecordUnlessLost /\ AttachedOurs
         /\ LockVisible => SessionSpared
<1>1. ProviderTypeOK /\ SparesForeign /\ (LockVisible => SessionSpared)
  BY DEF ProviderInv, Spared, SparesForeign, SessionSpared
<1>2. OnRecordUnlessLost
  BY DEF ProviderInv, Recorded, OnRecordUnlessLost, Running, Alive
<1>3. AttachedOurs
  <2> SUFFICES ASSUME NEW p \in Proc, proc[p].conn # 0, ~Ours(proc[p].conn), proc[p].conn = proc[p].seen
               PROVE  FALSE
    BY DEF AttachedOurs
  <2>1. At(p) = "up" /\ InHand(p)
    BY DEF ProviderInv, Connected
  <2>2. QED
    BY <2>1 DEF InHand
<1>4. QED
  BY <1>1, <1>2, <1>3

(* For any number of processes and browsers, on any host: no browser of the *)
(* user is signalled, no run attaches to the foreign one it found on the    *)
(* port, and one that a run leaves running is on record but for the three   *)
(* named ways to lose the record.                                           *)
THEOREM BrowsersHold ==
  ProviderSpec => [](ProviderTypeOK /\ SparesForeign /\ OnRecordUnlessLost /\ AttachedOurs)
<1>1. ProviderInv => ProviderTypeOK /\ SparesForeign /\ OnRecordUnlessLost /\ AttachedOurs
  BY ProviderInvSafe
<1>2. QED
  BY <1>1, ProviderInvInit, ProviderInvKept, PTL DEF ProviderSpec

(* ... and where the profile lock of a running Chrome can be seen, no saved *)
(* tabs are removed beneath it.                                             *)
THEOREM SessionsHold == LockVisible => (ProviderSpec => []BrowserSafe)
<1> SUFFICES ASSUME LockVisible PROVE ProviderSpec => []BrowserSafe
  OBVIOUS
<1>1. ProviderInv => BrowserSafe
  BY ProviderInvSafe DEF BrowserSafe
<1>2. QED
  BY <1>1, ProviderInvInit, ProviderInvKept, PTL DEF ProviderSpec

----------------------------------------------------------------------------
(* The drift alert is sent once, and tried no oftener than the interval,    *)
(* for any number of profiles and any interval.  The pidfile decides both,  *)
(* so the argument is that it says what has happened: as long as it could   *)
(* be written, an alert delivered is one it knows of, and until then its    *)
(* age of the last failure is the age of the last try.                      *)


Hours == 0..(Retry + 1)
Ages == failed \in Hours \cup {None} /\ last \in Hours \cup {None}
AtTick == tick = None \/ \E p \in Profile : tick = Looking(p) \/ tick = Sending(p)

(* What the pidfile says of the past. *)
Truthful ==
  /\ sent => notified
  /\ ~notified => failed = last
  /\ tick # None => ~notified
  /\ (\E p \in Profile : tick = Sending(p)) => (last = None \/ last > Retry)
  /\ ~crowded

AlertInv == AlertTypeOK /\ Ages /\ AtTick /\ ("unwritten" \in cause \/ Truthful)

----------------------------------------------------------------------------
LEMMA LookingIsNotSending ==
  ASSUME NEW p, NEW q PROVE Looking(p) # Sending(q)
BY DEF Looking, Sending

LEMMA AgesGrow ==
  ASSUME NEW age \in Hours \cup {None}
  PROVE  /\ Older(age) \in Hours \cup {None}
         /\ age = None => Older(age) = None
         /\ age # None /\ age > Retry => Older(age) # None /\ Older(age) > Retry
BY DriftAlertAssumption DEF Hours, Older

LEMMA TypeKept == AlertInv /\ [AlertNext]_alertVars => AlertTypeOK' /\ Ages' /\ AtTick'
<1> SUFFICES ASSUME AlertInv, [AlertNext]_alertVars PROVE AlertTypeOK' /\ Ages' /\ AtTick'
  OBVIOUS
<1> USE DEF AlertInv, AlertTypeOK, Ages, AtTick
<1>0. 0 \in Hours /\ \A p \in Profile : p < Profiles => p + 1 \in Profile
  BY DriftAlertAssumption DEF Hours, Profile
<1>1. CASE Track
  <2>1. tick' = None \/ (tick' = Looking(1) /\ 1 \in Profile)
    <3>1. PICK p \in Profile : p \in drift
      BY <1>1 DEF Track
    <3>2. 1 \in Profile
      BY <3>1, DriftAlertAssumption DEF Profile
    <3>3. QED
      BY <1>1, <3>2 DEF Track
  <2>2. QED
    BY <1>1, <2>1 DEF Track, around, watched
<1>2. ASSUME NEW p \in Profile, Look(p) PROVE AlertTypeOK' /\ Ages' /\ AtTick'
  <2>1. tick' = None \/ tick' = Sending(p) \/ (tick' = Looking(p + 1) /\ p + 1 \in Profile)
    BY <1>0, <1>2 DEF Look
  <2>2. QED
    BY <1>2, <2>1 DEF Look, around, watched
<1>3. ASSUME NEW p \in Profile, Send(p) PROVE AlertTypeOK' /\ Ages' /\ AtTick'
  <2>1. sent' \in BOOLEAN /\ crowded' \in BOOLEAN /\ notified' \in BOOLEAN
    BY <1>3 DEF Send, Stamped
  <2>2. failed' \in Hours \cup {None} /\ last' = 0 /\ tick' = None
    BY <1>0, <1>3 DEF Send, Stamped
  <2>3. QED
    BY <1>0, <1>3, <2>1, <2>2 DEF Send, around, Hours
<1>4. CASE HourPasses
  <2>1. failed' \in Hours \cup {None} /\ last' \in Hours \cup {None}
    BY <1>4, AgesGrow DEF HourPasses
  <2>2. QED
    BY <1>4, <2>1 DEF HourPasses, around, Hours
<1>5. CASE Restart
  BY <1>5 DEF Restart
<1>6. CASE Change
  BY <1>6 DEF Change, watched
<1>7. CASE UNCHANGED alertVars
  BY <1>7 DEF alertVars
<1>8. QED
  BY <1>1, <1>2, <1>3, <1>4, <1>5, <1>6, <1>7 DEF AlertNext, TickStep

LEMMA TruthKept == AlertInv /\ [AlertNext]_alertVars => "unwritten" \in cause' \/ Truthful'
<1> SUFFICES ASSUME AlertInv, [AlertNext]_alertVars, "unwritten" \notin cause'
             PROVE  Truthful'
  OBVIOUS
<1>0. cause \subseteq cause'
  BY DEF AlertNext, TickStep, Track, Look, Send, HourPasses, Restart, Change, watched, alertVars
<1>00. Truthful /\ Ages
  BY <1>0 DEF AlertInv
<1> USE DEF Truthful
<1>1. CASE Track
  BY <1>00, <1>1, LookingIsNotSending, DriftAlertAssumption DEF Track, around, watched
<1>2. ASSUME NEW p \in Profile, Look(p) PROVE Truthful'
  <2>1. UNCHANGED <<sent, notified, failed, last, crowded>> /\ tick # None
    BY <1>2, DriftAlertAssumption DEF Look, around, watched
  <2>2. ~notified /\ failed = last
    BY <1>00, <2>1
  <2>3. CASE tick' = Sending(p)
    <3>1. ~Throttled
      BY <1>2, <2>3, LookingIsNotSending, DriftAlertAssumption DEF Look
    <3>2. last = None \/ last > Retry
      BY <1>00, <2>2, <3>1, DriftAlertAssumption DEF Throttled, Ages, Hours
    <3>3. QED
      BY <1>00, <2>1, <2>2, <3>2
  <2>4. CASE tick' = None \/ tick' = Looking(p + 1)
    <3>1. ~\E q \in Profile : tick' = Sending(q)
      BY <2>4, LookingIsNotSending, DriftAlertAssumption
    <3>2. QED
      BY <1>00, <2>1, <2>2, <3>1
  <2>5. QED
    BY <1>2, <2>3, <2>4 DEF Look
<1>3. ASSUME NEW p \in Profile, Send(p) PROVE Truthful'
  <2>1. tick # None /\ tick' = None /\ last' = 0
    BY <1>3, DriftAlertAssumption DEF Send
  <2>2. ~notified /\ ~sent /\ (last = None \/ last > Retry)
    BY <1>00, <1>3, <2>1 DEF Send
  <2>3. Stamped(notifier[p] = "works") /\ sent' = (sent \/ notifier[p] = "works")
    BY <1>3 DEF Send
  <2>4. ~crowded'
    <3>1. ~(last # None /\ last <= Retry)
      BY <1>00, <2>2, DriftAlertAssumption DEF Ages, Hours
    <3>2. crowded' = (crowded \/ sent \/ (last # None /\ last <= Retry)) /\ ~crowded
      BY <1>00, <1>3 DEF Send
    <3>3. QED
      BY <2>2, <3>1, <3>2
  <2>5. ~\E q \in Profile : tick' = Sending(q)
    BY <2>1, DriftAlertAssumption
  <2>6. sent' => notified'
    BY <2>2, <2>3 DEF Stamped
  <2>7. ~notified' => failed' = last'
    BY <2>1, <2>2, <2>3 DEF Stamped
  <2>8. QED
    BY <2>1, <2>4, <2>5, <2>6, <2>7
<1>4. CASE HourPasses
  <2>1. last = None \/ last > Retry => last' = None \/ last' > Retry
    BY <1>00, <1>4, AgesGrow DEF HourPasses, Ages
  <2>2. failed = last => failed' = last'
    BY <1>4 DEF HourPasses
  <2>3. UNCHANGED <<sent, notified, tick, crowded>>
    BY <1>4 DEF HourPasses
  <2>4. QED
    BY <1>00, <2>1, <2>2, <2>3
<1>5. CASE Restart
  BY <1>00, <1>5, DriftAlertAssumption DEF Restart
<1>6. CASE Change
  BY <1>00, <1>6 DEF Change, watched
<1>7. CASE UNCHANGED alertVars
  BY <1>00, <1>7 DEF alertVars
<1>8. QED
  BY <1>1, <1>2, <1>3, <1>4, <1>5, <1>6, <1>7 DEF AlertNext, TickStep

(* As long as the daemon lives the alert is delivered once and tried no     *)
(* oftener than the interval, unless the pidfile could not be written       *)
(* (schema_drift.ts: the stamps are looked at before a send and put down    *)
(* after it, with awaits in between).                                       *)
THEOREM AlertHolds == AlertSpec => []AlertSound
<1>1. AlertInit => AlertInv
  <2> SUFFICES ASSUME AlertInit PROVE AlertInv
    OBVIOUS
  <2>1. Truthful
    BY DriftAlertAssumption DEF AlertInit, Truthful
  <2>2. QED
    BY <2>1 DEF AlertInit, AlertInv, AlertTypeOK, Ages, AtTick
<1>2. AlertInv /\ [AlertNext]_alertVars => AlertInv'
  BY TypeKept, TruthKept DEF AlertInv
<1>3. AlertInv => AlertSound
  BY DEF AlertInv, AlertSound, OneAlert, Truthful
<1>4. QED
  BY <1>1, <1>2, <1>3, PTL DEF AlertSpec

----------------------------------------------------------------------------
(* The job stores *)

Status == {"none", "Passed", "Applied"}
NotionPage == [job : Job, status : Status, found : Nat, archived : BOOLEAN]
Row == [status : Status, found : Nat, archived : BOOLEAN]
ReadPage == [page : Nat, job : Job, status : Status, found : Nat]

(* What a caller has read of a page or row, and archives for that. *)
Untracked == {"none", "Passed"}
OfPages == [page : DOMAIN pages, seen : Untracked]
OfRows == [page : Rows, seen : Untracked]
Creates == [op : {"create"}, job : Job]
Archives == [op : {"archive"}, page : DOMAIN pages, seen : Untracked]

(* A query answers with a page at least, and Nothing is no row and no       *)
(* request: the hypotheses about the constants.                             *)
StoresConstants ==
  /\ PageSize \in Nat \ {0}
  /\ Nothing \notin Row
  /\ \A j \in Job : [op |-> "create", job |-> j] # Nothing
  /\ \A p \in Nat, s \in Untracked : [op |-> "archive", page |-> p, seen |-> s] # Nothing

StoreTypes ==
  /\ pages \in Seq(NotionPage) /\ late \subseteq Creates \cup Archives
  /\ table \in [Job -> Row \cup {Nothing}]
  /\ connector \in {"notion", "sqlite", "mirror"} /\ today \in Nat
  /\ causes = [ghosts |-> causes.ghosts, revived |-> causes.revived, missed |-> causes.missed,
               overtaken |-> causes.overtaken]
  /\ causes.ghosts \in [Job -> Nat] /\ causes.revived \in [Job -> Nat] /\ causes.missed \subseteq Job

RunTypes(r) ==
  /\ r = [at |-> r.at, via |-> r.via, known |-> r.known, todo |-> r.todo, req |-> r.req,
          attempt |-> r.attempt, cursor |-> r.cursor]
  /\ r.at \in {"idle", "cache", "store", "push", "list", "archive"}
  /\ r.at # "idle" => r.via \in {"notion", "sqlite", "mirror"}
  /\ r.known \subseteq Job /\ r.cursor \in 0 .. Len(pages)

(* What a run has in hand is of the store it was wired to. *)
Wired(r) ==
  /\ r.at # "idle" /\ r.via # "notion" => connector # "notion"
  /\ r.at \in {"store", "push"} => r.todo \subseteq Job
  /\ r.at = "push" => r.via = "notion" \/ (r.via = "mirror" /\ r.todo \subseteq Rows)
  /\ r.at \in {"list", "archive"} => r.todo \subseteq (IF r.via = "notion" THEN OfPages ELSE OfRows)
  /\ r.req # Nothing =>
       \/ r.at = "push" /\ r.req \in Creates /\ r.req.job \in r.todo
       \/ r.at = "archive" /\ r.via = "notion" /\ r.req \in Archives

(* The query has read every page up to its cursor. *)
Cached(r) ==
  r.at = "cache" /\ r.via = "notion" =>
    \A p \in Live : p <= r.cursor => pages[p].job \in r.known

Of(j) == {p \in Live : pages[p].job = j}
Excused(j) == causes.ghosts[j] + causes.revived[j]
Later(j) == IF j \in causes.missed THEN 1 ELSE 0

(* The page that a run is to make of a job is still missing. *)
Missing(r) ==
  \A j \in Job :
    r.at \in {"store", "push"} /\ j \in r.todo =>
      /\ r.via = "notion" => Cardinality(Of(j)) <= Excused(j)
      /\ r.at = "push" /\ r.via = "mirror" => Cardinality(Of(j)) <= Excused(j) + Later(j)

RunFits(r) == RunTypes(r) /\ Wired(r) /\ Cached(r) /\ Missing(r)

(* A job has a page, and what is excused. *)
Counted ==
  \A j \in Job :
    /\ Cardinality(Of(j)) <= 1 + Excused(j) + Later(j)
    /\ j \notin Rows => Cardinality(Of(j)) <= 1 + Excused(j)

(* What a migration has read of Notion is as it is but for what the user    *)
(* changed since; and a page that it did not read was made later.           *)
WasRead(m, p) ==
  \E x \in m.read :
    x.page = p /\ x.job = pages[p].job /\ (x.status = pages[p].status \/ p \in causes.overtaken)
CameLater(p) ==
  pages[p].job \in causes.missed \/ (pages[p].job \in Rows /\ (pages[p].status = "none" \/ p \in causes.overtaken))
MigFits(m) ==
  /\ m = [at |-> m.at, cursor |-> m.cursor, read |-> m.read]
  /\ m.at \in {"idle", "read", "jobs", "tracking", "flip"}
  /\ m.cursor \in 0 .. Len(pages) /\ m.read \subseteq ReadPage
  /\ m.at # "idle" => connector = "notion"
  /\ m.at = "read" => \A p \in Live : p <= m.cursor => WasRead(m, p)
  /\ m.at \in {"jobs", "tracking", "flip"} => \A p \in Live : WasRead(m, p) \/ CameLater(p)
  /\ m.at \in {"tracking", "flip"} => \A x \in m.read : x.job \in Rows
  /\ m.at = "flip" => \A x \in m.read : x.status # "none" => table[x.job].status # "none"

(* Only the cleanup of a profile on SQLite archives rows. *)
RowsLive == connector = "notion" => \A j \in Rows : ~table[j].archived

StoresInv ==
  /\ StoreTypes /\ RunFits(task) /\ Counted /\ MigFits(mig) /\ RowsLive
  /\ TrackedSpared /\ MigrationComplete

LEMMA PageFacts ==
  ASSUME StoreTypes
  PROVE  /\ Len(pages) \in Nat /\ DOMAIN pages = 1 .. Len(pages)
         /\ \A p \in DOMAIN pages : pages[p] \in NotionPage
         /\ Live \subseteq DOMAIN pages
BY ElementOfSeq, LenProperties DEF StoreTypes, Live

LEMMA RowFacts ==
  ASSUME StoreTypes
  PROVE  \A j \in Job : table[j] \in Row \/ (table[j] = Nothing /\ j \notin Rows)
BY DEF StoreTypes, Rows

(* The pages of a job are finitely many. *)
LEMMA OfFinite ==
  ASSUME StoreTypes
  PROVE  /\ IsFiniteSet(Live)
         /\ \A j : IsFiniteSet(Of(j)) /\ Cardinality(Of(j)) \in Nat
<1>1. IsFiniteSet(1 .. Len(pages)) /\ Live \in SUBSET (1 .. Len(pages))
  BY PageFacts, FS_Interval
<1>2. IsFiniteSet(Live)
  BY <1>1, FS_Subset
<1>3. \A j : Of(j) \in SUBSET Live
  BY DEF Of
<1>4. QED
  BY <1>2, <1>3, FS_Subset, FS_CardinalityType

(* A set of pages has a first and a last one. *)
LEMMA LeastPage ==
  ASSUME NEW S \in SUBSET Nat, S # {}
  PROVE  \E p \in S : \A q \in S : p <= q
<1>1. PICK p \in S : \A q \in S : ~ (<<q, p>> \in OpToRel(<, Nat))
  BY NatLessThanWellFounded, WFMin
<1>2. ASSUME NEW q \in S, ~(p <= q) PROVE FALSE
  <2>1. <<q, p>> \in OpToRel(<, Nat)
    BY <1>2 DEF OpToRel
  <2>2. QED
    BY <1>1, <2>1
<1>3. QED
  BY <1>2

LEMMA GreatestPage ==
  ASSUME NEW n \in Nat, NEW S \in SUBSET (0 .. n), S # {}
  PROVE  \E p \in S : \A q \in S : q <= p
<1> DEFINE U == {m \in Nat : \A q \in S : q <= m}
<1>1. n \in U
  OBVIOUS
<1>2. PICK p \in U : \A m \in U : p <= m
  BY <1>1, LeastPage
<1>3. p \in S
  <2> SUFFICES ASSUME p \notin S PROVE FALSE
    OBVIOUS
  <2>1. \A q \in S : q <= p - 1
    BY <1>2
  <2>2. p - 1 \in Nat
    <3>1. PICK q \in S : TRUE
      OBVIOUS
    <3>2. q \in Nat /\ q <= p - 1 /\ p \in Nat
      BY <2>1, <3>1
    <3>3. QED
      BY <3>2
  <2>3. QED
    BY <1>2, <2>1, <2>2
<1>4. QED
  BY <1>2, <1>3

(* A query goes on until it has read every page there is, and misses none   *)
(* on its way.                                                              *)
LEMMA QueryReadsOn ==
  ASSUME StoresConstants, StoreTypes, NEW from \in 0 .. Len(pages)
  PROVE  /\ Batch(from) \subseteq Live
         /\ NextCursor(from) \in 0 .. Len(pages)
         /\ \A p \in Live : p > from /\ (NextCursor(from) = 0 \/ p <= NextCursor(from)) => p \in Batch(from)
<1> DEFINE Between(p) == {q \in Live : from < q /\ q < p}
<1>0. /\ Len(pages) \in Nat /\ from \in Nat
      /\ \A p \in Live : p \in Nat /\ p \in 1 .. Len(pages)
  BY PageFacts
<1>1. \A p : IsFiniteSet(Between(p)) /\ Cardinality(Between(p)) \in Nat
  <2>1. \A p : Between(p) \in SUBSET Live
    OBVIOUS
  <2>2. QED
    BY <2>1, OfFinite, FS_Subset, FS_CardinalityType
<1>2. \A p : p \in Batch(from) <=> p \in Live /\ p > from /\ Cardinality(Between(p)) < PageSize
  BY DEF Batch
<1> HIDE DEF Between
<1>7. \A p \in Batch(from) : p \in Live /\ p \in 0 .. Len(pages)
  BY <1>0, <1>2
<1>3. ASSUME More(from) PROVE Batch(from) # {}
  <2> DEFINE After == {p \in Live : p > from}
  <2>1. After # {} /\ After \in SUBSET Nat
    <3>1. \E p \in Live : p > from
      BY <1>3 DEF More
    <3>2. QED
      BY <1>0, <3>1
  <2>2. PICK p \in After : \A q \in After : p <= q
    BY <2>1, LeastPage
  <2>3. Between(p) = {}
    BY <1>0, <2>2 DEF Between
  <2>4. Cardinality(Between(p)) = 0
    BY <2>3, FS_EmptySet
  <2>5. PageSize > 0
    BY DEF StoresConstants
  <2>6. QED
    BY <1>2, <2>2, <2>4, <2>5
<1>4. CASE ~More(from)
  BY <1>0, <1>7, <1>4 DEF NextCursor, More
<1>5. CASE More(from)
  <2>1. Batch(from) \in SUBSET (0 .. Len(pages)) /\ Batch(from) # {}
    BY <1>3, <1>5, <1>7
  <2>2. \E p \in Batch(from) : \A q \in Batch(from) : q <= p
    BY <1>0, <2>1, GreatestPage
  <2>3. /\ Last(from) \in Batch(from) /\ \A q \in Batch(from) : q <= Last(from)
    BY <2>1, <2>2 DEF Last
  <2>4. NextCursor(from) = Last(from) /\ Last(from) \in 1 .. Len(pages)
    BY <1>0, <1>2, <1>5, <2>3 DEF NextCursor
  <2>5. ASSUME NEW p \in Live, p > from, p <= Last(from) PROVE p \in Batch(from)
    <3>1. Between(p) \in SUBSET Between(Last(from))
      BY <1>0, <2>4, <2>5 DEF Between
    <3>2. Cardinality(Between(p)) <= Cardinality(Between(Last(from)))
      BY <1>1, <3>1, FS_Subset
    <3>3. Cardinality(Between(p)) < PageSize
      <4>1. Cardinality(Between(Last(from))) < PageSize
        BY <1>2, <2>3
      <4>2. PageSize \in Nat
        BY DEF StoresConstants
      <4>3. QED
        BY <1>1, <3>2, <4>1, <4>2
    <3>4. QED
      BY <1>2, <2>5, <3>3
  <2>6. QED
    BY <1>7, <2>4, <2>5
<1>6. QED
  BY <1>4, <1>5

(* What a request did that landed: a page of job j more, or one page less. *)
Made(j, heard) ==
  /\ pages' \in Seq(NotionPage) /\ Len(pages') = Len(pages) + 1
  /\ \A p \in DOMAIN pages : pages'[p] = pages[p]
  /\ LET new == pages'[Len(pages) + 1] IN new.job = j /\ new.status = "none" /\ ~new.archived
  /\ Live' = Live \cup {Len(pages) + 1}
  /\ causes' = [ghosts |-> causes'.ghosts, revived |-> causes.revived, missed |-> causes'.missed,
                overtaken |-> causes.overtaken]
  /\ causes'.ghosts = [causes.ghosts EXCEPT ![j] = IF heard THEN @ ELSE @ + 1]
  /\ causes'.missed = IF j \in Rows \/ (mig.at = "idle" /\ connector = "notion")
                      THEN causes.missed ELSE causes.missed \cup {j}

Withdrawn(q) ==
  /\ pages' \in Seq(NotionPage) /\ Len(pages') = Len(pages)
  /\ \A p \in DOMAIN pages : pages'[p].job = pages[p].job /\ pages'[p].status = pages[p].status
                             /\ (pages'[p].archived <=> (p = q \/ pages[p].archived))
  /\ Live' = Live \ {q}
  /\ causes' = [ghosts |-> causes.ghosts, revived |-> causes.revived, missed |-> causes.missed,
                overtaken |-> causes'.overtaken]
  /\ causes.overtaken \subseteq causes'.overtaken
  /\ pages[q].status = "Applied" => q \in causes'.overtaken

LEMMA CreateMakes ==
  ASSUME StoreTypes, NEW heard \in BOOLEAN, NEW req \in Creates, Lands(req, heard)
  PROVE  Made(req.job, heard)
<1>1. req.op = "create" /\ req.job \in Job
  BY DEF Creates
<1> DEFINE new == [job |-> req.job, status |-> "none", found |-> today, archived |-> FALSE]
<1>2. new \in NotionPage
  BY <1>1 DEF StoreTypes, NotionPage, Status
<1>3. pages' = Append(pages, new)
  BY <1>1 DEF Lands, Land
<1>4. /\ Len(pages) \in Nat /\ DOMAIN pages = 1 .. Len(pages)
      /\ pages \in Seq(NotionPage)
  BY PageFacts DEF StoreTypes
<1> HIDE DEF new
<1>5. /\ pages' \in Seq(NotionPage) /\ Len(pages') = Len(pages) + 1
      /\ \A p \in DOMAIN pages : pages'[p] = pages[p]
      /\ pages'[Len(pages) + 1] = new
  BY <1>2, <1>3, <1>4
<1>6. DOMAIN pages' = 1 .. Len(pages) + 1
  BY <1>5, LenProperties
<1>7. new.job = req.job /\ new.status = "none" /\ new.archived = FALSE
  BY DEF new
<1>8. Live' = Live \cup {Len(pages) + 1}
  BY <1>4, <1>5, <1>6, <1>7 DEF Live
<1>9. /\ causes' = [ghosts |-> causes'.ghosts, revived |-> causes.revived, missed |-> causes'.missed,
                   overtaken |-> causes.overtaken]
      /\ causes'.ghosts = [causes.ghosts EXCEPT ![req.job] = IF heard THEN @ ELSE @ + 1]
      /\ causes'.missed = IF req.job \in Rows \/ (mig.at = "idle" /\ connector = "notion")
                          THEN causes.missed ELSE causes.missed \cup {req.job}
  BY <1>1 DEF Lands, Noted, StoreTypes
<1>10. QED
  BY <1>5, <1>7, <1>8, <1>9 DEF Made

LEMMA ArchiveWithdraws ==
  ASSUME StoreTypes, NEW heard \in BOOLEAN, NEW req \in Archives, Lands(req, heard)
  PROVE  req.page \in DOMAIN pages /\ Withdrawn(req.page)
<1>1. req.op = "archive" /\ req.page \in DOMAIN pages /\ req.seen \in Untracked
  BY DEF Archives
<1> DEFINE q == req.page
           gone == [pages[q] EXCEPT !.archived = TRUE]
<1>2. /\ Len(pages) \in Nat /\ DOMAIN pages = 1 .. Len(pages)
      /\ pages \in Seq(NotionPage)
      /\ \A p \in DOMAIN pages : pages[p] \in NotionPage
  BY PageFacts DEF StoreTypes
<1>3. gone \in NotionPage /\ gone.job = pages[q].job /\ gone.status = pages[q].status /\ gone.archived
  BY <1>1, <1>2 DEF NotionPage
<1>4. pages' = [pages EXCEPT ![q] = gone]
  BY <1>1 DEF Lands, Land
<1> HIDE DEF gone
<1>5. /\ pages' \in Seq(NotionPage) /\ Len(pages') = Len(pages)
      /\ \A p \in DOMAIN pages : pages'[p] = IF p = q THEN gone ELSE pages[p]
      /\ DOMAIN pages' = DOMAIN pages
  BY <1>1, <1>2, <1>3, <1>4, ExceptSeq
<1>6. \A p \in DOMAIN pages : pages'[p].job = pages[p].job /\ pages'[p].status = pages[p].status
                              /\ (pages'[p].archived <=> (p = q \/ pages[p].archived))
  BY <1>3, <1>5
<1>7. Live' = Live \ {q}
  BY <1>5, <1>6 DEF Live
<1>8. /\ causes' = [ghosts |-> causes.ghosts, revived |-> causes.revived, missed |-> causes.missed,
                    overtaken |-> causes'.overtaken]
      /\ causes'.overtaken = IF pages[q].status # req.seen THEN causes.overtaken \cup {q} ELSE causes.overtaken
  BY <1>1 DEF Lands, Noted, StoreTypes
<1>9. QED
  BY <1>1, <1>5, <1>6, <1>7, <1>8 DEF Withdrawn, Untracked

(* How a page more or less shows in what is counted. *)
LEMMA MadeCounts ==
  ASSUME StoreTypes, NEW j \in Job, NEW heard \in BOOLEAN, Made(j, heard)
  PROVE  /\ DOMAIN pages' = 1 .. Len(pages) + 1
         /\ \A k \in Job : Cardinality(Of(k)') = Cardinality(Of(k)) + (IF k = j THEN 1 ELSE 0)
<1>1. /\ Len(pages) \in Nat /\ DOMAIN pages = 1 .. Len(pages)
      /\ \A p \in Live : p \in DOMAIN pages
  BY PageFacts
<1>2. DOMAIN pages' = 1 .. Len(pages) + 1
  BY LenProperties DEF Made
<1>3. Len(pages) + 1 \notin DOMAIN pages
  BY <1>1
<1>4. /\ Live' = Live \cup {Len(pages) + 1} /\ pages'[Len(pages) + 1].job = j
      /\ \A p \in DOMAIN pages : pages'[p] = pages[p]
  BY DEF Made
<1>5. ASSUME NEW k \in Job PROVE Of(k)' = IF k = j THEN Of(k) \cup {Len(pages) + 1} ELSE Of(k)
  BY <1>1, <1>3, <1>4 DEF Of
<1>6. \A k : Len(pages) + 1 \notin Of(k)
  BY <1>1, <1>3 DEF Of
<1>7. ASSUME NEW k \in Job
      PROVE  Cardinality(Of(k)') = Cardinality(Of(k)) + (IF k = j THEN 1 ELSE 0)
  <2>1. IsFiniteSet(Of(k)) /\ Cardinality(Of(k)) \in Nat
    BY OfFinite
  <2>2. Cardinality(Of(k) \cup {Len(pages) + 1}) = Cardinality(Of(k)) + 1
    BY <1>6, <2>1, FS_AddElement
  <2>3. CASE k = j
    BY <1>5, <2>2, <2>3
  <2>4. CASE k # j
    BY <1>5, <2>1, <2>4
  <2>5. QED
    BY <2>3, <2>4
<1>8. QED
  BY <1>2, <1>7

LEMMA WithdrawnCounts ==
  ASSUME StoreTypes, NEW q, Withdrawn(q)
  PROVE  /\ DOMAIN pages' = DOMAIN pages
         /\ \A k \in Job : Cardinality(Of(k)') \in Nat /\ Cardinality(Of(k)') <= Cardinality(Of(k))
<1>1. \A p \in Live : p \in DOMAIN pages
  BY PageFacts
<1>2. DOMAIN pages' = DOMAIN pages
  BY LenProperties, PageFacts DEF Withdrawn
<1>3. ASSUME NEW k \in Job PROVE Of(k)' \in SUBSET Of(k)
  BY <1>1 DEF Of, Withdrawn
<1>4. QED
  BY <1>2, <1>3, OfFinite, FS_Subset, FS_CardinalityType

(* The user's edits move no page. *)
LEMMA SameCounts ==
  ASSUME StoreTypes, Live' = Live, \A p \in Live : pages'[p].job = pages[p].job
  PROVE  \A k : Of(k)' = Of(k)
BY DEF Of

(* What a run has next to hand fits the stores as they are. *)
LEMMA NoRunFits ==
  ASSUME StoreTypes, StoresConstants
  PROVE  RunFits(NoTask)
<1>1. NoTask.at = "idle" /\ NoTask.known = {} /\ NoTask.cursor = 0 /\ NoTask.req = Nothing
  BY DEF NoTask
<1>2. RunTypes(NoTask)
  BY PageFacts DEF RunTypes, NoTask
<1>3. QED
  BY <1>1, <1>2 DEF RunFits, Wired, Cached, Missing

LEMMA ThrownFits ==
  ASSUME StoreTypes, StoresConstants, RunFits(task), task.at \in {"push", "archive"}
  PROVE  RunFits(Thrown)
<1>1. CASE task.at = "push" /\ task.via = "mirror"
  <2>1. Thrown = [at |-> "list", via |-> "mirror", known |-> {}, todo |-> {}, req |-> Nothing,
                  attempt |-> 0, cursor |-> 0]
    BY <1>1 DEF Thrown, NoTask
  <2>2. RunTypes(Thrown)
    BY <2>1, PageFacts DEF RunTypes
  <2>3. connector # "notion"
    BY <1>1 DEF RunFits, Wired
  <2>4. QED
    BY <2>1, <2>2, <2>3 DEF RunFits, Wired, Cached, Missing
<1>2. QED
  BY <1>1, NoRunFits DEF Thrown

(* The request that a run tries is of what it has to do, and what is left   *)
(* of that is less.                                                         *)
LEMMA TriedIs ==
  ASSUME StoreTypes, StoresConstants, RunFits(task), NEW req \in Requests
  PROVE  \/ task.at = "push" /\ req \in Creates /\ req.job \in task.todo
         \/ task.at = "archive" /\ task.via = "notion" /\ req \in Archives
<1>1. CASE task.req # Nothing
  BY <1>1 DEF Requests, RunFits, Wired
<1>2. CASE task.req = Nothing /\ task.at = "push"
  BY <1>2 DEF Requests, RunFits, Wired, Creates
<1>3. CASE task.req = Nothing /\ task.at = "archive" /\ task.via = "notion"
  <2>1. \A x \in task.todo : x.page \in DOMAIN pages /\ x.seen \in Untracked
    BY <1>3 DEF RunFits, Wired, OfPages
  <2>2. PICK x \in task.todo : req = [op |-> "archive", page |-> x.page, seen |-> x.seen]
    BY <1>3 DEF Requests
  <2>3. QED
    BY <1>3, <2>1, <2>2 DEF Archives
<1>4. QED
  BY <1>1, <1>2, <1>3 DEF Requests

LEMMA OverFits ==
  ASSUME StoreTypes, StoresConstants, RunFits(task), NEW req \in Requests
  PROVE  /\ RunFits(Over(req)) /\ Over(req).at = task.at
         /\ req \in Creates => req.job \notin Over(req).todo
<1>1. Remaining(req) \subseteq task.todo
  BY DEF Remaining
<1>2. Over(req) = [at |-> task.at, via |-> task.via, known |-> task.known, todo |-> Remaining(req), req |-> Nothing,
                   attempt |-> 0, cursor |-> task.cursor]
  <2>1. task = [at |-> task.at, via |-> task.via, known |-> task.known, todo |-> task.todo, req |-> task.req,
               attempt |-> task.attempt, cursor |-> task.cursor]
    BY DEF RunFits, RunTypes
  <2>2. PICK over : over = Over(req)
    OBVIOUS
  <2>3. over = [task EXCEPT !.todo = Remaining(req), !.req = Nothing, !.attempt = 0]
    BY <2>2 DEF Over
  <2>4. over = [at |-> task.at, via |-> task.via, known |-> task.known, todo |-> Remaining(req), req |-> Nothing,
                attempt |-> 0, cursor |-> task.cursor]
    BY <2>1, <2>3
  <2>5. QED
    BY <2>2, <2>4
<1>3. RunTypes(Over(req))
  BY <1>2 DEF RunFits, RunTypes
<1>4. Wired(Over(req))
  BY <1>1, <1>2 DEF RunFits, Wired
<1>5. Cached(Over(req)) /\ Missing(Over(req))
  BY <1>1, <1>2 DEF RunFits, Cached, Missing
<1>6. req \in Creates => req.job \notin Remaining(req)
  BY DEF Remaining, Creates
<1>7. QED
  BY <1>2, <1>3, <1>4, <1>5, <1>6 DEF RunFits

LEMMA RefusedFits ==
  ASSUME StoreTypes, StoresConstants, RunFits(task), NEW req \in Requests
  PROVE  RunFits(Refused(req))
<1>1. CASE task.attempt + 1 < MaxAttempts
  <2>1. Refused(req) = [at |-> task.at, via |-> task.via, known |-> task.known, todo |-> task.todo, req |-> req,
                        attempt |-> task.attempt + 1, cursor |-> task.cursor]
    BY <1>1 DEF Refused, RunFits, RunTypes
  <2>2. RunTypes(Refused(req))
    BY <2>1 DEF RunFits, RunTypes
  <2>3. Wired(Refused(req))
    BY <2>1, TriedIs DEF RunFits, Wired
  <2>4. Cached(Refused(req)) /\ Missing(Refused(req))
    BY <2>1 DEF RunFits, Cached, Missing
  <2>5. QED
    BY <2>2, <2>3, <2>4 DEF RunFits
<1>2. QED
  BY <1>1, OverFits DEF Refused

(* A step that only moves the run leaves the stores as they fit it. *)
LEMMA FitsStays ==
  ASSUME RunFits(task'), UNCHANGED <<pages, table, connector, causes>>
  PROVE  RunFits(task)'
<1>1. RunTypes(task)'
  BY DEF RunFits, RunTypes
<1>2. Wired(task)'
  BY DEF RunFits, Wired, Creates, Archives, OfPages, OfRows, Rows
<1>3. Cached(task)'
  BY DEF RunFits, Cached, Live
<1>4. Missing(task)'
  <2>1. \A j \in Job : Of(j)' = Of(j) /\ Excused(j)' = Excused(j) /\ Later(j)' = Later(j)
    BY DEF Of, Live, Excused, Later
  <2>2. QED
    BY <2>1 DEF RunFits, Missing
<1>5. QED
  BY <1>1, <1>2, <1>3, <1>4 DEF RunFits

LEMMA MigStays ==
  ASSUME MigFits(mig), UNCHANGED <<pages, table, connector, causes, mig>>
  PROVE  MigFits(mig)'
BY DEF MigFits, WasRead, CameLater, Live, Rows

LEMMA StoresStay ==
  ASSUME StoreTypes, Counted, RowsLive, TrackedSpared, MigrationComplete,
         late' \subseteq (Creates \cup Archives)', UNCHANGED <<pages, table, connector, today, causes>>
  PROVE  StoreTypes' /\ Counted' /\ RowsLive' /\ TrackedSpared' /\ MigrationComplete'
<1>1. StoreTypes'
  BY DEF StoreTypes
<1>2. Counted'
  BY DEF Counted, Of, Live, Excused, Later, Rows
<1>3. RowsLive' /\ TrackedSpared' /\ MigrationComplete'
  BY DEF RowsLive, TrackedSpared, MigrationComplete, Live, Rows
<1>4. QED
  BY <1>1, <1>2, <1>3

LEMMA RunMoves ==
  ASSUME StoresInv, RunFits(task'), late' \subseteq Creates \cup Archives,
         UNCHANGED <<pages, table, connector, today, mig, causes>>
  PROVE  StoresInv'
<1>1. late' \subseteq (Creates \cup Archives)'
  BY DEF Creates, Archives
<1>2. QED
  BY <1>1, FitsStays, MigStays, StoresStay DEF StoresInv

(* A page more, heard of or not, is one that was missing or is excused.     *)
LEMMA MadeKeeps ==
  ASSUME StoresInv, NEW j \in Job, NEW heard \in BOOLEAN, Made(j, heard),
         RunFits(task'), late' \subseteq Creates \cup Archives,
         UNCHANGED <<table, connector, today, mig>>,
         heard => /\ Cardinality(Of(j)) <= Excused(j) + Later(j)
                  /\ j \notin Rows => Cardinality(Of(j)) <= Excused(j)
                  /\ task'.at \in {"store", "push"} => j \notin task'.todo
  PROVE  StoresInv'
<1>16. PICK new : new = Len(pages) + 1
  OBVIOUS
<1>0. StoreTypes
  BY DEF StoresInv
<1>1. /\ Len(pages) \in Nat /\ DOMAIN pages = 1 .. Len(pages) /\ DOMAIN pages' = 1 .. new
      /\ \A p \in Live : p \in DOMAIN pages
  BY <1>0, <1>16, PageFacts, MadeCounts
<1>2. /\ \A p \in DOMAIN pages : pages'[p] = pages[p]
      /\ pages'[new].job = j /\ pages'[new].status = "none" /\ ~pages'[new].archived
      /\ Live' = Live \cup {new} /\ Len(pages') = new
  BY <1>16 DEF Made
<1>3. causes'.revived = causes.revived /\ causes'.overtaken = causes.overtaken
  <2>1. causes' = [ghosts |-> causes'.ghosts, revived |-> causes.revived, missed |-> causes'.missed,
                   overtaken |-> causes.overtaken]
    BY DEF Made
  <2>2. QED
    BY <2>1
<1>14. /\ \A k \in causes.missed : k \in causes'.missed
       /\ \A k \in causes'.missed : k \in causes.missed \/ k = j
       /\ j \in causes'.missed \/ j \in Rows \/ (mig.at = "idle" /\ connector = "notion")
  <2>1. CASE j \in Rows \/ (mig.at = "idle" /\ connector = "notion")
    <3>1. causes'.missed = causes.missed
      BY <2>1 DEF Made
    <3>2. QED
      BY <2>1, <3>1
  <2>2. CASE ~(j \in Rows \/ (mig.at = "idle" /\ connector = "notion"))
    <3>1. causes'.missed = causes.missed \cup {j}
      BY <2>2 DEF Made
    <3>2. QED
      BY <2>2, <3>1
  <2>3. QED
    BY <2>1, <2>2
<1>15. /\ \A p \in DOMAIN pages' : p \in DOMAIN pages \/ p = new
       /\ \A p \in Live' : p \in Live \/ p = new
  BY <1>1, <1>2, <1>16
<1>4. /\ causes'.ghosts \in [Job -> Nat]
      /\ \A k \in Job : /\ Excused(k) \in Nat /\ Excused(k)' = Excused(k) + (IF k = j /\ ~heard THEN 1 ELSE 0)
                        /\ Later(k) \in {0, 1} /\ Later(k)' \in {0, 1} /\ Later(k) <= Later(k)'
  <2>1. causes.ghosts \in [Job -> Nat] /\ causes.revived \in [Job -> Nat]
    BY <1>0 DEF StoreTypes
  <2>2. CASE heard
    <3>1. causes'.ghosts = [causes.ghosts EXCEPT ![j] = @]
      BY <2>2 DEF Made
    <3>2. QED
      BY <1>3, <1>14, <2>1, <2>2, <3>1 DEF Excused, Later
  <2>3. CASE ~heard
    <3>1. causes'.ghosts = [causes.ghosts EXCEPT ![j] = @ + 1]
      BY <2>3 DEF Made
    <3>2. QED
      BY <1>3, <1>14, <2>1, <2>3, <3>1 DEF Excused, Later
  <2>4. QED
    BY <2>2, <2>3
<1>5. \A k \in Job : /\ Cardinality(Of(k)) \in Nat
                     /\ Cardinality(Of(k)') = Cardinality(Of(k)) + (IF k = j THEN 1 ELSE 0)
  BY <1>0, MadeCounts, OfFinite
<1>6. StoreTypes'
  <2>1. causes' = [ghosts |-> causes'.ghosts, revived |-> causes'.revived, missed |-> causes'.missed,
                   overtaken |-> causes'.overtaken]
    BY <1>3 DEF Made
  <2>2. late' \subseteq (Creates \cup Archives)'
    BY <1>16, <1>1 DEF Creates, Archives
  <2>3. causes'.missed \subseteq Job
    BY <1>0, <1>14 DEF StoreTypes
  <2>4. QED
    BY <1>0, <1>3, <1>4, <2>1, <2>2, <2>3 DEF StoreTypes, Made
<1>7. RunFits(task)'
  <2>1. RunTypes(task)'
    BY <1>16, <1>1, <1>2 DEF RunFits, RunTypes
  <2>2. Wired(task)'
    BY <1>16, <1>1 DEF RunFits, Wired, Creates, Archives, OfPages, OfRows, Rows
  <2>3. Cached(task)'
    BY <1>16, <1>1, <1>2, <1>15 DEF RunFits, RunTypes, Cached
  <2>4. Missing(task)'
    <3> SUFFICES ASSUME NEW k \in Job, task'.at \in {"store", "push"}, k \in task'.todo
                 PROVE  /\ task'.via = "notion" => Cardinality(Of(k)') <= Excused(k)'
                        /\ task'.at = "push" /\ task'.via = "mirror" => Cardinality(Of(k)') <= Excused(k)' + Later(k)'
      BY DEF Missing
    <3>1. /\ task'.via = "notion" => Cardinality(Of(k)) <= Excused(k)
          /\ task'.at = "push" /\ task'.via = "mirror" => Cardinality(Of(k)) <= Excused(k) + Later(k)
      BY DEF RunFits, Missing
    <3>2. k = j => ~heard
      OBVIOUS
    <3>3. QED
      BY <1>4, <1>5, <3>1, <3>2
  <2>5. QED
    BY <2>1, <2>2, <2>3, <2>4 DEF RunFits
<1>8. Counted'
  <2> SUFFICES ASSUME NEW k \in Job
               PROVE  /\ Cardinality(Of(k)') <= 1 + Excused(k)' + Later(k)'
                      /\ k \notin Rows => Cardinality(Of(k)') <= 1 + Excused(k)'
    BY DEF Counted, Rows
  <2>1. /\ Cardinality(Of(k)) <= 1 + Excused(k) + Later(k)
        /\ k \notin Rows => Cardinality(Of(k)) <= 1 + Excused(k)
    BY DEF StoresInv, Counted
  <2>2. CASE k = j /\ heard
    BY <1>4, <1>5, <2>2
  <2>3. CASE ~(k = j /\ heard)
    BY <1>4, <1>5, <2>1, <2>3
  <2>4. QED
    BY <2>2, <2>3
<1>9. MigFits(mig)'
  <2>1. \A p \in Live : WasRead(mig, p) => WasRead(mig, p)'
    BY <1>1, <1>2, <1>3 DEF WasRead
  <2>2. \A p \in Live : CameLater(p) => CameLater(p)'
    BY <1>1, <1>2, <1>3, <1>14 DEF CameLater, Rows
  <2>3. mig.at # "idle" => CameLater(new)'
    BY <1>2, <1>3, <1>14 DEF CameLater, Rows
  <2>4. MigFits(mig)
    BY DEF StoresInv
  <2>5. mig'.at = "read" => \A p \in Live' : p <= mig'.cursor => WasRead(mig, p)'
    BY <1>16, <1>1, <1>15, <2>1, <2>4 DEF MigFits
  <2>6. mig'.at \in {"jobs", "tracking", "flip"} => \A p \in Live' : WasRead(mig, p)' \/ CameLater(p)'
    BY <1>15, <2>1, <2>2, <2>3, <2>4 DEF MigFits
  <2>7. mig'.cursor \in 0 .. Len(pages')
    BY <1>16, <1>1, <1>2, <2>4 DEF MigFits
  <2>8. QED
    BY <2>4, <2>5, <2>6, <2>7 DEF MigFits, Rows
<1>10. RowsLive'
  BY DEF StoresInv, RowsLive, Rows
<1>11. TrackedSpared'
  BY <1>2, <1>3, <1>15 DEF StoresInv, TrackedSpared, Rows
<1>12. MigrationComplete'
  <2>1. MigrationComplete
    BY DEF StoresInv
  <2>2. QED
    BY <1>1, <1>2, <1>3, <1>14, <1>15, <2>1 DEF MigrationComplete, Rows
<1>13. QED
  BY <1>6, <1>7, <1>8, <1>9, <1>10, <1>11, <1>12 DEF StoresInv

(* A page less is one that the user did not follow, or took up too late.    *)
LEMMA WithdrawnKeeps ==
  ASSUME StoresInv, NEW q \in DOMAIN pages, Withdrawn(q),
         RunFits(task'), late' \subseteq Creates \cup Archives,
         UNCHANGED <<table, connector, today, mig>>
  PROVE  StoresInv'
<1>0. StoreTypes
  BY DEF StoresInv
<1>1. DOMAIN pages' = DOMAIN pages /\ Len(pages') = Len(pages) /\ \A p \in Live : p \in DOMAIN pages
  BY <1>0, PageFacts, WithdrawnCounts DEF Withdrawn
<1>2. /\ \A p \in DOMAIN pages : pages'[p].job = pages[p].job /\ pages'[p].status = pages[p].status
                                 /\ (pages'[p].archived <=> (p = q \/ pages[p].archived))
      /\ \A p \in Live' : p \in Live
  BY DEF Withdrawn
<1>3. /\ causes'.ghosts = causes.ghosts /\ causes'.revived = causes.revived /\ causes'.missed = causes.missed
      /\ \A p \in causes.overtaken : p \in causes'.overtaken
      /\ pages[q].status = "Applied" => q \in causes'.overtaken
  BY DEF Withdrawn
<1>4. \A k \in Job : Excused(k) \in Nat /\ Excused(k)' = Excused(k) /\ Later(k) \in {0, 1} /\ Later(k)' = Later(k)
  BY <1>0, <1>3 DEF StoreTypes, Excused, Later
<1>5. \A k \in Job : /\ Cardinality(Of(k)) \in Nat /\ Cardinality(Of(k)') \in Nat
                     /\ Cardinality(Of(k)') <= Cardinality(Of(k))
  BY <1>0, WithdrawnCounts, OfFinite
<1>6. StoreTypes'
  <2>1. causes' = [ghosts |-> causes'.ghosts, revived |-> causes'.revived, missed |-> causes'.missed,
                   overtaken |-> causes'.overtaken]
    BY <1>3 DEF Withdrawn
  <2>2. late' \subseteq (Creates \cup Archives)'
    BY <1>1 DEF Creates, Archives
  <2>3. QED
    BY <1>0, <1>3, <2>1, <2>2 DEF StoreTypes, Withdrawn
<1>7. RunFits(task)'
  <2>1. RunTypes(task)'
    BY <1>1 DEF RunFits, RunTypes
  <2>2. Wired(task)'
    BY <1>1 DEF RunFits, Wired, Creates, Archives, OfPages, OfRows, Rows
  <2>3. Cached(task)'
    BY <1>1, <1>2 DEF RunFits, Cached
  <2>4. Missing(task)'
    <3> SUFFICES ASSUME NEW k \in Job, task'.at \in {"store", "push"}, k \in task'.todo
                 PROVE  /\ task'.via = "notion" => Cardinality(Of(k)') <= Excused(k)'
                        /\ task'.at = "push" /\ task'.via = "mirror" => Cardinality(Of(k)') <= Excused(k)' + Later(k)'
      BY DEF Missing
    <3>1. /\ task'.via = "notion" => Cardinality(Of(k)) <= Excused(k)
          /\ task'.at = "push" /\ task'.via = "mirror" => Cardinality(Of(k)) <= Excused(k) + Later(k)
      BY DEF RunFits, Missing
    <3>2. QED
      BY <1>4, <1>5, <3>1
  <2>5. QED
    BY <2>1, <2>2, <2>3, <2>4 DEF RunFits
<1>8. Counted'
  <2> SUFFICES ASSUME NEW k \in Job
               PROVE  /\ Cardinality(Of(k)') <= 1 + Excused(k)' + Later(k)'
                      /\ k \notin Rows => Cardinality(Of(k)') <= 1 + Excused(k)'
    BY DEF Counted, Rows
  <2>1. /\ Cardinality(Of(k)) <= 1 + Excused(k) + Later(k)
        /\ k \notin Rows => Cardinality(Of(k)) <= 1 + Excused(k)
    BY DEF StoresInv, Counted
  <2>2. QED
    BY <1>4, <1>5, <2>1
<1>9. MigFits(mig)'
  <2>1. \A p \in Live : WasRead(mig, p) => WasRead(mig, p)'
    BY <1>1, <1>2, <1>3 DEF WasRead
  <2>2. \A p \in Live : CameLater(p) => CameLater(p)'
    BY <1>1, <1>2, <1>3 DEF CameLater, Rows
  <2>3. MigFits(mig)
    BY DEF StoresInv
  <2>4. mig'.at = "read" => \A p \in Live' : p <= mig'.cursor => WasRead(mig, p)'
    BY <1>2, <2>1, <2>3 DEF MigFits
  <2>5. mig'.at \in {"jobs", "tracking", "flip"} => \A p \in Live' : WasRead(mig, p)' \/ CameLater(p)'
    BY <1>2, <2>1, <2>2, <2>3 DEF MigFits
  <2>6. QED
    BY <1>1, <2>3, <2>4, <2>5 DEF MigFits, Rows
<1>10. RowsLive'
  BY DEF StoresInv, RowsLive, Rows
<1>11. TrackedSpared'
  BY <1>1, <1>2, <1>3 DEF StoresInv, TrackedSpared, Rows
<1>12. MigrationComplete'
  <2>1. MigrationComplete
    BY DEF StoresInv
  <2>2. QED
    BY <1>1, <1>2, <1>3, <2>1 DEF MigrationComplete, Rows
<1>13. QED
  BY <1>6, <1>7, <1>8, <1>9, <1>10, <1>11, <1>12 DEF StoresInv

LEMMA LandsKeeps ==
  ASSUME StoresInv, NEW heard \in BOOLEAN, NEW req \in Creates \cup Archives, Lands(req, heard),
         RunFits(task'), late' \subseteq late, UNCHANGED <<table, connector, today, mig>>,
         heard /\ req \in Creates =>
           /\ task.at = "push" /\ req.job \in task.todo
           /\ task'.at \in {"store", "push"} => req.job \notin task'.todo
  PROVE  StoresInv'
<1>1. StoreTypes /\ late' \subseteq Creates \cup Archives
  BY DEF StoresInv, StoreTypes
<1>2. CASE req \in Creates
  <2>1. Made(req.job, heard) /\ req.job \in Job
    BY <1>1, <1>2, CreateMakes DEF Creates
  <2>2. /\ Excused(req.job) \in Nat /\ Later(req.job) \in {0, 1} /\ Cardinality(Of(req.job)) \in Nat
    BY <1>1, <2>1, OfFinite DEF StoreTypes, Excused, Later
  <2>3. ASSUME heard
        PROVE  /\ Cardinality(Of(req.job)) <= Excused(req.job) + Later(req.job)
               /\ req.job \notin Rows => Cardinality(Of(req.job)) <= Excused(req.job)
    <3>1. task.at = "push" /\ req.job \in task.todo /\ Missing(task) /\ Wired(task)
      BY <1>2, <2>3 DEF StoresInv, RunFits
    <3>2. CASE task.via = "notion"
      BY <2>1, <2>2, <3>1, <3>2 DEF Missing
    <3>3. CASE task.via = "mirror" /\ req.job \in Rows
      BY <2>1, <2>2, <3>1, <3>3 DEF Missing
    <3>4. QED
      BY <3>1, <3>2, <3>3 DEF Wired
  <2>4. QED
    BY <1>1, <1>2, <2>1, <2>3, MadeKeeps
<1>3. CASE req \in Archives
  BY <1>1, <1>3, ArchiveWithdraws, WithdrawnKeeps
<1>4. QED
  BY <1>2, <1>3

LEMMA ArriveKeeps ==
  ASSUME StoresInv, Arrive
  PROVE  StoresInv'
<1>1. PICK req \in late :
        /\ late' = late \ {req}
        /\ UNCHANGED <<pages, causes>> \/ Lands(req, FALSE)
        /\ UNCHANGED <<table, connector, today, task, mig, runs, edits>>
  BY DEF Arrive
<1>2. RunFits(task') /\ late' \subseteq late /\ late \subseteq Creates \cup Archives
  BY <1>1 DEF StoresInv, StoreTypes
<1>3. CASE UNCHANGED <<pages, causes>>
  BY <1>1, <1>2, <1>3, RunMoves
<1>4. CASE Lands(req, FALSE)
  BY <1>1, <1>2, <1>4, LandsKeeps
<1>5. QED
  BY <1>1, <1>3, <1>4

LEMMA TryKeeps ==
  ASSUME StoresConstants, StoresInv, NEW req \in Requests,
         Acknowledged(req) \/ Errs(req) \/ Abandoned(req)
  PROVE  StoresInv'
<1>0. /\ StoreTypes /\ RunFits(task) /\ late \subseteq Creates \cup Archives
      /\ req \in Creates \cup Archives
  BY TriedIs DEF StoresInv, StoreTypes
<1>1. CASE Acknowledged(req)
  <2>1. RunFits(task') /\ (req \in Creates => req.job \notin task'.todo)
    BY <1>0, <1>1, OverFits DEF Acknowledged
  <2>2. req \in Creates => task.at = "push" /\ req.job \in task.todo
    BY <1>0, TriedIs DEF Creates, Archives
  <2>3. QED
    BY <1>0, <1>1, <2>1, <2>2, LandsKeeps DEF Acknowledged, stores
<1>2. CASE Errs(req)
  <2>1. RunFits(task')
    BY <1>0, <1>2, RefusedFits DEF Errs
  <2>2. CASE UNCHANGED <<pages, causes>>
    BY <1>0, <1>2, <2>1, <2>2, RunMoves DEF Errs, stores
  <2>3. CASE Lands(req, FALSE)
    BY <1>0, <1>2, <2>1, <2>3, LandsKeeps DEF Errs, stores
  <2>4. QED
    BY <1>2, <2>2, <2>3 DEF Errs
<1>3. CASE Abandoned(req)
  <2>1. RunFits(task')
    BY <1>0, <1>3, ThrownFits, TriedIs DEF Abandoned
  <2>2. QED
    BY <1>0, <1>3, <2>1, RunMoves DEF Abandoned, stores
<1>4. QED
  BY <1>1, <1>2, <1>3

(* What a query has read fits the step that it was for. *)
LEMMA QueryKeeps ==
  ASSUME StoresConstants, StoresInv, Query
  PROVE  StoresInv'
<1> DEFINE got == Batch(task.cursor)
           known == task.known \cup {pages[p].job : p \in got}
           todo == task.todo \cup {[page |-> p, seen |-> pages[p].status] : p \in {q \in got : task.at = "list" /\ IsStale(pages[q])}}
           cursor == NextCursor(task.cursor)
<1>0. /\ StoreTypes /\ RunFits(task) /\ task.at \in {"cache", "list"} /\ task.via = "notion"
      /\ task.cursor \in 0 .. Len(pages)
  BY DEF StoresInv, RunFits, RunTypes, Query
<1>1. /\ got \subseteq Live /\ cursor \in 0 .. Len(pages)
      /\ \A p \in Live : p > task.cursor /\ (cursor = 0 \/ p <= cursor) => p \in got
  BY <1>0, QueryReadsOn
<1>2. /\ \A p \in Live : p \in DOMAIN pages /\ p \in Nat /\ pages[p] \in NotionPage
      /\ Len(pages) \in Nat
  BY <1>0, PageFacts
<1>3. Read(known, todo, cursor)
  BY DEF Query
<1>4. known \subseteq Job
  BY <1>0, <1>1, <1>2 DEF RunFits, RunTypes, NotionPage
<1>5. \A p \in Live : (cursor = 0 \/ p <= cursor) /\ task.at = "cache" => pages[p].job \in known
  BY <1>0, <1>1, <1>2 DEF RunFits, Cached
<1>6. task.at = "list" => todo \subseteq OfPages
  <2> SUFFICES ASSUME task.at = "list", NEW x \in todo PROVE x \in OfPages
    OBVIOUS
  <2>1. CASE x \in task.todo
    BY <1>0, <2>1 DEF RunFits, Wired
  <2>2. CASE x \notin task.todo
    <3>1. PICK p \in got : IsStale(pages[p]) /\ x = [page |-> p, seen |-> pages[p].status]
      BY <2>2
    <3>2. p \in DOMAIN pages /\ pages[p].status \in Untracked
      BY <1>1, <1>2, <3>1 DEF IsStale, Untracked
    <3>3. QED
      BY <3>1, <3>2 DEF OfPages
  <2>3. QED
    BY <2>1, <2>2
<1>7. Query => UNCHANGED <<pages, late, table, connector, today, mig, causes>>
  BY DEF Query, stores
<1> HIDE DEF got, known, todo, cursor
<1>8. RunFits(task')
  <2>1. CASE cursor # 0
    <3>1. task' = [task EXCEPT !.known = known, !.todo = todo, !.cursor = cursor, !.attempt = 0]
      BY <1>3, <2>1 DEF Read
    <3>2. task = [at |-> task.at, via |-> task.via, known |-> task.known, todo |-> task.todo, req |-> task.req,
                 attempt |-> task.attempt, cursor |-> task.cursor]
      BY <1>0 DEF RunFits, RunTypes
    <3>3. task' = [at |-> task.at, via |-> task.via, known |-> known, todo |-> todo, req |-> task.req,
                  attempt |-> 0, cursor |-> cursor]
      BY <3>1, <3>2
    <3>4. RunTypes(task')
      BY <1>0, <1>1, <1>4, <3>3 DEF RunFits, RunTypes
    <3>5. Wired(task')
      BY <1>0, <1>6, <3>3 DEF RunFits, Wired
    <3>6. Cached(task') /\ Missing(task')
      BY <1>0, <1>5, <2>1, <3>3 DEF Cached, Missing
    <3>7. QED
      BY <3>4, <3>5, <3>6 DEF RunFits
  <2>2. CASE cursor = 0 /\ task.at = "cache"
    <3>1. PICK new \in SUBSET NotCached(known) :
            task' = [NoTask EXCEPT !.at = "store", !.via = task.via, !.todo = new]
      BY <1>3, <2>2 DEF Read
    <3>2. task' = [at |-> "store", via |-> "notion", known |-> {}, todo |-> new, req |-> Nothing,
                  attempt |-> 0, cursor |-> 0]
      BY <1>0, <3>1 DEF NoTask
    <3>3. new \subseteq Job /\ \A j \in new : j \notin known
      BY <3>1 DEF NotCached
    <3>4. RunTypes(task')
      BY <1>2, <3>2 DEF RunTypes
    <3>5. Wired(task') /\ Cached(task')
      BY <3>2, <3>3 DEF Wired, Cached
    <3>6. Missing(task')
      <4>1. ASSUME NEW j \in new PROVE Of(j) = {}
        BY <1>5, <2>2, <3>3, <4>1 DEF Of
      <4>2. \A j \in new : Cardinality(Of(j)) = 0
        BY <4>1, FS_EmptySet
      <4>3. \A j \in Job : Excused(j) \in Nat
        BY <1>0 DEF StoreTypes, Excused
      <4>4. QED
        BY <3>2, <4>2, <4>3 DEF Missing
    <3>7. QED
      BY <3>4, <3>5, <3>6 DEF RunFits
  <2>3. CASE task' = [NoTask EXCEPT !.at = "archive", !.via = task.via, !.todo = todo] /\ task.at = "list"
    <3>1. task' = [at |-> "archive", via |-> "notion", known |-> {}, todo |-> todo, req |-> Nothing,
                  attempt |-> 0, cursor |-> 0]
      BY <1>0, <2>3 DEF NoTask
    <3>2. RunTypes(task')
      BY <1>2, <3>1 DEF RunTypes
    <3>3. Wired(task')
      <4>1. todo \subseteq OfPages
        BY <1>6, <2>3
      <4>2. QED
        BY <3>1, <4>1 DEF Wired
    <3>4. Cached(task') /\ Missing(task')
      BY <3>1 DEF Cached, Missing
    <3>5. QED
      BY <3>2, <3>3, <3>4 DEF RunFits
  <2>4. CASE task' = NoTask
    BY <1>0, <2>4, NoRunFits
  <2>5. QED
    BY <1>0, <1>3, <2>1, <2>2, <2>3, <2>4 DEF Read
<1>9. QED
  BY <1>7, <1>8, RunMoves DEF StoresInv, StoreTypes

LEMMA QueryFailsKeeps ==
  ASSUME StoresConstants, StoresInv, QueryFails
  PROVE  StoresInv'
<1>0. /\ StoreTypes /\ RunFits(task) /\ task.at \in {"cache", "list"}
      /\ late \subseteq Creates \cup Archives
  BY DEF StoresInv, StoreTypes, QueryFails
<1>1. RunFits(task')
  <2>1. CASE task' = [task EXCEPT !.attempt = @ + 1]
    <3>1. task' = [at |-> task.at, via |-> task.via, known |-> task.known, todo |-> task.todo, req |-> task.req,
                  attempt |-> task.attempt + 1, cursor |-> task.cursor]
      BY <1>0, <2>1 DEF RunFits, RunTypes
    <3>2. RunTypes(task')
      BY <1>0, <3>1 DEF RunFits, RunTypes
    <3>3. Wired(task')
      BY <1>0, <3>1 DEF RunFits, Wired
    <3>4. Cached(task') /\ Missing(task')
      BY <1>0, <3>1 DEF RunFits, Cached, Missing
    <3>5. QED
      BY <3>2, <3>3, <3>4 DEF RunFits
  <2>2. CASE task' = NoTask
    BY <1>0, <2>2, NoRunFits
  <2>3. QED
    BY <2>1, <2>2 DEF QueryFails
<1>2. QED
  BY <1>0, <1>1, RunMoves DEF QueryFails, stores

LEMMA SelectKeeps ==
  ASSUME StoresConstants, StoresInv, Select
  PROVE  StoresInv'
<1> DEFINE rows == {j \in Rows : ~table[j].archived}
           todo == {[page |-> j, seen |-> table[j].status] : j \in {k \in rows : IsStale(table[k])}}
<1>0. /\ StoreTypes /\ RunFits(task) /\ task.at \in {"cache", "list"} /\ task.via # "notion"
      /\ late \subseteq Creates \cup Archives
      /\ connector # "notion" /\ task.via \in {"sqlite", "mirror"} /\ Len(pages) \in Nat
  BY PageFacts DEF StoresInv, StoreTypes, Select, RunFits, RunTypes, Wired
<1>1. Read(rows, todo, 0)
  BY DEF Select
<1>2. todo \subseteq OfRows
  BY DEF OfRows, IsStale, Untracked
<1>3. MigrationComplete
  BY DEF StoresInv
<1> HIDE DEF rows, todo
<1>4. RunFits(task')
  <2>1. CASE task.at = "cache"
    <3>1. PICK new \in SUBSET NotCached(rows) :
            task' = [NoTask EXCEPT !.at = "store", !.via = task.via, !.todo = new]
      BY <1>1, <2>1 DEF Read
    <3>2. task' = [at |-> "store", via |-> task.via, known |-> {}, todo |-> new, req |-> Nothing,
                  attempt |-> 0, cursor |-> 0]
      BY <3>1 DEF NoTask
    <3>3. RunTypes(task')
      BY <1>0, <3>2 DEF RunTypes
    <3>4. new \subseteq Job
      BY DEF NotCached
    <3>5. Wired(task') /\ Cached(task') /\ Missing(task')
      BY <1>0, <3>2, <3>4 DEF Wired, Cached, Missing
    <3>6. QED
      BY <3>3, <3>5 DEF RunFits
  <2>2. CASE task' = [NoTask EXCEPT !.at = "archive", !.via = task.via, !.todo = todo]
    <3>1. task' = [at |-> "archive", via |-> task.via, known |-> {}, todo |-> todo, req |-> Nothing,
                  attempt |-> 0, cursor |-> 0]
      BY <2>2 DEF NoTask
    <3>2. RunTypes(task')
      BY <1>0, <3>1 DEF RunTypes
    <3>3. Wired(task') /\ Cached(task') /\ Missing(task')
      BY <1>0, <1>2, <3>1 DEF Wired, Cached, Missing
    <3>4. QED
      BY <3>2, <3>3 DEF RunFits
  <2>3. CASE task' = NoTask
    BY <1>0, <2>3, NoRunFits
  <2>4. QED
    BY <1>0, <1>1, <2>1, <2>2, <2>3 DEF Read
<1>5. QED
  BY <1>0, <1>4, RunMoves DEF Select, stores

(* The steps that start a run, end it, or go on to the cleanup routine. *)
LEMMA TurnsKeep ==
  ASSUME StoresConstants, StoresInv, RunBegins \/ Pushed \/ Archived \/ TaskDies
  PROVE  StoresInv'
<1>0. /\ StoreTypes /\ RunFits(task) /\ late \subseteq Creates \cup Archives
      /\ connector \in {"notion", "sqlite", "mirror"} /\ Len(pages) \in Nat
      /\ \A p \in Live : p \in 1 .. Len(pages)
  BY PageFacts DEF StoresInv, StoreTypes
<1>1. CASE RunBegins
  <2>1. task' = [at |-> "cache", via |-> connector, known |-> {}, todo |-> {}, req |-> Nothing,
                attempt |-> 0, cursor |-> 0]
    BY <1>1 DEF RunBegins, NoTask
  <2>2. RunTypes(task')
    BY <1>0, <2>1 DEF RunTypes
  <2>3. Wired(task') /\ Missing(task')
    BY <1>0, <2>1 DEF Wired, Missing
  <2>4. Cached(task')
    BY <1>0, <2>1 DEF Cached
  <2>5. QED
    BY <1>0, <1>1, <2>2, <2>3, <2>4, RunMoves DEF RunBegins, RunFits
<1>2. CASE Pushed
  <2>1. /\ task' = [at |-> "list", via |-> task.via, known |-> {}, todo |-> {}, req |-> Nothing,
                   attempt |-> 0, cursor |-> 0]
        /\ task.at = "push"
    BY <1>2 DEF Pushed, NoTask
  <2>2. RunTypes(task')
    BY <1>0, <2>1 DEF RunTypes, RunFits
  <2>3. Wired(task') /\ Missing(task') /\ Cached(task')
    BY <1>0, <2>1 DEF RunFits, Wired, Missing, Cached
  <2>4. QED
    BY <1>0, <1>2, <2>2, <2>3, RunMoves DEF Pushed, RunFits, stores
<1>3. CASE Archived \/ TaskDies
  BY <1>0, <1>3, NoRunFits, RunMoves DEF Archived, TaskDies, stores
<1>4. QED
  BY <1>1, <1>2, <1>3

(* A step that leaves the pages alone counts them as before. *)
LEMMA CountStays ==
  ASSUME StoreTypes, Counted, pages' = pages, causes'.missed = causes.missed, Rows \subseteq Rows',
         \A j \in Job : Excused(j)' \in Nat /\ Excused(j) <= Excused(j)'
  PROVE  Counted'
<1> SUFFICES ASSUME NEW j \in Job
             PROVE  /\ Cardinality(Of(j)') <= 1 + Excused(j)' + Later(j)'
                    /\ j \notin Rows' => Cardinality(Of(j)') <= 1 + Excused(j)'
  BY DEF Counted
<1>1. Of(j)' = Of(j) /\ Later(j)' = Later(j) /\ Later(j) \in {0, 1}
  BY DEF Of, Live, Later
<1>2. Cardinality(Of(j)) \in Nat /\ Excused(j) \in Nat
  BY OfFinite DEF StoreTypes, Excused
<1>3. /\ Cardinality(Of(j)) <= 1 + Excused(j) + Later(j)
      /\ j \notin Rows => Cardinality(Of(j)) <= 1 + Excused(j)
  BY DEF Counted
<1>4. Excused(j)' \in Nat /\ Excused(j) <= Excused(j)' /\ (j \notin Rows' => j \notin Rows)
  OBVIOUS
<1>5. QED
  BY <1>1, <1>2, <1>3, <1>4

(* No migration is at work on a profile that is on SQLite. *)
LEMMA MigIdles ==
  ASSUME MigFits(mig), connector # "notion", UNCHANGED <<pages, mig>>
  PROVE  MigFits(mig)'
<1>1. mig.at = "idle"
  BY DEF MigFits
<1>2. QED
  BY <1>1 DEF MigFits

LEMMA StoreInNotionKeeps ==
  ASSUME StoresConstants, StoresInv, Store, task.via = "notion"
  PROVE  StoresInv'
<1>0. StoreTypes /\ RunFits(task) /\ late \subseteq Creates \cup Archives /\ task.at = "store"
  BY DEF StoresInv, StoreTypes, Store
<1>1. task' = [at |-> "push", via |-> "notion", known |-> task.known, todo |-> task.todo, req |-> task.req,
              attempt |-> task.attempt, cursor |-> task.cursor]
  <2>1. task' = [task EXCEPT !.at = "push", !.todo = task.todo]
    BY DEF Store
  <2>2. QED
    BY <1>0, <2>1 DEF RunFits, RunTypes
<1>2. task.req = Nothing
  BY <1>0 DEF RunFits, Wired
<1>3. RunTypes(task')
  BY <1>0, <1>1 DEF RunFits, RunTypes
<1>4. Wired(task')
  BY <1>0, <1>1, <1>2 DEF RunFits, Wired
<1>5. Cached(task') /\ Missing(task')
  BY <1>0, <1>1 DEF RunFits, Cached, Missing
<1>6. QED
  BY <1>0, <1>3, <1>4, <1>5, RunMoves DEF Store, RunFits

(* The rows that a run stores: the jobs are in the database from then on,   *)
(* and one that was there already is excused a page more.                   *)
LEMMA StoreInRowsKeeps ==
  ASSUME StoresConstants, StoresInv, Store, task.via # "notion"
  PROVE  StoresInv'
<1> DEFINE row(j) == [status |-> IF table[j] = Nothing THEN "none" ELSE table[j].status,
                      found |-> today, archived |-> FALSE]
<1>0. /\ StoreTypes /\ RunFits(task) /\ task.at = "store" /\ MigFits(mig)
      /\ task.via \in {"sqlite", "mirror"} /\ connector # "notion" /\ task.todo \subseteq Job
      /\ task.req = Nothing
  BY DEF StoresInv, Store, RunFits, RunTypes, Wired
<1>1. /\ table' = [j \in Job |-> IF j \notin task.todo THEN table[j] ELSE row(j)]
      /\ UNCHANGED <<pages, late, connector, today, mig>>
  BY <1>0 DEF Store
<1>2. ASSUME NEW j \in Job PROVE row(j) \in Row /\ row(j) # Nothing
  <2>1. table[j] \in Row \/ table[j] = Nothing
    BY <1>0 DEF StoreTypes
  <2>2. (IF table[j] = Nothing THEN "none" ELSE table[j].status) \in Status
    BY <2>1 DEF Row, Status
  <2>3. today \in Nat
    BY <1>0 DEF StoreTypes
  <2>4. row(j) \in Row
    BY <2>2, <2>3 DEF Row
  <2>5. QED
    BY <2>4 DEF StoresConstants
<1>3. /\ \A j \in Job : ~row(j).archived
      /\ \A j \in Job : table[j] # Nothing => row(j).status = table[j].status
  OBVIOUS
<1> HIDE DEF row
<1>4. table' \in [Job -> Row \cup {Nothing}]
  BY <1>0, <1>1, <1>2 DEF StoreTypes
<1>5. \A j \in Job : j \in Rows' <=> j \in Rows \/ j \in task.todo
  BY <1>1, <1>2 DEF Rows
<1>6. causes' = [causes EXCEPT !.revived = [j \in Job |->
                   IF j \in task.todo /\ table[j] # Nothing THEN causes.revived[j] + 1 ELSE causes.revived[j]]]
  BY <1>0 DEF Store
<1>7. causes' = [ghosts |-> causes.ghosts, revived |-> causes'.revived, missed |-> causes.missed,
                 overtaken |-> causes.overtaken]
      /\ causes'.revived = [j \in Job |->
                   IF j \in task.todo /\ table[j] # Nothing THEN causes.revived[j] + 1 ELSE causes.revived[j]]
  BY <1>0, <1>6 DEF StoreTypes
<1>8. /\ causes'.ghosts = causes.ghosts /\ causes'.missed = causes.missed
      /\ causes'.overtaken = causes.overtaken /\ causes'.revived \in [Job -> Nat]
  BY <1>0, <1>7 DEF StoreTypes
<1>9. \A j \in Job : /\ Excused(j) \in Nat /\ Excused(j)' \in Nat /\ Excused(j) <= Excused(j)'
                     /\ j \in task.todo /\ j \in Rows => Excused(j)' = Excused(j) + 1
  BY <1>0, <1>7, <1>8 DEF StoreTypes, Excused, Rows
<1>10. StoreTypes'
  <2>1. (Creates \cup Archives)' = Creates \cup Archives
    BY <1>1 DEF Creates, Archives
  <2>2. QED
    BY <1>0, <1>1, <1>4, <1>7, <1>8, <2>1 DEF StoreTypes
<1>11. task' = [at |-> IF task.via = "sqlite" THEN "list" ELSE "push", via |-> task.via, known |-> task.known,
               todo |-> IF task.via = "sqlite" THEN {} ELSE task.todo, req |-> Nothing,
               attempt |-> task.attempt, cursor |-> task.cursor]
  <2>1. task' = [task EXCEPT !.at = IF task.via = "sqlite" THEN "list" ELSE "push",
                           !.todo = IF task.via = "sqlite" THEN {} ELSE task.todo]
    BY DEF Store
  <2>2. QED
    BY <1>0, <2>1 DEF RunFits, RunTypes
<1>12. \A j \in Job : /\ Cardinality(Of(j)') = Cardinality(Of(j)) /\ Cardinality(Of(j)) \in Nat
                      /\ Later(j)' = Later(j) /\ Later(j) \in {0, 1}
  BY <1>0, <1>1, <1>8, OfFinite DEF Of, Live, Later
<1>13. RunFits(task)'
  <2>1. RunTypes(task)'
    BY <1>0, <1>1, <1>11 DEF RunFits, RunTypes
  <2>2. CASE task.via = "sqlite"
    <3>1. task'.at = "list" /\ task'.via = "sqlite" /\ task'.todo = {} /\ task'.req = Nothing
      BY <1>11, <2>2
    <3>2. QED
      BY <1>0, <1>1, <2>1, <3>1 DEF RunFits, Wired, Cached, Missing
  <2>3. CASE task.via = "mirror"
    <3>1. task'.at = "push" /\ task'.via = "mirror" /\ task'.todo = task.todo /\ task'.req = Nothing
      BY <1>11, <2>3
    <3>2. task.todo \subseteq Rows'
      BY <1>0, <1>5
    <3>3. Wired(task)' /\ Cached(task)'
      BY <1>0, <1>1, <3>1, <3>2 DEF Wired, Cached
    <3>4. ASSUME NEW j \in Job, j \in task.todo
          PROVE  Cardinality(Of(j)) <= Excused(j)' + Later(j)
      <4>0. /\ Cardinality(Of(j)) <= 1 + Excused(j) + Later(j)
            /\ j \notin Rows => Cardinality(Of(j)) <= 1 + Excused(j)
        BY DEF StoresInv, Counted
      <4>1. CASE j \in Rows
        BY <1>9, <1>12, <3>4, <4>0, <4>1
      <4>2. CASE j \notin Rows /\ Of(j) = {}
        <5>1. Cardinality(Of(j)) = 0
          BY <4>2, FS_EmptySet
        <5>2. QED
          BY <1>9, <1>12, <5>1
      <4>3. CASE j \notin Rows /\ Of(j) # {}
        <5>1. PICK p \in Live : pages[p].job = j
          BY <4>3 DEF Of
        <5>2. j \in causes.missed
          BY <1>0, <4>3, <5>1 DEF StoresInv, MigrationComplete
        <5>3. Later(j) = 1
          BY <5>2 DEF Later
        <5>4. QED
          BY <1>9, <1>12, <4>0, <4>3, <5>3
      <4>4. QED
        BY <4>1, <4>2, <4>3
    <3>5. Missing(task)'
      BY <1>12, <3>1, <3>4 DEF Missing
    <3>6. QED
      BY <2>1, <3>3, <3>5 DEF RunFits
  <2>4. QED
    BY <1>0, <2>2, <2>3
<1>14. Counted'
  BY <1>0, <1>1, <1>5, <1>8, <1>9, CountStays DEF StoresInv, Rows
<1>15. MigFits(mig)' /\ RowsLive'
  BY <1>0, <1>1, MigIdles DEF RowsLive
<1>16. TrackedSpared'
  <2>1. ASSUME NEW j \in Rows', table'[j].archived, table'[j].status = "Applied" PROVE j \in causes'.overtaken
    <3>1. j \in Job /\ j \notin task.todo
      BY <1>1, <1>3, <2>1 DEF Rows
    <3>2. table'[j] = table[j] /\ j \in Rows
      BY <1>1, <1>5, <2>1, <3>1
    <3>3. QED
      BY <1>8, <2>1, <3>2 DEF StoresInv, TrackedSpared
  <2>2. QED
    BY <1>1, <1>8, <2>1 DEF StoresInv, TrackedSpared
<1>17. MigrationComplete'
  <2> SUFFICES ASSUME NEW p \in Live
               PROVE  /\ pages[p].job \in Rows' \cup causes.missed
                      /\ pages[p].status # "none" /\ p \notin causes.overtaken /\ pages[p].job \in Rows' \ causes.missed
                           => table'[pages[p].job].status # "none"
    BY <1>1, <1>8 DEF MigrationComplete, Live
  <2>1. /\ pages[p].job \in Rows \cup causes.missed /\ pages[p].job \in Job
        /\ pages[p].status # "none" /\ p \notin causes.overtaken /\ pages[p].job \in Rows \ causes.missed
             => table[pages[p].job].status # "none"
    BY <1>0, PageFacts DEF StoresInv, MigrationComplete, NotionPage
  <2>2. \A j \in Rows : j \in Job /\ table'[j].status = table[j].status
    BY <1>1, <1>3 DEF Rows
  <2>3. QED
    BY <1>5, <2>1, <2>2
<1>18. QED
  BY <1>10, <1>13, <1>14, <1>15, <1>16, <1>17 DEF StoresInv

(* A step that leaves Notion, the rows there are and what is counted alone. *)
LEMMA RowsTouched ==
  ASSUME StoresInv, UNCHANGED <<pages, late, connector, today, mig>>, connector # "notion",
         table' \in [Job -> Row \cup {Nothing}], Rows' = Rows,
         \A j \in Rows : table[j].status # "none" => table'[j].status # "none",
         causes' = [ghosts |-> causes.ghosts, revived |-> causes.revived, missed |-> causes.missed,
                    overtaken |-> causes'.overtaken],
         causes.overtaken \subseteq causes'.overtaken,
         \A j \in Rows : table'[j].archived /\ table'[j].status = "Applied" => j \in causes'.overtaken,
         RunFits(task')
  PROVE  StoresInv'
<1>0. StoreTypes /\ MigFits(mig) /\ Counted /\ TrackedSpared /\ MigrationComplete
  BY DEF StoresInv
<1>1. /\ causes'.ghosts = causes.ghosts /\ causes'.revived = causes.revived /\ causes'.missed = causes.missed
      /\ \A x \in causes.overtaken : x \in causes'.overtaken
  OBVIOUS
<1>2. \A j \in Job : /\ Excused(j)' = Excused(j) /\ Later(j)' = Later(j) /\ Of(j)' = Of(j)
                     /\ Excused(j) \in Nat
  BY <1>0, <1>1 DEF StoreTypes, Excused, Later, Of, Live
<1>3. StoreTypes'
  <2>1. (Creates \cup Archives)' = Creates \cup Archives
    BY DEF Creates, Archives
  <2>2. causes' = [ghosts |-> causes'.ghosts, revived |-> causes'.revived, missed |-> causes'.missed,
                   overtaken |-> causes'.overtaken]
    BY <1>1
  <2>3. QED
    BY <1>0, <1>1, <2>1, <2>2 DEF StoreTypes
<1>4. RunFits(task)'
  <2>1. RunTypes(task)'
    BY DEF RunFits, RunTypes
  <2>2. Wired(task)'
    BY DEF RunFits, Wired, Creates, Archives, OfPages, OfRows
  <2>3. Cached(task)'
    BY DEF RunFits, Cached, Live
  <2>4. Missing(task)'
    BY <1>2 DEF RunFits, Missing
  <2>5. QED
    BY <2>1, <2>2, <2>3, <2>4 DEF RunFits
<1>5. Counted'
  BY <1>0, <1>1, <1>2, CountStays
<1>6. MigFits(mig)' /\ RowsLive'
  BY <1>0, MigIdles DEF RowsLive
<1>7. TrackedSpared'
  BY <1>0, <1>1 DEF TrackedSpared
<1>8. MigrationComplete'
  BY <1>0, <1>1 DEF MigrationComplete, Live
<1>9. QED
  BY <1>3, <1>4, <1>5, <1>6, <1>7, <1>8 DEF StoresInv

LEMMA MarkArchivedKeeps ==
  ASSUME StoresConstants, StoresInv, MarkArchived
  PROVE  StoresInv'
<1> DEFINE ids == {x.page : x \in task.todo}
<1>0. /\ StoreTypes /\ RunFits(task) /\ connector # "notion" /\ task.todo \subseteq OfRows
      /\ \A j \in Job : table[j] \in Row \cup {Nothing}
  BY DEF StoresInv, StoreTypes, MarkArchived, RunFits, Wired
<1>1. /\ table' = [j \in Job |-> IF j \in ids THEN [table[j] EXCEPT !.archived = TRUE] ELSE table[j]]
      /\ causes' = [causes EXCEPT !.overtaken = causes.overtaken \cup
                      {x.page : x \in {y \in task.todo : table[y.page].status # y.seen}}]
      /\ task' = NoTask /\ UNCHANGED <<pages, late, connector, today, mig>>
  BY DEF MarkArchived
<1>2. \A x \in task.todo : x.page \in Rows /\ x.seen \in Untracked
  BY <1>0 DEF OfRows
<1>3. \A j \in ids : j \in Rows
  BY <1>2
<1>4. \A j \in Rows : j \in Job /\ table[j] \in Row
  BY <1>0 DEF Rows
<1>5. ASSUME NEW j \in Rows
      PROVE  /\ table'[j] \in Row /\ table'[j].status = table[j].status
             /\ table'[j].archived => j \in ids \/ table[j].archived
  <2>1. table[j] \in Row /\ j \in Job
    BY <1>4
  <2>2. CASE j \in ids
    <3>1. table'[j] = [table[j] EXCEPT !.archived = TRUE]
      BY <1>1, <2>1, <2>2
    <3>2. QED
      BY <2>1, <2>2, <3>1 DEF Row
  <2>3. CASE j \notin ids
    BY <1>1, <2>1, <2>3
  <2>4. QED
    BY <2>2, <2>3
<1>6. \A j \in Job : j \notin Rows => table'[j] = Nothing
  BY <1>1, <1>3 DEF Rows
<1>7. /\ table' \in [Job -> Row \cup {Nothing}] /\ Rows' = Rows
  <2>1. \A j \in Job : table'[j] \in Row \cup {Nothing}
    BY <1>5, <1>6
  <2>2. \A j \in Job : j \in Rows' <=> j \in Rows
    BY <1>5, <1>6 DEF Rows, StoresConstants
  <2>3. table' \in [Job -> Row \cup {Nothing}]
    <3> HIDE DEF ids
    <3>1. QED
      BY <1>1, <2>1
  <2>4. QED
    BY <2>2, <2>3 DEF Rows
<1>8. /\ causes' = [ghosts |-> causes.ghosts, revived |-> causes.revived, missed |-> causes.missed,
                    overtaken |-> causes'.overtaken]
      /\ causes'.overtaken = causes.overtaken \cup
           {x.page : x \in {y \in task.todo : table[y.page].status # y.seen}}
  BY <1>0, <1>1 DEF StoreTypes
<1>9. ASSUME NEW j \in Rows, table'[j].archived, table'[j].status = "Applied"
      PROVE  j \in causes'.overtaken
  <2>1. table[j].status = "Applied" /\ (j \in ids \/ table[j].archived)
    BY <1>5, <1>9
  <2>2. CASE j \in ids
    <3>1. PICK x \in task.todo : x.page = j
      BY <2>2
    <3>2. table[x.page].status # x.seen
      BY <1>2, <2>1, <3>1 DEF Untracked
    <3>3. QED
      BY <1>8, <3>1, <3>2
  <2>3. CASE table[j].archived
    BY <1>8, <2>1, <2>3 DEF StoresInv, TrackedSpared
  <2>4. QED
    BY <2>1, <2>2, <2>3
<1>10. RunFits(task')
  BY <1>0, <1>1, NoRunFits
<1> HIDE DEF ids
<1>11. causes.overtaken \subseteq causes'.overtaken
  BY <1>8
<1>12. \A j \in Rows : table[j].status # "none" => table'[j].status # "none"
  BY <1>5
<1>13. UNCHANGED <<pages, late, connector, today, mig>>
  BY <1>1
<1>14. QED
  BY <1>0, <1>7, <1>8, <1>9, <1>10, <1>11, <1>12, <1>13, RowsTouched

LEMMA EditRowKeeps ==
  ASSUME StoresConstants, StoresInv, EditRow
  PROVE  StoresInv'
<1>0. /\ StoreTypes /\ RunFits(task) /\ connector # "notion"
      /\ table \in [Job -> Row \cup {Nothing}]
  BY DEF StoresInv, StoreTypes, EditRow
<1>14. PICK j \in Rows : \E s \in Edited(table[j].status) :
         /\ table' = [table EXCEPT ![j].status = s]
         /\ causes' = IF table[j].archived THEN [causes EXCEPT !.overtaken = @ \cup {j}] ELSE causes
  BY DEF EditRow
<1>1. PICK s \in Edited(table[j].status) :
        /\ table' = [table EXCEPT ![j].status = s]
        /\ causes' = IF table[j].archived THEN [causes EXCEPT !.overtaken = @ \cup {j}] ELSE causes
  BY <1>14
<1>2. j \in Job /\ table[j] \in Row /\ s \in {"Passed", "Applied"}
  BY <1>0, <1>1 DEF Rows, Edited
<1>3. PICK row : row = [table[j] EXCEPT !.status = s]
  OBVIOUS
<1>4. row \in Row /\ row.status = s /\ row.archived = table[j].archived
  BY <1>2, <1>3 DEF Row, Status
<1>5. table' = [table EXCEPT ![j] = row]
  BY <1>1, <1>3
<1>6. table' \in [Job -> Row \cup {Nothing}] /\ \A k \in Job : table'[k] = IF k = j THEN row ELSE table[k]
  BY <1>0, <1>2, <1>4, <1>5
<1>7. Rows' = Rows
  BY <1>1, <1>4, <1>6 DEF Rows, StoresConstants
<1>8. /\ causes' = [ghosts |-> causes.ghosts, revived |-> causes.revived, missed |-> causes.missed,
                    overtaken |-> causes'.overtaken]
      /\ causes.overtaken \subseteq causes'.overtaken
      /\ table[j].archived => j \in causes'.overtaken
  <2>1. CASE table[j].archived
    <3>1. causes' = [causes EXCEPT !.overtaken = causes.overtaken \cup {j}]
      BY <1>1, <2>1
    <3>2. QED
      BY <1>0, <3>1 DEF StoreTypes
  <2>2. CASE ~table[j].archived
    <3>1. causes' = causes
      BY <1>1, <2>2
    <3>2. QED
      BY <1>0, <2>2, <3>1 DEF StoreTypes
  <2>3. QED
    BY <2>1, <2>2
<1>9. \A k \in Rows : table[k].status # "none" => table'[k].status # "none"
  BY <1>2, <1>4, <1>6 DEF Rows
<1>10. ASSUME NEW k \in Rows, table'[k].archived, table'[k].status = "Applied"
       PROVE  k \in causes'.overtaken
  <2>1. k \in Job
    BY DEF Rows
  <2>2. CASE k = j
    BY <1>4, <1>6, <1>8, <1>10, <2>1, <2>2
  <2>3. CASE k # j
    BY <1>6, <1>8, <1>10, <2>1, <2>3 DEF StoresInv, TrackedSpared
  <2>4. QED
    BY <2>2, <2>3
<1>11. UNCHANGED <<pages, late, connector, today, mig, task>>
  BY DEF EditRow
<1>12. RunFits(task')
  BY <1>0, <1>11
<1>13. QED
  BY <1>0, <1>6, <1>7, <1>8, <1>9, <1>10, <1>11, <1>12, RowsTouched

LEMMA NextDayKeeps ==
  ASSUME StoresInv, NextDay
  PROVE  StoresInv'
<1>0. /\ UNCHANGED <<pages, late, table, connector, task, mig, causes>> /\ today' = today + 1
      /\ StoreTypes /\ RunFits(task) /\ MigFits(mig)
  BY DEF NextDay, StoresInv
<1>1. StoreTypes'
  BY <1>0 DEF StoreTypes, Creates, Archives
<1>2. RunFits(task)' /\ MigFits(mig)'
  BY <1>0, FitsStays, MigStays
<1>3. Counted'
  BY <1>0 DEF StoresInv, Counted, Of, Live, Excused, Later, Rows
<1>4. RowsLive' /\ TrackedSpared' /\ MigrationComplete'
  BY <1>0 DEF StoresInv, RowsLive, TrackedSpared, MigrationComplete, Live, Rows
<1>5. QED
  BY <1>1, <1>2, <1>3, <1>4 DEF StoresInv

(* The user's edit of a page leaves it the page it was. *)
LEMMA EditPageKeeps ==
  ASSUME StoresConstants, StoresInv, EditPage
  PROVE  StoresInv'
<1>0. /\ StoreTypes /\ RunFits(task) /\ MigFits(mig)
      /\ UNCHANGED <<late, table, connector, today, task, mig>>
  BY DEF StoresInv, EditPage
<1>1. PICK p \in Live : \E s \in Edited(pages[p].status) :
        /\ pages' = [pages EXCEPT ![p].status = s]
        /\ causes' = [causes EXCEPT !.overtaken =
             IF mig.at = "idle" /\ connector = "notion" THEN @ ELSE @ \cup {p}]
  BY DEF EditPage
<1>2. PICK s \in Edited(pages[p].status) :
        /\ pages' = [pages EXCEPT ![p].status = s]
        /\ causes' = [causes EXCEPT !.overtaken =
             IF mig.at = "idle" /\ connector = "notion" THEN @ ELSE @ \cup {p}]
  BY <1>1
<1>3. /\ Len(pages) \in Nat /\ DOMAIN pages = 1 .. Len(pages) /\ p \in DOMAIN pages
      /\ pages \in Seq(NotionPage) /\ \A q \in DOMAIN pages : pages[q] \in NotionPage
      /\ ~pages[p].archived /\ s \in {"Passed", "Applied"} /\ \A q \in Live : q \in DOMAIN pages
  BY <1>0, PageFacts DEF StoreTypes, Live, Edited
<1>4. PICK page : page = [pages[p] EXCEPT !.status = s]
  OBVIOUS
<1>5. page \in NotionPage /\ page.job = pages[p].job /\ page.archived = pages[p].archived
  BY <1>3, <1>4 DEF NotionPage, Status
<1>6. pages' = [pages EXCEPT ![p] = page]
  BY <1>2, <1>4
<1>7. /\ pages' \in Seq(NotionPage) /\ Len(pages') = Len(pages) /\ DOMAIN pages' = DOMAIN pages
      /\ \A q \in DOMAIN pages : pages'[q] = IF q = p THEN page ELSE pages[q]
  BY <1>3, <1>5, <1>6, ExceptSeq
<1>8. /\ \A q \in DOMAIN pages : pages'[q].job = pages[q].job /\ pages'[q].archived = pages[q].archived
      /\ \A q \in DOMAIN pages : q # p => pages'[q] = pages[q]
  BY <1>5, <1>7
<1>9. Live' = Live
  BY <1>7, <1>8 DEF Live
<1>10. /\ causes' = [ghosts |-> causes.ghosts, revived |-> causes.revived, missed |-> causes.missed,
                     overtaken |-> causes'.overtaken]
       /\ causes.overtaken \subseteq causes'.overtaken
       /\ p \in causes'.overtaken \/ (mig.at = "idle" /\ connector = "notion")
  <2>1. CASE mig.at = "idle" /\ connector = "notion"
    <3>1. causes' = [causes EXCEPT !.overtaken = @]
      BY <1>2, <2>1
    <3>2. QED
      BY <1>0, <2>1, <3>1 DEF StoreTypes
  <2>2. CASE ~(mig.at = "idle" /\ connector = "notion")
    <3>1. causes' = [causes EXCEPT !.overtaken = @ \cup {p}]
      BY <1>2, <2>2
    <3>2. QED
      BY <1>0, <3>1 DEF StoreTypes
  <2>3. QED
    BY <2>1, <2>2
<1>11. /\ causes'.ghosts = causes.ghosts /\ causes'.revived = causes.revived /\ causes'.missed = causes.missed
       /\ \A x \in causes.overtaken : x \in causes'.overtaken
       /\ causes' = [ghosts |-> causes'.ghosts, revived |-> causes'.revived, missed |-> causes'.missed,
                     overtaken |-> causes'.overtaken]
  BY <1>10
<1>12. \A k \in Job : Excused(k)' = Excused(k) /\ Later(k)' = Later(k) /\ Of(k)' = Of(k)
  BY <1>3, <1>8, <1>9, <1>11 DEF Excused, Later, Of
<1>13. StoreTypes'
  BY <1>0, <1>7, <1>11 DEF StoreTypes, Creates, Archives
<1>14. RunFits(task)'
  <2>1. RunTypes(task)'
    BY <1>0, <1>7 DEF RunFits, RunTypes
  <2>2. Wired(task)'
    BY <1>0, <1>7 DEF RunFits, Wired, Creates, Archives, OfPages, OfRows, Rows
  <2>3. Cached(task)'
    BY <1>0, <1>3, <1>8, <1>9 DEF RunFits, Cached
  <2>4. Missing(task)'
    BY <1>0, <1>12 DEF RunFits, Missing
  <2>5. QED
    BY <2>1, <2>2, <2>3, <2>4 DEF RunFits
<1>15. Counted'
  BY <1>0, <1>12 DEF StoresInv, Counted, Rows
<1>16. MigFits(mig)'
  <2>1. CASE mig.at = "idle"
    BY <1>0, <1>7, <2>1 DEF MigFits
  <2>2. CASE mig.at # "idle"
    <3>1. p \in causes'.overtaken
      BY <1>10, <2>2
    <3>2. \A q \in Live : WasRead(mig, q) => WasRead(mig, q)'
      BY <1>0, <1>3, <1>8, <1>11, <3>1 DEF WasRead
    <3>3. \A q \in Live : CameLater(q) => CameLater(q)'
      BY <1>0, <1>3, <1>8, <1>11, <3>1 DEF CameLater, Rows
    <3>4. mig.at = "read" => \A q \in Live' : q <= mig.cursor => WasRead(mig, q)'
      BY <1>0, <1>9, <3>2 DEF MigFits
    <3>5. mig.at \in {"jobs", "tracking", "flip"} => \A q \in Live' : WasRead(mig, q)' \/ CameLater(q)'
      BY <1>0, <1>9, <3>2, <3>3 DEF MigFits
    <3>6. QED
      BY <1>0, <1>7, <3>4, <3>5 DEF MigFits, Rows
  <2>3. QED
    BY <2>1, <2>2
<1>17. RowsLive'
  BY <1>0 DEF StoresInv, RowsLive, Rows
<1>18. TrackedSpared'
  <2>1. TrackedSpared
    BY DEF StoresInv
  <2>2. ASSUME NEW q \in DOMAIN pages', pages'[q].archived, pages'[q].status = "Applied"
        PROVE  q \in causes'.overtaken
    <3>1. q \in DOMAIN pages /\ q # p
      BY <1>3, <1>7, <1>8, <2>2
    <3>2. QED
      BY <1>8, <1>11, <2>1, <2>2, <3>1 DEF TrackedSpared
  <2>3. QED
    BY <1>0, <1>11, <2>1, <2>2 DEF TrackedSpared, Rows
<1>19. MigrationComplete'
  <2>1. MigrationComplete
    BY DEF StoresInv
  <2>2. connector # "notion" => p \in causes'.overtaken
    BY <1>10
  <2>3. QED
    BY <1>0, <1>3, <1>8, <1>9, <1>11, <2>1, <2>2 DEF MigrationComplete, Rows
<1>20. QED
  BY <1>13, <1>14, <1>15, <1>16, <1>17, <1>18, <1>19 DEF StoresInv

----------------------------------------------------------------------------
(* migrate --apply *)

(* A step of the migration that leaves the rows and the profile alone. *)
LEMMA MigMoves ==
  ASSUME StoresInv, MigFits(mig'), UNCHANGED <<pages, late, table, connector, today, task, causes>>
  PROVE  StoresInv'
<1>1. MigFits(mig)'
  BY DEF MigFits, WasRead, CameLater, Live, Rows
<1>2. late' \subseteq (Creates \cup Archives)' /\ RunFits(task')
  BY DEF StoresInv, StoreTypes, Creates, Archives
<1>3. QED
  BY <1>1, <1>2, FitsStays, StoresStay DEF StoresInv

LEMMA MigIdleFits ==
  ASSUME StoreTypes
  PROVE  MigFits(NoMigration)
BY PageFacts DEF MigFits, NoMigration

LEMMA ReadingKeeps ==
  ASSUME StoresConstants, StoresInv, Migrate \/ Export \/ MigrationEnds
  PROVE  StoresInv'
<1>0. /\ StoreTypes /\ MigFits(mig) /\ Len(pages) \in Nat
      /\ \A p \in Live : p \in Nat /\ p >= 1 /\ pages[p] \in NotionPage
  BY PageFacts DEF StoresInv
<1>1. CASE Migrate
  <2>1. mig' = [at |-> "read", cursor |-> 0, read |-> {}] /\ connector = "notion"
    BY <1>1 DEF Migrate, NoMigration
  <2>2. MigFits(mig')
    BY <1>0, <2>1 DEF MigFits
  <2>3. QED
    BY <1>1, <2>2, MigMoves DEF Migrate
<1>2. CASE Export
  <2> DEFINE next == NextCursor(mig.cursor)
             got == {[page |-> p, job |-> pages[p].job, status |-> pages[p].status, found |-> pages[p].found]
                       : p \in Batch(mig.cursor)}
  <2>1. /\ mig' = [at |-> IF next = 0 THEN "jobs" ELSE "read", cursor |-> next, read |-> mig.read \cup got]
        /\ mig.at = "read"
    BY <1>2 DEF Export
  <2>2. /\ mig.cursor \in 0 .. Len(pages) /\ connector = "notion" /\ mig.read \subseteq ReadPage
        /\ \A p \in Live : p <= mig.cursor => WasRead(mig, p)
    BY <1>0, <2>1 DEF MigFits
  <2>3. /\ Batch(mig.cursor) \subseteq Live /\ next \in 0 .. Len(pages)
        /\ \A p \in Live : p > mig.cursor /\ (next = 0 \/ p <= next) => p \in Batch(mig.cursor)
    BY <1>0, <2>2, QueryReadsOn
  <2>4. got \subseteq ReadPage
    BY <1>0, <2>3 DEF ReadPage, NotionPage
  <2>5. \A p \in Batch(mig.cursor) : \E x \in got : x.page = p /\ x.job = pages[p].job /\ x.status = pages[p].status
    <3> SUFFICES ASSUME NEW p \in Batch(mig.cursor)
                 PROVE  \E x \in got : x.page = p /\ x.job = pages[p].job /\ x.status = pages[p].status
      OBVIOUS
    <3>1. PICK x \in got : x = [page |-> p, job |-> pages[p].job, status |-> pages[p].status, found |-> pages[p].found]
      OBVIOUS
    <3>2. x.page = p /\ x.job = pages[p].job /\ x.status = pages[p].status
      BY <3>1
    <3>3. QED
      BY <3>2
  <2> HIDE DEF next, got
  <2>6. mig'.read = mig.read \cup got /\ mig'.cursor = next /\ mig'.at = IF next = 0 THEN "jobs" ELSE "read"
    BY <2>1
  <2>7. \A p \in Live : next = 0 \/ p <= next => WasRead(mig', p)
    <3> SUFFICES ASSUME NEW p \in Live, next = 0 \/ p <= next PROVE WasRead(mig', p)
      OBVIOUS
    <3>1. CASE p <= mig.cursor
      BY <2>2, <2>6, <3>1 DEF WasRead
    <3>2. CASE p > mig.cursor
      BY <2>3, <2>5, <2>6, <3>2 DEF WasRead
    <3>3. QED
      BY <1>0, <2>2, <3>1, <3>2
  <2>8. MigFits(mig')
    <3>1. mig' = [at |-> mig'.at, cursor |-> mig'.cursor, read |-> mig'.read]
      BY <2>1
    <3>2. mig'.read \subseteq ReadPage
      BY <2>2, <2>4, <2>6
    <3>3. QED
      BY <2>2, <2>3, <2>6, <2>7, <3>1, <3>2 DEF MigFits
  <2>9. QED
    BY <1>2, <2>8, MigMoves DEF Export
<1>3. CASE MigrationEnds
  BY <1>0, <1>3, MigIdleFits, MigMoves DEF MigrationEnds
<1>4. QED
  BY <1>1, <1>2, <1>3

(* The first of the pages that were read of a job is one of them. *)
LEMMA FirstIsRead ==
  ASSUME NEW rows \in SUBSET ReadPage, rows # {}
  PROVE  FirstPage(rows) \in rows
<1> DEFINE S == {x.page : x \in rows}
<1>1. S \in SUBSET Nat /\ S # {}
  BY DEF ReadPage
<1>2. PICK p \in S : \A q \in S : p <= q
  BY <1>1, LeastPage
<1>3. \E x \in rows : \A y \in rows : x.page <= y.page
  BY <1>2
<1>4. QED
  BY <1>3 DEF FirstPage

(* What a step of the import has left of the rows: those that there were,   *)
(* unarchived, and more of them perhaps.                                    *)
LEMMA ImportKeeps ==
  ASSUME StoresInv, connector = "notion",
         UNCHANGED <<pages, late, connector, today, task, causes>>,
         table' \in [Job -> Row \cup {Nothing}], Rows \subseteq Rows',
         \A j \in Rows' : ~table'[j].archived,
         MigFits(mig)'
  PROVE  StoresInv'
<1>0. /\ StoreTypes /\ RunFits(task) /\ Counted /\ TrackedSpared
      /\ \A j \in Rows : j \in Rows'
  BY DEF StoresInv
<1>1. \A j \in Job : Excused(j)' = Excused(j) /\ Later(j)' = Later(j) /\ Of(j)' = Of(j) /\ Excused(j) \in Nat
  BY <1>0 DEF StoreTypes, Excused, Later, Of, Live
<1>2. StoreTypes'
  BY <1>0 DEF StoreTypes, Creates, Archives
<1>3. RunFits(task)'
  <2>1. RunTypes(task)'
    BY <1>0 DEF RunFits, RunTypes
  <2>2. Wired(task)'
    <3>1. task.at # "idle" => task.via = "notion"
      BY <1>0 DEF RunFits, Wired
    <3>2. QED
      BY <1>0, <3>1 DEF RunFits, Wired, Creates, Archives, OfPages
  <2>3. Cached(task)'
    BY <1>0 DEF RunFits, Cached, Live
  <2>4. Missing(task)'
    BY <1>0, <1>1 DEF RunFits, Missing
  <2>5. QED
    BY <2>1, <2>2, <2>3, <2>4 DEF RunFits
<1>4. Counted'
  BY <1>0, <1>1, CountStays
<1>5. RowsLive' /\ MigrationComplete'
  BY DEF RowsLive, MigrationComplete
<1>6. TrackedSpared'
  BY <1>0 DEF TrackedSpared
<1>7. QED
  BY <1>2, <1>3, <1>4, <1>5, <1>6 DEF StoresInv

(* A job with a row still has it, so a page that came later still did. *)
LEMMA ReadStays ==
  ASSUME UNCHANGED <<pages, causes>>, Rows \subseteq Rows', mig'.read = mig.read,
         \A p \in Live : WasRead(mig, p) \/ CameLater(p)
  PROVE  \A p \in Live' : WasRead(mig, p)' \/ CameLater(p)'
<1>1. \A p : WasRead(mig, p) => WasRead(mig, p)'
  BY DEF WasRead
<1>2. \A p : CameLater(p) => CameLater(p)'
  BY DEF CameLater
<1>3. QED
  BY <1>1, <1>2 DEF Live

LEMMA ImportJobsKeeps ==
  ASSUME StoresConstants, StoresInv, ImportJobs
  PROVE  StoresInv'
<1> DEFINE rows(j) == {x \in mig.read : x.job = j}
           row(j) == [status |-> "none", found |-> FirstPage(rows(j)).found, archived |-> FALSE]
<1>0. /\ StoreTypes /\ MigFits(mig) /\ RowsLive /\ mig.at = "jobs" /\ connector = "notion"
      /\ mig.read \subseteq ReadPage
      /\ \A p \in Live : WasRead(mig, p) \/ CameLater(p)
      /\ \A j \in Job : table[j] \in Row \cup {Nothing}
  BY DEF StoresInv, StoreTypes, ImportJobs, MigFits
<1>1. /\ table' = [j \in Job |-> IF table[j] # Nothing \/ rows(j) = {} THEN table[j] ELSE row(j)]
      /\ mig' = [mig EXCEPT !.at = "tracking"]
      /\ UNCHANGED <<pages, late, connector, today, task, causes>>
  BY DEF ImportJobs
<1>2. mig' = [at |-> "tracking", cursor |-> mig.cursor, read |-> mig.read]
  BY <1>0, <1>1 DEF MigFits
<1>3. ASSUME NEW j \in Job, rows(j) # {} PROVE row(j) \in Row /\ row(j) # Nothing /\ ~row(j).archived
  <2>1. rows(j) \in SUBSET ReadPage
    BY <1>0
  <2>2. FirstPage(rows(j)) \in ReadPage
    BY <1>3, <2>1, FirstIsRead
  <2>3. FirstPage(rows(j)).found \in Nat
    BY <2>2 DEF ReadPage
  <2>4. row(j) \in Row
    BY <2>3 DEF Row, Status
  <2>5. QED
    BY <2>4 DEF StoresConstants
<1>4. \A x \in mig.read : x.job \in Job /\ rows(x.job) # {}
  BY <1>0 DEF ReadPage
<1> HIDE DEF rows, row
<1>5. table' \in [Job -> Row \cup {Nothing}]
  BY <1>0, <1>1, <1>3
<1>6. \A j \in Job : j \in Rows' <=> j \in Rows \/ rows(j) # {}
  BY <1>1, <1>3 DEF Rows
<1>7. Rows \subseteq Rows' /\ \A x \in mig.read : x.job \in Rows'
  BY <1>4, <1>6 DEF Rows
<1>8. \A j \in Rows' : ~table'[j].archived
  BY <1>0, <1>1, <1>3 DEF RowsLive, Rows
<1>9. MigFits(mig)'
  <2>1. \A p \in Live' : WasRead(mig, p)' \/ CameLater(p)'
    BY <1>0, <1>1, <1>2, <1>7, ReadStays
  <2>2. mig'.at = "tracking" /\ mig'.cursor = mig.cursor /\ mig'.read = mig.read
    BY <1>2
  <2>3. QED
    BY <1>0, <1>1, <1>2, <1>7, <2>1, <2>2 DEF MigFits
<1>10. QED
  BY <1>0, <1>1, <1>5, <1>7, <1>8, <1>9, ImportKeeps

LEMMA ImportTrackingKeeps ==
  ASSUME StoresConstants, StoresInv, ImportTracking
  PROVE  StoresInv'
<1> DEFINE rows(j) == {x \in mig.read : x.job = j /\ x.status # "none"}
           row(j) == [table[j] EXCEPT !.status = FirstPage(rows(j)).status]
<1>0. /\ StoreTypes /\ MigFits(mig) /\ RowsLive /\ mig.at = "tracking" /\ connector = "notion"
      /\ mig.read \subseteq ReadPage
      /\ \A p \in Live : WasRead(mig, p) \/ CameLater(p)
      /\ \A x \in mig.read : x.job \in Rows
      /\ \A j \in Job : table[j] \in Row \cup {Nothing}
  BY DEF StoresInv, StoreTypes, ImportTracking, MigFits
<1>1. /\ table' = [j \in Job |-> IF rows(j) = {} \/ table[j].status # "none" THEN table[j] ELSE row(j)]
      /\ mig' = [mig EXCEPT !.at = "flip"]
      /\ UNCHANGED <<pages, late, connector, today, task, causes>>
  BY DEF ImportTracking
<1>2. mig' = [at |-> "flip", cursor |-> mig.cursor, read |-> mig.read]
  BY <1>0, <1>1 DEF MigFits
<1>3. ASSUME NEW j \in Job, rows(j) # {}
      PROVE  /\ j \in Rows /\ row(j) \in Row /\ row(j) # Nothing
             /\ row(j).status # "none" /\ row(j).archived = table[j].archived
  <2>1. rows(j) \in SUBSET ReadPage
    BY <1>0
  <2>2. FirstPage(rows(j)) \in rows(j)
    BY <1>3, <2>1, FirstIsRead
  <2>3. FirstPage(rows(j)).status \in Status /\ FirstPage(rows(j)).status # "none"
    BY <1>0, <2>2 DEF ReadPage
  <2>4. j \in Rows
    BY <1>0, <1>3
  <2>5. table[j] \in Row
    BY <1>0, <2>4 DEF Rows
  <2>6. PICK new : new = row(j)
    OBVIOUS
  <2>7. new = [table[j] EXCEPT !.status = FirstPage(rows(j)).status]
    BY <2>6
  <2> HIDE DEF row, rows
  <2>8. new \in Row /\ new.status = FirstPage(rows(j)).status /\ new.archived = table[j].archived
    BY <2>3, <2>5, <2>7 DEF Row
  <2>9. QED
    BY <2>3, <2>4, <2>6, <2>8 DEF StoresConstants
<1>4. \A x \in mig.read : x.job \in Job /\ (x.status # "none" => rows(x.job) # {})
  BY <1>0 DEF ReadPage
<1> HIDE DEF rows, row
<1>5. table' \in [Job -> Row \cup {Nothing}]
  BY <1>0, <1>1, <1>3
<1>6. Rows' = Rows
  BY <1>1, <1>3 DEF Rows
<1>7. \A j \in Rows' : ~table'[j].archived
  BY <1>0, <1>1, <1>3, <1>6 DEF RowsLive, Rows
<1>8. \A x \in mig.read : x.status # "none" => table'[x.job].status # "none"
  BY <1>1, <1>3, <1>4
<1>9. MigFits(mig)'
  <2>1. \A p \in Live' : WasRead(mig, p)' \/ CameLater(p)'
    BY <1>0, <1>1, <1>2, <1>6, ReadStays
  <2>2. mig'.at = "flip" /\ mig'.cursor = mig.cursor /\ mig'.read = mig.read
    BY <1>2
  <2>3. QED
    BY <1>0, <1>1, <1>2, <1>6, <1>8, <2>1, <2>2 DEF MigFits
<1>10. QED
  BY <1>0, <1>1, <1>5, <1>6, <1>7, <1>9, ImportKeeps

(* At the flip every page was read and has its row, or came later. *)
LEMMA FlipKeeps ==
  ASSUME StoresConstants, StoresInv, Flip
  PROVE  StoresInv'
<1>0. /\ StoreTypes /\ RunFits(task) /\ MigFits(mig) /\ mig.at = "flip"
      /\ connector' \in {"sqlite", "mirror"} /\ mig' = NoMigration /\ connector = "notion"
      /\ UNCHANGED <<pages, late, table, today, task, causes>>
  BY DEF StoresInv, Flip, MigFits
<1>1. StoreTypes'
  BY <1>0 DEF StoreTypes, Creates, Archives
<1>2. RunFits(task)'
  <2>1. \A j \in Job : Of(j)' = Of(j) /\ Excused(j)' = Excused(j) /\ Later(j)' = Later(j)
    BY <1>0 DEF Of, Live, Excused, Later
  <2>2. RunTypes(task)' /\ Cached(task)' /\ Missing(task)'
    BY <1>0, <2>1 DEF RunFits, RunTypes, Cached, Live, Missing
  <2>3. Wired(task)'
    BY <1>0 DEF RunFits, Wired, Creates, Archives, OfPages, OfRows, Rows
  <2>4. QED
    BY <2>2, <2>3 DEF RunFits
<1>3. Counted' /\ TrackedSpared'
  BY <1>0 DEF StoresInv, Counted, Of, Live, Excused, Later, Rows, TrackedSpared
<1>4. MigFits(mig)' /\ RowsLive'
  BY <1>0, PageFacts DEF MigFits, NoMigration, RowsLive
<1>5. MigrationComplete'
  <2> SUFFICES ASSUME NEW p \in Live
               PROVE  /\ pages[p].job \in Rows \cup causes.missed
                      /\ pages[p].status # "none" /\ p \notin causes.overtaken /\ pages[p].job \in Rows \ causes.missed
                           => table[pages[p].job].status # "none"
    BY <1>0 DEF MigrationComplete, Live, Rows
  <2>1. CASE WasRead(mig, p)
    <3>1. PICK x \in mig.read :
            x.page = p /\ x.job = pages[p].job /\ (x.status = pages[p].status \/ p \in causes.overtaken)
      BY <2>1 DEF WasRead
    <3>2. x.job \in Rows /\ (x.status # "none" => table[x.job].status # "none")
      BY <1>0 DEF MigFits
    <3>3. QED
      BY <3>1, <3>2
  <2>2. CASE CameLater(p)
    BY <2>2 DEF CameLater
  <2>3. QED
    BY <1>0, <2>1, <2>2 DEF MigFits
<1>6. QED
  BY <1>1, <1>2, <1>3, <1>4, <1>5 DEF StoresInv

----------------------------------------------------------------------------

LEMMA StoresInvInit ==
  ASSUME StoresConstants, StoresInit
  PROVE  StoresInv
<1>1. /\ pages = <<>> /\ Len(pages) = 0 /\ pages \in Seq(NotionPage) /\ DOMAIN pages = {} /\ Live = {}
      /\ Rows = {} /\ connector = "notion" /\ task = NoTask /\ mig = NoMigration
  BY DEF StoresInit, Live, Rows
<1>2. /\ causes.ghosts = [j \in Job |-> 0] /\ causes.revived = [j \in Job |-> 0] /\ causes.missed = {}
      /\ causes = [ghosts |-> causes.ghosts, revived |-> causes.revived, missed |-> causes.missed,
                   overtaken |-> causes.overtaken]
  BY DEF StoresInit, NoCauses
<1>3. StoreTypes
  BY <1>1, <1>2 DEF StoreTypes, StoresInit
<1>4. RunFits(task) /\ MigFits(mig)
  BY <1>1, <1>3, NoRunFits, MigIdleFits
<1>5. Counted
  <2>1. \A j \in Job : Of(j) = {} /\ Excused(j) = 0 /\ Later(j) = 0
    BY <1>1, <1>2 DEF Of, Excused, Later
  <2>2. QED
    BY <2>1, FS_EmptySet DEF Counted
<1>6. RowsLive /\ TrackedSpared /\ MigrationComplete
  BY <1>1 DEF RowsLive, TrackedSpared, MigrationComplete
<1>7. QED
  BY <1>3, <1>4, <1>5, <1>6 DEF StoresInv

LEMMA StoresInvKept ==
  ASSUME StoresConstants, StoresInv, [StoresNext]_storeVars
  PROVE  StoresInv'
<1>1. CASE Arrive
  BY <1>1, ArriveKeeps
<1>2. CASE \E req \in Requests : Acknowledged(req) \/ Errs(req) \/ Abandoned(req)
  BY <1>2, TryKeeps
<1>3. CASE Query
  BY <1>3, QueryKeeps
<1>4. CASE QueryFails
  BY <1>4, QueryFailsKeeps
<1>5. CASE Select
  BY <1>5, SelectKeeps
<1>6. CASE Store
  BY <1>6, StoreInNotionKeeps, StoreInRowsKeeps
<1>7. CASE MarkArchived
  BY <1>7, MarkArchivedKeeps
<1>8. CASE RunBegins \/ Pushed \/ Archived \/ TaskDies
  BY <1>8, TurnsKeep
<1>9. CASE Migrate \/ Export \/ MigrationEnds
  BY <1>9, ReadingKeeps
<1>10. CASE ImportJobs
  BY <1>10, ImportJobsKeeps
<1>11. CASE ImportTracking
  BY <1>11, ImportTrackingKeeps
<1>12. CASE Flip
  BY <1>12, FlipKeeps
<1>13. CASE EditPage
  BY <1>13, EditPageKeeps
<1>14. CASE EditRow
  BY <1>14, EditRowKeeps
<1>15. CASE NextDay
  BY <1>15, NextDayKeeps
<1>16. CASE UNCHANGED storeVars
  <2>1. UNCHANGED <<pages, late, table, connector, today, task, mig, causes>>
    BY <1>16 DEF storeVars
  <2>2. RunFits(task') /\ late' \subseteq Creates \cup Archives
    BY <2>1 DEF StoresInv, StoreTypes
  <2>3. QED
    BY <2>1, <2>2, RunMoves
<1>17. QED
  BY <1>1, <1>2, <1>3, <1>4, <1>5, <1>6, <1>7, <1>8, <1>9, <1>10, <1>11, <1>12, <1>13, <1>14, <1>15, <1>16
     DEF StoresNext

LEMMA StoresInvSound ==
  ASSUME StoresInv
  PROVE  PagesSound
<1>1. OnePageUnlessCause
  <2> SUFFICES ASSUME NEW j \in Job
               PROVE  Cardinality(Of(j)) <= 1 + causes.ghosts[j] + causes.revived[j] + Later(j)
    BY DEF OnePageUnlessCause, Of, Later
  <2>1. /\ Cardinality(Of(j)) <= 1 + Excused(j) + Later(j) /\ Cardinality(Of(j)) \in Nat
        /\ causes.ghosts[j] \in Nat /\ causes.revived[j] \in Nat /\ Later(j) \in {0, 1}
    BY OfFinite DEF StoresInv, Counted, StoreTypes, Later
  <2>2. QED
    BY <2>1 DEF Excused
<1>2. QED
  BY <1>1 DEF StoresInv, PagesSound

(* One page to a job but for a page nobody was told of, a row written       *)
(* again, or a migration under way; no job the user follows is archived     *)
(* unless the user took it up after it had been read; and a migration       *)
(* leaves nothing out: of upsertJobs, buildCache, the cleanup routine and   *)
(* migrate --apply, for any number of jobs, runs, edits and lost answers,   *)
(* any page size and any archive policy.                                    *)
THEOREM StoresHold == StoresConstants => (StoresSpec => []PagesSound)
<1> SUFFICES ASSUME StoresConstants PROVE StoresSpec => []PagesSound
  OBVIOUS
<1>1. StoresInit => StoresInv
  BY StoresInvInit
<1>2. StoresInv /\ [StoresNext]_storeVars => StoresInv'
  BY StoresInvKept
<1>3. StoresInv => PagesSound
  BY StoresInvSound
<1>4. QED
  BY <1>1, <1>2, <1>3, PTL DEF StoresSpec
=============================================================================
