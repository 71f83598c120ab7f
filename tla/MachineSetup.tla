----------------------------- MODULE MachineSetup ----------------------------
(***************************************************************************)
(* What a machine is set up with: the tokens in <home>/.env, written by the *)
(* board and by hand and read into the environment of every process once,  *)
(* at its start (src/core/env_file, src/cli/wire/board_secrets.ts,         *)
(* src/cli/main.ts), and the login item that starts the daemon             *)
(* (src/cli/commands/autostart.ts), with the switch that shows it.         *)
(*                                                                         *)
(* .env is its sequence of assignments <<key, value>>; 0 is a blank value, *)
(* and Missing stands for a variable that is not set.                      *)
(***************************************************************************)
EXTENDS Naturals, Sequences, FiniteSets

CONSTANTS
  Key,        \* SECRET_KEYS
  Missing,
  Files,      \* what .env may hold at first
  MaxWrites,  \* bound: saves and hand edits, and clicks on the switch
  MaxFaults   \* bound: steps that fail

VARIABLES
  dotenv,    \* .env
  env,       \* env[proc]: the environment of a process, Missing while there is none
  puts,      \* saves that have read .env and have yet to write it
  saved,     \* saved[k]: the value of the last save of k, Missing before one
  item,      \* the login item: its plist on disk, whether launchd has it, a legacy one
  switch,    \* the switch of the page, and the click on its way
  writes, faults,
  why        \* observability: why a reader may be out of date

setupVars == <<dotenv, env, puts, saved, item, switch, writes, faults, why>>

Proc == {"board", "daemon", "run"}
Value == 0 .. MaxWrites + 2
Unset == [k \in Key |-> Missing]

(* .env begins with values of its own, and Missing is no value, answer or   *)
(* environment.                                                            *)
ASSUME SetupAssumption ==
  /\ MaxWrites \in Nat /\ Files \subseteq Seq(Key \X (0 .. 2))
  /\ Missing \notin Nat /\ Missing \notin {"ok", "conflict"} /\ Missing \notin [Key -> Value \cup {Missing}]

----------------------------------------------------------------------------
(* core/env_file and dotenv                                                *)

Lines(text, k) == {i \in DOMAIN text : text[i][1] = k}
First(text, k) == CHOOSE i \in Lines(text, k) : \A j \in Lines(text, k) : i <= j
Last(text, k) == CHOOSE i \in Lines(text, k) : \A j \in Lines(text, k) : j <= i

(* Mutant of UpsertEnvLine: the line is put at its place of a new text.     *)
UpsertEnvLineAlone(text, k, value) == <<<<k, value>>>>

(* upsertEnvLine: the first assignment of the key is replaced. *)
UpsertEnvLine(text, k, value) ==
  IF Lines(text, k) = {} THEN Append(text, <<k, value>>) ELSE [text EXCEPT ![First(text, k)] = <<k, value>>]

(* hasEnvValue, of GET /api/secrets: any assignment that is not blank. *)
HasEnvValue(text, k) == \E i \in Lines(text, k) : text[i][2] # 0

(* envHasKey, of `jobbunny setup`: the first one. *)
EnvHasKey(text, k) == Lines(text, k) # {} /\ text[First(text, k)][2] # 0

(* dotenv.config: the last assignment, of what is not in the environment yet. *)
Loaded(inherited) ==
  [k \in Key |-> IF inherited[k] # Missing THEN inherited[k]
                 ELSE IF Lines(dotenv, k) = {} THEN Missing ELSE dotenv[Last(dotenv, k)][2]]

(* envTokensCheck of the board's doctor. *)
DoctorSays(k) == env["board"][k] \notin {Missing, 0}

----------------------------------------------------------------------------
(* Secrets                                                                 *)

Save(k) ==
  /\ env["board"] # Missing /\ writes < MaxWrites
  /\ \A put \in puts : put.key # k
  /\ writes' = writes + 1
  /\ puts' = puts \cup {[key |-> k, value |-> writes + 3, text |-> dotenv]}
  /\ UNCHANGED <<dotenv, env, saved, item, switch, faults, why>>

(* Mutant of BoardEnv: the board's own environment is left as it was.       *)
BoardEnvOld(put) == env["board"]

(* writeBoardSecret sets process.env too. *)
BoardEnv(put) == [env["board"] EXCEPT ![put.key] = put.value]

Stale(k) == IF env["daemon"] # Missing /\ env["daemon"][k] # Missing THEN {"later"} ELSE {}

SaveEnds(put) ==
  /\ dotenv' = UpsertEnvLine(put.text, put.key, put.value)
  /\ env' = [env EXCEPT !["board"] = BoardEnv(put)]
  /\ saved' = [saved EXCEPT ![put.key] = put.value]
  /\ puts' = puts \ {put}
  /\ why' = why \cup Stale(put.key)
                \cup (IF dotenv # put.text THEN {"crossed"} ELSE {})
                \cup (IF Cardinality(Lines(put.text, put.key)) > 1 THEN {"duplicate"} ELSE {})
  /\ UNCHANGED <<item, switch, writes, faults>>

(* The file cannot be written; or it was, and its mode cannot be changed:   *)
(* the save is reported as failed and the environment is left as it was.    *)
SaveFails(put, written) ==
  /\ faults < MaxFaults
  /\ faults' = faults + 1
  /\ puts' = puts \ {put}
  /\ dotenv' = IF written THEN UpsertEnvLine(put.text, put.key, put.value) ELSE dotenv
  /\ why' = why \cup (IF written THEN {"failed"} ELSE {})
  /\ UNCHANGED <<env, saved, item, switch, writes>>

(* The user edits .env, in place. *)
EditFile(k) ==
  /\ writes < MaxWrites
  /\ writes' = writes + 1
  /\ dotenv' = IF Lines(dotenv, k) = {} THEN Append(dotenv, <<k, writes + 3>>) ELSE [dotenv EXCEPT ![Last(dotenv, k)] = <<k, writes + 3>>]
  /\ saved' = [saved EXCEPT ![k] = writes + 3]
  /\ why' = why \cup {"edited"} \cup Stale(k)
  /\ UNCHANGED <<env, puts, item, switch, faults>>

----------------------------------------------------------------------------
(* Processes                                                               *)

StartBoard ==
  /\ env["board"] = Missing
  /\ env' = [env EXCEPT !["board"] = Loaded(Unset)]
  /\ UNCHANGED <<dotenv, puts, saved, item, switch, writes, faults, why>>

StopBoard ==
  /\ env["board"] # Missing
  /\ env' = [env EXCEPT !["board"] = Missing]
  /\ puts' = {} /\ switch' = [on |-> FALSE, asked |-> Missing]
  /\ why' = why \cup {"reopened"}
  /\ UNCHANGED <<dotenv, saved, item, writes, faults>>

(* The daemon takes the environment of what starts it: a shell, the login  *)
(* item, or the board; and its runs take the daemon's.                     *)
StartDaemon(inherited) ==
  /\ env["daemon"] = Missing
  /\ env' = [env EXCEPT !["daemon"] = Loaded(inherited)]
  /\ why' = why \ {"later"}
  /\ UNCHANGED <<dotenv, puts, saved, item, switch, writes, faults>>

StartDaemonHere == env["board"] # Missing /\ StartDaemon(env["board"])

StopDaemon ==
  /\ env["daemon"] # Missing
  /\ env' = [env EXCEPT !["daemon"] = Missing]
  /\ UNCHANGED <<dotenv, puts, saved, item, switch, writes, faults, why>>

BeginRun ==
  /\ env["daemon"] # Missing /\ env["run"] = Missing
  /\ env' = [env EXCEPT !["run"] = Loaded(env["daemon"])]
  /\ UNCHANGED <<dotenv, puts, saved, item, switch, writes, faults, why>>

EndRun ==
  /\ env["run"] # Missing
  /\ env' = [env EXCEPT !["run"] = Missing]
  /\ UNCHANGED <<dotenv, puts, saved, item, switch, writes, faults, why>>

----------------------------------------------------------------------------
(* The login item                                                          *)

(* runEnable: refused beside a legacy item; what launchd answers is only    *)
(* reported.                                                               *)
Enabled(takes) == IF item.legacy THEN item ELSE [item EXCEPT !.plist = TRUE, !.loaded = @ \/ takes]

(* Mutant of Disabled: the plist is left for the next login.                *)
DisabledUntilLogin == [item EXCEPT !.loaded = FALSE]

(* runDisable *)
Disabled == [item EXCEPT !.plist = FALSE, !.loaded = FALSE]

Item(on, takes) == IF on THEN Enabled(takes) ELSE Disabled

ClickSwitch(takes) ==
  /\ env["board"] # Missing /\ switch.asked = Missing /\ writes < MaxWrites
  /\ writes' = writes + 1
  /\ item' = Item(~switch.on, takes)
  /\ switch' = [switch EXCEPT !.asked = IF ~switch.on /\ item.legacy THEN "conflict" ELSE "ok"]
  /\ UNCHANGED <<dotenv, env, puts, saved, faults, why>>

(* Mutant of SwitchAfter: the switch turns whatever the answer is.          *)
SwitchAfterAnyway == ~switch.on

(* handleAutostartClick *)
SwitchAfter == IF switch.asked = "ok" THEN ~switch.on ELSE switch.on

SwitchAnswered ==
  /\ switch.asked # Missing
  /\ switch' = [on |-> SwitchAfter, asked |-> Missing]
  /\ UNCHANGED <<dotenv, env, puts, saved, item, writes, faults, why>>

SwitchFails ==
  /\ switch.asked # Missing /\ faults < MaxFaults
  /\ faults' = faults + 1
  /\ switch' = [switch EXCEPT !.asked = Missing]
  /\ why' = why \cup {"lost"}
  /\ UNCHANGED <<dotenv, env, puts, saved, item, writes>>

(* The switch of a page begins as off, whatever the machine has. *)
OpenPage ==
  /\ switch # [on |-> FALSE, asked |-> Missing]
  /\ switch' = [on |-> FALSE, asked |-> Missing]
  /\ why' = why \cup {"reopened"}
  /\ UNCHANGED <<dotenv, env, puts, saved, item, writes, faults>>

(* `jobbunny autostart enable | disable` *)
Autostart(on, takes) ==
  /\ writes < MaxWrites
  /\ writes' = writes + 1
  /\ item' = Item(on, takes)
  /\ why' = why \cup {"outside"}
  /\ UNCHANGED <<dotenv, env, puts, saved, switch, faults>>

(* launchd loads what is on disk, and starts it. *)
Login ==
  /\ item' = [item EXCEPT !.loaded = item.plist]
  /\ IF item.plist /\ env["daemon"] = Missing
     THEN /\ env' = [env EXCEPT !["daemon"] = Loaded(Unset)]
          /\ why' = why \ {"later"}
     ELSE UNCHANGED <<env, why>>
  /\ UNCHANGED <<dotenv, puts, saved, switch, writes, faults>>

SetupInit ==
  /\ dotenv \in Files
  /\ env = [p \in Proc |-> Missing]
  /\ puts = {} /\ saved = [k \in Key |-> Missing]
  /\ item \in [plist : {FALSE}, loaded : {FALSE}, legacy : BOOLEAN]
  /\ switch = [on |-> FALSE, asked |-> Missing]
  /\ writes = 0 /\ faults = 0 /\ why = {}

SetupNext ==
  \/ \E k \in Key : Save(k) \/ EditFile(k)
  \/ \E put \in puts : SaveEnds(put) \/ \E written \in BOOLEAN : SaveFails(put, written)
  \/ StartBoard \/ StopBoard \/ StartDaemon(Unset) \/ StartDaemonHere \/ StopDaemon \/ BeginRun \/ EndRun
  \/ \E takes \in BOOLEAN : ClickSwitch(takes) \/ \E on \in BOOLEAN : Autostart(on, takes)
  \/ SwitchAnswered \/ SwitchFails \/ OpenPage \/ Login

SetupSpec == SetupInit /\ [][SetupNext]_setupVars

----------------------------------------------------------------------------
SetupTypeOK ==
  /\ \A i \in DOMAIN dotenv : dotenv[i] \in Key \X Value
  /\ \A p \in Proc : env[p] \in [Key -> Value \cup {Missing}] \cup {Missing}
  /\ item \in [plist : BOOLEAN, loaded : BOOLEAN, legacy : BOOLEAN]
  /\ item.loaded => item.plist

(* A token that was saved is in .env for whoever reads it, the secrets card, *)
(* `jobbunny setup` and the next process, and in the doctor of the board,   *)
(* unless two saves crossed, one failed half way, .env was edited by hand,  *)
(* or it assigns the key twice: the board replaces the first assignment     *)
(* and a process takes the last.                                            *)
SavedEverywhere ==
  \A k \in Key :
    saved[k] # Missing /\ why \cap {"crossed", "failed", "edited", "duplicate"} = {} =>
      /\ HasEnvValue(dotenv, k) /\ EnvHasKey(dotenv, k)
      /\ Loaded(Unset)[k] = saved[k]
      /\ env["board"] # Missing => DoctorSays(k)

(* A run of a daemon uses the tokens as they were saved last, when the      *)
(* daemon was started after that: a token that is replaced under a running *)
(* daemon never reaches its runs, for they take its environment.            *)
RunUsesSavedStep ==
  (BeginRun /\ why \cap {"later", "crossed", "failed", "edited", "duplicate"} = {})
    => \A k \in Key : saved[k] # Missing => env'["run"][k] = saved[k]
RunUsesSaved == [][RunUsesSavedStep]_setupVars

(* The switch shows the login item there is, unless the page was opened      *)
(* anew (the switch then begins as off), an answer was lost, or the item    *)
(* was changed from the command line.                                       *)
SwitchTrue ==
  switch.asked = Missing /\ why \cap {"reopened", "lost", "outside"} = {} => switch.on = item.plist

(* All of it: saved tokens are everywhere, and the switch is true. *)
MachineSound == SetupTypeOK /\ SavedEverywhere /\ SwitchTrue
=============================================================================
