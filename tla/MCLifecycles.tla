---------------------------- MODULE MCLifecycles ----------------------------
(***************************************************************************)
(* What is set up, started, stopped and removed: the daemon's lifecycle    *)
(* and a profile's, from the board and from a terminal, the wizard that    *)
(* sets a profile up, and the machine's tokens and login item.             *)
(*                                                                         *)
(* They share no step: a behaviour is of one of them, that LifecyclesInit  *)
(* chooses, and the others stay as they begin.                             *)
(***************************************************************************)
EXTENDS ServeLifecycle, ProfileLife, SetupWizard, MachineSetup

VARIABLE of   \* what the behaviour is of

lifecyclesVars == <<of, vars, lifeVars, wizardVars, setupVars>>

(* Texts of .env: none, one key, one key twice, two keys. *)
EnvFiles == {<<>>, <<<<"notion", 1>>>>, <<<<"notion", 0>>, <<"notion", 1>>>>, <<<<"notion", 1>>, <<"telegram", 2>>>>}

Wizards == {"wizard", "wizard again", "wizard faults"}

LifecyclesInit ==
  /\ of \in {"daemon", "profile", "machine"} \cup Wizards
  /\ Init /\ LifeInit /\ WizardInit /\ SetupInit
  /\ of # "profile" => dir = None
  /\ of # "machine" => dotenv = <<>> /\ ~item.legacy

DaemonStep == of = "daemon" /\ Next /\ UNCHANGED <<of, lifeVars, wizardVars, setupVars>>
ProfileStep == of = "profile" /\ LifeNext /\ UNCHANGED <<of, vars, wizardVars, setupVars>>
MachineStep == of = "machine" /\ SetupNext /\ UNCHANGED <<of, vars, lifeVars, wizardVars>>

(* Two rounds of answers and another tool; one round, another tool and a    *)
(* second visit; or two rounds, a failing request and a second visit.      *)
WizardBounds ==
  /\ of = "wizard" => errors' = 0 /\ visits' = 0
  /\ of = "wizard again" => errors' = 0 /\ given' <= 1
  /\ of = "wizard faults" => foreign' = 0
WizardStep == of \in Wizards /\ WizardNext /\ WizardBounds /\ UNCHANGED <<of, vars, lifeVars, setupVars>>

LifecyclesNext == DaemonStep \/ ProfileStep \/ MachineStep \/ WizardStep

LifecyclesSpec == LifecyclesInit /\ [][LifecyclesNext]_lifecyclesVars

-----------------------------------------------------------------------------
(* What no step does, but for the causes named: write over another tool's   *)
(* text; begin a run, of a daemon started after it, with other tokens than  *)
(* the saved ones.                                                          *)
StepsSound == NeverClobbers /\ RunUsesSaved
=============================================================================
