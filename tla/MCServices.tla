----------------------------- MODULE MCServices -----------------------------
(***************************************************************************)
(* The Chrome provider and the daemon's alert about databases newer than   *)
(* its build, checked one after the other in one run, with the fairness of *)
(* each.                                                                   *)
(*                                                                         *)
(* The parts share no step: a behaviour is of one part, that Init chooses, *)
(* and what is not of the part stays as it begins.                         *)
(***************************************************************************)
EXTENDS DriftAlert, ChromeProvider

CONSTANT Parts  \* the parts to check

VARIABLE part   \* the part of the project that this behaviour is of

vars == <<part, providerVars, alertVars>>

(* Processes that are done, and an alert that nothing concerns.             *)
Done == /\ chrome = [c \in Chrome |-> Gone] /\ pidfile = NoPidfile /\ old = FALSE /\ reused = {}
        /\ proc = [p \in Proc |-> Idle("closed")] /\ met = "keep" /\ notes = {}
Calm == AlertInit /\ notifier = [p \in Profile |-> "none"]

Init ==
  \/ part = "chrome" /\ "chrome" \in Parts /\ ProviderInit /\ Calm
  \/ part = "alert" /\ "alert" \in Parts /\ AlertInit /\ Done

ChromeStep ==
  part = "chrome" /\ UNCHANGED <<part, alertVars>> /\ ProviderNext
AlertStep ==
  part = "alert" /\ UNCHANGED <<part, providerVars>> /\ AlertNext

Next ==
  \/ ChromeStep \/ AlertStep

(* The fairness that ChromeProvider and DriftAlert state, of their steps.   *)
Fairness ==
  /\ \A p \in Proc : WF_vars(part = "chrome" /\ ProcStep(p) /\ UNCHANGED <<part, alertVars>>)
  /\ WF_vars(part = "alert" /\ TickStep /\ UNCHANGED <<part, providerVars>>)
  /\ WF_vars(part = "alert" /\ Waiting /\ UNCHANGED <<part, providerVars>>)

Spec == Init /\ [][Next]_vars /\ Fairness
=============================================================================
