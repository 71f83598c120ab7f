---------------------------- MODULE MCDaemonTick ----------------------------
(* TLC instances of DaemonTick: the clock's zone. *)
EXTENDS DaemonTick

(* West of Greenwich: in the last unit of a local day UTC is already on the *)
(* next one. *)
West == -1

(* Further west: the last two units of a day. *)
FarWest == -2
=============================================================================
