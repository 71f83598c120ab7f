----------------------------- MODULE MCPipeline -----------------------------
(* Model values of the Pipeline runs. *)
EXTENDS Pipeline

(* Each group's time_dir sorts after the ones before it. *)
Ascending == [g \in 1 .. MaxGroups |-> g]

(* The first run starts before local midnight, the next after it, on one    *)
(* UTC date: "23-00" is a greater name than "01-00".                        *)
PastMidnight == [g \in 1 .. MaxGroups |-> IF g = 1 THEN MaxGroups + 1 ELSE g]
=============================================================================
