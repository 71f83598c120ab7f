--------------------------- MODULE MCLinkedInLane ---------------------------
(* TLC instances of LinkedInLane. *)
EXTENDS LinkedInLane, TLC

Symmetry == Permutations(Card)
=============================================================================
