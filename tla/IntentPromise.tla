--------------------------- MODULE IntentPromise ----------------------------
(***************************************************************************)
(* What the board's "Run now" promises (src/ports/run_intents.ts): of each *)
(* profile at most one request is open; an open request is taken once or   *)
(* dropped, never both; a taken one starts at most one run.                *)
(***************************************************************************)
CONSTANTS Id, Profile

VARIABLES
  owner,    \* the profile of each request that was made
  open,     \* requests waiting for the daemon
  taken,    \* requests the daemon has taken
  started   \* requests that started a run

vars == <<owner, open, taken, started>>

Init == owner = <<>> /\ open = {} /\ taken = {} /\ started = {}

OpenOf(p) == {r \in open : owner[r] = p}

(* A new request; an older open one of the profile makes way for it. *)
Ask(r, p) ==
  /\ r \notin DOMAIN owner
  /\ owner' = [x \in DOMAIN owner \cup {r} |-> IF x = r THEN p ELSE owner[x]]
  /\ open' = (open \ OpenOf(p)) \cup {r}
  /\ UNCHANGED <<taken, started>>

Drop(r) ==
  /\ r \in open
  /\ open' = open \ {r}
  /\ UNCHANGED <<owner, taken, started>>

Take(r) ==
  /\ r \in open
  /\ open' = open \ {r}
  /\ taken' = taken \cup {r}
  /\ UNCHANGED <<owner, started>>

Begin(r) ==
  /\ r \in taken \ started
  /\ started' = started \cup {r}
  /\ UNCHANGED <<owner, open, taken>>

Next == \E r \in Id : Drop(r) \/ Take(r) \/ Begin(r) \/ \E p \in Profile : Ask(r, p)

Spec == Init /\ [][Next]_vars
=============================================================================
