--------------------------- MODULE ForgetfulStore ---------------------------
(***************************************************************************)
(* What an ephemeral value store promises its callers, whatever it checks  *)
(* and whatever the clocks they pass it say: it may forget what it was     *)
(* given, at any time and for any reason; what it serves under a key is    *)
(* what was last put there, and it serves nothing it has forgotten, holds  *)
(* no more than its capacity, and nothing at all once it is shut.          *)
(***************************************************************************)
EXTENDS Integers, FiniteSets

CONSTANTS Keys, Objects, Capacity, Nothing

VARIABLES
  held,    \* a function from some of the keys to objects
  open,    \* whether the store has not been shut
  served   \* the object the last operation served, or Nothing

Init == held = [k \in {} |-> Nothing] /\ open = TRUE /\ served = Nothing

Put(k, o) ==
  /\ open
  /\ k \in DOMAIN held \/ Cardinality(DOMAIN held) < Capacity
  /\ held' = [j \in DOMAIN held \cup {k} |-> IF j = k THEN o ELSE held[j]]
  /\ served' = Nothing
  /\ UNCHANGED open

Serve(k) ==
  /\ open
  /\ k \in DOMAIN held
  /\ served' = held[k]
  /\ UNCHANGED <<held, open>>

Forget(forgotten) ==
  /\ held' = [k \in DOMAIN held \ forgotten |-> held[k]]
  /\ served' = Nothing
  /\ UNCHANGED open

Shut ==
  /\ held' = [k \in {} |-> Nothing]
  /\ open' = FALSE
  /\ served' = Nothing

Next ==
  \/ \E k \in Keys, o \in Objects : Put(k, o)
  \/ \E k \in Keys : Serve(k)
  \/ \E forgotten \in SUBSET Keys : Forget(forgotten)
  \/ Shut

Spec == Init /\ [][Next]_<<held, open, served>>
=============================================================================
