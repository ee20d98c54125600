------------------------------ MODULE SeedPool ------------------------------
(***************************************************************************)
(* What the fuzz loop promises about the seeds it works from: a program is *)
(* taken into the pool exactly when it reaches a branch that is not yet    *)
(* covered; seeds leave only during a recheck; and after a recheck the     *)
(* coverage is counted again from the seeds that are left.  FuzzLoop       *)
(* implements this specification.                                          *)
(***************************************************************************)
CONSTANTS Names, Targets  (* names of programs, and what they can reach *)

VARIABLES pool, covered, rechecking

vars == <<pool, covered, rechecking>>

Programs == [id : Names, reach : SUBSET Targets]
Reached(P) == UNION {p.reach : p \in P}

Init == pool = {} /\ covered = {} /\ rechecking = FALSE

Offer(p) ==
  /\ ~rechecking
  /\ pool' = IF p.reach \subseteq covered THEN pool ELSE pool \cup {p}
  /\ covered' = covered \cup p.reach
  /\ UNCHANGED rechecking

BeginRecheck == ~rechecking /\ rechecking' = TRUE /\ UNCHANGED <<pool, covered>>

Drop(p) == rechecking /\ pool' = pool \ {p} /\ UNCHANGED <<covered, rechecking>>

Recount ==
  /\ rechecking
  /\ covered' = Reached(pool)
  /\ rechecking' = FALSE
  /\ UNCHANGED pool

Next ==
  \/ \E p \in Programs : Offer(p)
  \/ BeginRecheck
  \/ \E p \in pool : Drop(p)
  \/ Recount

Spec == Init /\ [][Next]_vars

-----------------------------------------------------------------------------

\* Outside a recheck the covered branches are those the pool reaches.
PoolReachesCovered == ~rechecking => covered = Reached(pool)
=============================================================================
