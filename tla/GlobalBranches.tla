--------------------------- MODULE GlobalBranches ---------------------------
(***************************************************************************)
(* The branch map of feedback/branches/mod.rs.  Each branch has a bitmap   *)
(* of hit-count buckets.  The bitmap starts with every bit set, and a bit  *)
(* is cleared once a program has hit the branch that many times; so a      *)
(* branch is covered when its bitmap is not the full mask.                 *)
(*                                                                         *)
(* A program's coverage gives, for each branch, the bucket of its hit      *)
(* count, or NotHit for a count of zero (parse_branch splits an llvm-cov   *)
(* branch into its true and its false side, which are branches of their    *)
(* own here).  Every program is linked with the same instrumented library, *)
(* so every coverage speaks of the same branches.                          *)
(***************************************************************************)
EXTENDS Integers, FiniteSets

CONSTANTS
  Branches,  (* the sides of the library's conditional branches *)
  Bits,      (* the positions of a bucket bitmap                *)
  NotHit     (* a hit count of zero                             *)

ASSUME BranchesAssumption == IsFiniteSet(Branches)
ASSUME BitsAssumption == Bits # {} /\ NotHit \notin Bits

Coverages == [Branches -> Bits \cup {NotHit}]
BranchMaps == [Branches -> SUBSET Bits]

\* GlobalBranches::init: every bitmap is BUCKET_MASK.
Untouched == [b \in Branches |-> Bits]

\* The branches a program executes.
Hits(cov) == {b \in Branches : cov[b] # NotHit}

\* get_covered_branch.
Covered(map) == {b \in Branches : map[b] # Bits}

\* check_exponential_new, check_absolute_new: a bucket not seen before, or a
\* branch not seen before.  config.exponent_branch chooses.
HasNew(map, cov, exponent) ==
  {b \in Hits(cov) : IF exponent THEN cov[b] \in map[b] ELSE map[b] = Bits}

\* Observer::has_unique_branch.
HasUnique(map, cov) == HasNew(map, cov, FALSE)

\* Mutant: merging stops after the first new branch.
MergeFirstOnly(map, new, cov) ==
  IF new = {} THEN map
  ELSE LET b == CHOOSE b \in new : TRUE IN [map EXCEPT ![b] = @ \ {cov[b]}]

\* GlobalBranches::merge clears the bits of the new branches.
Merge(map, new, cov) ==
  [b \in Branches |-> IF b \in new THEN map[b] \ {cov[b]} ELSE map[b]]

\* Observer::merge_coverage merges what is new in the mode then configured.
MergeCoverage(map, cov, exponent) == Merge(map, HasNew(map, cov, exponent), cov)
=============================================================================
