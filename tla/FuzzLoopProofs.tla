--------------------------- MODULE FuzzLoopProofs ---------------------------
(***************************************************************************)
(* Proofs about the fuzz loop, for every set of branches and buckets, every*)
(* configuration and every bound.  The main result is that the loop        *)
(* implements SeedPool.tla; the coverage it steers by is then what its     *)
(* seeds reach.  The last part is about campaigns: sessions of the loop    *)
(* over one output directory.                                              *)
(***************************************************************************)
EXTENDS Campaign, FiniteSetTheorems, TLAPS

-----------------------------------------------------------------------------
(* The branch map.                                                          *)

\* A bitmap is never whole again once a bit was cleared, so merging a coverage
\* covers its branches and keeps those covered before, in both modes.
LEMMA MergeCovers ==
  ASSUME NEW map \in BranchMaps, NEW cov \in Coverages, NEW exponent \in BOOLEAN
  PROVE  Covered(MergeCoverage(map, cov, exponent)) = Covered(map) \cup Hits(cov)
<1> DEFINE merged == MergeCoverage(map, cov, exponent)
<1>1. ASSUME NEW b \in Branches
      PROVE  (merged[b] # Bits) <=> (map[b] # Bits \/ cov[b] # NotHit)
  <2>1. /\ map[b] \subseteq Bits
        /\ cov[b] \in Bits \cup {NotHit}
    BY DEF BranchMaps, Coverages
  <2>2. merged[b] = IF b \in HasNew(map, cov, exponent) THEN map[b] \ {cov[b]} ELSE map[b]
    BY DEF MergeCoverage, Merge
  <2>3. b \in HasNew(map, cov, exponent) <=>
          cov[b] # NotHit /\ (IF exponent THEN cov[b] \in map[b] ELSE map[b] = Bits)
    BY DEF HasNew, Hits
  <2> QED
    BY <2>1, <2>2, <2>3
<1> QED
  BY <1>1 DEF Covered, Hits

\* Merging yields a branch map.
LEMMA MergeTyped ==
  ASSUME NEW map \in BranchMaps, NEW cov \in Coverages, NEW exponent \in BOOLEAN
  PROVE  MergeCoverage(map, cov, exponent) \in BranchMaps
  BY DEF MergeCoverage, Merge, BranchMaps

\* What is unique to a coverage are its branches that are not covered yet.
LEMMA UniqueIsUncovered ==
  ASSUME NEW map \in BranchMaps, NEW cov \in Coverages
  PROVE  HasUnique(map, cov) = Hits(cov) \ Covered(map)
  BY DEF HasUnique, HasNew, Covered, Hits

-----------------------------------------------------------------------------
(* The inductive invariant.                                                 *)

\* The seeds matter until minimize cuts them down.
Looping == phase \notin {"minimize", "done"}

\* The types the proof needs.
Typed ==
  /\ phase \in Phases
  /\ seedId \in 0..MaxId
  /\ queue \subseteq Programs
  /\ branches \in BranchMaps
  /\ succDir \in [Ids -> Coverages \cup {Absent}]
  /\ Looping => seedDir \in [Ids -> Programs \cup {Absent}]
  /\ workDir \in [Ids -> Works \cup {Absent}]
  /\ todo \subseteq Ids

\* The ids in use were given out, and each is in one stage only: a program is
\* being checked, waits to be processed with its profile at hand, or is done.
Staged ==
  /\ pending \subseteq Ids /\ found \subseteq Ids
  /\ \A i \in pending \cup found : i < seedId
  /\ pending \cap found = {}
  /\ \A i \in found : workDir[i] \in Works /\ workDir[i].cov \in Coverages
  /\ phase \in {"save", "update"} => found # {}
  /\ phase = "drop" => todo # {}

\* A seed has its own file and profile, and is not being worked on.
SeedKept(i) ==
  /\ seedDir[i].id = i
  /\ workDir[i] \in Works /\ workDir[i].cov = seedDir[i].cov
  /\ i < seedId /\ i \notin pending \cup found

IInv ==
  /\ Typed
  /\ Staged
  /\ Looping => /\ queue = SeedFiles
                /\ \A i \in SeedIds : SeedKept(i)

\* A set of natural numbers has a least one.
LEMMA LeastNatural ==
  ASSUME NEW S, S \subseteq Nat, S # {}
  PROVE  \E i \in S : \A j \in S : i <= j
<1> DEFINE T == {0..j : j \in S}
<1>1. T \subseteq FiniteSubsetsOf(Nat) /\ T # {}
  <2>1. ASSUME NEW j \in S PROVE 0..j \in SUBSET Nat /\ IsFiniteSet(0..j)
    <3>1. j \in Nat
      OBVIOUS
    <3> QED
      BY <3>1, FS_Interval
  <2> QED
    BY <2>1 DEF FiniteSubsetsOf
<1>2. PICK x \in T : \A y \in T : <<y, x>> \notin StrictSubsetOrdering(Nat)
  <2> HIDE DEF T
  <2> QED
    BY <1>1, WFMin, FS_StrictSubsetOrderingWellFounded
<1>3. PICK i \in S : x = 0..i
  OBVIOUS
<1>4. \A j \in S : i <= j
  <2> SUFFICES ASSUME NEW j \in S, j < i PROVE FALSE
    OBVIOUS
  <2>1. i \in Nat /\ j \in Nat
    OBVIOUS
  <2>2. 0..j \subseteq 0..i /\ i \in 0..i /\ i \notin 0..j
    BY <2>1
  <2>3. <<0..j, 0..i>> \in StrictSubsetOrdering(Nat)
    BY <2>1, <2>2 DEF StrictSubsetOrdering
  <2> QED
    BY <1>2, <1>3, <2>3
<1> QED
  BY <1>4

\* A set of ids has a least one.
LEMMA FirstIsLeast ==
  ASSUME NEW S, S \subseteq Ids, S # {}
  PROVE  First(S) \in S /\ \A j \in S : First(S) <= j
<1>1. S \subseteq Nat
  BY ConfigAssumption DEF Ids
<1> QED
  BY <1>1, LeastNatural DEF First

\* Of programs, one is best: of those that cover most, the one with the least id.
LEMMA BestFirstExists ==
  ASSUME NEW S, S \subseteq Ids, S # {}
  PROVE  BestFirst(S) \in S
<1> DEFINE N == Cardinality(Branches)
           Missed(i) == N - HitCount(i)
           M == {Missed(i) : i \in S}
<1>1. ASSUME NEW i PROVE HitCount(i) \in 0..N
  <2>1. Hits(workDir[i].cov) \subseteq Branches
    BY DEF Hits
  <2> QED
    BY <2>1, FS_Subset, FS_CardinalityType, BranchesAssumption DEF HitCount
<1>2. N \in Nat /\ S \subseteq Nat
  BY FS_CardinalityType, BranchesAssumption, ConfigAssumption DEF Ids
<1>3. M \subseteq Nat /\ M # {}
  <2>1. ASSUME NEW i \in S PROVE Missed(i) \in Nat
    <3>1. HitCount(i) \in Nat /\ HitCount(i) <= N
      BY <1>1, <1>2
    <3> HIDE DEF N
    <3> QED
      BY <1>2, <3>1
  <2> HIDE DEF Missed
  <2> QED
    BY <2>1
<1>4. PICK m \in M : \A n \in M : m <= n
  <2> HIDE DEF M
  <2> QED
    BY <1>3, LeastNatural
<1> DEFINE T == {i \in S : Missed(i) = m}
<1>5. PICK i \in T : \A j \in T : i <= j
  <2>1. T \subseteq Nat /\ T # {}
    BY <1>2
  <2> HIDE DEF T
  <2> QED
    BY <2>1, LeastNatural
<1>6. ASSUME NEW j \in S \ {i}
      PROVE  HitCount(i) > HitCount(j) \/ (HitCount(i) = HitCount(j) /\ i < j)
  <2>1. HitCount(i) \in Nat /\ HitCount(j) \in Nat /\ i \in Nat /\ j \in Nat
    BY <1>1, <1>2
  <2>2. Missed(i) = m /\ Missed(j) \in M
    OBVIOUS
  <2>3. m <= Missed(j)
    BY <1>4, <2>2
  <2>4. CASE Missed(j) = m
    BY <1>2, <1>5, <2>1, <2>2, <2>4
  <2>5. CASE Missed(j) # m
    BY <1>2, <2>1, <2>2, <2>3, <2>5
  <2> QED
    BY <2>4, <2>5
<1> QED
  BY <1>6 DEF BestFirst

\* The branches of a set of seeds are all credited when each seed, in order, is
\* credited with what it adds: the first seed to reach a branch adds it.
LEMMA RecountCovers ==
  ASSUME Typed, Looping, \A i \in SeedIds : SeedKept(i)
  PROVE  Covered(Recounted) = HitsOf(SeedFiles)
<1>1. ASSUME NEW j \in SeedIds
      PROVE  j \in Ids /\ workDir[j].cov \in Coverages /\ workDir[j].cov = seedDir[j].cov
  BY <1>1 DEF SeedIds, SeedKept, Typed, Programs
<1>2. ASSUME NEW b \in Branches, NEW j \in SeedIds, workDir[j].cov[b] # NotHit
      PROVE  \E k \in SeedIds : b \in AddedBy(k)
  <2> DEFINE S == {k \in SeedIds : workDir[k].cov[b] # NotHit}
  <2>1. S \subseteq Ids /\ S # {}
    BY <1>2 DEF SeedIds
  <2>2. First(S) \in S /\ \A k \in S : First(S) <= k
    <3> HIDE DEF S
    <3> QED
      BY <2>1, FirstIsLeast
  <2>3. PICK k \in S : \A l \in S : k <= l
    <3> HIDE DEF S
    <3> QED
      BY <2>2
  <2>4. k \in Int /\ \A l \in SeedIds : l \in Int
    BY ConfigAssumption DEF SeedIds, Ids
  <2>5. \A l \in SeedIds : l < k => b \notin Hits(workDir[l].cov)
    BY <2>3, <2>4 DEF Hits
  <2>6. b \in Hits(workDir[k].cov)
    BY <2>3 DEF Hits
  <2> QED
    BY <2>3, <2>5, <2>6 DEF AddedBy
<1>3. ASSUME NEW b \in Branches
      PROVE  (Recounted[b] # Bits) <=> \E j \in SeedIds : workDir[j].cov[b] # NotHit
  <2> DEFINE C == {workDir[j].cov[b] : j \in {j \in SeedIds : AddedBy(j) # {}}}
  <2>1. Recounted[b] = Bits \ C
    BY DEF Recounted
  <2>2. ASSUME Recounted[b] # Bits PROVE \E j \in SeedIds : workDir[j].cov[b] # NotHit
    BY <2>1, <2>2, BitsAssumption
  <2>3. ASSUME NEW j \in SeedIds, workDir[j].cov[b] # NotHit PROVE Recounted[b] # Bits
    <3>1. PICK k \in SeedIds : b \in AddedBy(k)
      BY <1>2, <2>3
    <3>2. workDir[k].cov[b] \in C
      BY <3>1
    <3>3. workDir[k].cov[b] \in Bits
      BY <1>1, <3>1 DEF AddedBy, Hits, Coverages
    <3> QED
      BY <2>1, <3>2, <3>3
  <2> QED
    BY <2>2, <2>3
<1>4. HitsOf(SeedFiles) = {b \in Branches : \E j \in SeedIds : workDir[j].cov[b] # NotHit}
  BY <1>1 DEF HitsOf, SeedFiles, Hits
<1> QED
  BY <1>3, <1>4 DEF Covered
-----------------------------------------------------------------------------
(* The invariant is inductive: one lemma per kind of step.                  *)

LEMMA InitInv == Init => IInv
<1> SUFFICES ASSUME Init PROVE IInv
  OBVIOUS
<1>1. Untouched \in BranchMaps
  BY DEF Untouched, BranchMaps
<1>2. Typed
  BY <1>1, ConfigAssumption DEF Init, Typed, Phases
<1>3. Staged
  BY DEF Init, Staged
<1>4. SeedIds = {}
  BY DEF Init, SeedIds
<1> QED
  BY <1>2, <1>3, <1>4 DEF Init, IInv, SeedFiles

\* Steps that leave the queue, the branches and the files alone.
LEMMA QuietStep ==
  ASSUME IInv,
         UNCHANGED <<feedbackVars, fileVars>>,
         phase' \in Phases, seedId' \in 0..MaxId, seedId <= seedId',
         todo' \subseteq Ids,
         pending' = pending, found' = found,
         phase' \in {"save", "update"} => found # {},
         phase' = "drop" => todo' # {},
         ~Looping => ~Looping'
  PROVE  IInv'
<1>1. seedId \in Int /\ seedId' \in Int /\ Ids \subseteq Int
  BY ConfigAssumption DEF IInv, Typed, Ids
<1>2. Typed'
  BY DEF IInv, Typed, feedbackVars, fileVars
<1>3. Staged'
  BY <1>1 DEF IInv, Staged, fileVars
<1>4. SeedIds' = SeedIds /\ SeedFiles' = SeedFiles
  BY DEF SeedIds, SeedFiles, fileVars
<1>5. ASSUME NEW i \in SeedIds, SeedKept(i) PROVE SeedKept(i)'
  <2>1. i \in Int
    BY <1>1 DEF SeedIds
  <2> QED
    BY <1>1, <1>5, <2>1 DEF SeedKept, fileVars
<1> QED
  BY <1>2, <1>3, <1>4, <1>5 DEF IInv, feedbackVars

LEMMA StartRoundInv == IInv /\ StartRound => IInv'
<1> SUFFICES ASSUME IInv, StartRound PROVE IInv'
  OBVIOUS
<1>1. seedId \in 0..MaxId /\ todo \subseteq Ids
  BY DEF IInv, Typed
<1> QED
  BY <1>1, QuietStep, ConfigAssumption DEF StartRound, visitVars, Phases, Looping

\* New ids are beyond those in use.
LEMMA RequestInv == IInv /\ Request => IInv'
<1> SUFFICES ASSUME IInv, Request PROVE IInv'
  OBVIOUS
<1> USE DEF Request, feedbackVars, visitVars, fileVars
<1>1. /\ seedId \in Nat /\ Samples \in Nat \ {0} /\ MaxId \in Nat
      /\ seedId' = seedId + Samples /\ seedId' <= MaxId
      /\ pending' = seedId..(seedId + Samples - 1)
  BY ConfigAssumption DEF IInv, Typed
<1>2. Typed'
  BY <1>1 DEF IInv, Typed, Phases, Looping
<1>3. \A i \in pending' : i \in Ids /\ i < seedId' /\ ~(i < seedId)
  BY <1>1 DEF Ids
<1>4. \A i \in Ids : i < seedId => i < seedId'
  BY <1>1 DEF Ids
<1>5. Staged'
  BY <1>3, <1>4 DEF IInv, Staged
<1>6. SeedIds' = SeedIds /\ SeedFiles' = SeedFiles
  BY DEF SeedIds, SeedFiles
<1>7. ASSUME NEW i \in SeedIds, SeedKept(i) PROVE SeedKept(i)'
  BY <1>3, <1>4, <1>7 DEF SeedKept, SeedIds
<1> QED
  BY <1>2, <1>5, <1>6, <1>7 DEF IInv, Looping
\* A work directory stays one, and the profile of a correct program is its own.
LEMMA WorkTyped ==
  ASSUME NEW old \in Works \cup {Absent}, NEW res \in Failures \cup Feasible
  PROVE  /\ WorkAfter(old, res) \in Works \cup {Absent}
         /\ res \in Feasible => /\ WorkAfter(old, res) \in Works
                               /\ WorkAfter(old, res).cov = res
                               /\ res \in Coverages
<1> USE FeasibleAssumption, FailuresAssumption, ResultAssumption, AbsentAssumption
<1>1. CASE res \in Feasible
  <2>1. res \in Coverages /\ res \notin {Removed, Kept, Logged}
    BY <1>1
  <2>2. WorkAfter(old, res) = [cov |-> res, log |-> TRUE]
    BY <2>1 DEF WorkAfter
  <2> QED
    BY <2>1, <2>2 DEF Works
<1>2. CASE res \in {Removed, Kept, Logged}
  <2>1. res \notin Feasible
    BY <1>2
  <2>2. /\ (IF old = Absent THEN Absent ELSE old.cov) \in Coverages \cup {Absent}
        /\ (old # Absent /\ old.log) \in BOOLEAN
    BY DEF Works
  <2>3. WorkAfter(old, res) \in Works \cup {Absent}
    <3> DEFINE cov == IF old = Absent THEN Absent ELSE old.cov
               lg == old # Absent /\ old.log
    <3>1. \/ WorkAfter(old, res) = Absent
          \/ WorkAfter(old, res) = [cov |-> cov, log |-> lg]
          \/ WorkAfter(old, res) = [cov |-> cov, log |-> TRUE]
      BY <1>2 DEF WorkAfter
    <3>2. cov \in Coverages \cup {Absent} /\ lg \in BOOLEAN
      BY <2>2
    <3> HIDE DEF cov, lg
    <3>3. [cov |-> cov, log |-> lg] \in Works
      BY <3>2 DEF Works
    <3>4. [cov |-> cov, log |-> TRUE] \in Works
      BY <3>2 DEF Works
    <3> QED
      BY <3>1, <3>3, <3>4
  <2> QED
    BY <2>1, <2>3
<1> QED
  BY <1>1, <1>2

\* The programs that passed have their profile; no other directory is touched.
LEMMA CheckInv == IInv /\ Check => IInv'
<1> SUFFICES ASSUME IInv, Check PROVE IInv'
  OBVIOUS
<1> USE DEF feedbackVars, visitVars
<1>1. PICK res \in [pending -> Failures \cup Feasible] :
        /\ workDir' = [i \in Ids |-> IF i \in pending THEN WorkAfter(workDir[i], res[i])
                                     ELSE workDir[i]]
        /\ found' = found \cup {i \in pending : res[i] \in Feasible}
        /\ phase' = "generate" \/ phase' = "mutate" \/ (phase' = "save" /\ found' # {})
  BY DEF Check
<1>2. pending' = {} /\ UNCHANGED <<seedId, queue, branches, todo, succDir, seedDir>>
  BY DEF Check
<1>3. \A i \in Ids : workDir[i] \in Works \cup {Absent}
  BY DEF IInv, Typed
<1>4. pending \subseteq Ids /\ found \subseteq Ids
  BY DEF IInv, Staged
<1>5. ASSUME NEW i \in Ids PROVE workDir'[i] \in Works \cup {Absent}
  BY <1>1, <1>3, WorkTyped
<1>6. Looping
  BY DEF Check, Looping
<1>7. Typed'
  <2>1. workDir' \in [Ids -> Works \cup {Absent}]
    BY <1>1, <1>5
  <2> QED
    BY <1>1, <1>2, <1>6, <2>1 DEF IInv, Typed, Phases
<1>8. ASSUME NEW i \in found' PROVE workDir'[i] \in Works /\ workDir'[i].cov \in Coverages
  <2>1. CASE i \in found
    BY <1>1, <1>4, <2>1 DEF IInv, Staged
  <2>2. CASE i \in pending /\ res[i] \in Feasible
    BY <1>1, <1>3, <1>4, <2>2, WorkTyped
  <2> QED
    BY <1>1, <2>1, <2>2
<1>9. Staged'
  BY <1>1, <1>2, <1>4, <1>8 DEF IInv, Staged
<1>10. SeedIds' = SeedIds /\ SeedFiles' = SeedFiles
  BY <1>2 DEF SeedIds, SeedFiles
<1>11. ASSUME NEW i \in SeedIds, SeedKept(i) PROVE SeedKept(i)'
  BY <1>1, <1>2, <1>11 DEF SeedKept, SeedIds
<1> QED
  BY <1>2, <1>7, <1>9, <1>10, <1>11, <1>6 DEF IInv

LEMMA SaveSuccInv == IInv /\ SaveSucc => IInv'
<1> SUFFICES ASSUME IInv, SaveSucc PROVE IInv'
  OBVIOUS
<1> USE DEF SaveSucc, loopVars, feedbackVars, visitVars
<1>1. found \subseteq Ids /\ found # {} /\ \A i \in found : workDir[i].cov \in Coverages
  BY DEF IInv, Staged
<1>2. First(found) \in found
  BY <1>1, FirstIsLeast
<1>3. succDir' \in [Ids -> Coverages \cup {Absent}]
  BY <1>1, <1>2 DEF IInv, Typed
<1>4. Typed'
  BY <1>3 DEF IInv, Typed, Phases, Looping
<1>5. Staged'
  BY <1>1 DEF IInv, Staged
<1>6. SeedIds' = SeedIds /\ SeedFiles' = SeedFiles
  BY DEF SeedIds, SeedFiles
<1>7. ASSUME NEW i \in SeedIds, SeedKept(i) PROVE SeedKept(i)'
  BY <1>7 DEF SeedKept
<1> QED
  BY <1>4, <1>5, <1>6, <1>7 DEF IInv, Looping
\* Seeds that give up credit are the same programs.
LEMMA LoseCreditKeeps ==
  ASSUME NEW q \in Programs, NEW cov
  PROVE  LET r == LoseCredit(q, cov)
         IN  r \in Programs /\ r.id = q.id /\ r.cov = q.cov
<1>1. q = [id |-> q.id, cov |-> q.cov, unique |-> q.unique]
  BY DEF Programs
<1>2. LoseCredit(q, cov) = [id |-> q.id, cov |-> q.cov, unique |-> q.unique \ Hits(cov)]
  BY <1>1 DEF LoseCredit, Programs
<1> QED
  BY <1>2 DEF Programs

\* The files of the seeds after an update of the queue are the new queue.
LEMMA SavedQueue ==
  ASSUME Typed, Looping, NEW i \in Ids, NEW cov \in Coverages, NEW new \in SUBSET Branches,
         queue = SeedFiles,
         \A j \in SeedIds : seedDir[j].id = j,
         i \notin SeedIds,
         UpdateQueue(i, cov, new), new # {}
  PROVE  /\ seedDir' \in [Ids -> Programs \cup {Absent}]
         /\ queue' \subseteq Programs
         /\ SeedIds' = SeedIds \cup {i}
         /\ queue' = SeedFiles'
         /\ seedDir'[i] = Program(i, cov, new)
         /\ \A j \in SeedIds : /\ seedDir'[j] = LoseCredit(seedDir[j], cov)
                               /\ seedDir[j] \in Programs
         /\ queue' = {LoseCredit(q, cov) : q \in queue} \cup {Program(i, cov, new)}
<1> DEFINE newest == Program(i, cov, new)
           older == {LoseCredit(q, cov) : q \in queue}
<1>1. queue' = older \cup {newest} /\ SavedWith(newest, older)
  BY DEF UpdateQueue
<1>2. newest \in Programs /\ newest.id = i
  BY DEF Program, Programs
<1>3. ASSUME NEW j \in SeedIds
      PROVE  /\ j \in Ids /\ seedDir[j] \in Programs /\ seedDir[j].id = j
             /\ LoseCredit(seedDir[j], cov) \in Programs
             /\ LoseCredit(seedDir[j], cov).id = j
             /\ LoseCredit(seedDir[j], cov) \in older
  BY LoseCreditKeeps DEF SeedIds, SeedFiles, Typed
<1>4. ASSUME NEW r \in older PROVE r.id \in SeedIds /\ r = LoseCredit(seedDir[r.id], cov)
  BY <1>3 DEF SeedFiles
<1>5. PICK last \in [{q.id : q \in older} -> older] :
        /\ \A j \in DOMAIN last : last[j].id = j
        /\ seedDir' = [j \in Ids |-> IF j = newest.id THEN newest
                                     ELSE IF j \in DOMAIN last THEN last[j]
                                     ELSE seedDir[j]]
  BY <1>1 DEF SavedWith
<1>6. DOMAIN last = SeedIds
  <2>1. {q.id : q \in older} \subseteq SeedIds
    BY <1>4
  <2>2. SeedIds \subseteq {q.id : q \in older}
    <3> SUFFICES ASSUME NEW j \in SeedIds PROVE \E q \in older : j = q.id
      OBVIOUS
    <3> HIDE DEF older
    <3> QED
      BY <1>3
  <2> QED
    BY <2>1, <2>2
<1>7. ASSUME NEW j \in SeedIds PROVE seedDir'[j] = LoseCredit(seedDir[j], cov)
  <2>1. last[j] \in older /\ last[j].id = j
    BY <1>5, <1>6
  <2>2. last[j] = LoseCredit(seedDir[j], cov)
    BY <1>4, <2>1
  <2> QED
    BY <1>2, <1>3, <1>5, <1>6, <2>2
<1>8. seedDir'[i] = newest
  BY <1>2, <1>5
<1>9. ASSUME NEW j \in Ids, j \notin SeedIds, j # i PROVE seedDir'[j] = Absent
  BY <1>2, <1>5, <1>6, <1>9 DEF SeedIds
<1>10. seedDir' \in [Ids -> Programs \cup {Absent}]
  <2>1. \A j \in Ids : seedDir'[j] \in Programs \cup {Absent}
    BY <1>2, <1>3, <1>7, <1>8, <1>9
  <2>2. seedDir' = [j \in Ids |-> seedDir'[j]]
    BY <1>5
  <2> QED
    BY <2>1, <2>2
<1>11. SeedIds' = SeedIds \cup {i}
  BY <1>2, <1>3, <1>7, <1>8, <1>9, AbsentAssumption DEF SeedIds
<1>12. queue' \subseteq Programs
  BY <1>1, <1>2, <1>3, <1>4
<1>13. queue' = SeedFiles'
  <2>1. SeedFiles' = {seedDir'[j] : j \in SeedIds \cup {i}}
    BY <1>11 DEF SeedFiles
  <2>2. older = {LoseCredit(seedDir[j], cov) : j \in SeedIds}
    BY DEF SeedFiles
  <2>3. {seedDir'[j] : j \in SeedIds \cup {i}} = older \cup {newest}
    <3> HIDE DEF older, newest
    <3> QED
      BY <1>7, <1>8, <2>2
  <2> QED
    BY <1>1, <2>1, <2>3
<1> QED
  BY <1>1, <1>3, <1>7, <1>8, <1>10, <1>11, <1>12, <1>13

\* What processing does with the program it takes up, and what it leaves alone.
LEMMA ProcessKeeps ==
  ASSUME IInv, Process, NEW i, i = First(found), NEW cov, cov = workDir[i].cov,
         NEW new, new = HasUnique(branches, cov)
  PROVE  /\ i \in found /\ i \in Ids /\ i \notin SeedIds
         /\ workDir[i] \in Works /\ cov \in Coverages /\ i < seedId /\ i \notin pending
         /\ new = Hits(cov) \ Covered(branches) /\ new \in SUBSET Branches
         /\ UNCHANGED <<seedId, checked, pending, todo, succDir, workDir>>
         /\ found' = found \ {i}
         /\ branches' = MergeCoverage(branches, cov, TRUE)
         /\ phase = "update" /\ phase' = IF found' = {} THEN "mutate" ELSE "save"
         /\ Looping /\ Looping'
         /\ new = {} => UNCHANGED <<queue, seedDir>>
<1>1. found \subseteq Ids /\ found # {}
  BY DEF IInv, Staged, Process
<1>2. i \in found
  BY <1>1, FirstIsLeast
<1>3. i \in Ids /\ workDir[i] \in Works /\ cov \in Coverages /\ i < seedId /\ i \notin pending
  BY <1>1, <1>2 DEF IInv, Staged
<1>4. new = Hits(cov) \ Covered(branches) /\ new \in SUBSET Branches
  BY <1>3, UniqueIsUncovered DEF IInv, Typed, Hits
<1>5. /\ UpdateQueue(i, cov, new)
      /\ branches' = MergeCoverage(branches, cov, TRUE)
      /\ found' = found \ {i}
      /\ phase = "update" /\ phase' = IF found' = {} THEN "mutate" ELSE "save"
      /\ UNCHANGED <<seedId, checked, pending, todo, succDir, workDir>>
      /\ Looping /\ Looping'
  BY DEF Process, visitVars, Looping
<1>6. /\ queue = SeedFiles
      /\ \A j \in SeedIds : SeedKept(j)
      /\ Typed
  BY <1>5 DEF IInv
<1>7. i \notin SeedIds /\ \A j \in SeedIds : seedDir[j].id = j
  BY <1>2, <1>6 DEF SeedKept
<1>8. new = {} => UNCHANGED <<queue, seedDir>>
  BY <1>5 DEF UpdateQueue
<1> QED
  BY <1>2, <1>3, <1>4, <1>5, <1>7, <1>8

\* A program with a new branch becomes a seed, and the older seeds give up credit.
LEMMA ProcessSaves ==
  ASSUME IInv, Process, NEW i, i = First(found), NEW cov, cov = workDir[i].cov,
         NEW new, new = HasUnique(branches, cov), new # {}
  PROVE  /\ seedDir' \in [Ids -> Programs \cup {Absent}]
         /\ queue' \subseteq Programs
         /\ SeedIds' = SeedIds \cup {i}
         /\ queue' = SeedFiles'
         /\ seedDir'[i] = Program(i, cov, new)
         /\ \A j \in SeedIds : /\ seedDir'[j] = LoseCredit(seedDir[j], cov)
                               /\ seedDir[j] \in Programs
<1>1. /\ i \in Ids /\ i \notin SeedIds /\ cov \in Coverages /\ new \in SUBSET Branches /\ Looping
  BY ProcessKeeps
<1>2. UpdateQueue(i, cov, new)
  BY DEF Process
<1>3. queue = SeedFiles /\ Typed /\ \A j \in SeedIds : seedDir[j].id = j
  BY <1>1 DEF IInv, SeedKept
<1> QED
  BY <1>1, <1>2, <1>3, SavedQueue

LEMMA ProcessInv == IInv /\ Process => IInv'
<1> SUFFICES ASSUME IInv, Process PROVE IInv'
  OBVIOUS
<1>1. PICK i, cov, new : i = First(found) /\ cov = workDir[i].cov /\ new = HasUnique(branches, cov)
  OBVIOUS
<1>2. /\ i \in found /\ i \in Ids
      /\ workDir[i] \in Works /\ cov \in Coverages /\ i < seedId /\ i \notin pending
      /\ UNCHANGED <<seedId, pending, todo, succDir, workDir>>
      /\ found' = found \ {i}
      /\ branches' = MergeCoverage(branches, cov, TRUE)
      /\ phase' = IF found' = {} THEN "mutate" ELSE "save"
      /\ Looping /\ Looping'
      /\ new = {} => UNCHANGED <<queue, seedDir>>
  BY <1>1, ProcessKeeps
<1>3. /\ queue = SeedFiles
      /\ \A j \in SeedIds : SeedKept(j)
      /\ Typed
  BY <1>2 DEF IInv
<1>4. branches' \in BranchMaps
  BY <1>2, <1>3, MergeTyped DEF Typed
<1>5. Staged'
  BY <1>2 DEF IInv, Staged
<1>6. CASE new = {}
  <2>1. UNCHANGED <<queue, seedDir>>
    BY <1>2, <1>6
  <2>2. Typed'
    BY <1>2, <1>3, <1>4, <2>1 DEF Typed, Phases
  <2>3. SeedIds' = SeedIds /\ SeedFiles' = SeedFiles
    BY <2>1 DEF SeedIds, SeedFiles
  <2>4. ASSUME NEW j \in SeedIds, SeedKept(j) PROVE SeedKept(j)'
    BY <1>2, <2>1, <2>4 DEF SeedKept
  <2> QED
    BY <1>3, <1>5, <2>1, <2>2, <2>3, <2>4 DEF IInv
<1>7. CASE new # {}
  <2>1. /\ seedDir' \in [Ids -> Programs \cup {Absent}]
        /\ queue' \subseteq Programs
        /\ SeedIds' = SeedIds \cup {i}
        /\ queue' = SeedFiles'
        /\ seedDir'[i] = Program(i, cov, new)
        /\ \A j \in SeedIds : /\ seedDir'[j] = LoseCredit(seedDir[j], cov)
                              /\ seedDir[j] \in Programs
    BY <1>1, <1>7, ProcessSaves
  <2>2. Typed'
    BY <1>2, <1>3, <1>4, <2>1 DEF Typed, Phases
  <2>3. ASSUME NEW j \in SeedIds PROVE SeedKept(j)'
    <3>1. seedDir'[j].id = seedDir[j].id /\ seedDir'[j].cov = seedDir[j].cov
      BY <2>1, LoseCreditKeeps
    <3> QED
      BY <1>2, <1>3, <3>1 DEF SeedKept
  <2>4. SeedKept(i)'
    BY <1>1, <1>2, <2>1 DEF SeedKept, Program
  <2> QED
    BY <1>5, <2>1, <2>2, <2>3, <2>4 DEF IInv
<1> QED
  BY <1>6, <1>7

\* The seeds that mutate_prompt saves are on disk already.
LEMMA EndRoundKeeps ==
  ASSUME IInv, EndRound
  PROVE  /\ Looping
         /\ phase' \in {"recheck", "report"}
         /\ todo' = SuccIds \/ todo' = todo
         /\ UNCHANGED <<seedId, pending, found, queue, branches, fileVars>>
<1> USE DEF feedbackVars
<1>1. /\ Looping
      /\ phase' \in {"recheck", "report"}
      /\ todo' = SuccIds \/ todo' = todo
      /\ UNCHANGED <<seedId, pending, found, queue, branches, succDir, workDir>>
  BY DEF EndRound, Looping
<1>2. queue = SeedFiles /\ \A j \in SeedIds : SeedKept(j) /\ j \in Ids
  BY <1>1 DEF IInv, SeedIds
<1>3. seedDir' = seedDir
  <2>1. ASSUME NEW q \in queue PROVE q.id \in Ids /\ seedDir[q.id] = q
    BY <1>2 DEF SeedFiles, SeedKept
  <2>2. seedDir \in [Ids -> Programs \cup {Absent}]
    BY <1>1 DEF IInv, Typed
  <2>3. ASSUME NEW q \in queue, NEW t \in queue,
               seedDir' = [seedDir EXCEPT ![q.id] = q, ![t.id] = t]
        PROVE  seedDir' = seedDir
    BY <2>1, <2>2, <2>3
  <2> QED
    BY <2>3 DEF EndRound
<1> QED
  BY <1>1, <1>3 DEF fileVars

LEMMA EndRoundInv == IInv /\ EndRound => IInv'
<1> SUFFICES ASSUME IInv, EndRound PROVE IInv'
  OBVIOUS
<1>1. /\ Looping
      /\ phase' \in {"recheck", "report"}
      /\ todo' = SuccIds \/ todo' = todo
      /\ UNCHANGED <<seedId, pending, found, queue, branches, fileVars>>
  BY EndRoundKeeps
<1>2. todo' \subseteq Ids
  BY <1>1 DEF IInv, Typed, SuccIds
<1>3. seedId \in 0..MaxId /\ seedId <= seedId
  BY ConfigAssumption DEF IInv, Typed
<1> QED
  BY <1>1, <1>2, <1>3, QuietStep DEF feedbackVars, Phases

LEMMA RecheckSeedInv == IInv /\ RecheckSeed => IInv'
<1> SUFFICES ASSUME IInv, RecheckSeed PROVE IInv'
  OBVIOUS
<1>1. /\ UNCHANGED <<seedId, pending, found, queue, branches, seedDir, workDir>>
      /\ Looping
      /\ phase' = "recheck" \/ (phase' = "drop" /\ todo' # {})
      /\ todo' \subseteq todo
      /\ succDir' = succDir \/ succDir' = [succDir EXCEPT ![First(todo)] = Absent]
  BY DEF RecheckSeed, loopVars, feedbackVars, Looping
<1>2. Typed'
  BY <1>1 DEF IInv, Typed, Phases
<1>3. Staged'
  BY <1>1 DEF IInv, Staged
<1>4. SeedIds' = SeedIds /\ SeedFiles' = SeedFiles
  BY <1>1 DEF SeedIds, SeedFiles
<1>5. ASSUME NEW i \in SeedIds, SeedKept(i) PROVE SeedKept(i)'
  BY <1>1, <1>5 DEF SeedKept
<1> QED
  BY <1>1, <1>2, <1>3, <1>4, <1>5 DEF IInv

\* A dropped seed leaves the queue and the disk.
LEMMA DropSeedInv == IInv /\ DropSeed => IInv'
<1> SUFFICES ASSUME IInv, DropSeed PROVE IInv'
  OBVIOUS
<1>1. PICK i \in Ids : i = First(todo)
  BY FirstIsLeast DEF IInv, Typed, Staged, DropSeed
<1>2. /\ UNCHANGED <<seedId, pending, found, branches, succDir, workDir>>
      /\ IF seedDir[i] # Absent
         THEN /\ seedDir' = [seedDir EXCEPT ![i] = Absent]
              /\ queue' = {q \in queue : q.id # i}
         ELSE UNCHANGED <<seedDir, queue>>
      /\ todo' = todo \ {i}
      /\ phase' = "recheck" /\ Looping
  BY <1>1 DEF DropSeed, loopVars, Looping
<1>3. queue = SeedFiles /\ \A j \in SeedIds : SeedKept(j)
  BY <1>2 DEF IInv
<1>4. seedDir' = [seedDir EXCEPT ![i] = Absent]
  BY <1>2 DEF IInv, Typed
<1>5. SeedIds' = SeedIds \ {i}
  BY <1>2, <1>4 DEF IInv, Typed, SeedIds
<1>6. \A j \in SeedIds' : seedDir'[j] = seedDir[j] /\ j \in SeedIds
  BY <1>2, <1>4, <1>5 DEF IInv, Typed, SeedIds
<1>7. queue' = SeedFiles'
  <2>1. queue' = {q \in queue : q.id # i}
    <3>1. CASE seedDir[i] = Absent
      BY <1>1, <1>2, <1>3, <3>1 DEF SeedFiles, SeedIds, SeedKept
    <3> QED
      BY <1>2, <3>1
  <2>2. {q \in SeedFiles : q.id # i} = {seedDir[j] : j \in SeedIds \ {i}}
    BY <1>3 DEF SeedFiles, SeedKept
  <2>3. SeedFiles' = {seedDir[j] : j \in SeedIds \ {i}}
    BY <1>5, <1>6 DEF SeedFiles
  <2> QED
    BY <1>3, <2>1, <2>2, <2>3
<1>8. Typed'
  BY <1>2, <1>4 DEF IInv, Typed, Phases
<1>9. Staged'
  BY <1>2 DEF IInv, Staged
<1>10. ASSUME NEW j \in SeedIds' PROVE SeedKept(j)'
  BY <1>2, <1>3, <1>6 DEF SeedKept
<1> QED
  BY <1>7, <1>8, <1>9, <1>10 DEF IInv

\* The recount credits the seeds anew and changes nothing else about them.
LEMMA RecomputeKeeps ==
  ASSUME IInv, Recompute
  PROVE  /\ seedDir' \in [Ids -> Programs \cup {Absent}]
         /\ SeedIds' = SeedIds
         /\ queue' = SeedFiles'
         /\ \A j \in SeedIds : /\ seedDir'[j] \in Programs /\ seedDir[j] \in Programs
                               /\ seedDir'[j].id = seedDir[j].id
                               /\ seedDir'[j].cov = seedDir[j].cov
<1>1. /\ seedDir' = [j \in Ids |-> IF j \in SeedIds /\ AddedBy(j) # {}
                                   THEN [seedDir[j] EXCEPT !.unique = AddedBy(j)]
                                   ELSE seedDir[j]]
      /\ queue' = {seedDir'[j] : j \in SeedIds}
  BY DEF Recompute
<1>2. ASSUME NEW j \in SeedIds
      PROVE  /\ seedDir'[j] \in Programs /\ seedDir[j] \in Programs
             /\ seedDir'[j].id = seedDir[j].id
             /\ seedDir'[j].cov = seedDir[j].cov
  <2>1. j \in Ids /\ seedDir[j] \in Programs
    BY DEF IInv, Typed, SeedIds, Recompute, Looping
  <2>2. AddedBy(j) \in SUBSET Branches
    BY DEF AddedBy, Hits
  <2>3. seedDir'[j] = [seedDir[j] EXCEPT !.unique = AddedBy(j)] \/ seedDir'[j] = seedDir[j]
    BY <1>1, <2>1
  <2> QED
    BY <2>1, <2>2, <2>3 DEF Programs
<1>3. ASSUME NEW j \in Ids, j \notin SeedIds PROVE seedDir'[j] = Absent
  BY <1>1, <1>3 DEF SeedIds
<1>4. SeedIds' = SeedIds
  BY <1>2, <1>3, AbsentAssumption DEF SeedIds
<1>5. seedDir' \in [Ids -> Programs \cup {Absent}]
  BY <1>1, <1>2, <1>3
<1> QED
  BY <1>1, <1>2, <1>4, <1>5 DEF SeedFiles

LEMMA RecomputeInv == IInv /\ Recompute => IInv'
<1> SUFFICES ASSUME IInv, Recompute PROVE IInv'
  OBVIOUS
<1>1. /\ UNCHANGED <<seedId, pending, found, todo, succDir, workDir>>
      /\ phase' = "report" /\ Looping
      /\ branches' = Recounted
  BY DEF Recompute, visitVars, Looping
<1>2. /\ seedDir' \in [Ids -> Programs \cup {Absent}]
      /\ SeedIds' = SeedIds
      /\ queue' = SeedFiles'
      /\ \A j \in SeedIds : /\ seedDir'[j] \in Programs /\ seedDir[j] \in Programs
                            /\ seedDir'[j].id = seedDir[j].id
                            /\ seedDir'[j].cov = seedDir[j].cov
  BY RecomputeKeeps
<1>3. branches' \in BranchMaps
  BY <1>1 DEF Recounted, BranchMaps
<1>4. queue' \subseteq Programs
  BY <1>2 DEF SeedFiles
<1>5. Typed'
  BY <1>1, <1>2, <1>3, <1>4 DEF IInv, Typed, Phases
<1>6. Staged'
  BY <1>1 DEF IInv, Staged
<1>7. ASSUME NEW j \in SeedIds PROVE SeedKept(j)'
  BY <1>1, <1>2 DEF IInv, SeedKept
<1> QED
  BY <1>2, <1>5, <1>6, <1>7 DEF IInv

LEMMA ReportInv == IInv /\ Report => IInv'
<1> SUFFICES ASSUME IInv, Report PROVE IInv'
  OBVIOUS
<1>1. seedId \in 0..MaxId /\ seedId <= seedId /\ todo \subseteq Ids
  BY ConfigAssumption DEF IInv, Typed
<1> QED
  BY <1>1, QuietStep DEF Report, visitVars, Phases, Looping

LEMMA ConvergeInv == IInv /\ Converge => IInv'
<1> SUFFICES ASSUME IInv, Converge PROVE IInv'
  OBVIOUS
<1>1. seedId \in 0..MaxId /\ seedId <= seedId /\ SuccIds \subseteq Ids
  BY ConfigAssumption DEF IInv, Typed, SuccIds
<1> QED
  BY <1>1, QuietStep DEF Converge, loopVars, Phases, Looping

LEMMA MinimizeInv == IInv /\ Minimize => IInv'
<1> SUFFICES ASSUME IInv, Minimize PROVE IInv'
  OBVIOUS
<1>1. /\ UNCHANGED <<phase, seedId, pending, found, queue, branches, succDir, workDir>>
      /\ phase = "minimize" /\ todo' \subseteq todo
  BY DEF Minimize, loopVars, feedbackVars
<1>2. Typed'
  BY <1>1 DEF IInv, Typed, Looping
<1>3. Staged'
  BY <1>1 DEF IInv, Staged
<1> QED
  BY <1>1, <1>2, <1>3 DEF IInv, Looping

LEMMA FinishInv == IInv /\ Finish => IInv'
<1> SUFFICES ASSUME IInv, Finish PROVE IInv'
  OBVIOUS
<1>1. seedId \in 0..MaxId /\ seedId <= seedId /\ todo \subseteq Ids
  BY ConfigAssumption DEF IInv, Typed
<1> QED
  BY <1>1, QuietStep DEF Finish, loopVars, visitVars, Phases, Looping

LEMMA StutterInv == IInv /\ UNCHANGED vars => IInv'
<1> SUFFICES ASSUME IInv, UNCHANGED vars PROVE IInv'
  OBVIOUS
<1> USE DEF vars, loopVars, feedbackVars, visitVars, fileVars
<1>1. SeedIds' = SeedIds /\ SeedFiles' = SeedFiles
  BY DEF SeedIds, SeedFiles
<1>2. Typed' /\ Staged' /\ (Looping' <=> Looping)
  BY DEF IInv, Typed, Staged, Looping
<1>3. ASSUME NEW i \in SeedIds, SeedKept(i) PROVE SeedKept(i)'
  BY <1>3 DEF SeedKept
<1> QED
  BY <1>1, <1>2, <1>3 DEF IInv

LEMMA LoopStep == IInv /\ [Next]_vars => IInv'
  BY StartRoundInv, RequestInv, CheckInv, SaveSuccInv, ProcessInv, EndRoundInv,
     RecheckSeedInv, DropSeedInv, RecomputeInv, ReportInv, ConvergeInv, MinimizeInv,
     FinishInv, StutterInv DEF Next

\* IInv holds throughout a run of the fuzz loop.
THEOREM LoopInvariant == Spec => []IInv
  BY InitInv, LoopStep, PTL DEF Spec

-----------------------------------------------------------------------------
(* Programs, seeds and profiles on disk.                                    *)

\* A successful program has the profile of its own run; it is not checked again,
\* and is still to be processed only when it was saved in this very step.
SuccKept(i) ==
  /\ workDir[i] \in Works /\ workDir[i].cov = succDir[i]
  /\ i < seedId /\ i \notin pending
  /\ i \in found => phase = "update" /\ i = First(found)

\* A seed file describes the seed whose name it has.
SeedFiled(i) ==
  /\ seedDir[i].id = i
  /\ workDir[i] \in Works /\ workDir[i].cov = seedDir[i].cov

\* The seeds are successful programs, but for one that is being dropped; minimize
\* visits successful programs.
Filed ==
  /\ \A i \in SuccIds : SuccKept(i)
  /\ \A i \in SeedIds : SeedFiled(i)
  /\ \A i \in SeedIds \ SuccIds : phase = "drop" /\ i = First(todo)
  /\ phase = "update" => First(found) \in SuccIds
  /\ ~Looping => todo \subseteq SuccIds /\ seedDir \in [Ids -> Programs \cup {Absent}]

\* Credit is never shared, and is exclusive until the one recheck has happened.
Credited ==
  /\ CreditIsUnique
  /\ phase \in {"recheck", "drop"} => ~checked

\* What a successful program reaches is covered once it was processed.
Dismissed ==
  ~checked /\ phase \notin {"recheck", "drop"} =>
    \A i \in SuccIds : (phase = "update" => i # First(found)) =>
                         Hits(succDir[i]) \subseteq Covered(branches)

\* The retained seeds are those visited and not removed; they reach what any of
\* the programs visited reaches.
Cut ==
  ~Looping =>
    /\ kept = UNION {Hits(succDir[i]) : i \in SuccIds \ todo}
    /\ kept = UNION {Hits(seedDir[i].cov) : i \in SeedIds \ todo}

\* Steps of the loop that leave the files alone.
LEMMA QuietFiled ==
  ASSUME IInv, Filed,
         UNCHANGED <<pending, found, fileVars>>, seedId \in Int, seedId' \in Int, seedId <= seedId',
         phase \notin {"update", "drop"}, phase' \notin {"update", "drop"},
         ~Looping' => todo' \subseteq SuccIds /\ seedDir \in [Ids -> Programs \cup {Absent}]
  PROVE  Filed'
<1>1. SuccIds' = SuccIds /\ SeedIds' = SeedIds
  BY DEF SuccIds, SeedIds, fileVars
<1>2. Ids \subseteq Int
  BY ConfigAssumption DEF Ids
<1>3. ASSUME NEW i \in SuccIds PROVE SuccKept(i)'
  <2>1. i \in Int
    BY <1>2 DEF SuccIds
  <2> QED
    BY <2>1 DEF Filed, SuccKept, fileVars
<1>4. ASSUME NEW i \in SeedIds PROVE SeedFiled(i)'
  BY DEF Filed, SeedFiled, fileVars
<1>5. SeedIds \subseteq SuccIds
  BY DEF Filed
<1> QED
  BY <1>1, <1>3, <1>4, <1>5 DEF Filed, fileVars

LEMMA RequestFiled == IInv /\ Filed /\ Request => Filed'
<1> SUFFICES ASSUME IInv, Filed, Request PROVE Filed'
  OBVIOUS
<1> USE DEF Request, feedbackVars, visitVars, fileVars
<1>1. /\ seedId \in Nat /\ Samples \in Nat \ {0}
      /\ seedId' = seedId + Samples
      /\ pending' = seedId..(seedId + Samples - 1)
      /\ Ids \subseteq Int
  BY ConfigAssumption DEF IInv, Typed, Ids
<1>2. SuccIds' = SuccIds /\ SeedIds' = SeedIds
  BY DEF SuccIds, SeedIds
<1>3. ASSUME NEW i \in SuccIds PROVE SuccKept(i)'
  <2>1. i \in Int /\ i < seedId /\ SuccKept(i)
    BY <1>1 DEF Filed, SuccIds, SuccKept
  <2>2. i < seedId' /\ i \notin pending'
    BY <1>1, <2>1
  <2> QED
    BY <2>1, <2>2 DEF SuccKept
<1>4. ASSUME NEW i \in SeedIds PROVE SeedFiled(i)'
  BY DEF Filed, SeedFiled
<1> QED
  BY <1>2, <1>3, <1>4 DEF Filed, Looping

\* Checking touches only the directories of new programs.
LEMMA CheckFiled == IInv /\ Filed /\ Check => Filed'
<1> SUFFICES ASSUME IInv, Filed, Check PROVE Filed'
  OBVIOUS
<1>1. /\ \A i \in Ids : i \notin pending => workDir'[i] = workDir[i]
      /\ found \subseteq found' /\ found' \subseteq found \cup pending
      /\ phase' \in {"generate", "mutate", "save"} /\ phase = "check"
      /\ pending' = {} /\ UNCHANGED <<seedId, succDir, seedDir>>
  BY DEF Check
<1>2. SuccIds' = SuccIds /\ SeedIds' = SeedIds
  BY <1>1 DEF SuccIds, SeedIds
<1>3. ASSUME NEW i \in SuccIds PROVE SuccKept(i)'
  BY <1>1 DEF Filed, SuccKept, SuccIds
<1>4. ASSUME NEW i \in SeedIds PROVE SeedFiled(i)'
  <2>1. SeedKept(i) /\ i \in Ids
    BY <1>1 DEF IInv, Looping, SeedIds
  <2> QED
    BY <1>1, <2>1 DEF SeedKept, SeedFiled
<1> QED
  BY <1>1, <1>2, <1>3, <1>4 DEF Filed, Looping

\* A program is saved with the coverage of its profile.
LEMMA SaveSuccFiled == IInv /\ Filed /\ SaveSucc => Filed'
<1> SUFFICES ASSUME IInv, Filed, SaveSucc PROVE Filed'
  OBVIOUS
<1>1. found \subseteq Ids /\ found # {}
  BY DEF IInv, Staged, SaveSucc
<1>2. PICK i \in found : i = First(found)
  BY <1>1, FirstIsLeast
<1>3. /\ succDir' = [succDir EXCEPT ![i] = workDir[i].cov]
      /\ UNCHANGED <<seedId, pending, found, todo, seedDir, workDir>>
      /\ phase = "save" /\ phase' = "update" /\ Looping /\ Looping'
  BY <1>2 DEF SaveSucc, loopVars, visitVars, Looping
<1>4. /\ i \in Ids /\ workDir[i] \in Works /\ workDir[i].cov \in Coverages
      /\ i < seedId /\ i \notin pending
  BY <1>1 DEF IInv, Staged
<1>5. succDir \in [Ids -> Coverages \cup {Absent}]
  BY DEF IInv, Typed
<1>6. SuccIds' = SuccIds \cup {i} /\ SeedIds' = SeedIds
  BY <1>3, <1>4, <1>5, AbsentAssumption DEF SuccIds, SeedIds
<1>7. ASSUME NEW j \in SuccIds' PROVE SuccKept(j)'
  <2>1. CASE j = i
    BY <1>2, <1>3, <1>4, <1>5, <2>1 DEF SuccKept
  <2>2. CASE j # i
    <3>1. j \in SuccIds /\ SuccKept(j) /\ succDir'[j] = succDir[j]
      BY <1>3, <1>5, <1>6, <2>2 DEF Filed, SuccIds
    <3> QED
      BY <1>3, <3>1 DEF SuccKept
  <2> QED
    BY <2>1, <2>2
<1>8. ASSUME NEW j \in SeedIds PROVE SeedFiled(j)'
  BY <1>3 DEF Filed, SeedFiled
<1>9. First(found') = i
  BY <1>2, <1>3
<1> QED
  BY <1>3, <1>6, <1>7, <1>8, <1>9 DEF Filed

LEMMA ProcessFiled == IInv /\ Filed /\ Process => Filed'
<1> SUFFICES ASSUME IInv, Filed, Process PROVE Filed'
  OBVIOUS
<1>1. PICK i, cov, new : i = First(found) /\ cov = workDir[i].cov /\ new = HasUnique(branches, cov)
  OBVIOUS
<1>2. /\ i \in Ids /\ workDir[i] \in Works
      /\ UNCHANGED <<seedId, pending, succDir, workDir>>
      /\ found' = found \ {i}
      /\ phase = "update" /\ phase' = IF found' = {} THEN "mutate" ELSE "save"
      /\ Looping'
      /\ new = {} => UNCHANGED <<queue, seedDir>>
  BY <1>1, ProcessKeeps
<1>3. SuccIds' = SuccIds /\ i \in SuccIds
  BY <1>1, <1>2 DEF Filed, SuccIds
<1>4. ASSUME NEW j \in SuccIds PROVE SuccKept(j)'
  <2>1. SuccKept(j) /\ j \notin found'
    BY <1>1, <1>2 DEF Filed, SuccKept
  <2> QED
    BY <1>2, <2>1 DEF SuccKept
<1>5. ASSUME NEW j \in SeedIds' PROVE SeedFiled(j)' /\ j \in SuccIds
  <2>1. CASE new = {}
    <3>1. j \in SeedIds
      BY <1>2, <2>1 DEF SeedIds
    <3> QED
      BY <1>2, <2>1, <3>1 DEF Filed, SeedFiled
  <2>2. CASE new # {}
    <3>1. /\ SeedIds' = SeedIds \cup {i}
          /\ seedDir'[i] = Program(i, cov, new)
          /\ \A k \in SeedIds : /\ seedDir'[k] = LoseCredit(seedDir[k], cov)
                                /\ seedDir[k] \in Programs
      BY <1>1, <2>2, ProcessSaves
    <3>2. CASE j = i
      BY <1>1, <1>2, <1>3, <3>1, <3>2 DEF SeedFiled, Program
    <3>3. CASE j \in SeedIds
      <4>1. seedDir'[j].id = seedDir[j].id /\ seedDir'[j].cov = seedDir[j].cov
        BY <3>1, <3>3, LoseCreditKeeps
      <4> QED
        BY <1>2, <3>3, <4>1 DEF Filed, SeedFiled
    <3> QED
      BY <3>1, <3>2, <3>3
  <2> QED
    BY <2>1, <2>2
<1> QED
  BY <1>2, <1>3, <1>4, <1>5 DEF Filed

\* The copy among the successful programs is removed first.
LEMMA RecheckSeedFiled == IInv /\ Filed /\ RecheckSeed => Filed'
<1> SUFFICES ASSUME IInv, Filed, RecheckSeed PROVE Filed'
  OBVIOUS
<1> DEFINE i == First(todo)
<1>1. /\ UNCHANGED <<seedId, pending, found, seedDir, workDir>>
      /\ phase = "recheck"
      /\ \/ phase' = "recheck" /\ UNCHANGED succDir
         \/ phase' = "drop" /\ UNCHANGED todo /\ succDir' = [succDir EXCEPT ![i] = Absent]
  BY DEF RecheckSeed, loopVars
<1>2. succDir \in [Ids -> Coverages \cup {Absent}]
  BY DEF IInv, Typed
<1>3. SeedIds' = SeedIds /\ SeedIds \subseteq SuccIds
  BY <1>1 DEF SeedIds, Filed
<1>4. \A j \in SuccIds' : j \in SuccIds /\ succDir'[j] = succDir[j]
  BY <1>1, <1>2 DEF SuccIds
<1>5. ASSUME NEW j \in SuccIds' PROVE SuccKept(j)'
  BY <1>1, <1>4 DEF Filed, SuccKept
<1>6. ASSUME NEW j \in SeedIds PROVE SeedFiled(j)'
  BY <1>1 DEF Filed, SeedFiled
<1>7. ASSUME NEW j \in SeedIds \ SuccIds' PROVE phase' = "drop" /\ j = First(todo')
  BY <1>1, <1>2, <1>3, <1>7 DEF SuccIds
<1> QED
  BY <1>1, <1>3, <1>5, <1>6, <1>7 DEF Filed, Looping

LEMMA DropSeedFiled == IInv /\ Filed /\ DropSeed => Filed'
<1> SUFFICES ASSUME IInv, Filed, DropSeed PROVE Filed'
  OBVIOUS
<1> DEFINE i == First(todo)
<1>1. /\ UNCHANGED <<seedId, pending, found, succDir, workDir>>
      /\ phase = "drop" /\ phase' = "recheck"
      /\ seedDir' = [seedDir EXCEPT ![i] = Absent] \/ (seedDir[i] = Absent /\ seedDir' = seedDir)
  BY DEF DropSeed, loopVars
<1>2. seedDir \in [Ids -> Programs \cup {Absent}]
  BY <1>1 DEF IInv, Typed, Looping
<1>3. \A j \in SeedIds' : j \in SeedIds /\ j # i /\ seedDir'[j] = seedDir[j]
  BY <1>1, <1>2 DEF SeedIds
<1>4. SuccIds' = SuccIds
  BY <1>1 DEF SuccIds
<1>5. ASSUME NEW j \in SuccIds PROVE SuccKept(j)'
  BY <1>1 DEF Filed, SuccKept
<1>6. ASSUME NEW j \in SeedIds' PROVE SeedFiled(j)' /\ j \in SuccIds
  BY <1>1, <1>3 DEF Filed, SeedFiled
<1> QED
  BY <1>1, <1>4, <1>5, <1>6 DEF Filed, Looping

LEMMA RecomputeFiled == IInv /\ Filed /\ Recompute => Filed'
<1> SUFFICES ASSUME IInv, Filed, Recompute PROVE Filed'
  OBVIOUS
<1>1. /\ UNCHANGED <<seedId, pending, found, succDir, workDir>>
      /\ phase = "recheck" /\ phase' = "report"
  BY DEF Recompute, visitVars
<1>2. /\ SeedIds' = SeedIds
      /\ \A j \in SeedIds : seedDir'[j].id = seedDir[j].id /\ seedDir'[j].cov = seedDir[j].cov
  BY RecomputeKeeps
<1>3. SuccIds' = SuccIds
  BY <1>1 DEF SuccIds
<1>4. ASSUME NEW j \in SuccIds PROVE SuccKept(j)'
  BY <1>1 DEF Filed, SuccKept
<1>5. ASSUME NEW j \in SeedIds PROVE SeedFiled(j)' /\ j \in SuccIds
  BY <1>1, <1>2 DEF Filed, SeedFiled
<1> QED
  BY <1>1, <1>2, <1>3, <1>4, <1>5 DEF Filed, Looping

\* Minimize only visits programs it can read, one of them each time.
LEMMA MinimizeVisits ==
  ASSUME IInv, Filed, Minimize
  PROVE  LET i == BestFirst(todo)
         IN  /\ i \in todo /\ i \in SuccIds /\ i \in Ids
             /\ workDir[i].cov = succDir[i] /\ workDir[i] \in Works /\ succDir[i] \in Coverages
             /\ Retain(i, Hits(succDir[i]) \ kept) /\ todo' = todo \ {i}
             /\ phase = "minimize" /\ ~Looping /\ ~Looping'
             /\ UNCHANGED <<phase, seedId, pending, found, queue, branches, checked, succDir, workDir>>
             /\ seedDir \in [Ids -> Programs \cup {Absent}]
<1>1. todo \subseteq Ids /\ todo # {} /\ todo \subseteq SuccIds
  BY DEF IInv, Typed, Filed, Minimize, Looping
<1>2. PICK i \in todo : i = BestFirst(todo)
  BY <1>1, BestFirstExists
<1>3. i \in SuccIds /\ i \in Ids /\ SuccKept(i)
  BY <1>1 DEF Filed
<1>4. succDir[i] \in Coverages
  BY <1>3 DEF IInv, Typed, SuccIds
<1>5. Retain(i, Hits(workDir[i].cov) \ kept) /\ todo' = todo \ {i}
  BY <1>2 DEF Minimize
<1>6. /\ phase = "minimize" /\ ~Looping /\ ~Looping'
      /\ UNCHANGED <<phase, seedId, pending, found, queue, branches, checked, succDir, workDir>>
      /\ seedDir \in [Ids -> Programs \cup {Absent}]
  BY DEF Minimize, Looping, loopVars, feedbackVars, Filed
<1> QED
  BY <1>2, <1>3, <1>4, <1>5, <1>6 DEF SuccKept

LEMMA MinimizeFiled == IInv /\ Filed /\ Minimize => Filed'
<1> SUFFICES ASSUME IInv, Filed, Minimize PROVE Filed'
  OBVIOUS
<1>1. PICK i : i = BestFirst(todo)
  OBVIOUS
<1>2. /\ i \in SuccIds /\ i \in Ids /\ todo' = todo \ {i}
      /\ workDir[i].cov = succDir[i] /\ workDir[i] \in Works /\ succDir[i] \in Coverages
      /\ Retain(i, Hits(succDir[i]) \ kept)
      /\ phase = "minimize" /\ ~Looping /\ ~Looping'
      /\ UNCHANGED <<phase, seedId, pending, found, succDir, workDir>>
      /\ seedDir \in [Ids -> Programs \cup {Absent}]
  BY <1>1, MinimizeVisits
<1>3. SuccIds' = SuccIds
  BY <1>2 DEF SuccIds
<1>4. ASSUME NEW j \in SuccIds PROVE SuccKept(j)'
  BY <1>2 DEF Filed, SuccKept
<1> DEFINE copy == Program(i, succDir[i], {})
<1>5. copy \in Programs /\ copy.id = i /\ copy.cov = succDir[i]
  BY <1>2 DEF Program, Programs
<1>6. \/ seedDir' = [seedDir EXCEPT ![i] = Absent]
      \/ seedDir' = [seedDir EXCEPT ![i] = copy]
      \/ seedDir' = seedDir
  BY <1>2 DEF Retain
<1> HIDE DEF copy
<1>7. seedDir' \in [Ids -> Programs \cup {Absent}]
  BY <1>2, <1>5, <1>6
<1>8. ASSUME NEW j \in SeedIds' PROVE SeedFiled(j)' /\ j \in SuccIds
  <2>1. j \in Ids /\ seedDir'[j] # Absent
    BY DEF SeedIds
  <2>2. CASE j = i /\ seedDir'[j] = copy
    BY <1>2, <1>5, <2>2 DEF SeedFiled
  <2>3. CASE seedDir'[j] = seedDir[j]
    <3>1. j \in SeedIds
      BY <2>1, <2>3 DEF SeedIds
    <3>2. j \in SuccIds /\ SeedFiled(j)
      BY <1>2, <3>1 DEF Filed
    <3> QED
      BY <1>2, <2>3, <3>2 DEF SeedFiled
  <2> QED
    BY <1>2, <1>6, <2>1, <2>2, <2>3
<1> QED
  BY <1>2, <1>3, <1>4, <1>7, <1>8 DEF Filed

LEMMA FiledStep == IInv /\ Filed /\ [Next]_vars => Filed'
<1> SUFFICES ASSUME IInv, Filed, [Next]_vars PROVE Filed'
  OBVIOUS
<1>1. seedId \in Int /\ seedId <= seedId
  BY ConfigAssumption DEF IInv, Typed
<1>2. CASE StartRound \/ Report
  <2>1. /\ UNCHANGED <<seedId, pending, found, fileVars>>
        /\ phase \notin {"update", "drop"} /\ phase' \notin {"update", "drop"} /\ Looping'
    BY <1>2 DEF StartRound, Report, Looping
  <2> QED
    BY <1>1, <2>1, QuietFiled
<1>3. CASE EndRound
  <2>1. phase = "mutate"
    BY <1>3 DEF EndRound
  <2>2. /\ phase' \in {"recheck", "report"} /\ Looping'
        /\ UNCHANGED <<seedId, pending, found, fileVars>>
    BY <1>3, EndRoundKeeps DEF Looping
  <2> QED
    BY <1>1, <2>1, <2>2, QuietFiled
<1>4. CASE Converge \/ Finish
  <2>1. /\ UNCHANGED <<seedId, pending, found, fileVars>>
        /\ phase \in {"loop", "minimize"} /\ phase' \in {"minimize", "done"}
        /\ todo' = SuccIds \/ (todo' = todo /\ ~Looping)
    BY <1>4 DEF Converge, Finish, loopVars, visitVars, Looping
  <2>2. todo' \subseteq SuccIds /\ seedDir \in [Ids -> Programs \cup {Absent}]
    BY <2>1 DEF Filed, IInv, Typed, Looping
  <2> QED
    BY <1>1, <2>1, <2>2, QuietFiled
<1>5. CASE UNCHANGED vars
  <2> USE <1>5 DEF vars, loopVars, visitVars, fileVars
  <2>1. SuccIds' = SuccIds /\ SeedIds' = SeedIds /\ (Looping' <=> Looping)
    BY DEF SuccIds, SeedIds, Looping
  <2>2. ASSUME NEW i \in SuccIds PROVE SuccKept(i)'
    BY DEF Filed, SuccKept
  <2>3. ASSUME NEW i \in SeedIds PROVE SeedFiled(i)'
    BY DEF Filed, SeedFiled
  <2> QED
    BY <2>1, <2>2, <2>3 DEF Filed
<1> QED
  BY <1>2, <1>3, <1>4, <1>5, RequestFiled, CheckFiled, SaveSuccFiled, ProcessFiled,
     RecheckSeedFiled, DropSeedFiled, RecomputeFiled, MinimizeFiled DEF Next

\* Filed holds throughout a run of the fuzz loop.
THEOREM FilesInvariant == Spec => []Filed
<1>1. Init => Filed
  BY DEF Init, Filed, SuccIds, SeedIds, Looping
<1> QED
  BY <1>1, LoopInvariant, FiledStep, PTL DEF Spec

\* The files of a program that is kept are those of its own run: no later program,
\* failed check, recheck or minimize touches them.
THEOREM ProfilesStay == Spec => []ProfilesAreKept
<1>1. IInv /\ Filed => ProfilesAreKept
  <2> SUFFICES ASSUME IInv, Filed PROVE ProfilesAreKept
    OBVIOUS
  <2>1. ASSUME NEW i \in SuccIds PROVE HasProfile(i) /\ workDir[i].cov = succDir[i]
    BY AbsentAssumption DEF Filed, SuccKept, IInv, Typed, SuccIds, HasProfile
  <2>2. ASSUME NEW i \in SeedIds
        PROVE  HasProfile(i) /\ workDir[i].cov = seedDir[i].cov /\ seedDir[i].id = i
    <3>1. seedDir[i] \in Programs
      BY DEF Filed, IInv, Typed, SeedIds
    <3>2. seedDir[i].cov # Absent
      BY <3>1, AbsentAssumption DEF Programs
    <3> QED
      BY <3>2, AbsentAssumption DEF Filed, SeedFiled, HasProfile
  <2> QED
    BY <2>1, <2>2 DEF Filed, ProfilesAreKept
<1> QED
  BY <1>1, LoopInvariant, FilesInvariant, PTL

\* Within one session no id is given out twice.
THEOREM FreshIds == Spec => []IdsAreFresh
<1>1. Filed => IdsAreFresh
  BY DEF Filed, SuccKept, IdsAreFresh
<1> QED
  BY <1>1, FilesInvariant, PTL

-----------------------------------------------------------------------------
(* The loop implements a seed pool.                                         *)

\* The seeds in memory are those on disk until minimize starts.
THEOREM QueueSaved == Spec => []QueueIsOnDisk
<1>1. IInv => QueueIsOnDisk
  BY DEF IInv, QueueIsOnDisk, Looping
<1> QED
  BY LoopInvariant, <1>1, PTL

\* The pool as SeedPool sees it.
PoolOf(Q) == {[id |-> q.id, reach |-> Hits(q.cov)] : q \in Q}

\* What a pool reaches is what its seeds hit.
LEMMA ReachedIsHits == ASSUME NEW Q PROVE Pool!Reached(PoolOf(Q)) = HitsOf(Q)
<1>1. {p.reach : p \in PoolOf(Q)} = {Hits(q.cov) : q \in Q}
  <2>1. \A q \in Q : [id |-> q.id, reach |-> Hits(q.cov)].reach = Hits(q.cov)
    OBVIOUS
  <2> QED
    BY <2>1 DEF PoolOf
<1> QED
  BY <1>1 DEF Pool!Reached, HitsOf

\* The program processed is offered to the pool.
LEMMA ProcessOffers ==
  ASSUME IInv, Process
  PROVE  \E p \in Pool!Programs : Pool!Offer(p)
<1>1. found \subseteq Ids /\ found # {}
  BY DEF IInv, Staged, Process
<1>2. PICK i \in found : i = First(found)
  BY <1>1, FirstIsLeast
<1> DEFINE cov == workDir[i].cov
           new == HasUnique(branches, cov)
<1>3. i \in Ids /\ cov \in Coverages /\ branches \in BranchMaps /\ queue \subseteq Programs
  BY <1>1, <1>2 DEF IInv, Staged, Typed
<1>4. PICK p \in Pool!Programs : p = [id |-> i, reach |-> Hits(cov)]
  BY <1>3 DEF Pool!Programs, Hits
<1>5. /\ UpdateQueue(i, cov, new)
      /\ branches' = MergeCoverage(branches, cov, TRUE)
      /\ phase = "update" /\ phase' \in {"mutate", "save"}
  BY <1>2 DEF Process
<1>6. Covered(branches') = Covered(branches) \cup p.reach
  BY <1>3, <1>4, <1>5, MergeCovers
<1>7. new = {} <=> p.reach \subseteq Covered(branches)
  BY <1>3, <1>4, UniqueIsUncovered
<1>8. {[id |-> q.id, reach |-> Hits(q.cov)] : q \in queue'} =
        IF new = {} THEN {[id |-> q.id, reach |-> Hits(q.cov)] : q \in queue}
        ELSE {[id |-> q.id, reach |-> Hits(q.cov)] : q \in queue} \cup {p}
  <2>1. CASE new = {}
    BY <1>5, <2>1 DEF UpdateQueue
  <2>2. CASE new # {}
    <3>1. queue' = {LoseCredit(q, cov) : q \in queue} \cup {Program(i, cov, new)}
      BY <1>5, <2>2 DEF UpdateQueue
    <3>2. \A q \in queue : LoseCredit(q, cov).id = q.id /\ LoseCredit(q, cov).cov = q.cov
      BY <1>3, LoseCreditKeeps
    <3>3. Program(i, cov, new).id = i /\ Program(i, cov, new).cov = cov
      BY DEF Program
    <3> QED
      BY <1>4, <2>2, <3>1, <3>2, <3>3
  <2> QED
    BY <2>1, <2>2
<1>9. Pool!Offer(p)
  <2>1. phase \notin {"recheck", "drop"} /\ phase' \notin {"recheck", "drop"}
    BY <1>5
  <2> HIDE DEF cov, new
  <2> QED
    BY <1>6, <1>7, <1>8, <2>1 DEF Pool!Offer
<1> QED
  BY <1>9

\* The removal of a seed that fails the recheck takes it out of the pool.
LEMMA DropSeedDrops ==
  ASSUME IInv, DropSeed
  PROVE  \/ UNCHANGED queue
         \/ \E p \in PoolOf(queue) : PoolOf(queue') = PoolOf(queue) \ {p}
<1>1. PICK i \in Ids : i = First(todo)
  BY FirstIsLeast DEF IInv, Typed, Staged, DropSeed
<1>2. CASE seedDir[i] = Absent
  BY <1>1, <1>2 DEF DropSeed
<1>3. CASE seedDir[i] # Absent
  <2>1. queue' = {q \in queue : q.id # i}
    BY <1>1, <1>3 DEF DropSeed
  <2>2. queue = SeedFiles /\ i \in SeedIds /\ \A j \in SeedIds : seedDir[j].id = j
    BY <1>3 DEF IInv, Looping, DropSeed, SeedIds, SeedKept
  <2>3. \A q \in queue : q.id = i => q = seedDir[i]
    BY <2>2 DEF SeedFiles
  <2>4. seedDir[i] \in queue /\ seedDir[i].id = i
    BY <2>2 DEF SeedFiles
  <2>5. PICK p \in PoolOf(queue) : p = [id |-> i, reach |-> Hits(seedDir[i].cov)]
    BY <2>4 DEF PoolOf
  <2>6. PoolOf(queue') = PoolOf(queue) \ {p}
    BY <2>1, <2>3, <2>5 DEF PoolOf
  <2> QED
    BY <2>5, <2>6
<1> QED
  BY <1>2, <1>3

\* A recount covers what the seeds that are left reach.
LEMMA RecomputeRecounts ==
  ASSUME IInv, Recompute
  PROVE  PoolOf(queue') = PoolOf(queue) /\ Covered(branches') = Pool!Reached(PoolOf(queue))
<1>1. queue = SeedFiles /\ (\A i \in SeedIds : SeedKept(i)) /\ Looping /\ Typed
  BY DEF IInv, Looping, Recompute
<1>2. queue = {seedDir[j] : j \in SeedIds} /\ queue' = {seedDir'[j] : j \in SeedIds}
  BY <1>1 DEF SeedFiles, Recompute
<1>3. \A j \in SeedIds : seedDir'[j].id = seedDir[j].id /\ seedDir'[j].cov = seedDir[j].cov
  BY RecomputeKeeps
<1>4. PoolOf(queue') = PoolOf(queue)
  <2>1. ASSUME NEW Q, NEW f, Q = {f[j] : j \in SeedIds}
        PROVE  PoolOf(Q) = {[id |-> f[j].id, reach |-> Hits(f[j].cov)] : j \in SeedIds}
    BY <2>1 DEF PoolOf
  <2>2. PoolOf(queue) = {[id |-> seedDir[j].id, reach |-> Hits(seedDir[j].cov)] : j \in SeedIds}
    BY <1>2, <2>1
  <2>3. PoolOf(queue') = {[id |-> seedDir'[j].id, reach |-> Hits(seedDir'[j].cov)] : j \in SeedIds}
    BY <1>2, <2>1
  <2> QED
    BY <1>3, <2>2, <2>3
<1>5. Covered(branches') = HitsOf(queue)
  BY <1>1, RecountCovers DEF Recompute
<1> QED
  BY <1>4, <1>5, ReachedIsHits

\* Each step of the loop is a step of the pool or leaves it unchanged.
LEMMA PoolStep == IInv /\ [Next]_vars => [Pool!Next]_(Pool!vars)
<1> SUFFICES ASSUME IInv, [Next]_vars PROVE [Pool!Next]_(Pool!vars)
  OBVIOUS
<1> DEFINE rechecking == phase \in {"recheck", "drop"}
<1>1. ASSUME UNCHANGED <<queue, branches>>, rechecking' = rechecking PROVE UNCHANGED Pool!vars
  BY <1>1 DEF Pool!vars
<1>2. CASE Process
  BY <1>2, ProcessOffers DEF Pool!Next
<1>3. CASE EndRound
  <2>1. UNCHANGED <<queue, branches>> /\ phase = "mutate" /\ phase' \in {"recheck", "report"}
    BY <1>3 DEF EndRound, feedbackVars
  <2>2. CASE phase' = "recheck"
    BY <2>1, <2>2 DEF Pool!Next, Pool!BeginRecheck
  <2> QED
    BY <1>1, <2>1, <2>2
<1>4. CASE DropSeed
  <2>1. UNCHANGED branches /\ phase = "drop" /\ phase' = "recheck"
    BY <1>4 DEF DropSeed
  <2>2. CASE UNCHANGED queue
    BY <1>1, <2>1, <2>2
  <2>3. ASSUME NEW p \in PoolOf(queue), PoolOf(queue') = PoolOf(queue) \ {p}
        PROVE  Pool!Next
    BY <2>1, <2>3 DEF PoolOf, Pool!Next, Pool!Drop
  <2> QED
    BY <1>4, <2>2, <2>3, DropSeedDrops
<1>5. CASE Recompute
  <2>1. phase = "recheck" /\ phase' = "report"
    BY <1>5 DEF Recompute
  <2> QED
    BY <1>5, <2>1, RecomputeRecounts DEF PoolOf, Pool!Next, Pool!Recount
<1>6. CASE Check
  <2>1. UNCHANGED feedbackVars /\ phase = "check" /\ phase' \in {"generate", "mutate", "save"}
    BY <1>6 DEF Check
  <2> QED
    BY <1>1, <2>1 DEF feedbackVars
<1>7. CASE StartRound \/ Request \/ SaveSucc \/ Report \/ Converge \/ Finish
  BY <1>1, <1>7 DEF StartRound, Request, SaveSucc, Report, Converge, Finish, feedbackVars
<1>8. CASE RecheckSeed
  BY <1>1, <1>8 DEF RecheckSeed, feedbackVars
<1>9. CASE Minimize \/ UNCHANGED vars
  BY <1>1, <1>9 DEF Minimize, vars, feedbackVars
<1> QED
  BY <1>2, <1>3, <1>4, <1>5, <1>6, <1>7, <1>8, <1>9 DEF Next

\* The fuzz loop implements SeedPool: a program is kept as a seed exactly when it
\* reaches a new branch, and seeds leave only in a recheck, which recounts.
THEOREM LoopImplementsPool == Spec => ImplementsPool
<1>1. Init => Pool!Init
  BY DEF Init, Pool!Init, Covered, Untouched
<1> QED
  BY <1>1, LoopInvariant, PoolStep, PTL DEF Spec, ImplementsPool, Pool!Spec

\* A program left out reaches nothing new, one taken in adds what it reaches, and a
\* recount ends the recheck.
LEMMA PoolKept == Pool!PoolReachesCovered /\ [Pool!Next]_(Pool!vars) => Pool!PoolReachesCovered'
<1> SUFFICES ASSUME Pool!PoolReachesCovered, [Pool!Next]_(Pool!vars)
             PROVE  Pool!PoolReachesCovered'
  OBVIOUS
<1> DEFINE pool == PoolOf(queue)
           covered == Covered(branches)
           rechecking == phase \in {"recheck", "drop"}
           Reached(P) == UNION {p.reach : p \in P}
<1>1. /\ ~rechecking => covered = Reached(pool)
      /\ Pool!PoolReachesCovered' <=> (~rechecking' => covered' = Reached(pool'))
  BY DEF Pool!PoolReachesCovered, Pool!Reached, PoolOf
<1>2. ASSUME NEW p \in Pool!Programs, Pool!Offer(p) PROVE Pool!PoolReachesCovered'
  <2>1. /\ ~rechecking /\ (rechecking' <=> rechecking) /\ covered' = covered \cup p.reach
        /\ pool' = IF p.reach \subseteq covered THEN pool ELSE pool \cup {p}
    BY <1>2 DEF Pool!Offer, PoolOf
  <2> HIDE DEF pool, covered, rechecking
  <2>2. Reached(pool \cup {p}) = Reached(pool) \cup p.reach
    OBVIOUS
  <2> QED
    BY <1>1, <2>1, <2>2
<1>3. CASE Pool!BeginRecheck
  BY <1>1, <1>3 DEF Pool!BeginRecheck
<1>4. ASSUME NEW p \in pool, Pool!Drop(p) PROVE Pool!PoolReachesCovered'
  BY <1>1, <1>4 DEF Pool!Drop
<1>5. CASE Pool!Recount
  BY <1>1, <1>5 DEF Pool!Recount, Pool!Reached, PoolOf
<1>6. CASE UNCHANGED Pool!vars
  BY <1>1, <1>6 DEF Pool!vars, PoolOf
<1> QED
  BY <1>2, <1>3, <1>4, <1>5, <1>6 DEF Pool!Next, PoolOf

\* The promise holds of the pool: outside a recheck the covered branches are those
\* its programs reach.
THEOREM PoolSound == Pool!Spec => []Pool!PoolReachesCovered
<1>1. Pool!Init => Pool!PoolReachesCovered
  BY DEF Pool!Init, Pool!PoolReachesCovered, Pool!Reached
<1> QED
  BY <1>1, PoolKept, PTL DEF Pool!Spec

\* What the pool promises is what is wanted of the loop.
LEMMA PoolPromise == Pool!PoolReachesCovered <=> SeedsReachCoverage
  BY ReachedIsHits DEF Pool!PoolReachesCovered, PoolOf, SeedsReachCoverage

\* The coverage the loop steers by is what its seeds reach, after a recheck too.
THEOREM CoverageIsReached == Spec => []SeedsReachCoverage
  BY PoolPromise, LoopImplementsPool, PoolSound, PTL DEF ImplementsPool

-----------------------------------------------------------------------------
(* The credits of the seeds.                                                *)

\* The newest seed takes the credit for what it reaches from all the others, and
\* what it is credited with no other seed reaches.
LEMMA ProcessCredits == IInv /\ SeedsReachCoverage /\ Credited /\ Process => Credited'
<1> SUFFICES ASSUME IInv, SeedsReachCoverage, Credited, Process PROVE Credited'
  OBVIOUS
<1>1. PICK i, cov, new : i = First(found) /\ cov = workDir[i].cov /\ new = HasUnique(branches, cov)
  OBVIOUS
<1>2. /\ cov \in Coverages /\ new = Hits(cov) \ Covered(branches)
      /\ UNCHANGED checked
      /\ phase = "update" /\ phase' = IF found' = {} THEN "mutate" ELSE "save"
      /\ new = {} => UNCHANGED <<queue, seedDir>>
  BY <1>1, ProcessKeeps
<1>3. CASE new = {}
  BY <1>2, <1>3 DEF Credited, CreditIsUnique
<1>4. CASE new # {}
  <2> DEFINE newest == Program(i, cov, new)
             Older(r) == LoseCredit(r, cov)
  <2>1. queue' = {Older(r) : r \in queue} \cup {newest}
    <3>1. UpdateQueue(i, cov, new)
      BY <1>1 DEF Process
    <3> QED
      BY <1>4, <3>1 DEF UpdateQueue
  <2>2. newest.cov = cov /\ newest.unique = new
    BY DEF Program
  <2>3. ASSUME NEW r \in queue
        PROVE  Older(r).cov = r.cov /\ Older(r).unique = r.unique \ Hits(cov)
    <3>1. r \in Programs
      BY DEF IInv, Typed
    <3> QED
      BY <3>1 DEF LoseCredit, Programs
  <2>4. ASSUME NEW r \in queue
        PROVE  new \cap Hits(r.cov) = {} /\ r.unique \subseteq Hits(r.cov)
    BY <1>2 DEF SeedsReachCoverage, HitsOf, Credited, CreditIsUnique
  <2> HIDE DEF newest, Older
  <2>5. ASSUME NEW r \in queue, NEW t \in queue, Older(r) # Older(t)
        PROVE  /\ Older(r).unique \cap Older(t).unique = {}
               /\ ~checked => Older(r).unique \cap Hits(Older(t).cov) = {}
    <3>1. r # t
      BY <2>5
    <3>2. r.unique \cap t.unique = {} /\ (~checked => r.unique \cap Hits(t.cov) = {})
      BY <3>1 DEF Credited, CreditIsUnique
    <3> QED
      BY <2>3, <3>2
  <2>6. ASSUME NEW r \in queue
        PROVE  /\ Older(r).unique \cap newest.unique = {}
               /\ Older(r).unique \cap Hits(newest.cov) = {}
               /\ newest.unique \cap Hits(Older(r).cov) = {}
               /\ Older(r).unique \subseteq Hits(Older(r).cov)
    BY <1>2, <2>2, <2>3, <2>4
  <2>7. newest.unique \subseteq Hits(newest.cov)
    BY <1>2, <2>2
  <2>8. CreditIsUnique'
    <3> SUFFICES ASSUME NEW q \in queue', NEW t \in queue'
                 PROVE  /\ q.unique \subseteq Hits(q.cov)
                        /\ q # t => /\ q.unique \cap t.unique = {}
                                    /\ ~checked' => q.unique \cap Hits(t.cov) = {}
      BY DEF CreditIsUnique, Hits
    <3>1. (q = newest \/ \E r \in queue : q = Older(r)) /\ (t = newest \/ \E r \in queue : t = Older(r))
      BY <2>1
    <3> QED
      BY <1>2, <2>5, <2>6, <2>7, <3>1
  <2> QED
    BY <1>2, <2>8 DEF Credited
<1> QED
  BY <1>3, <1>4

\* The recount gives each branch to the first seed that reaches it.  A seed that
\* adds nothing had no credit: until then credit was exclusive.
LEMMA RecomputeCredits == IInv /\ Credited /\ Recompute => Credited'
<1> SUFFICES ASSUME IInv, Credited, Recompute PROVE Credited'
  OBVIOUS
<1>1. /\ phase = "recheck" /\ phase' = "report" /\ Looping /\ ~checked
      /\ queue' = {seedDir'[j] : j \in SeedIds}
      /\ seedDir' = [j \in Ids |-> IF j \in SeedIds /\ AddedBy(j) # {}
                                   THEN [seedDir[j] EXCEPT !.unique = AddedBy(j)]
                                   ELSE seedDir[j]]
  BY DEF Recompute, Looping, Credited
<1>2. ASSUME NEW j \in SeedIds
      PROVE  /\ j \in Ids /\ j \in Int /\ seedDir[j] \in Programs /\ seedDir[j] \in queue
             /\ seedDir[j].id = j /\ workDir[j].cov = seedDir[j].cov
  BY <1>1, ConfigAssumption DEF IInv, Typed, SeedKept, SeedFiles, SeedIds, Ids
<1>3. ASSUME NEW j \in SeedIds, AddedBy(j) = {} PROVE seedDir[j].unique = {}
  <2> SUFFICES ASSUME NEW b \in seedDir[j].unique PROVE FALSE
    OBVIOUS
  <2>1. b \in Hits(workDir[j].cov)
    BY <1>2 DEF Credited, CreditIsUnique
  <2>2. PICK k \in SeedIds : k < j /\ b \in Hits(workDir[k].cov)
    BY <1>3, <2>1 DEF AddedBy
  <2>3. seedDir[k] # seedDir[j]
    BY <1>2, <2>2
  <2>4. seedDir[j].unique \cap Hits(seedDir[k].cov) = {}
    BY <1>1, <1>2, <2>3 DEF Credited, CreditIsUnique
  <2> QED
    BY <1>2, <2>2, <2>4
<1>4. ASSUME NEW j \in SeedIds
      PROVE  seedDir'[j].unique = AddedBy(j) /\ seedDir'[j].cov = workDir[j].cov
  <2>1. CASE AddedBy(j) = {}
    BY <1>1, <1>2, <1>3, <2>1
  <2>2. CASE AddedBy(j) # {}
    BY <1>1, <1>2, <2>2 DEF Programs
  <2> QED
    BY <2>1, <2>2
<1>5. ASSUME NEW j \in SeedIds, NEW k \in SeedIds, j # k PROVE AddedBy(j) \cap AddedBy(k) = {}
  <2>1. ASSUME NEW m \in SeedIds, NEW n \in SeedIds, m < n PROVE AddedBy(m) \cap AddedBy(n) = {}
    BY <2>1 DEF AddedBy
  <2>2. j < k \/ k < j
    BY <1>2, <1>5
  <2> QED
    BY <2>1, <2>2
<1>6. \A j \in SeedIds : AddedBy(j) \subseteq Hits(workDir[j].cov)
  BY DEF AddedBy
<1>7. checked'
  BY DEF Recompute
<1>8. CreditIsUnique'
  <2> SUFFICES ASSUME NEW q \in queue', NEW t \in queue'
               PROVE  q.unique \subseteq Hits(q.cov) /\ (q # t => q.unique \cap t.unique = {})
    BY <1>7 DEF CreditIsUnique, Hits
  <2>1. PICK j \in SeedIds, k \in SeedIds : q = seedDir'[j] /\ t = seedDir'[k]
    BY <1>1
  <2> QED
    BY <1>4, <1>5, <1>6, <2>1
<1> QED
  BY <1>1, <1>8 DEF Credited

LEMMA CreditStep == IInv /\ SeedsReachCoverage /\ Credited /\ [Next]_vars => Credited'
<1> SUFFICES ASSUME IInv, SeedsReachCoverage, Credited, [Next]_vars PROVE Credited'
  OBVIOUS
<1>1. ASSUME queue' \subseteq queue, UNCHANGED checked, phase' \in {"recheck", "drop"} => ~checked
      PROVE  Credited'
  BY <1>1 DEF Credited, CreditIsUnique, Hits
<1>2. CASE EndRound
  BY <1>1, <1>2 DEF EndRound, ShouldRecheck, feedbackVars
<1>3. CASE RecheckSeed \/ DropSeed
  BY <1>1, <1>3 DEF RecheckSeed, DropSeed, loopVars, feedbackVars, Credited
<1>4. CASE StartRound \/ Request \/ Report
  BY <1>1, <1>4 DEF StartRound, Request, Report, feedbackVars
<1>5. CASE Check
  <2>1. UNCHANGED <<queue, checked>> /\ phase' \in {"generate", "mutate", "save"}
    BY <1>5 DEF Check, feedbackVars
  <2> QED
    BY <1>1, <2>1
<1>6. CASE SaveSucc \/ Converge \/ Finish
  BY <1>1, <1>6 DEF SaveSucc, Converge, Finish, loopVars, feedbackVars
<1>7. CASE Minimize
  BY <1>1, <1>7 DEF Minimize, loopVars, feedbackVars
<1>8. CASE UNCHANGED vars
  BY <1>1, <1>8 DEF vars, loopVars, feedbackVars, Credited
<1> QED
  BY <1>2, <1>3, <1>4, <1>5, <1>6, <1>7, <1>8, ProcessCredits, RecomputeCredits DEF Next

\* No branch is credited to two seeds, and before the recheck no seed is credited
\* with a branch that another one reaches.
THEOREM CreditsAreExclusive == Spec => []CreditIsUnique
<1>1. Init => Credited
  BY DEF Init, Credited, CreditIsUnique
<1>2. Credited => CreditIsUnique
  BY DEF Credited
<1> QED
  BY <1>1, <1>2, LoopInvariant, CoverageIsReached, CreditStep, PTL DEF Spec

-----------------------------------------------------------------------------
(* Programs left out of the queue.                                          *)

LEMMA DismissedStep == IInv /\ Filed /\ Dismissed /\ [Next]_vars => Dismissed'
<1> SUFFICES ASSUME IInv, Filed, Dismissed, [Next]_vars,
                    ~checked', phase' \notin {"recheck", "drop"},
                    NEW i \in SuccIds', phase' = "update" => i # First(found')
             PROVE  Hits(succDir[i])' \subseteq Covered(branches)'
  BY DEF Dismissed
<1>1. ASSUME UNCHANGED <<checked, branches, succDir>>, phase \notin {"recheck", "drop", "update"}
      PROVE  Hits(succDir[i])' \subseteq Covered(branches)'
  BY <1>1 DEF Dismissed, SuccIds, Hits, Covered
<1>2. CASE SaveSucc
  <2>1. /\ UNCHANGED <<checked, branches, found>> /\ phase = "save" /\ phase' = "update"
        /\ succDir' = [succDir EXCEPT ![First(found)] = workDir[First(found)].cov]
    BY <1>2 DEF SaveSucc, loopVars, feedbackVars
  <2>2. i # First(found)
    BY <2>1
  <2>3. i \in SuccIds /\ succDir'[i] = succDir[i]
    BY <2>1, <2>2 DEF SuccIds, IInv, Typed
  <2>4. Hits(succDir[i]) \subseteq Covered(branches)
    BY <2>1, <2>3 DEF Dismissed
  <2> QED
    BY <2>1, <2>3, <2>4 DEF Hits, Covered
<1>3. CASE Process
  <2>1. PICK f, cov, new : f = First(found) /\ cov = workDir[f].cov /\ new = HasUnique(branches, cov)
    OBVIOUS
  <2>2. /\ cov \in Coverages /\ UNCHANGED <<checked, succDir>> /\ phase = "update"
        /\ branches' = MergeCoverage(branches, cov, TRUE)
    BY <1>3, <2>1, ProcessKeeps
  <2>3. Covered(branches') = Covered(branches) \cup Hits(cov)
    BY <2>2, MergeCovers DEF IInv, Typed
  <2>4. i \in SuccIds
    BY <2>2 DEF SuccIds
  <2>5. CASE i = f
    BY <2>1, <2>2, <2>3, <2>4, <2>5 DEF Filed, SuccKept, Hits, Covered
  <2>6. CASE i # f
    <3>1. Hits(succDir[i]) \subseteq Covered(branches)
      BY <2>1, <2>2, <2>4, <2>6 DEF Dismissed
    <3> QED
      BY <2>2, <2>3, <3>1 DEF Hits, Covered
  <2> QED
    BY <2>5, <2>6
<1>4. CASE StartRound \/ Request \/ Report \/ Converge \/ Finish
  BY <1>1, <1>4 DEF StartRound, Request, Report, Converge, Finish, loopVars, feedbackVars, fileVars
<1>5. CASE Check
  <2>1. UNCHANGED <<checked, branches, succDir>> /\ phase = "check"
    BY <1>5 DEF Check, feedbackVars
  <2> QED
    BY <1>1, <2>1
<1>6. CASE EndRound \/ Minimize
  BY <1>1, <1>6 DEF EndRound, Minimize, loopVars, feedbackVars
<1>7. CASE RecheckSeed \/ DropSeed \/ Recompute
  BY <1>7 DEF RecheckSeed, DropSeed, Recompute
<1>8. CASE UNCHANGED vars
  BY <1>8 DEF vars, loopVars, feedbackVars, fileVars, Dismissed, SuccIds, Hits, Covered
<1> QED
  BY <1>2, <1>3, <1>4, <1>5, <1>6, <1>7, <1>8 DEF Next

\* Until a recheck, a successful program that is no seed reaches nothing that is
\* not covered: dismissing it loses no branch.
THEOREM DismissingLosesNothing == Spec => []NothingDismissed
<1>1. Init => Dismissed
  BY DEF Init, Dismissed, SuccIds
<1>2. Dismissed => NothingDismissed
  BY DEF Dismissed, NothingDismissed, SuccHits
<1> QED
  BY <1>1, <1>2, LoopInvariant, FilesInvariant, DismissedStep, PTL DEF Spec

-----------------------------------------------------------------------------
(* Minimize.                                                                *)

\* Every step of the loop other than those of minimize happens before it.
LEMMA StillLooping ==
  ASSUME [Next]_vars, ~Minimize, ~Finish, ~Converge, ~UNCHANGED vars
  PROVE  Looping /\ Looping'
<1>1. CASE StartRound \/ Request \/ SaveSucc \/ EndRound \/ RecheckSeed \/ DropSeed \/ Recompute \/ Report
  BY <1>1 DEF StartRound, Request, SaveSucc, EndRound, RecheckSeed, DropSeed, Recompute, Report, Looping
<1>2. CASE Check
  <2>1. phase = "check" /\ phase' \in {"generate", "mutate", "save"}
    BY <1>2 DEF Check
  <2> QED
    BY <2>1 DEF Looping
<1>3. CASE Process
  BY <1>3 DEF Process, Looping
<1> QED
  BY <1>1, <1>2, <1>3 DEF Next

\* What visiting a program does to the seeds.
LEMMA MinimizeCuts ==
  ASSUME IInv, Filed, Cut, Minimize, NEW i, i = BestFirst(todo)
  PROVE  /\ i \in todo /\ i \in SuccIds /\ SuccIds' = SuccIds /\ succDir' = succDir
         /\ todo' = todo \ {i} /\ kept' = kept \cup Hits(succDir[i])
         /\ \A j \in SeedIds \ {i} : j \in SeedIds' /\ seedDir'[j] = seedDir[j]
         /\ SeedIds' \ {i} = SeedIds \ {i}
         /\ Hits(succDir[i]) \subseteq kept => i \notin SeedIds'
         /\ ~(Hits(succDir[i]) \subseteq kept) => i \in SeedIds' /\ seedDir'[i].cov = succDir[i]
         /\ i \in SeedIds => seedDir[i].cov = succDir[i]
<1>1. /\ i \in todo /\ i \in SuccIds /\ i \in Ids /\ todo' = todo \ {i}
      /\ workDir[i].cov = succDir[i] /\ succDir[i] \in Coverages
      /\ Retain(i, Hits(succDir[i]) \ kept)
      /\ UNCHANGED succDir
      /\ seedDir \in [Ids -> Programs \cup {Absent}]
  BY MinimizeVisits
<1> DEFINE copy == Program(i, succDir[i], {})
<1>2. copy \in Programs /\ copy.cov = succDir[i]
  BY <1>1 DEF Program, Programs
<1>3. /\ kept' = kept \cup Hits(succDir[i])
      /\ Hits(succDir[i]) \subseteq kept => seedDir' = [seedDir EXCEPT ![i] = Absent]
      /\ ~(Hits(succDir[i]) \subseteq kept) =>
            seedDir' = IF seedDir[i] = Absent THEN [seedDir EXCEPT ![i] = copy] ELSE seedDir
  BY <1>1 DEF Retain
<1> HIDE DEF copy
<1>4. i \in SeedIds => seedDir[i].cov = succDir[i]
  BY <1>1 DEF Filed, SeedFiled
<1>5. \A j \in Ids \ {i} : seedDir'[j] = seedDir[j]
  BY <1>1, <1>3
<1>6. SeedIds' \ {i} = SeedIds \ {i}
  BY <1>5 DEF SeedIds
<1>7. \A j \in SeedIds \ {i} : j \in SeedIds' /\ seedDir'[j] = seedDir[j]
  BY <1>5, <1>6 DEF SeedIds
<1>8. Hits(succDir[i]) \subseteq kept => i \notin SeedIds'
  BY <1>1, <1>3 DEF SeedIds
<1>9. ~(Hits(succDir[i]) \subseteq kept) => i \in SeedIds' /\ seedDir'[i].cov = succDir[i]
  BY <1>1, <1>2, <1>3, <1>4, AbsentAssumption DEF SeedIds
<1>10. SuccIds' = SuccIds
  BY <1>1 DEF SuccIds
<1> QED
  BY <1>1, <1>3, <1>4, <1>6, <1>7, <1>8, <1>9, <1>10

LEMMA CutStep == IInv /\ Filed /\ Cut /\ [Next]_vars => Cut'
<1> SUFFICES ASSUME IInv, Filed, Cut, [Next]_vars PROVE Cut'
  OBVIOUS
<1>1. CASE Converge
  <2>1. todo' = SuccIds /\ kept' = {} /\ UNCHANGED fileVars /\ phase = "loop"
    BY <1>1 DEF Converge
  <2>2. SuccIds' = SuccIds /\ SeedIds' = SeedIds
    BY <2>1 DEF SuccIds, SeedIds, fileVars
  <2>3. SeedIds \subseteq SuccIds
    BY <2>1 DEF Filed
  <2>4. SuccIds' \ todo' = {} /\ SeedIds' \ todo' = {}
    BY <2>1, <2>2, <2>3
  <2> QED
    BY <2>1, <2>4 DEF Cut
<1>2. CASE Minimize
  <2>1. PICK i : i = BestFirst(todo)
    OBVIOUS
  <2>2. /\ i \in todo /\ i \in SuccIds /\ SuccIds' = SuccIds /\ succDir' = succDir
        /\ todo' = todo \ {i} /\ kept' = kept \cup Hits(succDir[i])
        /\ \A j \in SeedIds \ {i} : j \in SeedIds' /\ seedDir'[j] = seedDir[j]
        /\ SeedIds' \ {i} = SeedIds \ {i}
        /\ Hits(succDir[i]) \subseteq kept => i \notin SeedIds'
        /\ ~(Hits(succDir[i]) \subseteq kept) => i \in SeedIds' /\ seedDir'[i].cov = succDir[i]
    BY <1>2, <2>1, MinimizeCuts
  <2>3. /\ kept = UNION {Hits(succDir[j]) : j \in SuccIds \ todo}
        /\ kept = UNION {Hits(seedDir[j].cov) : j \in SeedIds \ todo}
    BY <1>2 DEF Cut, Minimize, Looping
  <2>4. kept' = UNION {Hits(succDir[j]) : j \in (SuccIds \ todo) \cup {i}}
    BY <2>2, <2>3
  <2>5. SuccIds' \ todo' = (SuccIds \ todo) \cup {i}
    BY <2>2
  <2>6. \A j \in SeedIds \ todo : seedDir'[j] = seedDir[j]
    BY <2>2
  <2>7. kept' = UNION {Hits(seedDir'[j].cov) : j \in SeedIds' \ todo'}
    <3>1. CASE Hits(succDir[i]) \subseteq kept
      <4>1. SeedIds' \ todo' = SeedIds \ todo /\ kept' = kept
        BY <2>2, <3>1
      <4> QED
        BY <2>3, <2>6, <4>1
    <3>2. CASE ~(Hits(succDir[i]) \subseteq kept)
      <4>1. SeedIds' \ todo' = (SeedIds \ todo) \cup {i}
        BY <2>2, <3>2
      <4>2. seedDir'[i].cov = succDir[i]
        BY <2>2, <3>2
      <4>3. UNION {Hits(seedDir'[j].cov) : j \in (SeedIds \ todo) \cup {i}}
              = (UNION {Hits(seedDir[j].cov) : j \in SeedIds \ todo}) \cup Hits(succDir[i])
        BY <2>6, <4>2
      <4> QED
        BY <2>2, <2>3, <4>1, <4>3
    <3> QED
      BY <3>1, <3>2
  <2> QED
    BY <2>2, <2>4, <2>5, <2>7 DEF Cut, Hits
<1>3. CASE Finish \/ UNCHANGED vars
  <2>1. UNCHANGED <<todo, kept, succDir, seedDir>> /\ (Looping => Looping')
    BY <1>3 DEF Finish, vars, loopVars, visitVars, fileVars, Looping
  <2>2. SuccIds' = SuccIds /\ SeedIds' = SeedIds
    BY <2>1 DEF SuccIds, SeedIds
  <2> QED
    BY <2>1, <2>2 DEF Cut, Hits
<1> QED
  BY <1>1, <1>2, <1>3, StillLooping DEF Cut

\* At no moment do the seeds on disk reach less than before; in the end they reach
\* what the successful programs reach.
LEMMA MinimizeGrows ==
  ASSUME IInv, Filed, Cut, [Next]_vars, phase = "minimize", ~UNCHANGED vars
  PROVE  /\ HitsOf(SeedFiles) \subseteq HitsOf(SeedFiles')
         /\ phase' = "done" => HitsOf(SeedFiles') = SuccHits'
<1>1. CASE Minimize
  <2>1. PICK i : i = BestFirst(todo)
    OBVIOUS
  <2>2. /\ i \in todo
        /\ \A j \in SeedIds \ {i} : j \in SeedIds' /\ seedDir'[j] = seedDir[j]
        /\ ~(Hits(succDir[i]) \subseteq kept) => i \in SeedIds' /\ seedDir'[i].cov = succDir[i]
        /\ i \in SeedIds => seedDir[i].cov = succDir[i]
    BY <1>1, <2>1, MinimizeCuts
  <2>3. ASSUME NEW j \in SeedIds, NEW b \in Hits(seedDir[j].cov)
        PROVE  \E k \in SeedIds' : b \in Hits(seedDir'[k].cov)
    <3>1. CASE j # i
      BY <2>2, <2>3, <3>1
    <3>2. CASE j = i /\ ~(Hits(succDir[i]) \subseteq kept)
      BY <2>2, <2>3, <3>2
    <3>3. CASE j = i /\ Hits(succDir[i]) \subseteq kept
      <4>1. b \in kept
        BY <2>2, <2>3, <3>3
      <4>2. PICK k \in SeedIds \ todo : b \in Hits(seedDir[k].cov)
        BY <4>1 DEF Cut, Looping
      <4> QED
        BY <2>2, <4>2
    <3> QED
      BY <3>1, <3>2, <3>3
  <2>4. HitsOf(SeedFiles) \subseteq HitsOf(SeedFiles')
    <3> SUFFICES ASSUME NEW b \in HitsOf(SeedFiles) PROVE b \in HitsOf(SeedFiles')
      OBVIOUS
    <3>1. PICK j \in SeedIds : b \in Hits(seedDir[j].cov)
      BY DEF HitsOf, SeedFiles
    <3>2. PICK k \in SeedIds' : b \in Hits(seedDir'[k].cov)
      BY <2>3, <3>1
    <3> QED
      BY <3>2 DEF HitsOf, SeedFiles
  <2>5. phase' # "done"
    BY <1>1 DEF Minimize
  <2> QED
    BY <2>4, <2>5
<1>2. CASE Finish
  <2>1. todo = {} /\ UNCHANGED fileVars
    BY <1>2 DEF Finish
  <2>2. SeedFiles' = SeedFiles /\ SuccHits' = SuccHits
    BY <2>1 DEF SeedFiles, SeedIds, SuccHits, SuccIds, Hits, fileVars
  <2>3. kept = SuccHits
    BY <2>1 DEF Cut, Looping, SuccHits
  <2>4. kept = HitsOf(SeedFiles)
    BY <2>1 DEF Cut, Looping, HitsOf, SeedFiles
  <2> QED
    BY <2>2, <2>3, <2>4
<1>3. ~Converge
  BY DEF Converge
<1> QED
  BY <1>1, <1>2, <1>3, StillLooping DEF Looping

\* Minimize removes seeds one by one, and no branch is lost with any of them.
THEOREM MinimizeIsSafe == Spec => MinimizeLosesNothing
<1>1. Init => Cut
  BY DEF Init, Cut, Looping
<1>2. IInv /\ Filed /\ Cut /\ [Next]_vars =>
        [phase = "minimize" =>
           /\ HitsOf(SeedFiles) \subseteq HitsOf(SeedFiles')
           /\ phase' = "done" => HitsOf(SeedFiles') = SuccHits']_vars
  BY MinimizeGrows
<1> QED
  BY <1>1, <1>2, LoopInvariant, FilesInvariant, CutStep, PTL DEF Spec, MinimizeLosesNothing

-----------------------------------------------------------------------------
(* Campaigns: what an interruption of the first session, at any point,      *)
(* leaves on the disk for the second.  No recheck is configured, as a       *)
(* recheck may remove the one seed that reaches a branch.                   *)

\* Without rechecks the loop is never in one.
NoRecheck == phase \notin {"recheck", "drop"} /\ ~checked

\* The seed files reach what the programs reach that were processed.
SeedFilesReach(waiting) ==
  \A i \in SuccIds \ waiting : Hits(succDir[i]) \subseteq HitsOf(SeedFiles)

\* A seed that still has credit is the only one to reach what others are credited
\* with: what minimize copies back has none.
FilesCredited ==
  \A i, j \in SeedIds : i # j /\ seedDir[j].unique # {} =>
    seedDir[i].unique \cap Hits(seedDir[j].cov) = {}

\* The counters exist as soon as a program that reaches a branch was processed.
CountersExist ==
  /\ SeedIds # {} => counted
  /\ \A i \in SuccIds \ found : Hits(succDir[i]) # {} => counted

FirstSession ==
  /\ IInv /\ Filed /\ SeedsReachCoverage /\ Credited /\ Dismissed /\ Cut
  /\ NoRecheck
  /\ SeedFilesReach(found) /\ FilesCredited /\ CountersExist

\* What the files say after the interruption.
Interrupted ==
  /\ workDir \in [Ids -> Works \cup {Absent}]
  /\ \A i \in SeedIds : seedDir[i] \in Programs /\ SeedFiled(i)
  /\ SeedFilesReach(unprocessed) /\ FilesCredited
  /\ SeedIds # {} => counted

CampaignInv ==
  /\ sessions \in Nat \ {0}
  /\ sessions = 1 => /\ phase \notin {"down", "corrupt"} => FirstSession
                     /\ phase = "down" => Broken \/ Interrupted
                     /\ phase # "corrupt"

-----------------------------------------------------------------------------
(* Before minimize.                                                         *)

\* The seeds reach what is covered, and everything processed is.
LEMMA LoopingReaches ==
  IInv /\ Filed /\ SeedsReachCoverage /\ Dismissed /\ NoRecheck /\ Looping => SeedFilesReach(found)
<1> SUFFICES ASSUME IInv, Filed, SeedsReachCoverage, Dismissed, NoRecheck, Looping,
                    NEW i \in SuccIds \ found
             PROVE  Hits(succDir[i]) \subseteq HitsOf(SeedFiles)
  BY DEF SeedFilesReach
<1>1. Covered(branches) = HitsOf(SeedFiles)
  BY DEF SeedsReachCoverage, NoRecheck, IInv
<1>2. phase = "update" => i # First(found)
  <2>1. phase = "update" => First(found) \in found
    BY FirstIsLeast DEF IInv, Staged
  <2> QED
    BY <2>1
<1> QED
  BY <1>1, <1>2 DEF Dismissed, NoRecheck

\* The seeds of the queue are those on disk.
LEMMA LoopingCredited == IInv /\ Credited /\ NoRecheck /\ Looping => FilesCredited
<1> SUFFICES ASSUME IInv, Credited, NoRecheck, Looping,
                    NEW i \in SeedIds, NEW j \in SeedIds, i # j
             PROVE  seedDir[i].unique \cap Hits(seedDir[j].cov) = {}
  BY DEF FilesCredited
<1>1. seedDir[i] \in queue /\ seedDir[j] \in queue /\ seedDir[i].id = i /\ seedDir[j].id = j
  BY DEF IInv, SeedFiles, SeedKept
<1> QED
  BY <1>1 DEF Credited, CreditIsUnique, NoRecheck

LEMMA LoopingNext ==
  /\ (IInv /\ Filed /\ SeedsReachCoverage /\ Dismissed /\ NoRecheck /\ Looping => SeedFilesReach(found))'
  /\ (IInv /\ Credited /\ NoRecheck /\ Looping => FilesCredited)'
  BY LoopingReaches, LoopingCredited, PTL

LEMMA CoverageStep == IInv /\ SeedsReachCoverage /\ [Next]_vars => SeedsReachCoverage'
<1>1. (Pool!PoolReachesCovered <=> SeedsReachCoverage)'
  BY PoolPromise, PTL
<1> QED
  BY <1>1, PoolPromise, PoolStep, PoolKept

-----------------------------------------------------------------------------
(* The first session.                                                       *)

\* No step of a loop that is configured without a recheck begins one.
LEMMA NoRecheckStep == ~Recheck /\ NoRecheck /\ [Next]_vars => NoRecheck'
<1> SUFFICES ASSUME ~Recheck, NoRecheck, [Next]_vars PROVE NoRecheck'
  OBVIOUS
<1> USE DEF NoRecheck, loopVars
<1>1. CASE StartRound \/ Request \/ SaveSucc \/ Report \/ Converge \/ Minimize \/ Finish
  BY <1>1 DEF StartRound, Request, SaveSucc, Report, Converge, Minimize, Finish
<1>2. CASE Check
  <2>1. phase' \in {"generate", "mutate", "save"} /\ checked' = checked
    BY <1>2 DEF Check
  <2> QED
    BY <2>1
<1>3. CASE Process
  BY <1>3 DEF Process
<1>4. CASE EndRound
  BY <1>4 DEF EndRound, ShouldRecheck
<1>5. CASE RecheckSeed \/ DropSeed \/ Recompute
  BY <1>5 DEF RecheckSeed, DropSeed, Recompute
<1>6. CASE UNCHANGED vars
  BY <1>6 DEF vars
<1> QED
  BY <1>1, <1>2, <1>3, <1>4, <1>5, <1>6 DEF Next

\* What visiting a program in minimize does to the seed files.
LEMMA MinimizeFiles ==
  ASSUME IInv, Filed, Minimize, NEW j \in SeedIds'
  PROVE  \/ j \in SeedIds /\ seedDir'[j] = seedDir[j]
         \/ j \in SuccIds \ found /\ Hits(succDir[j]) # {} /\ seedDir'[j].unique = {}
<1>1. PICK i : i = BestFirst(todo)
  OBVIOUS
<1>2. /\ i \in SuccIds /\ i \in Ids /\ Retain(i, Hits(succDir[i]) \ kept) /\ phase = "minimize"
      /\ seedDir \in [Ids -> Programs \cup {Absent}]
  BY <1>1, MinimizeVisits
<1>3. i \notin found
  BY <1>2 DEF Filed, SuccKept
<1> DEFINE copy == Program(i, succDir[i], {})
<1>4. \/ seedDir' = [seedDir EXCEPT ![i] = Absent]
      \/ seedDir' = seedDir
      \/ seedDir' = [seedDir EXCEPT ![i] = copy] /\ Hits(succDir[i]) # {}
  BY <1>2 DEF Retain
<1>5. copy.unique = {} /\ j \in Ids /\ seedDir'[j] # Absent
  BY DEF Program, SeedIds
<1> HIDE DEF copy
<1> QED
  BY <1>2, <1>3, <1>4, <1>5 DEF SeedIds

\* The steps after the loop has converged.
LEMMA MinimizeStep ==
  ASSUME IInv, Filed, Cut, SeedFilesReach(found), FilesCredited, [Next]_vars, ~Looping'
  PROVE  SeedFilesReach(found)' /\ FilesCredited'
<1>1. ASSUME UNCHANGED <<found, succDir, seedDir>>
      PROVE  SeedFilesReach(found)' /\ FilesCredited'
  <2>1. SeedIds' = SeedIds /\ SuccIds' = SuccIds /\ SeedFiles' = SeedFiles
    BY <1>1 DEF SeedIds, SuccIds, SeedFiles
  <2>2. SeedFilesReach(found)'
    BY <1>1, <2>1 DEF SeedFilesReach
  <2>3. FilesCredited'
    BY <1>1, <2>1 DEF FilesCredited
  <2> QED
    BY <2>2, <2>3
<1>2. CASE Converge \/ Finish \/ UNCHANGED vars
  BY <1>1, <1>2 DEF Converge, Finish, vars, loopVars, fileVars
<1>3. CASE Minimize /\ ~UNCHANGED vars
  <2>1. phase = "minimize" /\ UNCHANGED <<found, succDir>>
    BY <1>3 DEF Minimize, loopVars
  <2>2. HitsOf(SeedFiles) \subseteq HitsOf(SeedFiles')
    BY <1>3, <2>1, MinimizeGrows
  <2>3. SuccIds' = SuccIds
    BY <2>1 DEF SuccIds
  <2>4. SeedFilesReach(found)'
    BY <2>1, <2>2, <2>3 DEF SeedFilesReach
  <2>5. FilesCredited'
    <3> SUFFICES ASSUME NEW i \in SeedIds', NEW j \in SeedIds', i # j, seedDir'[j].unique # {}
                 PROVE  seedDir'[i].unique \cap Hits(seedDir'[j].cov) = {}
      BY DEF FilesCredited
    <3>1. j \in SeedIds /\ seedDir'[j] = seedDir[j]
      BY <1>3, MinimizeFiles
    <3>2. (i \in SeedIds /\ seedDir'[i] = seedDir[i]) \/ seedDir'[i].unique = {}
      BY <1>3, MinimizeFiles
    <3> QED
      BY <3>1, <3>2 DEF FilesCredited
  <2> QED
    BY <2>4, <2>5
<1> QED
  BY <1>2, <1>3, StillLooping

\* A program that reaches a branch leaves counters behind when it is processed.
LEMMA CountersStep ==
  ASSUME IInv, Filed, NoRecheck, CountersExist, Work
  PROVE  CountersExist'
<1>1. /\ Next
      /\ counted => counted'
      /\ phase = "update" => (Hits(workDir[First(found)].cov) # {} => counted')
  BY DEF Work, CountCalls
<1>2. ASSUME SeedIds' # {} => counted',
             succDir' = succDir, \A i \in found : i \in SuccIds => i \in found'
      PROVE  CountersExist'
  <2>1. \A i \in SuccIds' \ found' : i \in SuccIds \ found /\ succDir'[i] = succDir[i]
    BY <1>2 DEF SuccIds
  <2>2. \A i \in SuccIds' \ found' : Hits(succDir'[i]) # {} => counted'
    BY <1>1, <2>1 DEF CountersExist
  <2> QED
    BY <1>2, <2>2 DEF CountersExist
<1>3. ASSUME seedDir' = seedDir PROVE SeedIds' # {} => counted'
  BY <1>1, <1>3 DEF CountersExist, SeedIds
<1>4. CASE StartRound \/ Request \/ Report \/ Converge \/ Finish
  BY <1>2, <1>3, <1>4 DEF StartRound, Request, Report, Converge, Finish, loopVars, fileVars
<1>5. CASE Check
  <2>1. UNCHANGED <<succDir, seedDir>> /\ found \subseteq found'
    BY <1>5 DEF Check
  <2> QED
    BY <1>2, <1>3, <2>1
<1>6. CASE SaveSucc
  <2>1. UNCHANGED <<found, seedDir>> /\ succDir' = [succDir EXCEPT ![First(found)] = workDir[First(found)].cov]
        /\ First(found) \in found
    BY <1>6, FirstIsLeast DEF SaveSucc, loopVars, IInv, Staged
  <2>2. \A i \in SuccIds' \ found' : i \in SuccIds \ found /\ succDir'[i] = succDir[i]
    BY <2>1 DEF SuccIds, IInv, Typed
  <2>3. \A i \in SuccIds' \ found' : Hits(succDir'[i]) # {} => counted'
    BY <1>1, <2>2 DEF CountersExist
  <2> QED
    BY <1>3, <2>1, <2>3 DEF CountersExist
<1>7. CASE Process
  <2>1. PICK f, cov, new : f = First(found) /\ cov = workDir[f].cov /\ new = HasUnique(branches, cov)
    OBVIOUS
  <2>2. /\ phase = "update" /\ UNCHANGED succDir /\ found' = found \ {f}
        /\ new = Hits(cov) \ Covered(branches)
        /\ new = {} => UNCHANGED <<queue, seedDir>>
    BY <1>7, <2>1, ProcessKeeps
  <2>3. SeedIds' # {} => counted'
    BY <1>1, <1>3, <2>1, <2>2
  <2>4. ASSUME NEW i \in SuccIds' \ found', Hits(succDir'[i]) # {} PROVE counted'
    <3>1. i \in SuccIds /\ succDir'[i] = succDir[i]
      BY <2>2, <2>4 DEF SuccIds
    <3>2. CASE i = f
      BY <1>1, <2>1, <2>2, <2>4, <3>1, <3>2 DEF Filed, SuccKept
    <3>3. CASE i # f
      BY <1>1, <2>2, <2>4, <3>1, <3>3 DEF CountersExist
    <3> QED
      BY <3>2, <3>3
  <2> QED
    BY <2>3, <2>4 DEF CountersExist
<1>8. CASE EndRound
  <2>1. UNCHANGED <<found, fileVars>>
    BY <1>8, EndRoundKeeps
  <2> QED
    BY <1>2, <1>3, <2>1 DEF fileVars
<1>9. CASE RecheckSeed \/ DropSeed \/ Recompute
  BY <1>9 DEF RecheckSeed, DropSeed, Recompute, NoRecheck
<1>10. CASE Minimize
  <2>1. UNCHANGED <<found, succDir>>
    BY <1>10 DEF Minimize, loopVars
  <2>2. SeedIds' # {} => counted'
    BY <1>1, <1>10, MinimizeFiles DEF CountersExist
  <2> QED
    BY <1>2, <2>1, <2>2
<1> QED
  BY <1>1, <1>4, <1>5, <1>6, <1>7, <1>8, <1>9, <1>10 DEF Next

LEMMA WorkKeeps ==
  ASSUME ~Recheck, FirstSession, Work
  PROVE  FirstSession'
<1>1. /\ IInv /\ Filed /\ SeedsReachCoverage /\ Credited /\ Dismissed /\ Cut
      /\ NoRecheck /\ SeedFilesReach(found) /\ FilesCredited /\ CountersExist
      /\ [Next]_vars
  BY DEF FirstSession, Work
<1>2. /\ IInv' /\ Filed' /\ SeedsReachCoverage' /\ Credited' /\ Dismissed' /\ Cut' /\ NoRecheck'
  BY <1>1, LoopStep, FiledStep, CoverageStep, CreditStep, DismissedStep, CutStep, NoRecheckStep
<1>3. CountersExist'
  BY <1>1, CountersStep
<1>4. SeedFilesReach(found)' /\ FilesCredited'
  <2>1. CASE Looping'
    BY <1>2, <2>1, LoopingNext
  <2>2. CASE ~Looping'
    BY <1>1, <2>2, MinimizeStep
  <2> QED
    BY <2>1, <2>2
<1> QED
  BY <1>2, <1>3, <1>4 DEF FirstSession

-----------------------------------------------------------------------------
(* The interruption.                                                        *)

\* What the first session has on the disk at any moment.
LEMMA FilesAtHand ==
  ASSUME FirstSession
  PROVE  /\ workDir \in [Ids -> Works \cup {Absent}]
         /\ seedDir \in [Ids -> Programs \cup {Absent}]
         /\ \A i \in SeedIds : seedDir[i] \in Programs /\ SeedFiled(i)
         /\ SeedFilesReach(found) /\ FilesCredited
         /\ SeedIds # {} => counted
<1>1. IInv /\ Filed /\ SeedFilesReach(found) /\ FilesCredited /\ CountersExist
  BY DEF FirstSession
<1>2. workDir \in [Ids -> Works \cup {Absent}] /\ seedDir \in [Ids -> Programs \cup {Absent}]
  BY <1>1 DEF IInv, Typed, Filed
<1> QED
  BY <1>1, <1>2 DEF Filed, CountersExist, SeedIds

\* Between two steps.
LEMMA CrashInterrupts ==
  ASSUME FirstSession, Crash
  PROVE  Interrupted'
<1>1. /\ workDir \in [Ids -> Works \cup {Absent}]
      /\ \A i \in SeedIds : seedDir[i] \in Programs /\ SeedFiled(i)
      /\ SeedFilesReach(found) /\ FilesCredited
      /\ SeedIds # {} => counted
  BY FilesAtHand
<1>2. UNCHANGED <<seedDir, workDir, succDir>> /\ unprocessed' = found \cap SuccIds' /\ (counted => counted')
  BY DEF Crash, Down, fileVars
<1>3. SeedIds' = SeedIds /\ SuccIds' = SuccIds /\ SeedFiles' = SeedFiles
  BY <1>2 DEF SeedIds, SuccIds, SeedFiles
<1>4. SuccIds \ unprocessed' = SuccIds \ found
  BY <1>2, <1>3
<1>5. SeedFilesReach(unprocessed)'
  BY <1>1, <1>2, <1>3, <1>4 DEF SeedFilesReach
<1>6. FilesCredited'
  BY <1>1, <1>2, <1>3 DEF FilesCredited
<1> QED
  BY <1>1, <1>2, <1>3, <1>5, <1>6 DEF Interrupted, SeedFiled

\* While programs are checked, of which none is a seed.
LEMMA CrashCheckingInterrupts ==
  ASSUME FirstSession, CrashChecking
  PROVE  Interrupted'
<1>1. /\ workDir \in [Ids -> Works \cup {Absent}]
      /\ \A i \in SeedIds : seedDir[i] \in Programs /\ SeedFiled(i)
      /\ SeedFilesReach(found) /\ FilesCredited
      /\ SeedIds # {} => counted
  BY FilesAtHand
<1>2. PICK S \in SUBSET pending :
        workDir' = [i \in Ids |-> IF i \in S THEN WorkAfter(workDir[i], Logged) ELSE workDir[i]]
  BY DEF CrashChecking
<1>3. /\ phase = "check" /\ UNCHANGED <<seedDir, succDir, counted>>
      /\ unprocessed' = found \cap SuccIds'
  BY DEF CrashChecking, Down
<1>4. SeedIds' = SeedIds /\ SuccIds' = SuccIds /\ SeedFiles' = SeedFiles
  BY <1>3 DEF SeedIds, SuccIds, SeedFiles
<1>5. \A i \in SeedIds : i \notin pending /\ i \in Ids
  BY <1>3 DEF FirstSession, IInv, Looping, SeedKept, SeedIds
<1>6. \A i \in SeedIds : workDir'[i] = workDir[i]
  BY <1>2, <1>5
<1>7. workDir' \in [Ids -> Works \cup {Absent}]
  <2>1. ASSUME NEW old \in Works \cup {Absent}
        PROVE  WorkAfter(old, Logged) \in Works \cup {Absent}
    <3> DEFINE cov == IF old = Absent THEN Absent ELSE old.cov
    <3>1. cov \in Coverages \cup {Absent}
      BY DEF Works
    <3>2. WorkAfter(old, Logged) \in {Absent, [cov |-> cov, log |-> old # Absent /\ old.log],
                                      [cov |-> cov, log |-> TRUE]}
      BY ResultAssumption DEF WorkAfter
    <3>3. (old # Absent /\ old.log) \in BOOLEAN
      BY DEF Works
    <3> HIDE DEF cov
    <3>4. [cov |-> cov, log |-> old # Absent /\ old.log] \in Works /\ [cov |-> cov, log |-> TRUE] \in Works
      BY <3>1, <3>3 DEF Works
    <3> QED
      BY <3>2, <3>4
  <2> QED
    BY <1>1, <1>2, <2>1
<1>8. SuccIds \ unprocessed' = SuccIds \ found
  BY <1>3, <1>4
<1>9. SeedFilesReach(unprocessed)'
  BY <1>1, <1>3, <1>4, <1>8 DEF SeedFilesReach
<1>10. FilesCredited'
  BY <1>1, <1>3, <1>4 DEF FilesCredited
<1>11. \A i \in SeedIds' : seedDir'[i] \in Programs /\ SeedFiled(i)'
  BY <1>1, <1>3, <1>4, <1>6 DEF SeedFiled
<1> QED
  BY <1>1, <1>3, <1>4, <1>7, <1>9, <1>10, <1>11 DEF Interrupted

\* While a seed is added: older ones have lost credit to it already.
LEMMA CrashSavingInterrupts ==
  ASSUME FirstSession, CrashSaving
  PROVE  Interrupted'
<1>1. /\ workDir \in [Ids -> Works \cup {Absent}]
      /\ \A i \in SeedIds : seedDir[i] \in Programs /\ SeedFiled(i)
      /\ SeedFilesReach(found) /\ FilesCredited
      /\ seedDir \in [Ids -> Programs \cup {Absent}]
  BY FilesAtHand
<1>0. PICK cov : cov = workDir[First(found)].cov
  OBVIOUS
<1>2. PICK S \in SUBSET queue :
        seedDir' = [j \in Ids |-> IF \E q \in S : q.id = j
                                  THEN LoseCredit(CHOOSE q \in S : q.id = j, cov) ELSE seedDir[j]]
  BY <1>0 DEF CrashSaving, SavedWithout
<1>3. /\ phase = "update" /\ UNCHANGED <<workDir, succDir>> /\ counted' = TRUE
      /\ unprocessed' = found \cap SuccIds'
  BY DEF CrashSaving, Down
<1>4. queue = SeedFiles
  BY <1>3 DEF FirstSession, IInv, Looping
<1>5. ASSUME NEW j \in Ids
      PROVE  \/ seedDir'[j] = seedDir[j]
             \/ j \in SeedIds /\ seedDir'[j] = LoseCredit(seedDir[j], cov)
  <2>1. CASE ~\E q \in S : q.id = j
    BY <1>2, <2>1
  <2>2. CASE \E q \in S : q.id = j
    <3>1. PICK q \in S : q = (CHOOSE p \in S : p.id = j) /\ q.id = j
      BY <2>2
    <3>2. PICK k \in SeedIds : q = seedDir[k]
      BY <1>2, <1>4 DEF SeedFiles
    <3>3. k = j
      BY <1>1, <3>1, <3>2 DEF SeedFiled
    <3>4. seedDir'[j] = LoseCredit(q, cov)
      BY <1>2, <2>2, <3>1
    <3> QED
      BY <3>2, <3>3, <3>4
  <2> QED
    BY <2>1, <2>2
<1>6. ASSUME NEW j \in Ids
      PROVE  /\ j \in SeedIds' <=> j \in SeedIds
             /\ j \in SeedIds => /\ seedDir'[j] \in Programs /\ seedDir'[j].id = seedDir[j].id
                                 /\ seedDir'[j].cov = seedDir[j].cov
                                 /\ seedDir'[j].unique \subseteq seedDir[j].unique
  <2>1. CASE seedDir'[j] = seedDir[j]
    BY <1>1, <2>1 DEF SeedIds
  <2>2. CASE j \in SeedIds /\ seedDir'[j] = LoseCredit(seedDir[j], cov)
    <3>1. seedDir[j] \in Programs
      BY <1>1, <2>2
    <3>2. /\ LoseCredit(seedDir[j], cov) \in Programs
          /\ LoseCredit(seedDir[j], cov).id = seedDir[j].id
          /\ LoseCredit(seedDir[j], cov).cov = seedDir[j].cov
          /\ LoseCredit(seedDir[j], cov).unique \subseteq seedDir[j].unique
      BY <3>1 DEF LoseCredit, Programs
    <3>3. seedDir'[j] # Absent
      BY <2>2, <3>2, AbsentAssumption
    <3> QED
      BY <2>2, <3>2, <3>3 DEF SeedIds
  <2> QED
    BY <1>5, <2>1, <2>2
<1>7. SeedIds' = SeedIds
  BY <1>6 DEF SeedIds
<1>8. \A i \in SeedIds : i \in Ids
  BY DEF SeedIds
<1>9. HitsOf(SeedFiles') = HitsOf(SeedFiles)
  <2>1. HitsOf(SeedFiles) = UNION {Hits(seedDir[j].cov) : j \in SeedIds}
    BY DEF HitsOf, SeedFiles
  <2>2. HitsOf(SeedFiles') = UNION {Hits(seedDir'[j].cov) : j \in SeedIds}
    BY <1>7 DEF HitsOf, SeedFiles
  <2> QED
    BY <1>6, <1>8, <2>1, <2>2
<1>10. SuccIds' \ unprocessed' = SuccIds \ found
  BY <1>3 DEF SuccIds
<1>11. SeedFilesReach(unprocessed)'
  BY <1>1, <1>3, <1>9, <1>10 DEF SeedFilesReach
<1>12. FilesCredited'
  <2> SUFFICES ASSUME NEW i \in SeedIds, NEW j \in SeedIds, i # j, seedDir'[j].unique # {}
               PROVE  seedDir'[i].unique \cap Hits(seedDir'[j].cov) = {}
    BY <1>7 DEF FilesCredited
  <2>1. /\ seedDir'[i].unique \subseteq seedDir[i].unique
        /\ seedDir'[j].unique \subseteq seedDir[j].unique /\ seedDir'[j].cov = seedDir[j].cov
    BY <1>6, <1>8
  <2>2. seedDir[i].unique \cap Hits(seedDir[j].cov) = {}
    BY <1>1, <2>1 DEF FilesCredited
  <2> QED
    BY <2>1, <2>2
<1>13. \A i \in SeedIds' : seedDir'[i] \in Programs /\ SeedFiled(i)'
  BY <1>1, <1>3, <1>6, <1>7, <1>8 DEF SeedFiled
<1> QED
  BY <1>1, <1>3, <1>11, <1>12, <1>13 DEF Interrupted

\* In the middle of a write of a successful program, which is not processed yet.
LEMMA CrashWritingSuccInterrupts ==
  ASSUME FirstSession, CrashWritingSucc
  PROVE  Interrupted'
<1>1. /\ workDir \in [Ids -> Works \cup {Absent}]
      /\ \A i \in SeedIds : seedDir[i] \in Programs /\ SeedFiled(i)
      /\ SeedFilesReach(found) /\ FilesCredited
      /\ SeedIds # {} => counted
  BY FilesAtHand
<1>2. /\ UNCHANGED <<seedDir, workDir>> /\ unprocessed' = found \cap SuccIds'
      /\ succDir' = [succDir EXCEPT ![First(found)] = workDir[First(found)].cov]
      /\ phase \in {"save", "update"}
  BY DEF CrashWritingSucc, Down
<1>3. counted => counted'
  BY DEF CrashWritingSucc, CountCalls
<1>4. SeedIds' = SeedIds /\ SeedFiles' = SeedFiles
  BY <1>2 DEF SeedIds, SeedFiles
<1>5. First(found) \in found
  BY <1>2, FirstIsLeast DEF FirstSession, IInv, Staged
<1>6. ASSUME NEW i \in SuccIds' \ unprocessed'
      PROVE  i \in SuccIds \ found /\ succDir'[i] = succDir[i]
  <2>1. i \notin found /\ i \in Ids /\ succDir'[i] # Absent
    BY <1>2, <1>6 DEF SuccIds
  <2>2. succDir'[i] = succDir[i]
    BY <1>2, <1>5, <2>1 DEF FirstSession, IInv, Typed
  <2> QED
    BY <2>1, <2>2 DEF SuccIds
<1>7. SeedFilesReach(unprocessed)'
  BY <1>1, <1>4, <1>6 DEF SeedFilesReach
<1>8. FilesCredited'
  BY <1>1, <1>2, <1>4 DEF FilesCredited
<1> QED
  BY <1>1, <1>2, <1>3, <1>4, <1>7, <1>8 DEF Interrupted, SeedFiled

\* In the middle of a write of a file that the next session reads.
LEMMA CrashWritingBreaks ==
  ASSUME CrashWritingMisc \/ CrashWritingSeed
  PROVE  Broken'
<1>1. CASE CrashWritingMisc
  <2>1. TornMisc \in torn' /\ TornMisc.dir # "succ_seeds"
    BY <1>1 DEF CrashWritingMisc, TornMisc, Torn
  <2> QED
    BY <2>1 DEF Broken
<1>2. CASE CrashWritingSeed
  <2>1. PICK i \in Ids : torn' = torn \cup {Torn("seeds", i)}
    BY <1>2 DEF CrashWritingSeed
  <2>2. Torn("seeds", i).dir # "succ_seeds"
    BY DEF Torn
  <2> QED
    BY <2>1, <2>2 DEF Broken
<1> QED
  BY <1>1, <1>2

-----------------------------------------------------------------------------
(* The next session.                                                        *)

\* Merged in either mode, the seeds cover exactly what they reach: in the mode that
\* is not exponential the first seed to reach a branch is merged for it.
LEMMA RestoreCovers ==
  ASSUME \A i \in SeedIds : seedDir[i] \in Programs /\ SeedFiled(i)
  PROVE  Covered(Restored) = HitsOf(SeedFiles)
<1>1. ASSUME NEW j \in SeedIds
      PROVE  j \in Ids /\ workDir[j].cov \in Coverages /\ workDir[j].cov = seedDir[j].cov
  BY DEF SeedIds, SeedFiled, Programs
<1> DEFINE Merged(b) == {j \in SeedIds : \/ ExponentBranch
                                         \/ \A k \in SeedIds : k < j => workDir[k].cov[b] = NotHit}
<1>2. ASSUME NEW b \in Branches, NEW j \in SeedIds, workDir[j].cov[b] # NotHit
      PROVE  \E k \in Merged(b) : workDir[k].cov[b] # NotHit
  <2> DEFINE S == {k \in SeedIds : workDir[k].cov[b] # NotHit}
  <2>1. S \subseteq Ids /\ S # {}
    BY <1>2 DEF SeedIds
  <2>2. PICK k \in S : \A l \in S : k <= l
    <3> HIDE DEF S
    <3> QED
      BY <2>1, FirstIsLeast
  <2>3. k \in Int /\ \A l \in SeedIds : l \in Int
    BY ConfigAssumption DEF SeedIds, Ids
  <2>4. \A l \in SeedIds : l < k => workDir[l].cov[b] = NotHit
    BY <2>2, <2>3
  <2> QED
    BY <2>2, <2>4
<1>3. ASSUME NEW b \in Branches
      PROVE  (Restored[b] # Bits) <=> \E j \in SeedIds : workDir[j].cov[b] # NotHit
  <2> DEFINE C == {workDir[j].cov[b] : j \in Merged(b)}
  <2>1. Restored[b] = Bits \ C
    BY DEF Restored
  <2>2. ASSUME NEW j \in SeedIds, workDir[j].cov[b] # NotHit PROVE Restored[b] # Bits
    <3>1. PICK k \in Merged(b) : workDir[k].cov[b] # NotHit
      BY <1>2, <2>2
    <3>2. workDir[k].cov[b] \in C /\ workDir[k].cov[b] \in Bits
      BY <1>1, <3>1 DEF Coverages
    <3> QED
      BY <2>1, <3>2
  <2>3. ASSUME Restored[b] # Bits PROVE \E j \in SeedIds : workDir[j].cov[b] # NotHit
    <3>1. PICK c \in C : c \in Bits
      BY <2>1, <2>3
    <3> QED
      BY <3>1, BitsAssumption
  <2> QED
    BY <2>2, <2>3
<1>4. HitsOf(SeedFiles) = {b \in Branches : \E j \in SeedIds : workDir[j].cov[b] # NotHit}
  BY <1>1 DEF HitsOf, SeedFiles, Hits
<1> QED
  BY <1>3, <1>4 DEF Covered

\* Nothing is done while the campaign is down but to resume it.
LEMMA DownWaits ==
  ASSUME phase \in {"down", "corrupt"}, CampaignNext
  PROVE  Resume \/ ResumeFails
<1>1. ~Next
  BY DEF Next, StartRound, Request, Check, SaveSucc, Process, EndRound, RecheckSeed, DropSeed,
         Recompute, Report, Converge, Minimize, Finish
<1> QED
  BY <1>1 DEF CampaignNext, Work, Crash, CrashChecking, CrashSaving, CrashWritingMisc,
              CrashWritingSucc, CrashWritingSeed, Running

LEMMA CampaignHolds ==
  ASSUME ~Recheck
  PROVE  /\ CampaignInit => CampaignInv
         /\ CampaignInv /\ [CampaignNext]_allVars => CampaignInv'
<1>1. ASSUME CampaignInit PROVE CampaignInv
  <2>1. Init /\ sessions = 1 /\ phase = "loop"
    BY <1>1 DEF CampaignInit, Init
  <2>2. SeedIds = {} /\ SuccIds = {}
    BY <2>1 DEF Init, SeedIds, SuccIds
  <2>3. IInv /\ Filed /\ Credited /\ Dismissed /\ Cut
    BY <2>1, <2>2, InitInv DEF Init, Filed, Looping, Credited, CreditIsUnique, Dismissed, Cut
  <2>4. SeedsReachCoverage
    BY <2>1 DEF Init, SeedsReachCoverage, Covered, Untouched, HitsOf
  <2>5. NoRecheck /\ SeedFilesReach(found) /\ FilesCredited /\ CountersExist
    BY <2>1, <2>2 DEF Init, NoRecheck, SeedFilesReach, FilesCredited, CountersExist
  <2> QED
    BY <2>1, <2>3, <2>4, <2>5 DEF CampaignInv, FirstSession
<1>2. ASSUME CampaignInv, [CampaignNext]_allVars PROVE CampaignInv'
  <2>0. sessions \in Nat \ {0}
    BY <1>2 DEF CampaignInv
  <2>1. CASE sessions # 1
    <3>1. sessions' = sessions \/ sessions' = sessions + 1
      BY <1>2 DEF CampaignNext, Work, Crash, CrashChecking, CrashSaving, CrashWritingMisc,
                  CrashWritingSucc, CrashWritingSeed, Down, Resume, ResumeFails, allVars, campaignVars
    <3> QED
      BY <2>0, <2>1, <3>1 DEF CampaignInv
  <2>2. CASE Resume \/ ResumeFails
    <3>1. sessions' = sessions + 1
      BY <2>2 DEF Resume, ResumeFails
    <3> QED
      BY <2>0, <3>1 DEF CampaignInv
  <2>3. ASSUME sessions = 1, phase \notin {"down", "corrupt"}, Work PROVE CampaignInv'
    <3>1. FirstSession'
      BY <1>2, <2>3, WorkKeeps DEF CampaignInv
    <3>2. phase' \notin {"down", "corrupt"} /\ sessions' = sessions
      BY <2>3, <3>1 DEF FirstSession, IInv, Typed, Phases, Work
    <3> QED
      BY <2>3, <3>1, <3>2 DEF CampaignInv
  <2>4. ASSUME sessions = 1, phase \notin {"down", "corrupt"},
               \/ Crash \/ CrashChecking \/ CrashSaving
               \/ CrashWritingMisc \/ CrashWritingSucc \/ CrashWritingSeed
        PROVE  CampaignInv'
    <3>1. Broken' \/ Interrupted'
      BY <1>2, <2>4, CrashInterrupts, CrashCheckingInterrupts, CrashSavingInterrupts,
         CrashWritingSuccInterrupts, CrashWritingBreaks DEF CampaignInv
    <3>2. phase' = "down" /\ sessions' = sessions
      BY <2>4 DEF Crash, CrashChecking, CrashSaving, CrashWritingMisc, CrashWritingSucc,
                  CrashWritingSeed, Down
    <3> QED
      BY <2>4, <3>1, <3>2 DEF CampaignInv
  <2>5. CASE UNCHANGED allVars
    BY <1>2, <2>5 DEF CampaignInv, FirstSession, Interrupted, allVars, vars, campaignVars, loopVars,
         feedbackVars, visitVars, fileVars, IInv, Typed, Staged, SeedKept, Looping, SeedIds, SuccIds,
         SeedFiles, Filed, SuccKept, SeedFiled, SeedsReachCoverage, Credited, CreditIsUnique, Dismissed,
         Cut, NoRecheck, SeedFilesReach, FilesCredited, CountersExist, Hits, Covered, Broken
  <2>6. CASE phase \in {"down", "corrupt"} /\ CampaignNext
    BY <2>2, <2>6, DownWaits
  <2> QED
    BY <1>2, <2>1, <2>2, <2>3, <2>4, <2>5, <2>6 DEF CampaignNext
<1> QED
  BY <1>1, <1>2

\* What the resumed session finds.
LEMMA Resumes ==
  ASSUME MaxSessions \in {1, 2}, CampaignInv, CampaignNext, phase = "down"
  PROVE  /\ Broken \/ Interrupted
         /\ Resumable => Interrupted
         /\ phase' = "corrupt" => ~Resumable
         /\ phase' = "loop" => Resumable /\ queue' = SeedFiles /\ branches' = Restored
<1>1. Resume \/ ResumeFails
  BY DownWaits
<1>2. sessions = 1
  BY <1>1 DEF Resume, ResumeFails, CampaignInv
<1>3. Broken \/ Interrupted
  BY <1>2 DEF CampaignInv
<1>4. Resumable => ~Broken
  BY DEF Resumable, Broken
<1> QED
  BY <1>1, <1>3, <1>4 DEF Resume, ResumeFails, SeedFiles

\* Wherever the first session was interrupted, the second one knows every branch
\* of the programs that were processed; it is refused, if there is a seed, only when
\* the interruption cut a write of a file that it reads.
THEOREM NoBranchForgotten ==
  ASSUME ~Recheck, MaxSessions \in {1, 2}
  PROVE  CampaignSpec => ResumeKeepsCoverage
<1>1. ASSUME CampaignInv, CampaignNext, phase = "down"
      PROVE  /\ phase' = "corrupt" => SeedIds = {} \/ Broken
             /\ phase' = "loop" =>
                  /\ Covered(branches') = HitsOf(SeedFiles)
                  /\ UNION {Hits(succDir[i]) : i \in SuccIds \ unprocessed} \subseteq Covered(branches')
  <2>1. /\ Broken \/ Interrupted
        /\ Resumable => Interrupted
        /\ phase' = "corrupt" => ~Resumable
        /\ phase' = "loop" => Resumable /\ queue' = SeedFiles /\ branches' = Restored
    BY <1>1, Resumes
  <2>2. Interrupted => Covered(Restored) = HitsOf(SeedFiles)
    BY RestoreCovers DEF Interrupted
  <2>3. Interrupted => \A j \in SeedIds : HasProfile(j)
    BY AbsentAssumption DEF Interrupted, SeedFiled, HasProfile, Programs
  <2>4. SeedIds # {} => Broken \/ Resumable
    BY <2>1, <2>3 DEF Resumable, Interrupted, Broken
  <2>5. Interrupted => UNION {Hits(succDir[i]) : i \in SuccIds \ unprocessed} \subseteq HitsOf(SeedFiles)
    BY DEF Interrupted, SeedFilesReach
  <2> QED
    BY <2>1, <2>2, <2>4, <2>5
<1>2. CampaignInv /\ [CampaignNext]_allVars =>
        [phase = "down" =>
           /\ phase' = "corrupt" => SeedIds = {} \/ Broken
           /\ phase' = "loop" =>
                /\ Covered(branches') = HitsOf(SeedFiles)
                /\ UNION {Hits(succDir[i]) : i \in SuccIds \ unprocessed}
                     \subseteq Covered(branches')]_allVars
  BY <1>1
<1> QED
  BY <1>2, CampaignHolds, PTL DEF CampaignSpec, ResumeKeepsCoverage

\* The credits that an interruption leaves are as exclusive as in a running session.
THEOREM NoCreditShared ==
  ASSUME ~Recheck, MaxSessions \in {1, 2}
  PROVE  CampaignSpec => ResumeKeepsCredit
<1>1. ASSUME CampaignInv, CampaignNext, phase = "down", phase' = "loop",
             NEW q \in queue', NEW t \in queue', q # t, t.unique # {}
      PROVE  q.unique \cap Hits(t.cov) = {}
  <2>1. Interrupted /\ queue' = SeedFiles
    BY <1>1, Resumes
  <2>2. PICK i \in SeedIds, j \in SeedIds : q = seedDir[i] /\ t = seedDir[j]
    BY <1>1, <2>1 DEF SeedFiles
  <2> QED
    BY <1>1, <2>1, <2>2 DEF Interrupted, FilesCredited
<1>2. CampaignInv /\ [CampaignNext]_allVars =>
        [phase = "down" /\ phase' = "loop" =>
           \A q, t \in queue' :
             q # t /\ t.unique # {} => q.unique \cap Hits(t.cov) = {}]_allVars
  BY <1>1
<1> QED
  BY <1>2, CampaignHolds, PTL DEF CampaignSpec, ResumeKeepsCredit
=============================================================================
