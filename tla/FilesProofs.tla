---------------------------- MODULE FilesProofs ----------------------------
(***************************************************************************)
(* What holds of the shared corpus and of the results for any number of    *)
(* programs and processes, any features and any corpora; and of the guard  *)
(* files and of the analyses of trees as they are part of MCFiles'         *)
(* specification.                                                          *)
(***************************************************************************)
EXTENDS MCFiles, TLAPS

(***************************************************************************)
(* The invariant.  Programs that were not launched wait; results are those *)
(* of processes that have ended.  A process that merges knows nothing but  *)
(* what the shared corpus reaches or what it is still to copy, and it      *)
(* knows each file it is past.                                             *)
(***************************************************************************)
Staged == \A p \in Programs : p > launched => pc[p] = "waiting"

Collected ==
  /\ Len(results) <= launched
  /\ \A i \in 1..Len(results) : pc[i] = "exited" /\ results[i] = outcome[i]
  /\ stage = "returned" => Len(results) = NumPrograms

Started(p) == pc[p] \in {"merging", "copying", "writing", "written"}

Pending(p) == UNION {found[p][i] : i \in fresh[p]}

MergeSound(p) ==
  /\ pc[p] \in {"waiting", "checking", "reading"} => at[p] = 1 /\ fresh[p] = {}
  /\ Started(p) =>
       /\ fresh[p] \subseteq 1..Len(found[p])
       /\ known[p] \subseteq Reach(shared) \cup Pending(p)
       /\ \A i \in 1..Len(found[p]) : i < at[p] => found[p][i] \subseteq known[p]
  /\ pc[p] \in {"copying", "writing", "written"} => at[p] > Len(found[p])
  /\ pc[p] \in {"writing", "written"} => fresh[p] = {}

Sound == \A p \in Programs : MergeSound(p)

EInv == TypeOK /\ Staged /\ Collected /\ Sound /\ BackedByCorpus /\ FoundIsKept

USE EvolutionAssumption

LEMMA InitEInv == Init => EInv
<1> SUFFICES ASSUME Init PROVE EInv
  OBVIOUS
<1>1. TypeOK
  BY DEF Init, TypeOK, Places, Outcomes, Damaged, Files, Programs
<1>2. Staged /\ Collected /\ Sound
  BY DEF Init, Staged, Collected, Sound, MergeSound, Started, Programs
<1>3. BackedByCorpus /\ FoundIsKept
  BY DEF Init, BackedByCorpus, FoundIsKept, Damaged
<1> QED
  BY <1>1, <1>2, <1>3 DEF EInv

-----------------------------------------------------------------------------
(* Types, launching and collecting.                                         *)

LEMMA TypeStep == EInv /\ [Next]_vars => TypeOK'
<1> SUFFICES ASSUME EInv, [Next]_vars PROVE TypeOK'
  OBVIOUS
<1> USE DEF EInv, TypeOK, Places, Outcomes, parentVars, checkVars, mergeVars, diskVars, Goto
<1>1. ASSUME NEW p \in Programs, Check(p) PROVE TypeOK'
  <2>1. ASSUME NEW how \in {"correct", "error", "fuzzer"}, NEW fault \in BOOLEAN,
               Exit(p, how, fault)
        PROVE TypeOK'
    BY <2>1 DEF Exit
  <2>2. CASE CheckFails(p)
    BY <2>1, <2>2 DEF CheckFails
  <2>3. CASE Covered(p)
    BY <2>3 DEF Covered
  <2>4. CASE ReadFeatures(p)
    BY <2>4 DEF ReadFeatures, Reach, Files
  <2>5. CASE ReadFails(p)
    BY <2>1, <2>5 DEF ReadFails
  <2>6. CASE MergeFails(p)
    BY <2>1, <2>6 DEF MergeFails
  <2>7. CASE Merge(p)
    <3>1. found[p][at[p]] \in Files
      BY <2>7 DEF Merge
    <3> QED
      BY <2>7, <3>1 DEF Merge, Files
  <2>8. CASE Merged(p)
    BY <2>8 DEF Merged
  <2>9. CASE Copy(p)
    <3>1. PICK i \in fresh[p] : /\ shared' = shared \cup {found[p][i]}
                                /\ fresh' = [fresh EXCEPT ![p] = @ \ {i}]
      BY <2>9 DEF Copy
    <3>2. i \in 1..Len(found[p])
      BY <2>9 DEF Copy, Sound, MergeSound, Started
    <3>3. found[p][i] \in Files
      BY <3>2
    <3> QED
      BY <2>9, <3>1, <3>3 DEF Copy
  <2>10. CASE Truncate(p)
    BY <2>10 DEF Truncate, Damaged, Files
  <2>11. CASE WriteFeatures(p)
    BY <2>11 DEF WriteFeatures, Damaged, Whole, Files
  <2>12. CASE Finish(p)
    BY <2>1, <2>12 DEF Finish
  <2> QED
    BY <1>1, <2>2, <2>3, <2>4, <2>5, <2>6, <2>7, <2>8, <2>9, <2>10, <2>11, <2>12 DEF Check
<1>2. CASE Launch
  BY <1>2 DEF Launch, Staged, Programs
<1>3. CASE Collect
  BY <1>3 DEF Collect, Programs
<1>4. CASE Return
  BY <1>4 DEF Return
<1>5. CASE Interrupt
  BY <1>5 DEF Interrupt
<1>6. CASE UNCHANGED vars
  BY <1>6 DEF vars
<1> QED
  BY <1>1, <1>2, <1>3, <1>4, <1>5, <1>6 DEF Next

\* A step of a process leaves the others where they are, and an ended one has no step.
LEMMA CheckIsLocal ==
  ASSUME EInv, NEW p \in Programs, Check(p)
  PROVE  /\ UNCHANGED parentVars
         /\ pc[p] \notin {"waiting", "exited", "killed"}
         /\ \A q \in Programs \ {p} :
              /\ pc'[q] = pc[q] /\ outcome'[q] = outcome[q] /\ found'[q] = found[q]
              /\ at'[q] = at[q] /\ fresh'[q] = fresh[q] /\ known'[q] = known[q]
<1> USE DEF EInv, TypeOK, parentVars, checkVars, mergeVars, diskVars, Goto, Exit
<1>1. CASE CheckFails(p) \/ Covered(p)
  BY <1>1 DEF CheckFails, Covered
<1>2. CASE ReadFeatures(p) \/ ReadFails(p) \/ MergeFails(p)
  BY <1>2 DEF ReadFeatures, ReadFails, MergeFails
<1>3. CASE Merge(p) \/ Merged(p)
  BY <1>3 DEF Merge, Merged
<1>4. CASE Copy(p)
  BY <1>4 DEF Copy
<1>5. CASE Truncate(p) \/ WriteFeatures(p) \/ Finish(p)
  BY <1>5 DEF Truncate, WriteFeatures, Finish
<1> QED
  BY <1>1, <1>2, <1>3, <1>4, <1>5 DEF Check

LEMMA CollectStep == EInv /\ [Next]_vars => Staged' /\ Collected'
<1> SUFFICES ASSUME EInv, [Next]_vars PROVE Staged' /\ Collected'
  OBVIOUS
<1>0. \A i \in 1..Len(results) : pc[i] = "exited" /\ results[i] = outcome[i]
  BY DEF EInv, Collected
<1>1. ASSUME NEW p \in Programs, Check(p) PROVE Staged' /\ Collected'
  <2>1. Staged'
    BY <1>1, CheckIsLocal DEF EInv, Staged, parentVars
  <2>2. Len(results) \in Nat /\ Len(results) <= NumPrograms
    BY DEF EInv, Collected, TypeOK
  <2>3. Collected'
    BY <1>1, <2>2, CheckIsLocal DEF EInv, Collected, parentVars, Programs
  <2> QED
    BY <2>1, <2>3
<1>2. CASE Collect
  <2>1. Staged'
    BY <1>2 DEF Collect, EInv, Staged
  <2>2. /\ results \in Seq(Outcomes) /\ Len(results) \in Nat /\ Len(results) < launched
        /\ outcome[Len(results) + 1] \in Outcomes /\ launched \in Nat
        /\ pc[Len(results) + 1] = "exited"
    <3>1. /\ results \in Seq(Outcomes) /\ launched \in 0..NumPrograms
          /\ outcome \in [Programs -> Outcomes]
      BY DEF EInv, TypeOK
    <3>2. Len(results) < launched /\ pc[Len(results) + 1] = "exited"
      BY <1>2 DEF Collect
    <3> QED
      BY <3>1, <3>2 DEF Programs
  <2>3. /\ stage = "running" /\ stage' = stage /\ launched' = launched
        /\ pc' = pc /\ outcome' = outcome
        /\ results' = Append(results, outcome[Len(results) + 1])
    BY <1>2 DEF Collect, checkVars
  <2>4. /\ Len(results') = Len(results) + 1
        /\ \A i \in 1..Len(results) : results'[i] = results[i]
        /\ results'[Len(results) + 1] = outcome[Len(results) + 1]
    BY <2>2, <2>3
  <2>5. ASSUME NEW i \in 1..Len(results')
        PROVE  pc'[i] = "exited" /\ results'[i] = outcome'[i]
    <3>1. i \in 1..Len(results) \/ i = Len(results) + 1
      BY <2>2, <2>4
    <3> QED
      BY <1>0, <2>2, <2>3, <2>4, <3>1
  <2>6. Len(results') <= launched' /\ stage' # "returned"
    BY <2>2, <2>3, <2>4
  <2> QED
    BY <2>1, <2>5, <2>6 DEF Collected
<1> USE DEF EInv, TypeOK, Staged, Collected, parentVars, checkVars, mergeVars, diskVars, Programs
<1>3. CASE Launch
  BY <1>3 DEF Launch
<1>4. CASE Return
  BY <1>4 DEF Return
<1>5. CASE Interrupt
  BY <1>5 DEF Interrupt
<1>6. CASE UNCHANGED vars
  BY <1>6 DEF vars
<1> QED
  BY <1>1, <1>2, <1>3, <1>4, <1>5, <1>6 DEF Next
-----------------------------------------------------------------------------
(* The shared corpus.                                                       *)

\* The shared corpus only grows.
LEMMA CorpusGrows == EInv /\ [Next]_vars => Reach(shared) \subseteq Reach(shared')
<1> SUFFICES ASSUME EInv, [Next]_vars PROVE Reach(shared) \subseteq Reach(shared')
  OBVIOUS
<1>1. ASSUME NEW p \in Programs, Check(p) PROVE shared \subseteq shared'
  BY <1>1 DEF Check, CheckFails, Covered, ReadFeatures, ReadFails, MergeFails, Merge, Merged,
              Copy, Truncate, WriteFeatures, Finish, Exit, diskVars
<1>2. shared \subseteq shared'
  BY <1>1 DEF Next, Launch, Collect, Return, Interrupt, vars, diskVars
<1> QED
  BY <1>2 DEF Reach

\* Where a process that merges stands is not disturbed by a corpus that grows.
LEMMA OthersStaySound ==
  ASSUME NEW q \in Programs, MergeSound(q), Reach(shared) \subseteq Reach(shared'),
         pc'[q] = pc[q] \/ pc'[q] \in {"exited", "killed"}, found'[q] = found[q],
         at'[q] = at[q], fresh'[q] = fresh[q], known'[q] = known[q]
  PROVE  MergeSound(q)'
BY DEF MergeSound, Started, Pending

LEMMA CheckStaysSound ==
  ASSUME EInv, NEW p \in Programs, Check(p)
  PROVE  MergeSound(p)'
<1> USE DEF EInv, TypeOK, Goto, Exit, parentVars, checkVars, mergeVars, diskVars
<1>0. MergeSound(p)
  BY DEF Sound
<1>1. CASE CheckFails(p) \/ ReadFails(p) \/ MergeFails(p) \/ Finish(p)
  BY <1>1 DEF CheckFails, ReadFails, MergeFails, Finish, MergeSound, Started
<1>2. CASE Covered(p)
  BY <1>0, <1>2 DEF Covered, MergeSound, Started
<1>3. CASE ReadFeatures(p)
  <2>1. known'[p] \subseteq Reach(shared)
    BY <1>3 DEF ReadFeatures, BackedByCorpus
  <2>2. at[p] = 1 /\ fresh[p] = {}
    BY <1>0, <1>3 DEF ReadFeatures, MergeSound
  <2> QED
    BY <1>3, <2>1, <2>2 DEF ReadFeatures, MergeSound, Started
<1>4. CASE Merge(p)
  <2> DEFINE file == found[p][at[p]]
  <2>1. /\ at[p] \in 1..Len(found[p]) /\ pc[p] = "merging" /\ pc'[p] = "merging"
        /\ known'[p] = known[p] \cup file /\ at'[p] = at[p] + 1
        /\ fresh'[p] = IF file \subseteq known[p] THEN fresh[p] ELSE fresh[p] \cup {at[p]}
        /\ found' = found /\ shared' = shared
    BY <1>4 DEF Merge
  <2>2. known'[p] \subseteq Reach(shared) \cup UNION {found[p][i] : i \in fresh'[p]}
    BY <1>0, <2>1 DEF MergeSound, Started, Pending
  <2>3. \A i \in 1..Len(found[p]) : i < at'[p] => found[p][i] \subseteq known'[p]
    BY <1>0, <2>1 DEF MergeSound, Started
  <2>4. fresh'[p] \subseteq 1..Len(found[p])
    BY <1>0, <2>1 DEF MergeSound, Started
  <2>5. known'[p] \subseteq Reach(shared') \cup Pending(p)'
    BY <2>1, <2>2, SMTT(20) DEF Pending
  <2> HIDE DEF EInv, TypeOK
  <2> QED
    BY <2>1, <2>3, <2>4, <2>5 DEF MergeSound, Started
<1>5. CASE Merged(p)
  <2>1. /\ pc[p] = "merging" /\ pc'[p] = "copying" /\ at[p] > Len(found[p])
        /\ UNCHANGED <<found, at, fresh, known, shared>>
    BY <1>5 DEF Merged
  <2>2. Pending(p)' = Pending(p)
    BY <2>1 DEF Pending
  <2> HIDE DEF EInv, TypeOK
  <2> QED
    BY <1>0, <2>1, <2>2 DEF MergeSound, Started
<1>6. CASE Copy(p)
  <2>1. PICK i \in fresh[p] : /\ shared' = shared \cup {found[p][i]}
                              /\ fresh' = [fresh EXCEPT ![p] = @ \ {i}]
    BY <1>6 DEF Copy
  <2>2. /\ pc[p] = "copying" /\ pc' = pc /\ found' = found /\ known' = known /\ at' = at
        /\ fresh'[p] = fresh[p] \ {i}
    BY <1>6, <2>1 DEF Copy
  <2>3. known[p] \subseteq Reach(shared') \cup UNION {found[p][j] : j \in fresh'[p]}
    <3>1. known[p] \subseteq Reach(shared) \cup Pending(p)
      BY <1>0, <2>2 DEF MergeSound, Started
    <3>2. Pending(p) \subseteq found[p][i] \cup UNION {found[p][j] : j \in fresh'[p]}
      BY <2>2 DEF Pending
    <3>3. Reach(shared) \cup found[p][i] \subseteq Reach(shared')
      BY <2>1 DEF Reach
    <3> QED
      BY <3>1, <3>2, <3>3
  <2> QED
    BY <1>0, <2>2, <2>3 DEF MergeSound, Started, Pending
<1>7. CASE Truncate(p)
  BY <1>0, <1>7 DEF Truncate, MergeSound, Started, Pending
<1>8. CASE WriteFeatures(p)
  BY <1>0, <1>8 DEF WriteFeatures, MergeSound, Started, Pending
<1> QED
  BY <1>1, <1>2, <1>3, <1>4, <1>5, <1>6, <1>7, <1>8 DEF Check

LEMMA SoundStep == EInv /\ [Next]_vars => Sound'
<1> SUFFICES ASSUME EInv, [Next]_vars, NEW q \in Programs PROVE MergeSound(q)'
  BY DEF Sound
<1>0. MergeSound(q) /\ Reach(shared) \subseteq Reach(shared')
  BY CorpusGrows DEF EInv, Sound
<1>1. ASSUME NEW p \in Programs, Check(p) PROVE MergeSound(q)'
  <2>1. CASE q = p
    BY <1>1, <2>1, CheckStaysSound
  <2>2. CASE q # p
    BY <1>0, <1>1, <2>2, CheckIsLocal, OthersStaySound
  <2> QED
    BY <2>1, <2>2
<1> USE DEF checkVars, mergeVars, diskVars
<1>2. CASE Launch
  <2>1. CASE pc'[q] = pc[q]
    BY <1>0, <1>2, <2>1, OthersStaySound DEF Launch
  <2>2. CASE pc'[q] # pc[q]
    <3>1. pc'[q] = "checking" /\ q > launched
      BY <1>2, <2>2 DEF Launch, EInv, TypeOK, Programs
    <3>2. pc[q] = "waiting"
      BY <3>1 DEF EInv, Staged
    <3> QED
      BY <1>0, <1>2, <3>1, <3>2 DEF Launch, MergeSound, Started
  <2> QED
    BY <2>1, <2>2
<1>3. CASE Collect
  BY <1>0, <1>3, OthersStaySound DEF Collect
<1>4. CASE Return
  BY <1>0, <1>4, OthersStaySound DEF Return
<1>5. CASE Interrupt
  <2>1. pc'[q] = pc[q] \/ pc'[q] = "killed"
    BY <1>5 DEF Interrupt
  <2> QED
    BY <1>0, <1>5, <2>1, OthersStaySound DEF Interrupt
<1>6. CASE UNCHANGED vars
  BY <1>0, <1>6, OthersStaySound DEF vars
<1> QED
  BY <1>1, <1>2, <1>3, <1>4, <1>5, <1>6 DEF Next

\* What is written was reached, or copied before.
LEMMA BackedStep == EInv /\ [Next]_vars => BackedByCorpus'
<1> SUFFICES ASSUME EInv, [Next]_vars PROVE BackedByCorpus'
  OBVIOUS
<1>0. Reach(shared) \subseteq Reach(shared') /\ features.set \subseteq Reach(shared)
  BY CorpusGrows DEF EInv, BackedByCorpus
<1>1. CASE features' = features
  BY <1>0, <1>1 DEF BackedByCorpus
<1>2. ASSUME NEW p \in Programs, Truncate(p) \/ WriteFeatures(p) PROVE BackedByCorpus'
  <2>1. CASE features'.set = {}
    BY <2>1 DEF BackedByCorpus
  <2>2. CASE features'.set # {}
    <3>1. pc[p] = "writing" /\ features' = Whole(known[p])
      BY <1>2, <2>2 DEF Truncate, WriteFeatures, Damaged
    <3>2. known[p] \subseteq Reach(shared)
      BY <3>1 DEF EInv, Sound, MergeSound, Started, Pending
    <3> QED
      BY <1>0, <3>1, <3>2 DEF BackedByCorpus, Whole
  <2> QED
    BY <2>1, <2>2
<1>3. features' = features \/ \E p \in Programs : Truncate(p) \/ WriteFeatures(p)
  BY DEF Next, Check, CheckFails, Covered, ReadFeatures, ReadFails, MergeFails, Merge, Merged,
         Copy, Finish, Exit, Launch, Collect, Return, Interrupt, vars, diskVars
<1> QED
  BY <1>1, <1>2, <1>3

\* A process ends as correct after it has copied all that was new.
LEMMA FoundStep == EInv /\ [Next]_vars => FoundIsKept'
<1> SUFFICES ASSUME EInv, [Next]_vars, NEW q \in Programs, outcome'[q] = "correct",
                    NEW i \in 1..Len(found'[q])
             PROVE  found'[q][i] \subseteq Reach(shared')
  BY DEF FoundIsKept
<1>0. Reach(shared) \subseteq Reach(shared')
  BY CorpusGrows
<1>1. CASE outcome'[q] = outcome[q] /\ found'[q] = found[q]
  BY <1>0, <1>1 DEF EInv, FoundIsKept
<1>2. CASE Finish(q)
  <2>1. pc[q] = "written" /\ found' = found
    BY <1>2 DEF Finish, Exit
  <2>2. /\ known[q] \subseteq Reach(shared)
        /\ at[q] > Len(found[q])
        /\ \A j \in 1..Len(found[q]) : j < at[q] => found[q][j] \subseteq known[q]
    BY <2>1 DEF EInv, Sound, MergeSound, Started, Pending
  <2>3. i < at[q]
    BY <2>1, <2>2 DEF EInv, TypeOK
  <2> QED
    BY <1>0, <2>1, <2>2, <2>3
<1>3. (outcome'[q] = outcome[q] /\ found'[q] = found[q]) \/ Finish(q)
  <2>1. ASSUME NEW p \in Programs, Check(p)
        PROVE  (outcome'[q] = outcome[q] /\ found'[q] = found[q]) \/ Finish(q)
    <3>1. CASE p # q
      BY <2>1, <3>1, CheckIsLocal
    <3>2. CASE p = q
      <4>1. ~CheckFails(p) /\ ~ReadFails(p) /\ ~MergeFails(p)
        BY <3>2 DEF CheckFails, ReadFails, MergeFails, Exit, EInv, TypeOK
      <4>2. ~Covered(p)
        BY <3>2 DEF Covered, EInv, TypeOK
      <4> QED
        BY <2>1, <3>2, <4>1, <4>2
           DEF Check, ReadFeatures, Merge, Merged, Copy, Truncate, WriteFeatures, checkVars
    <3> QED
      BY <3>1, <3>2
  <2> QED
    BY <2>1 DEF Next, Launch, Collect, Return, Interrupt, vars, checkVars
<1> QED
  BY <1>1, <1>2, <1>3

-----------------------------------------------------------------------------
(* The theorems.                                                            *)

\* The invariant of the checks: types, stages, results, and what is known of the corpus.
THEOREM EvolutionInvariant == Spec => []EInv
<1>1. EInv /\ [Next]_vars => EInv'
  BY TypeStep, CollectStep, SoundStep, BackedStep, FoundStep DEF EInv
<1> QED
  BY <1>1, InitEInv, PTL DEF Spec

\* The file of features never claims what no file of the shared corpus reaches,
\* for any number of processes that overlap or are interrupted.
THEOREM FeaturesAreBacked == Spec => []BackedByCorpus
<1>1. EInv => BackedByCorpus
  BY DEF EInv
<1> QED
  BY <1>1, EvolutionInvariant, PTL

\* What the fuzzer of a program that passed has found is in the shared corpus,
\* although processes overwrite each other's features.
THEOREM NothingFoundIsLost == Spec => []FoundIsKept
<1>1. EInv => FoundIsKept
  BY DEF EInv
<1> QED
  BY <1>1, EvolutionInvariant, PTL

\* Results are aligned with the programs for any number of them and any batch size.
THEOREM ResultsAreAligned == Spec => []ResultsAligned
<1>1. EInv => ResultsAligned
  BY DEF EInv, Collected, ResultsAligned
<1> QED
  BY <1>1, EvolutionInvariant, PTL

-----------------------------------------------------------------------------
(* Batches.                                                                 *)

Active(p) == pc[p] \notin {"waiting", "exited", "killed"}

\* A batch is full, or the last one; the processes that are running are all of
\* the batch launched last.
Batched ==
  /\ launched = NumPrograms \/ \E k \in Nat : launched = k * Core
  /\ \A p \in Programs : Active(p) => stage = "running" /\ Batch(p) = Batch(launched)

\* Two programs of one batch that both came to evolve the corpus.
Overlap(q, r) == q # r /\ Batch(q) = Batch(r) /\ found[q] # <<>> /\ found[r] # <<>>

\* The file of features is empty while somebody is to write it; somebody who finds
\* it written was overtaken by another process of the batch; and it is garbled
\* only when that has happened.
Disturbed ==
  /\ \A p \in Programs : Started(p) \/ pc[p] = "reading" => found[p] # <<>>
  /\ stage = "running" /\ features.state = "empty" => \E r \in Programs : pc[r] = "writing"
  /\ features.state = "garbled" =>
       \E q, r \in Programs : q <= launched /\ Overlap(q, r)
  /\ \A p \in Programs : pc[p] = "writing" =>
       features.state = "empty" \/ \E q \in Programs : Overlap(p, q)

OInv == Batched /\ Disturbed /\ MisjudgedByOverlap

\* The programs from k * Core + 1 to k * Core + Core are one batch.
LEMMA BatchOf ==
  ASSUME NEW k \in Nat, NEW p \in Int, k * Core < p, p <= k * Core + Core
  PROVE  Batch(p) = k
<1> DEFINE v == (p - 1) \div Core
<1>1. Core \in Nat /\ Core > 0 /\ k * Core \in Int
  OBVIOUS
<1>2. v \in Int /\ v * Core <= p - 1 /\ p - 1 < v * Core + Core
  BY <1>1
<1> HIDE DEF v
<1>3. ~(v >= k + 1)
  <2> SUFFICES ASSUME v >= k + 1 PROVE FALSE
    OBVIOUS
  <2>1. v * Core >= k * Core + Core
    BY <1>1, <1>2
  <2> QED
    BY <1>1, <1>2, <2>1
<1>4. ~(v <= k - 1)
  <2> SUFFICES ASSUME v <= k - 1 PROVE FALSE
    OBVIOUS
  <2>1. v * Core + Core <= k * Core
    BY <1>1, <1>2
  <2> QED
    BY <1>1, <1>2, <2>1
<1>5. v = k
  BY <1>2, <1>3, <1>4
<1> QED
  BY <1>5 DEF Batch, v

\* Later programs are not in earlier batches.
LEMMA BatchesAscend ==
  ASSUME NEW p \in Nat \ {0}, NEW q \in Nat \ {0}, p <= q
  PROVE  Batch(p) <= Batch(q) /\ Batch(p) \in Int /\ Batch(q) \in Int
<1> DEFINE v == (p - 1) \div Core
           w == (q - 1) \div Core
<1>1. Core \in Nat /\ Core > 0
  OBVIOUS
<1>2. /\ v \in Int /\ v * Core <= p - 1
      /\ w \in Int /\ q - 1 < w * Core + Core
  BY <1>1
<1> HIDE DEF v, w
<1>3. ~(v >= w + 1)
  <2> SUFFICES ASSUME v >= w + 1 PROVE FALSE
    OBVIOUS
  <2>1. v * Core >= w * Core + Core
    BY <1>1, <1>2
  <2> QED
    BY <1>1, <1>2, <2>1
<1>4. v <= w
  BY <1>2, <1>3
<1> QED
  BY <1>2, <1>4 DEF Batch, v, w

\* A batch is launched when all processes of the one before have ended.
LEMMA BatchedStep == EInv /\ Batched /\ [Next]_vars => Batched'
<1> SUFFICES ASSUME EInv, Batched, [Next]_vars PROVE Batched'
  OBVIOUS
<1>1. ASSUME UNCHANGED <<stage, launched>>, \A p \in Programs : Active(p)' => Active(p)
      PROVE  Batched'
  BY <1>1 DEF Batched, Batch
<1>2. ASSUME NEW p \in Programs, Check(p) PROVE Batched'
  <2>1. \A q \in Programs : Active(q)' => Active(q)
    BY <1>2, CheckIsLocal DEF Active
  <2>2. UNCHANGED <<stage, launched>>
    BY <1>2, CheckIsLocal DEF parentVars
  <2> QED
    BY <1>1, <2>1, <2>2
<1>3. CASE Launch
  <2>1. /\ stage = "running" /\ UNCHANGED stage
        /\ Len(results) = launched /\ launched < NumPrograms
        /\ launched' = IF launched + Core <= NumPrograms THEN launched + Core ELSE NumPrograms
        /\ pc' = [p \in Programs |-> IF p \in (launched + 1)..launched' THEN "checking" ELSE pc[p]]
    BY <1>3 DEF Launch
  <2>2. launched \in Nat /\ NumPrograms \in Nat /\ Core \in Nat \ {0}
    BY DEF EInv, TypeOK
  <2>3. PICK k \in Nat : launched = k * Core
    BY <2>1, <2>2 DEF Batched
  <2>4. launched' = NumPrograms \/ \E n \in Nat : launched' = n * Core
    <3>1. CASE launched + Core <= NumPrograms
      <4>1. launched' = (k + 1) * Core /\ k + 1 \in Nat
        BY <2>1, <2>2, <2>3, <3>1
      <4> QED
        BY <4>1
    <3> QED
      BY <2>1, <3>1
  <2>5. ASSUME NEW p \in Int, launched < p, p <= launched' PROVE Batch(p) = k
    <3>1. k * Core < p /\ p <= k * Core + Core
      BY <2>1, <2>2, <2>3, <2>5
    <3> QED
      BY <3>1, BatchOf
  <2>6. launched' \in Int /\ launched < launched'
    BY <2>1, <2>2
  <2>7. Batch(launched') = k
    BY <2>5, <2>6
  <2>8. ASSUME NEW p \in Programs, Active(p)' PROVE Batch(p) = k
    <3>1. p \in Int /\ p >= 1
      BY DEF Programs
    <3>2. p > launched
      <4> SUFFICES ASSUME p <= launched PROVE FALSE
        BY <2>2, <3>1
      <4>1. pc[p] = "exited"
        BY <2>1, <2>2, <3>1 DEF EInv, Collected
      <4>2. pc'[p] = pc[p]
        BY <2>1, <2>2, <3>1
      <4> QED
        BY <2>8, <4>1, <4>2 DEF Active
    <3>3. p <= launched'
      <4> SUFFICES ASSUME ~(p <= launched') PROVE FALSE
        OBVIOUS
      <4>1. pc'[p] = pc[p]
        BY <2>1
      <4> QED
        BY <2>8, <3>2, <4>1 DEF Active, EInv, Staged
    <3> QED
      BY <2>5, <3>1, <3>2, <3>3
  <2> QED
    BY <2>1, <2>4, <2>7, <2>8 DEF Batched, Batch
<1>4. CASE Collect
  BY <1>1, <1>4 DEF Collect, Active
<1>5. CASE Return
  <2>1. \A p \in Programs : ~Active(p)'
    BY <1>5 DEF Return, EInv, Collected, Active, Programs
  <2> QED
    BY <1>5, <2>1 DEF Return, Batched
<1>6. CASE Interrupt
  <2>1. \A p \in Programs : ~Active(p)'
    BY <1>6 DEF Interrupt, Active
  <2> QED
    BY <1>6, <2>1 DEF Interrupt, Batched
<1>7. CASE UNCHANGED vars
  BY <1>1, <1>7 DEF vars, parentVars, Active
<1> QED
  BY <1>2, <1>3, <1>4, <1>5, <1>6, <1>7 DEF Next

\* A corpus that was found is never empty, and stays.
LEMMA OverlapStays ==
  ASSUME EInv, <<>> \notin Corpora, [Next]_vars, NEW q \in Programs
  PROVE  /\ found[q] # <<>> => found'[q] # <<>>
         /\ \A r \in Programs : Overlap(q, r) => Overlap(q, r)'
<1>1. ASSUME NEW r \in Programs PROVE found[r] # <<>> => found'[r] # <<>>
  <2>1. ASSUME NEW p \in Programs, Check(p) PROVE found[r] # <<>> => found'[r] # <<>>
    <3>1. CASE Covered(p)
      BY <3>1 DEF Covered, EInv, TypeOK
    <3>2. found' = found \/ Covered(p)
      BY <2>1 DEF Check, CheckFails, ReadFeatures, ReadFails, MergeFails, Merge, Merged, Copy,
                  Truncate, WriteFeatures, Finish, Exit, checkVars
    <3> QED
      BY <3>1, <3>2
  <2> QED
    BY <2>1 DEF Next, Launch, Collect, Return, Interrupt, vars, checkVars
<1> QED
  BY <1>1 DEF Overlap, Batch

\* Two processes that evolve the corpus at one time overlap.
LEMMA TogetherOverlap ==
  ASSUME Batched, Disturbed, NEW p \in Programs, NEW q \in Programs, p # q,
         Started(p) \/ pc[p] = "reading", Started(q) \/ pc[q] = "reading"
  PROVE  Overlap(p, q)
<1>1. Active(p) /\ Active(q)
  BY DEF Active, Started
<1> QED
  BY <1>1 DEF Batched, Disturbed, Overlap

LEMMA DisturbedStep ==
  <<>> \notin Corpora /\ EInv /\ Batched /\ Disturbed /\ [Next]_vars => Disturbed'
<1> SUFFICES ASSUME <<>> \notin Corpora, EInv, Batched, Disturbed, [Next]_vars PROVE Disturbed'
  OBVIOUS
<1> USE DEF parentVars, checkVars, mergeVars, diskVars, Goto
<1>1. ASSUME NEW p \in Programs, Started(p)' \/ pc'[p] = "reading" PROVE found'[p] # <<>>
  <2>1. CASE Started(p) \/ pc[p] = "reading"
    BY <2>1, OverlapStays DEF Disturbed
  <2>2. CASE Covered(p)
    BY <2>2 DEF Covered, EInv, TypeOK
  <2>3. Started(p) \/ pc[p] = "reading" \/ Covered(p)
    <3>1. ASSUME NEW q \in Programs, Check(q) PROVE Started(p) \/ pc[p] = "reading" \/ Covered(p)
      <4>1. CASE q # p
        BY <1>1, <3>1, <4>1, CheckIsLocal DEF Started
      <4>2. CASE q = p
        <5>1. ~CheckFails(p)
          BY <1>1 DEF CheckFails, Exit, Started, EInv, TypeOK
        <5> QED
          BY <3>1, <4>2, <5>1 DEF Check, ReadFeatures, ReadFails, MergeFails, Merge, Merged, Copy,
                                  Truncate, WriteFeatures, Finish, Started
      <4> QED
        BY <4>1, <4>2
    <3>2. CASE Launch \/ Interrupt
      BY <1>1, <3>2 DEF Launch, Interrupt, Started
    <3> QED
      BY <1>1, <3>1, <3>2 DEF Next, Collect, Return, vars, Started
  <2> QED
    BY <2>1, <2>2, <2>3
<1>2. ASSUME NEW p \in Programs, WriteFeatures(p)
      PROVE  /\ features'.state \in {"whole", "garbled"}
             /\ features'.state = "garbled" => features.state # "empty"
             /\ pc[p] = "writing" /\ pc'[p] = "written"
             /\ \A q \in Programs \ {p} : pc'[q] = pc[q]
             /\ UNCHANGED launched
  BY <1>2 DEF WriteFeatures, Overwrites, Whole, Damaged, EInv, TypeOK
<1>3. ASSUME NEW p \in Programs, Truncate(p)
      PROVE  /\ features'.state = "empty" /\ pc'[p] = "writing"
             /\ \A q \in Programs \ {p} : pc'[q] = pc[q]
  BY <1>3 DEF Truncate, Damaged, EInv, TypeOK
<1>4. ASSUME \A p \in Programs : ~WriteFeatures(p) /\ ~Truncate(p)
      PROVE  /\ features' = features
             /\ \A p \in Programs : pc'[p] = "writing" => pc[p] = "writing"
             /\ stage' = "running" => \A p \in Programs : pc[p] = "writing" => pc'[p] = "writing"
  <2>1. ASSUME NEW p \in Programs, Check(p)
        PROVE  /\ features' = features /\ UNCHANGED stage
               /\ \A q \in Programs : pc'[q] = "writing" <=> pc[q] = "writing"
    <3>1. features' = features /\ pc[p] # "writing" /\ pc'[p] # "writing"
      BY <1>4, <2>1 DEF Check, CheckFails, Covered, ReadFeatures, ReadFails, MergeFails, Merge,
                        Merged, Copy, Finish, Exit, EInv, TypeOK
    <3> QED
      BY <2>1, <3>1, CheckIsLocal
  <2>2. CASE Launch
    <3>1. ASSUME NEW q \in Programs, pc[q] = "writing" PROVE pc'[q] = "writing"
      <4>1. q <= launched
        BY <3>1 DEF EInv, TypeOK, Staged, Programs
      <4> QED
        BY <2>2, <3>1, <4>1 DEF Launch, EInv, TypeOK, Programs
    <3>2. \A q \in Programs : pc'[q] = "writing" => pc[q] = "writing"
      BY <2>2 DEF Launch
    <3> QED
      BY <2>2, <3>1, <3>2 DEF Launch
  <2>3. CASE Collect \/ Return \/ Interrupt
    BY <2>3 DEF Collect, Return, Interrupt
  <2> QED
    BY <2>1, <2>2, <2>3 DEF Next, vars
<1>5. launched \in Int /\ launched' \in Int /\ launched <= launched'
  <2>1. ASSUME NEW p \in Programs, Check(p) PROVE UNCHANGED launched
    BY <2>1, CheckIsLocal
  <2> QED
    BY <2>1 DEF EInv, TypeOK, Next, Launch, Collect, Return, Interrupt, vars
<1>6. stage' = "running" => stage = "running"
  <2>1. ASSUME NEW p \in Programs, Check(p) PROVE UNCHANGED stage
    BY <2>1, CheckIsLocal
  <2> QED
    BY <2>1 DEF Next, Launch, Collect, Return, Interrupt, vars
<1>7. ASSUME stage' = "running", features'.state = "empty" PROVE \E r \in Programs : pc'[r] = "writing"
  <2>1. CASE \E p \in Programs : Truncate(p)
    BY <1>3, <2>1
  <2>2. CASE \A p \in Programs : ~Truncate(p) /\ ~WriteFeatures(p)
    BY <1>4, <1>6, <1>7, <2>2 DEF Disturbed
  <2> QED
    BY <1>2, <1>7, <2>1, <2>2
<1>8. ASSUME features'.state = "garbled"
      PROVE  \E q, r \in Programs : q <= launched' /\ Overlap(q, r)'
  <2>1. \E q, r \in Programs : q <= launched /\ Overlap(q, r)
    <3>1. CASE features' = features
      BY <1>8, <3>1 DEF Disturbed
    <3>2. ASSUME NEW p \in Programs, WriteFeatures(p)
          PROVE  \E q, r \in Programs : q <= launched /\ Overlap(q, r)
      <4>1. pc[p] = "writing" /\ features.state # "empty"
        BY <1>2, <1>8, <3>2
      <4>2. PICK q \in Programs : Overlap(p, q)
        BY <4>1 DEF Disturbed
      <4>3. p <= launched
        BY <4>1 DEF EInv, TypeOK, Staged, Programs
      <4> QED
        BY <4>2, <4>3
    <3>3. \A p \in Programs : ~Truncate(p)
      BY <1>3, <1>8
    <3> QED
      BY <1>4, <3>1, <3>2, <3>3
  <2>2. PICK q \in Programs, r \in Programs : q <= launched /\ Overlap(q, r)
    BY <2>1
  <2>3. q <= launched'
    BY <1>5, <2>2 DEF Programs
  <2> QED
    BY <2>2, <2>3, OverlapStays
<1>9. ASSUME NEW p \in Programs, pc'[p] = "writing"
      PROVE  features'.state = "empty" \/ \E q \in Programs : Overlap(p, q)'
  <2>1. CASE \E q \in Programs : Truncate(q)
    BY <1>3, <2>1
  <2>2. ASSUME NEW q \in Programs, WriteFeatures(q) PROVE \E r \in Programs : Overlap(p, r)'
    <3>1. q # p /\ pc[p] = "writing" /\ pc[q] = "writing"
      BY <1>2, <1>9, <2>2
    <3>2. Overlap(p, q)
      BY <3>1, TogetherOverlap DEF Started
    <3> QED
      BY <3>2, OverlapStays
  <2>3. CASE \A q \in Programs : ~Truncate(q) /\ ~WriteFeatures(q)
    BY <1>4, <1>9, <2>3, OverlapStays DEF Disturbed
  <2> QED
    BY <2>1, <2>2, <2>3
<1> QED
  BY <1>1, <1>7, <1>8, <1>9 DEF Disturbed

\* A program without fault fails for what it reads, which another one was writing
\* or had garbled.
LEMMA MisjudgedStep ==
  <<>> \notin Corpora /\ EInv /\ OInv /\ [Next]_vars => MisjudgedByOverlap'
<1> SUFFICES ASSUME <<>> \notin Corpora, EInv, OInv, [Next]_vars, NEW p \in Programs,
                    outcome'[p] = "fuzzer", ~faulty'[p]
             PROVE  \E q, r \in Programs : Batch(q) <= Batch(p) /\ Overlap(q, r)'
  BY DEF MisjudgedByOverlap, Overlap, Batch
<1>1. ASSUME NEW q \in Programs, NEW r \in Programs, Batch(q) <= Batch(p), Overlap(q, r)
      PROVE  \E i, j \in Programs : Batch(i) <= Batch(p) /\ Overlap(i, j)'
  BY <1>1, OverlapStays
<1>2. CASE outcome[p] = "fuzzer" /\ ~faulty[p]
  BY <1>1, <1>2 DEF OInv, MisjudgedByOverlap, Overlap
<1>3. CASE ReadFails(p)
  <2>1. pc[p] = "reading" /\ features.state \in {"empty", "garbled"}
    BY <1>3 DEF ReadFails
  <2>2. stage = "running" /\ Batch(p) = Batch(launched)
    BY <2>1 DEF OInv, Batched, Active
  <2>3. p \in Nat \ {0} /\ launched \in Nat /\ p <= launched
    BY <2>1 DEF EInv, TypeOK, Staged, Programs
  <2>4. CASE features.state = "empty"
    <3>1. PICK r \in Programs : pc[r] = "writing"
      BY <2>2, <2>4 DEF OInv, Disturbed
    <3>2. Overlap(p, r)
      BY <2>1, <3>1, TogetherOverlap DEF OInv, Started
    <3>3. Batch(p) <= Batch(p)
      BY <2>3, BatchesAscend
    <3> QED
      BY <1>1, <3>2, <3>3
  <2>5. CASE features.state = "garbled"
    <3>1. PICK q \in Programs, r \in Programs : q <= launched /\ Overlap(q, r)
      BY <2>5 DEF OInv, Disturbed
    <3>2. q \in Nat \ {0} /\ launched \in Nat \ {0}
      BY <2>3 DEF Programs
    <3>3. Batch(q) <= Batch(p)
      BY <2>2, <3>1, <3>2, BatchesAscend
    <3> QED
      BY <1>1, <3>1, <3>3
  <2> QED
    BY <2>1, <2>4, <2>5
<1>4. (outcome[p] = "fuzzer" /\ ~faulty[p]) \/ ReadFails(p)
  <2>1. ASSUME NEW q \in Programs, Check(q)
        PROVE  (outcome[p] = "fuzzer" /\ ~faulty[p]) \/ ReadFails(p)
    <3> USE DEF EInv, TypeOK, Goto, Exit
    <3>1. CASE Covered(q)
      <4>1. outcome' = outcome /\ pc[q] = "checking"
        BY <3>1 DEF Covered
      <4>2. outcome[q] = "none"
        BY <3>1 DEF Covered
      <4> QED
        BY <3>1, <4>1, <4>2 DEF Covered
    <3>2. CASE CheckFails(q) \/ MergeFails(q)
      BY <3>2 DEF CheckFails, MergeFails
    <3>3. CASE Finish(q)
      BY <3>3 DEF Finish
    <3>4. CASE ReadFails(q)
      BY <3>4 DEF ReadFails
    <3>5. CASE ReadFeatures(q) \/ Merge(q) \/ Merged(q)
      BY <3>5 DEF ReadFeatures, Merge, Merged, checkVars
    <3>6. CASE Copy(q) \/ Truncate(q) \/ WriteFeatures(q)
      BY <3>6 DEF Copy, Truncate, WriteFeatures, checkVars
    <3> QED
      BY <2>1, <3>1, <3>2, <3>3, <3>4, <3>5, <3>6 DEF Check
  <2> QED
    BY <2>1 DEF Next, Launch, Collect, Return, Interrupt, vars, checkVars
<1> QED
  BY <1>2, <1>3, <1>4

\* A program without fault is never rejected because of its own work: two processes
\* of a batch must have been evolving the corpus.  A fuzzer always finds some file.
THEOREM RejectedOnlyByOverlap == <<>> \notin Corpora => (Spec => []MisjudgedByOverlap)
<1> SUFFICES ASSUME <<>> \notin Corpora PROVE Spec => []MisjudgedByOverlap
  OBVIOUS
<1>1. Init => OInv
  <2> SUFFICES ASSUME Init PROVE OInv
    OBVIOUS
  <2>1. launched = 0 * Core /\ 0 \in Nat
    BY DEF Init
  <2>2. Batched
    BY <2>1 DEF Init, Batched, Active
  <2> QED
    BY <2>2 DEF Init, OInv, Disturbed, MisjudgedByOverlap, Started, Damaged
<1>2. EInv /\ OInv /\ [Next]_vars => OInv'
  BY BatchedStep, DisturbedStep, MisjudgedStep DEF OInv
<1>3. OInv => MisjudgedByOverlap
  BY DEF OInv
<1> QED
  BY <1>1, <1>2, <1>3, EvolutionInvariant, PTL DEF Spec

-----------------------------------------------------------------------------
(* The guard files, as part of the suite: what GuardFilesProofs shows for    *)
(* any threads, of the threads of MCFiles.                                   *)

TP == INSTANCE GuardFilesProofs
        WITH Tids <- {m, a, b}, Main <- m, NoTid <- none, Tidy <- TRUE, Foreign <- FALSE,
             MaxStarts <- 1, MaxTexts <- 2
SP == INSTANCE GuardFilesProofs
        WITH Tids <- {m, a}, Main <- m, NoTid <- none, Tidy <- FALSE, Foreign <- TRUE,
             MaxStarts <- 2, MaxTexts <- 2

LEMMA GuardAssumptions == TP!ThreadAssumption /\ SP!ThreadAssumption
  BY FilesAssumption DEF T!ThreadAssumption, S!ThreadAssumption,
                         TP!ThreadAssumption, SP!ThreadAssumption

\* Both instances have the initial states and the steps of GuardFiles.
LEMMA TInit == T!Init => TP!Init
  BY DEF T!Init, TP!Init, T!NoStream, TP!NoStream, T!NotReading, TP!NotReading

LEMMA TStep == T!Next => TP!Next
<1>1. \A t \in {m, a, b} : (T!Trace(t) => TP!Trace(t)) /\ (T!ThreadRec(t) => TP!ThreadRec(t))
  BY DEF T!Trace, TP!Trace, T!ThreadRec, TP!ThreadRec, T!Write, TP!Write, T!PrintContent,
         TP!PrintContent, T!CreateOf, TP!CreateOf, T!Alive, TP!Alive, T!Ending, TP!Ending,
         T!Rec, TP!Rec, T!tracing, TP!tracing
<1>2. \A t, u \in {m, a, b} : /\ (T!CreateThread(t, u) => TP!CreateThread(t, u))
                       /\ (T!ForeignThread(u) => TP!ForeignThread(u))
                       /\ (T!EndThread(t) => TP!EndThread(t))
  BY DEF T!CreateThread, TP!CreateThread, T!ForeignThread, TP!ForeignThread, T!Started,
         TP!Started, T!EndThread, TP!EndThread, T!Alive,
         TP!Alive, T!Last, TP!Last
<1>3. /\ \A t \in {m, a, b} : (T!Flush(t) => TP!Flush(t)) /\ (T!CloseStream(t) => TP!CloseStream(t))
      /\ (T!Exit => TP!Exit) /\ (T!Interrupt => TP!Interrupt)
      /\ (T!Done => TP!Done) /\ (T!Crash => TP!Crash)
  BY DEF T!Flush, TP!Flush, T!CloseStream, TP!CloseStream, T!Exit, TP!Exit, T!Interrupt,
         TP!Interrupt, T!Done, TP!Done, T!Crash, TP!Crash, T!AllClosed, TP!AllClosed,
         T!Alive, TP!Alive, T!Ending, TP!Ending, T!Last, TP!Last,
         T!tracing, TP!tracing
<1>4. T!Read => TP!Read
  BY DEF T!Read, TP!Read, T!StartReading, TP!StartReading, T!OpenFile, TP!OpenFile,
         T!ReadLine, TP!ReadLine, T!EndsLine, TP!EndsLine, T!ParseGuard, TP!ParseGuard,
         T!SkipGuard, TP!SkipGuard, T!RefuseLine, TP!RefuseLine, T!Parses, TP!Parses, T!ToSet,
         TP!ToSet, T!Files, TP!Files, T!NotReading, TP!NotReading, T!tracing, TP!tracing
<1> QED
  BY <1>1, <1>2, <1>3, <1>4 DEF T!Next, TP!Next

LEMMA SInit == S!Init => SP!Init
  BY DEF S!Init, SP!Init, S!NoStream, SP!NoStream, S!NotReading, SP!NotReading

LEMMA SStep == S!Next => SP!Next
<1>1. \A t \in {m, a} : (S!Trace(t) => SP!Trace(t)) /\ (S!ThreadRec(t) => SP!ThreadRec(t))
  BY DEF S!Trace, SP!Trace, S!ThreadRec, SP!ThreadRec, S!Write, SP!Write, S!PrintContent,
         SP!PrintContent, S!CreateOf, SP!CreateOf, S!Alive, SP!Alive, S!Ending, SP!Ending,
         S!Rec, SP!Rec, S!tracing, SP!tracing
<1>2. \A t, u \in {m, a} : /\ (S!CreateThread(t, u) => SP!CreateThread(t, u))
                       /\ (S!ForeignThread(u) => SP!ForeignThread(u))
                       /\ (S!EndThread(t) => SP!EndThread(t))
  BY DEF S!CreateThread, SP!CreateThread, S!ForeignThread, SP!ForeignThread, S!Started,
         SP!Started, S!EndThread, SP!EndThread, S!Alive,
         SP!Alive, S!Last, SP!Last
<1>3. /\ \A t \in {m, a} : (S!Flush(t) => SP!Flush(t)) /\ (S!CloseStream(t) => SP!CloseStream(t))
      /\ (S!Exit => SP!Exit) /\ (S!Interrupt => SP!Interrupt)
      /\ (S!Done => SP!Done) /\ (S!Crash => SP!Crash)
  BY DEF S!Flush, SP!Flush, S!CloseStream, SP!CloseStream, S!Exit, SP!Exit, S!Interrupt,
         SP!Interrupt, S!Done, SP!Done, S!Crash, SP!Crash, S!AllClosed, SP!AllClosed,
         S!Alive, SP!Alive, S!Ending, SP!Ending, S!Last, SP!Last,
         S!tracing, SP!tracing
<1>4. S!Read => SP!Read
  BY DEF S!Read, SP!Read, S!StartReading, SP!StartReading, S!OpenFile, SP!OpenFile,
         S!ReadLine, SP!ReadLine, S!EndsLine, SP!EndsLine, S!ParseGuard, SP!ParseGuard,
         S!SkipGuard, SP!SkipGuard, S!RefuseLine, SP!RefuseLine, S!Parses, SP!Parses, S!ToSet,
         SP!ToSet, S!Files, SP!Files, S!NotReading, SP!NotReading, S!tracing, SP!tracing
<1> QED
  BY <1>1, <1>2, <1>3, <1>4 DEF S!Next, SP!Next

\* A behaviour of threads.
LEMMA TRun == FilesSpec /\ focus = "threads" => [](focus = "threads") /\ TP!Spec
<1>1. FilesInit /\ focus = "threads" => TP!Init
  BY TInit DEF FilesInit
<1>2. focus = "threads" /\ [FilesNext]_<<focus, vars, guardVars, treeVars>> =>
        (focus = "threads")' /\ [TP!Next]_TP!vars
  BY TStep DEF FilesNext, guardVars, TP!vars, TP!tracing
<1> QED
  BY <1>1, <1>2, PTL DEF FilesSpec, TP!Spec

\* A behaviour of strays.
LEMMA SRun == FilesSpec /\ focus = "strays" => [](focus = "strays") /\ SP!Spec
<1>1. FilesInit /\ focus = "strays" => SP!Init
  BY SInit DEF FilesInit
<1>2. focus = "strays" /\ [FilesNext]_<<focus, vars, guardVars, treeVars>> =>
        (focus = "strays")' /\ [SP!Next]_SP!vars
  BY SStep DEF FilesNext, guardVars, SP!vars, SP!tracing
<1> QED
  BY <1>1, <1>2, PTL DEF FilesSpec, SP!Spec

\* In no other behaviour is anything said of guard files.
LEMMA OtherRun ==
  FilesSpec /\ focus \notin {"threads", "strays"} => [](focus \notin {"threads", "strays"})
<1>1. focus \notin {"threads", "strays"} /\ [FilesNext]_<<focus, vars, guardVars, treeVars>> =>
        (focus \notin {"threads", "strays"})'
  BY DEF FilesNext
<1> QED
  BY <1>1, PTL DEF FilesSpec

\* What threads wrote until the end began is on disk, whether they all end first
\* or are stopped half way, come from elsewhere and use ids twice.
THEOREM GuardsAreOnDisk == FilesSpec => []WrittenIsOnDisk
<1>1. focus = "threads" /\ TP!WrittenIsOnDisk => WrittenIsOnDisk
  BY DEF WrittenIsOnDisk, T!WrittenIsOnDisk, TP!WrittenIsOnDisk, T!IsPrefix, TP!IsPrefix
<1>2. focus = "strays" /\ SP!WrittenIsOnDisk => WrittenIsOnDisk
  BY DEF WrittenIsOnDisk, S!WrittenIsOnDisk, SP!WrittenIsOnDisk, S!IsPrefix, SP!IsPrefix
<1>3. focus \notin {"threads", "strays"} => WrittenIsOnDisk
  BY DEF WrittenIsOnDisk
<1>4. focus = "threads" /\ FilesSpec => []WrittenIsOnDisk
  BY <1>1, TRun, GuardAssumptions, TP!NothingWrittenIsLost, PTL
<1>5. focus = "strays" /\ FilesSpec => []WrittenIsOnDisk
  BY <1>2, SRun, GuardAssumptions, SP!NothingWrittenIsLost, PTL
<1>6. focus \notin {"threads", "strays"} /\ FilesSpec => []WrittenIsOnDisk
  BY <1>3, OtherRun, PTL
<1>7. focus = "threads" \/ focus = "strays" \/ focus \notin {"threads", "strays"}
  OBVIOUS
<1> QED
  BY <1>4, <1>5, <1>6, <1>7, PTL

\* Every file that was read hangs below that of the main thread, which is the only
\* one marked as such even if threads come from code that records nothing.
THEOREM GuardsAreLinked == FilesSpec => []TreesAreLinked
<1>1. focus = "threads" /\ TP!OneMainFile /\ TP!MainFileIsMains /\ TP!TreesAreLinked => TreesAreLinked
  BY DEF TreesAreLinked, T!OneMainFile, TP!OneMainFile, T!MainFileIsMains, TP!MainFileIsMains,
         T!TreesAreLinked, TP!TreesAreLinked, T!AllRead, TP!AllRead, T!Files, TP!Files
<1>2. focus = "strays" /\ SP!OneMainFile => TreesAreLinked
  BY DEF TreesAreLinked, S!OneMainFile, SP!OneMainFile, S!Files, SP!Files
<1>3. focus \notin {"threads", "strays"} => TreesAreLinked
  BY DEF TreesAreLinked
<1>4. focus = "threads" /\ FilesSpec => []TreesAreLinked
  BY <1>1, TRun, GuardAssumptions, TP!MainTreeIsFound, TP!ForestIsLinked, PTL
<1>5. focus = "strays" /\ FilesSpec => []TreesAreLinked
  BY <1>2, SRun, GuardAssumptions, SP!MainTreeIsFound, PTL
<1>6. focus \notin {"threads", "strays"} /\ FilesSpec => []TreesAreLinked
  BY <1>3, OtherRun, PTL
<1>7. focus = "threads" \/ focus = "strays" \/ focus \notin {"threads", "strays"}
  OBVIOUS
<1> QED
  BY <1>4, <1>5, <1>6, <1>7, PTL

-----------------------------------------------------------------------------
(* The analysis of a tree, as part of the suite: what TreeAnalysisProofs     *)
(* shows for any tree, of the trees of MCFiles.                              *)

AP == INSTANCE TreeAnalysisProofs
        WITH NumNodes <- 5, InitName <- none,
             Namings <- Named,
             Lengths <- {<<1, 2, 3, 2, 1>>, <<3, 1, 2, 3, 3>>, <<2, 2, 1, 1, 3>>}, LEN_LIMIT <- 3

LEMMA AnalysisAssumption == AP!TreeAssumption
  BY FilesAssumption DEF A!TreeAssumption, AP!TreeAssumption, A!Nodes, AP!Nodes, A!Root, AP!Root

\* The instance has the initial states and the steps of TreeAnalysis.
LEMMA AInit == A!Init => AP!Init
  BY DEF A!Init, AP!Init, A!Nodes, AP!Nodes, A!Root, AP!Root

\* What the steps are built from.
LEMMA ACardinality == \A X : A!Cardinality(X) = AP!Cardinality(X)
  BY DEF A!Cardinality, AP!Cardinality

LEMMA ANames ==
  /\ A!Nodes = AP!Nodes /\ A!Root = AP!Root /\ A!tree = AP!tree
  /\ \A n : A!Calls(n) = AP!Calls(n) /\ A!SubFuncs(n) = AP!SubFuncs(n)
  /\ \A s : A!NamesOf(s) = AP!NamesOf(s)
  /\ \A l, n : A!Push(l, n) = AP!Push(l, n)
  /\ \A s, f : A!LatestSame(s, f) = AP!LatestSame(s, f)
  /\ \A f : A!CallCount(f) = AP!CallCount(f)
<1>1. A!Nodes = AP!Nodes /\ A!Root = AP!Root /\ A!tree = AP!tree
  BY DEF A!Nodes, AP!Nodes, A!Root, AP!Root, A!tree, AP!tree
<1>2. ASSUME NEW n
      PROVE  A!Calls(n) = AP!Calls(n) /\ A!SubFuncs(n) = AP!SubFuncs(n)
  <2>1. A!Calls(n) = AP!Calls(n)
    BY DEF A!Calls, AP!Calls, A!Nodes, AP!Nodes, A!Root, AP!Root
  <2>2. A!SubFuncs(n) = AP!SubFuncs(n)
    BY <2>1, ACardinality DEF A!SubFuncs, AP!SubFuncs
  <2> QED
    BY <2>1, <2>2
<1>3. ASSUME NEW s
      PROVE  A!NamesOf(s) = AP!NamesOf(s)
  BY DEF A!NamesOf, AP!NamesOf
<1>4. ASSUME NEW l
      PROVE  A!Sorted(l) = AP!Sorted(l)
  BY DEF A!Sorted, AP!Sorted, A!Bijection, AP!Bijection, A!Injection, AP!Injection,
         A!Surjection, AP!Surjection, A!IsInjective, AP!IsInjective
<1>5. ASSUME NEW l, NEW n
      PROVE  A!Push(l, n) = AP!Push(l, n)
  BY <1>4 DEF A!Push, AP!Push, A!Last, AP!Last, A!Front, AP!Front
<1>6. ASSUME NEW s, NEW f
      PROVE  A!LatestSame(s, f) = AP!LatestSame(s, f)
  BY DEF A!LatestSame, AP!LatestSame
<1>7. ASSUME NEW f
      PROVE  A!CallCount(f) = AP!CallCount(f)
  BY ACardinality DEF A!CallCount, AP!CallCount, A!Nodes, AP!Nodes
<1> QED
  BY <1>1, <1>2, <1>3, <1>5, <1>6, <1>7

LEMMA AStep == A!Next => AP!Next
<1>1. A!Visit => AP!Visit
  BY ANames DEF A!Visit, AP!Visit, A!tree, AP!tree
<1>2. A!Visited => AP!Visited
  BY ANames DEF A!Visited, AP!Visited, A!tree, AP!tree
<1>3. A!CheckRecur => AP!CheckRecur
  BY Zenon DEF A!CheckRecur, AP!CheckRecur, A!tree, AP!tree, A!Root, AP!Root, A!Calls, AP!Calls,
               A!Nodes, AP!Nodes, A!SubFuncs, AP!SubFuncs, A!Cardinality, AP!Cardinality,
               A!NamesOf, AP!NamesOf, A!LatestSame, AP!LatestSame
<1>4. A!MostCalled => AP!MostCalled
  BY ACardinality, ANames DEF A!MostCalled, AP!MostCalled, A!tree, AP!tree
<1>5. A!Climb => AP!Climb
  BY ANames DEF A!Climb, AP!Climb, A!tree, AP!tree
<1> QED
  BY <1>1, <1>2, <1>3, <1>4, <1>5 DEF A!Next, AP!Next

LEMMA ARun == FilesSpec /\ focus = "analysis" => [](focus = "analysis") /\ AP!Spec
<1>1. FilesInit /\ focus = "analysis" => AP!Init
  BY AInit DEF FilesInit
<1>2. focus = "analysis" /\ [FilesNext]_<<focus, vars, guardVars, treeVars>> =>
        (focus = "analysis")' /\ [AP!Next]_AP!vars
  BY AStep DEF FilesNext, treeVars, AP!vars
<1> QED
  BY <1>1, <1>2, PTL DEF FilesSpec, AP!Spec

\* What the analyses report of a tree is what the tree says; of calls that are not
\* equally deep they may report no common parent.
THEOREM AnalysesAreRight == FilesSpec => []AnalysisIsRight
<1>1. AP!AnalysisIsRight => A!AnalysisIsRight
  <2>1. AP!LongestAreListed => A!LongestAreListed
    BY ACardinality, ANames DEF A!LongestAreListed, AP!LongestAreListed
  <2>2. A!Above = AP!Above
    BY ANames DEF A!Above, AP!Above
  <2>3. AP!RecursionsAreFound => A!RecursionsAreFound
    BY Zenon DEF A!RecursionsAreFound, AP!RecursionsAreFound, A!Repeats, AP!Repeats, A!Above, AP!Above,
                 A!NamesOf, AP!NamesOf, A!Calls, AP!Calls, A!Nodes, AP!Nodes, A!Root, AP!Root
  <2>4. AP!CommonParentIsNearest => A!CommonParentIsNearest
    BY <2>2 DEF A!CommonParentIsNearest, AP!CommonParentIsNearest,
                A!IsCommonParent, AP!IsCommonParent
  <2> QED
    BY <2>1, <2>3, <2>4 DEF A!AnalysisIsRight, AP!AnalysisIsRight
<1>2. focus = "analysis" /\ AP!AnalysisIsRight => AnalysisIsRight
  BY <1>1 DEF AnalysisIsRight
<1>3. focus # "analysis" => AnalysisIsRight
  BY DEF AnalysisIsRight
<1>4. focus = "analysis" /\ FilesSpec => []AnalysisIsRight
  BY <1>2, ARun, AnalysisAssumption, AP!AnalysisRight, PTL
<1>5. focus # "analysis" /\ FilesSpec => []AnalysisIsRight
  <2>1. focus # "analysis" /\ [FilesNext]_<<focus, vars, guardVars, treeVars>> => (focus # "analysis")'
    BY DEF FilesNext
  <2> QED
    BY <1>3, <2>1, PTL DEF FilesSpec
<1>6. focus = "analysis" \/ focus # "analysis"
  OBVIOUS
<1> QED
  BY <1>4, <1>5, <1>6, PTL
=============================================================================
