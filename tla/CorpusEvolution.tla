-------------------------- MODULE CorpusEvolution --------------------------
(***************************************************************************)
(* The checks of a round's programs (execution/sanitize.rs): batches of    *)
(* one process per core, whose results are collected in the order of the   *)
(* programs, and the corpus that all of them extend.  At the end of its    *)
(* check a process reads the file of global features, merges what its      *)
(* fuzzer found against them, copies the corpus files with new features to *)
(* the shared corpus, and writes the whole file of features again.  No     *)
(* lock orders the processes: others run between any two of these steps.   *)
(*                                                                         *)
(* A corpus file is the set of features it reaches; libFuzzer names files  *)
(* by their content, so copies of one file are one file.                   *)
(***************************************************************************)
EXTENDS Integers, Sequences

CONSTANTS
  Features,     (* coverage features of the library                         *)
  Initial,      (* the corpus files the library comes with                  *)
  Corpora,      (* the corpora that fuzzing can yield, sequences of files   *)
  NumPrograms,  (* programs of the round                                    *)
  Core          (* config.cores                                             *)

Files == SUBSET Features
Programs == 1..NumPrograms

ASSUME EvolutionAssumption ==
  /\ Initial \subseteq Files /\ Corpora \subseteq Seq(Files)
  /\ NumPrograms \in Nat /\ Core \in Nat \ {0}

VARIABLES
  stage,     (* concurrent_check: "running", "returned", or "interrupted"      *)
  launched,  (* how many programs have a process                               *)
  results,   (* has_errs                                                       *)
  pc,        (* where the process of each program is                           *)
  outcome,   (* how it ended: "correct", "error", or "fuzzer" when its output  *)
             (* is not that of an error                                        *)
  faulty,    (* its checks, or the tools they call, failed: not in the code    *)
  found,     (* the corpus it found, as listed in its control file             *)
  at,        (* the entry of the control file it is at                         *)
  fresh,     (* the entries with new features, still to be copied              *)
  known,     (* global_featuers in its memory                                  *)
  features,  (* the file of global features                                    *)
  shared     (* the shared corpus                                              *)

parentVars == <<stage, launched, results>>
checkVars == <<outcome, faulty, found>>
mergeVars == <<at, fresh, known>>
diskVars == <<features, shared>>
vars == <<parentVars, pc, checkVars, mergeVars, diskVars>>

\* The file of features is missing, truncated, garbled, or whole.
Damaged(state) == [state |-> state, set |-> {}]
Whole(set) == [state |-> "whole", set |-> set]

Reach(S) == UNION S

Init ==
  /\ stage = "running" /\ launched = 0 /\ results = <<>>
  /\ pc = [p \in Programs |-> "waiting"]
  /\ outcome = [p \in Programs |-> "none"]
  /\ faulty = [p \in Programs |-> FALSE]
  /\ found = [p \in Programs |-> <<>>]
  /\ at = [p \in Programs |-> 1]
  /\ fresh = [p \in Programs |-> {}]
  /\ known = [p \in Programs |-> {}]
  /\ features = Damaged("absent") /\ shared = Initial

Goto(p, place) == pc' = [pc EXCEPT ![p] = place]

Exit(p, how, fault) ==
  /\ Goto(p, "exited")
  /\ outcome' = [outcome EXCEPT ![p] = how]
  /\ faulty' = [faulty EXCEPT ![p] = fault]
  /\ UNCHANGED <<parentVars, found, mergeVars, diskVars>>

-----------------------------------------------------------------------------
(* The process of one program.                                              *)

\* One of the checks says no, or the process fails without saying why.
CheckFails(p) == pc[p] = "checking" /\ \E how \in {"error", "fuzzer"} : Exit(p, how, TRUE)

\* The fuzzer has run and the coverage is known, right or wrong; the corpus
\* evolves in either case.
Covered(p) ==
  /\ pc[p] = "checking"
  /\ Goto(p, "reading")
  /\ \E corpus \in Corpora, fault \in BOOLEAN :
       /\ found' = [found EXCEPT ![p] = corpus]
       /\ faulty' = [faulty EXCEPT ![p] = fault]
  /\ UNCHANGED <<parentVars, outcome, mergeVars, diskVars>>

\* Without a file of features they are those of the shared corpus.
ReadFeatures(p) ==
  /\ pc[p] = "reading" /\ features.state \in {"absent", "whole"}
  /\ Goto(p, "merging")
  /\ known' = [known EXCEPT ![p] = IF features.state = "whole" THEN features.set
                                   ELSE Reach(shared)]
  /\ UNCHANGED <<parentVars, checkVars, at, fresh, diskVars>>

\* Mutant: a missing file of features cannot be parsed either.
ReadOrFail(p) == pc[p] = "reading" /\ features.state # "whole" /\ Exit(p, "fuzzer", faulty[p])

\* What another process has not finished writing cannot be parsed: check fails.
ReadFails(p) ==
  /\ pc[p] = "reading" /\ features.state \in {"empty", "garbled"}
  /\ Exit(p, "fuzzer", faulty[p])

\* libFuzzer fails to merge the corpus the program found.
MergeFails(p) == pc[p] = "merging" /\ at[p] = 1 /\ Exit(p, "fuzzer", TRUE)

\* Mutant: a file is new when all of it is.
MergeWhollyNew(p) ==
  /\ pc[p] = "merging" /\ at[p] <= Len(found[p])
  /\ LET file == found[p][at[p]]
     IN  /\ fresh' = [fresh EXCEPT ![p] = IF file \cap known[p] = {} THEN @ \cup {at[p]} ELSE @]
         /\ known' = [known EXCEPT ![p] = @ \cup file]
  /\ at' = [at EXCEPT ![p] = @ + 1]
  /\ UNCHANGED <<parentVars, pc, checkVars, diskVars>>

\* A file of the corpus is of interest when it has a feature that is not known.
Merge(p) ==
  /\ pc[p] = "merging" /\ at[p] <= Len(found[p])
  /\ LET file == found[p][at[p]]
     IN  /\ fresh' = [fresh EXCEPT ![p] = IF file \subseteq known[p] THEN @ ELSE @ \cup {at[p]}]
         /\ known' = [known EXCEPT ![p] = @ \cup file]
  /\ at' = [at EXCEPT ![p] = @ + 1]
  /\ UNCHANGED <<parentVars, pc, checkVars, diskVars>>

Merged(p) ==
  /\ pc[p] = "merging" /\ at[p] > Len(found[p])
  /\ Goto(p, "copying")
  /\ UNCHANGED <<parentVars, checkVars, mergeVars, diskVars>>

\* The files of interest are copied in their order.
Copy(p) ==
  /\ pc[p] = "copying"
  /\ \E i \in fresh[p] :
       /\ \A j \in fresh[p] : i <= j
       /\ shared' = shared \cup {found[p][i]}
       /\ fresh' = [fresh EXCEPT ![p] = @ \ {i}]
  /\ UNCHANGED <<parentVars, pc, checkVars, at, known, features>>

\* Mutant: the features are written while files are still to be copied.
TruncateEarly(p) ==
  /\ pc[p] = "copying"
  /\ Goto(p, "writing")
  /\ features' = Damaged("empty")
  /\ UNCHANGED <<parentVars, checkVars, mergeVars, shared>>

\* fs::write truncates the file ...
Truncate(p) ==
  /\ pc[p] = "copying" /\ fresh[p] = {}
  /\ Goto(p, "writing")
  /\ features' = Damaged("empty")
  /\ UNCHANGED <<parentVars, checkVars, mergeVars, shared>>

\* ... and writes it from its start, over what another process wrote since; of
\* a longer content the end stays.
Overwrites(old, new) == old.state = "empty" \/ (old.state = "whole" /\ old.set \subseteq new)

WriteFeatures(p) ==
  /\ pc[p] = "writing"
  /\ Goto(p, "written")
  /\ \/ features' = Whole(known[p])
     \/ ~Overwrites(features, known[p]) /\ features' = Damaged("garbled")
  /\ UNCHANGED <<parentVars, checkVars, mergeVars, shared>>

\* The verdict on the coverage is given at last.
Finish(p) == pc[p] = "written" /\ Exit(p, IF faulty[p] THEN "error" ELSE "correct", faulty[p])

Check(p) ==
  \/ CheckFails(p) \/ Covered(p) \/ ReadFeatures(p) \/ ReadFails(p) \/ MergeFails(p)
  \/ Merge(p) \/ Merged(p) \/ Copy(p) \/ Truncate(p) \/ WriteFeatures(p) \/ Finish(p)

-----------------------------------------------------------------------------
(* The process that asks for the checks.                                    *)

\* A batch is launched when the one before it has been collected.
Launch ==
  /\ stage = "running" /\ Len(results) = launched /\ launched < NumPrograms
  /\ LET next == IF launched + Core <= NumPrograms THEN launched + Core ELSE NumPrograms
     IN  /\ launched' = next
         /\ pc' = [p \in Programs |-> IF p \in (launched + 1)..next THEN "checking" ELSE pc[p]]
  /\ UNCHANGED <<stage, results, checkVars, mergeVars, diskVars>>

\* The next child is waited for.
Collect ==
  /\ stage = "running" /\ Len(results) < launched
  /\ pc[Len(results) + 1] = "exited"
  /\ results' = Append(results, outcome[Len(results) + 1])
  /\ UNCHANGED <<stage, launched, pc, checkVars, mergeVars, diskVars>>

Return ==
  /\ stage = "running" /\ Len(results) = NumPrograms
  /\ stage' = "returned"
  /\ UNCHANGED <<launched, results, pc, checkVars, mergeVars, diskVars>>

\* The user interrupts all of them.
Interrupt ==
  /\ stage = "running"
  /\ stage' = "interrupted"
  /\ pc' = [p \in Programs |-> IF pc[p] \in {"waiting", "exited"} THEN pc[p] ELSE "killed"]
  /\ UNCHANGED <<launched, results, checkVars, mergeVars, diskVars>>

Next == (\E p \in Programs : Check(p)) \/ Launch \/ Collect \/ Return \/ Interrupt

Spec == Init /\ [][Next]_vars

-----------------------------------------------------------------------------
(* Properties.                                                              *)

Places == {"waiting", "checking", "reading", "merging", "copying", "writing", "written",
           "exited", "killed"}
Outcomes == {"none", "correct", "error", "fuzzer"}

\* The types of the state; only a process that ended has an outcome.
TypeOK ==
  /\ stage \in {"running", "returned", "interrupted"}
  /\ launched \in 0..NumPrograms /\ results \in Seq(Outcomes)
  /\ pc \in [Programs -> Places]
  /\ outcome \in [Programs -> Outcomes] /\ faulty \in [Programs -> BOOLEAN]
  /\ found \in [Programs -> Seq(Files)] /\ at \in [Programs -> Nat \ {0}]
  /\ fresh \in [Programs -> SUBSET Nat] /\ known \in [Programs -> Files]
  /\ \A p \in Programs : outcome[p] # "none" <=> pc[p] = "exited"
  /\ features \in [state : {"absent", "empty", "garbled", "whole"}, set : Files]
  /\ shared \subseteq Files

\* The results are those of the programs they are taken for, in whatever order
\* the processes of a batch end, and there is one for each program.
ResultsAligned ==
  /\ \A i \in 1..Len(results) : results[i] = outcome[i]
  /\ stage = "returned" => Len(results) = NumPrograms

\* Every feature recorded as known is reached by a file of the shared corpus,
\* wherever the processes are interrupted: the files are copied first.
BackedByCorpus == features.set \subseteq Reach(shared)

\* Whatever processes overwrite of each other's features, the shared corpus
\* reaches all that the fuzzer of a program that passed has found.
FoundIsKept ==
  \A p \in Programs : outcome[p] = "correct" =>
    \A i \in 1..Len(found[p]) : found[p][i] \subseteq Reach(shared)

Batch(p) == (p - 1) \div Core

\* A program without fault is rejected only after two processes of one batch, its
\* own or an earlier one, were both evolving the corpus.
MisjudgedByOverlap ==
  \A p \in Programs : outcome[p] = "fuzzer" /\ ~faulty[p] =>
    \E q, r \in Programs :
      q # r /\ Batch(q) = Batch(r) /\ Batch(q) <= Batch(p) /\ found[q] # <<>> /\ found[r] # <<>>
=============================================================================
