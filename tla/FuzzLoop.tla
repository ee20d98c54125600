------------------------------ MODULE FuzzLoop ------------------------------
(***************************************************************************)
(* The fuzz loop of constraint_fuzz/src/fuzzer.rs: rounds of asking the    *)
(* language model for programs, checking them, keeping those that reach    *)
(* new branches, and deciding from the number of quiet rounds whether to   *)
(* recheck the seeds, to go on, or to stop and minimize.  It runs in one   *)
(* process; Campaign.tla adds the crashes and the restarts.                *)
(*                                                                         *)
(* A program is its id and its coverage.  Three directories hold programs: *)
(* succDir every program that passed the checks, seedDir those that were   *)
(* worth mutating, with the unique branches credited to them, and workDir  *)
(* what checking left: the coverage profile and libFuzzer's fuzz.log.      *)
(***************************************************************************)
EXTENDS GlobalBranches

CONSTANTS
  Feasible,       (* the coverages a program can have                        *)
  Removed,        (* a failed check whose directory is removed               *)
  Kept,           (* a hang before the fuzzer ran: the directory stays       *)
  Logged,         (* a fuzzer error: the directory stays, with a fuzz.log    *)
  Failures,       (* the failures that occur                                 *)
  Absent,         (* no file                                                 *)
  Samples,        (* n_sample: programs in one response                      *)
  RoundSucc,      (* fuzz_round_succ                                         *)
  ConvergeRound,  (* fuzz_converge_round                                     *)
  Recheck,        (* config.recheck                                          *)
  Budget,         (* query_budget, in requests                               *)
  ShuffleAfter,   (* programs of which one should be right, 30 in the code   *)
  MaxId           (* bound: programs asked for                               *)

ASSUME FeasibleAssumption == Feasible \subseteq Coverages
ASSUME FailuresAssumption == Failures \subseteq {Removed, Kept, Logged}
ASSUME ResultAssumption == Coverages \cap {Removed, Kept, Logged} = {}
ASSUME ConfigAssumption ==
  /\ {Samples, RoundSucc, ShuffleAfter} \subseteq Nat \ {0}
  /\ {ConvergeRound, Budget, MaxId} \subseteq Nat
  /\ Recheck \in BOOLEAN

Ids == 0..(MaxId - 1)

VARIABLES
  phase,     (* where the loop is                                          *)
  seedId,    (* deopt.seed_id: the next program's id                       *)
  quiet,     (* quiet_round                                                *)
  checked,   (* has_checked                                                *)
  spent,     (* requests made, up to Budget                                *)
  pending,   (* ids of the programs being checked                          *)
  found,     (* ids in succ_programs that are still to be processed        *)
  round,     (* the round: [total, succ] of the logger, programs, hasNew,  *)
             (* and gained, which the code does not have: a program of the *)
             (* round reached a new branch                                 *)
  queue,     (* deopt.seed_queue                                           *)
  branches,  (* observer.branches                                          *)
  todo,      (* ids that a recheck or minimize has still to visit          *)
  kept,      (* what the retained seeds cover in minimize                  *)
  succDir,   (* succ_seeds/                                                *)
  seedDir,   (* seeds/                                                     *)
  workDir,   (* work/id_*: the profile and whether there is a fuzz.log     *)
  log        (* this session's log: last counters, first quiet_round       *)

loopVars == <<seedId, quiet, checked, spent, pending, found, round>>
feedbackVars == <<queue, branches>>
visitVars == <<todo, kept>>
fileVars == <<succDir, seedDir, workDir>>
vars == <<phase, loopVars, feedbackVars, visitVars, fileVars, log>>

Program(i, cov, unique) == [id |-> i, cov |-> cov, unique |-> unique]
Programs == [id : Ids, cov : Coverages, unique : SUBSET Branches]
Works == [cov : Coverages \cup {Absent}, log : BOOLEAN]

ASSUME AbsentAssumption == Absent \notin Coverages /\ Absent \notin Programs /\ Absent \notin Works

NoCounts == [total |-> 0, succ |-> 0]
NoRound == [total |-> 0, succ |-> 0, programs |-> 0, hasNew |-> FALSE, gained |-> FALSE]
EmptyLog == [total |-> 0, counts |-> NoCounts, quiet |-> Absent]

SuccIds == {i \in Ids : succDir[i] # Absent}
SeedIds == {i \in Ids : seedDir[i] # Absent}
HasProfile(i) == workDir[i] # Absent /\ workDir[i].cov # Absent

\* Directories are read in the order of the file names, hence of the ids.
First(S) == CHOOSE i \in S : \A j \in S : i <= j

Init ==
  /\ phase = "loop"
  /\ seedId = 0 /\ quiet = 0 /\ checked = FALSE /\ spent = 0
  /\ pending = {} /\ found = {}
  /\ round = NoRound
  /\ queue = {} /\ branches = Untouched
  /\ todo = {} /\ kept = {}
  /\ succDir = [i \in Ids |-> Absent]
  /\ seedDir = [i \in Ids |-> Absent]
  /\ workDir = [i \in Ids |-> Absent]
  /\ log = EmptyLog

-----------------------------------------------------------------------------
(* A round: generate_until_n_success.                                       *)

IsConverge == quiet >= ConvergeRound \/ spent >= Budget

StartRound ==
  /\ phase = "loop" /\ ~IsConverge
  /\ phase' = "generate"
  /\ round' = [round EXCEPT !.programs = 0, !.hasNew = FALSE, !.gained = FALSE]
  /\ UNCHANGED <<seedId, quiet, checked, spent, pending, found, feedbackVars,
                 visitVars, fileVars, log>>

\* The programs of one response take the next ids.
Request ==
  /\ phase = "generate" /\ seedId + Samples <= MaxId
  /\ phase' = "check"
  /\ pending' = seedId..(seedId + Samples - 1)
  /\ seedId' = seedId + Samples
  /\ spent' = IF spent < Budget THEN spent + 1 ELSE spent
  /\ UNCHANGED <<quiet, checked, found, round, feedbackVars, visitVars, fileVars, log>>

\* Mutant: a prompt that yields no program at all is tried forever.
ShouldShuffleIfAny(succ, total) == succ # 0 /\ succ * ShuffleAfter < total

\* should_shuffle gives up on a prompt that yields too few programs.
ShouldShuffle(succ, total) ==
  \/ succ = 0 /\ total >= ShuffleAfter
  \/ succ # 0 /\ succ * ShuffleAfter < total

\* What check_programs_are_correct leaves of a program's directory.  A failed
\* program's directory is removed, except after a hang or a fuzzer error.
WorkAfter(old, res) ==
  CASE res = Removed -> Absent
    [] res = Kept   -> [cov |-> IF old = Absent THEN Absent ELSE old.cov,
                        log |-> old # Absent /\ old.log]
    [] res = Logged -> [cov |-> IF old = Absent THEN Absent ELSE old.cov, log |-> TRUE]
    [] OTHER -> [cov |-> res, log |-> TRUE]

\* Every program of the response is judged, in parallel, and counted; the
\* counters are printed, their total being the number of ids given out.
Check ==
  /\ phase = "check"
  /\ \E res \in [pending -> Failures \cup Feasible] :
       LET good   == {i \in pending : res[i] \in Feasible}
           total  == round.total + Cardinality(pending)
           succ   == round.succ + Cardinality(good)
           enough == \/ round.programs + Cardinality(good) >= RoundSucc
                     \/ ShouldShuffle(succ, total)
       IN  /\ workDir' = [i \in Ids |-> IF i \in pending THEN WorkAfter(workDir[i], res[i])
                                        ELSE workDir[i]]
           /\ found' = found \cup good
           /\ round' = [round EXCEPT !.total = total, !.succ = succ,
                                     !.programs = @ + Cardinality(good)]
           /\ log' = [log EXCEPT !.total = seedId,
                                 !.counts = [total |-> total, succ |-> succ]]
           /\ phase' = IF ~enough THEN "generate"
                       ELSE IF found' = {} THEN "mutate" ELSE "save"
  /\ pending' = {}
  /\ UNCHANGED <<seedId, quiet, checked, spent, feedbackVars, visitVars, succDir, seedDir>>

-----------------------------------------------------------------------------
(* The successful programs of the round, one by one.                        *)

\* save_succ_program; computing the coverage and the quality comes next.
SaveSucc ==
  /\ phase = "save"
  /\ LET i == First(found)
     IN  succDir' = [succDir EXCEPT ![i] = workDir[i].cov]
  /\ phase' = "update"
  /\ UNCHANGED <<loopVars, feedbackVars, visitVars, seedDir, workDir, log>>

\* Mutant: the credits of the older seeds are left alone.
KeepCredit(q, cov) == q

\* update_unique_branches: a seed loses the credit for what a newer one covers.
LoseCredit(q, cov) == [q EXCEPT !.unique = @ \ Hits(cov)]

\* save_program for every seed of the queue and then for the new one; were an
\* id there twice, either of the two programs might be the one written last.
SavedWith(newest, older) ==
  \E last \in [{q.id : q \in older} -> older] :
    /\ \A j \in DOMAIN last : last[j].id = j
    /\ seedDir' = [j \in Ids |-> IF j = newest.id THEN newest
                                 ELSE IF j \in DOMAIN last THEN last[j]
                                 ELSE seedDir[j]]

\* Mutant: a program is queued but not saved.
UpdateQueueUnsaved(i, cov, new) ==
  IF new # {}
  THEN /\ queue' = {LoseCredit(q, cov) : q \in queue} \cup {Program(i, cov, new)}
       /\ UNCHANGED seedDir
  ELSE UNCHANGED <<queue, seedDir>>

\* update_seed_queue: a program with unique branches becomes a seed; the others
\* are saved among the successful programs once more.
UpdateQueue(i, cov, new) ==
  IF new # {}
  THEN LET older == {LoseCredit(q, cov) : q \in queue}
       IN  /\ SavedWith(Program(i, cov, new), older)
           /\ queue' = older \cup {Program(i, cov, new)}
  ELSE UNCHANGED <<queue, seedDir>>

\* Coverage, quality and queue of the program just saved.  has_unique_branch
\* leaves exponent_branch set, so the merge is in exponential mode; and each
\* program overwrites has_new.
Process ==
  /\ phase = "update"
  /\ LET i   == First(found)
         cov == workDir[i].cov
         new == HasUnique(branches, cov)
     IN  /\ UpdateQueue(i, cov, new)
         /\ branches' = MergeCoverage(branches, cov, TRUE)
         /\ round' = [round EXCEPT !.hasNew = (new # {}), !.gained = @ \/ new # {}]
         /\ found' = found \ {i}
  /\ phase' = IF found' = {} THEN "mutate" ELSE "save"
  /\ UNCHANGED <<seedId, quiet, checked, spent, pending, visitVars, succDir, workDir, log>>

-----------------------------------------------------------------------------
(* The end of a round.                                                      *)

ShouldRecheck(q) == q >= ConvergeRound \div 2 /\ Recheck /\ ~checked

QuietAfter ==
  IF round.hasNew THEN 0 ELSE IF round.programs # 0 THEN quiet + 1 ELSE quiet

\* mutate_prompt saves the one or two seeds it selects; then the quiet rounds
\* are counted.  A round that got stuck is not counted.
EndRound ==
  /\ phase = "mutate"
  /\ \/ UNCHANGED seedDir
     \/ \E q, t \in queue : seedDir' = [seedDir EXCEPT ![q.id] = q, ![t.id] = t]
  /\ quiet' = QuietAfter
  /\ IF ShouldRecheck(quiet')
     THEN phase' = "recheck" /\ todo' = SuccIds
     ELSE phase' = "report" /\ UNCHANGED todo
  /\ UNCHANGED <<seedId, checked, spent, pending, found, round, feedbackVars, kept,
                 succDir, workDir, log>>

\* One successful program is run on the evolved corpus.
RecheckSeed ==
  /\ phase = "recheck" /\ todo # {}
  /\ LET i == First(todo)
     IN  \/ /\ todo' = todo \ {i}
            /\ UNCHANGED <<phase, succDir>>
         \/ /\ succDir' = [succDir EXCEPT ![i] = Absent]
            /\ phase' = "drop"
            /\ UNCHANGED todo
  /\ UNCHANGED <<loopVars, feedbackVars, kept, seedDir, workDir, log>>

\* Mutant: the copy among the seeds stays on disk.
DropSeedFromQueue ==
  /\ phase = "drop"
  /\ LET i == First(todo)
     IN  queue' = {q \in queue : q.id # i} /\ todo' = todo \ {i}
  /\ phase' = "recheck"
  /\ UNCHANGED <<loopVars, branches, kept, fileVars, log>>

\* It failed: its copy among the seeds is removed after the one in succDir.
DropSeed ==
  /\ phase = "drop"
  /\ LET i == First(todo)
     IN  /\ IF seedDir[i] # Absent
            THEN /\ seedDir' = [seedDir EXCEPT ![i] = Absent]
                 /\ queue' = {q \in queue : q.id # i}
            ELSE UNCHANGED <<seedDir, queue>>
         /\ todo' = todo \ {i}
  /\ phase' = "recheck"
  /\ UNCHANGED <<loopVars, branches, kept, succDir, workDir, log>>

\* What seed j adds to the seeds before it.
AddedBy(j) ==
  Hits(workDir[j].cov) \ UNION {Hits(workDir[k].cov) : k \in {k \in SeedIds : k < j}}

\* Mutant: the branch map is not cleared first.
RecountedOnTop ==
  [b \in Branches |->
     branches[b] \ {workDir[j].cov[b] : j \in {j \in SeedIds : AddedBy(j) # {}}}]

\* The branch map after merging, in order, every seed that adds a branch.
Recounted ==
  [b \in Branches |->
     Bits \ {workDir[j].cov[b] : j \in {j \in SeedIds : AddedBy(j) # {}}}]

\* recompute_global_coverage and load_programs_from_seeds: the seeds are
\* credited in order, those that add nothing keep the credit on disk, and the
\* queue is read again.
Recompute ==
  /\ phase = "recheck" /\ todo = {}
  /\ \A j \in SeedIds : HasProfile(j)
  /\ branches' = Recounted
  /\ seedDir' = [j \in Ids |-> IF j \in SeedIds /\ AddedBy(j) # {}
                               THEN [seedDir[j] EXCEPT !.unique = AddedBy(j)]
                               ELSE seedDir[j]]
  /\ queue' = {seedDir'[j] : j \in SeedIds}
  /\ checked' = TRUE /\ quiet' = 0
  /\ phase' = "report"
  /\ UNCHANGED <<seedId, spent, pending, found, round, visitVars, succDir, workDir, log>>

\* reset_round, and the line "[Mutate Loop]: loop: ..., quiet_round: ...".
Report ==
  /\ phase = "report"
  /\ phase' = "loop"
  /\ round' = NoRound
  /\ log' = IF log.quiet = Absent THEN [log EXCEPT !.quiet = quiet] ELSE log
  /\ UNCHANGED <<seedId, quiet, checked, spent, pending, found, feedbackVars,
                 visitVars, fileVars>>

-----------------------------------------------------------------------------
(* minimize.                                                                *)

\* Mutant: minimize starts from the global coverage.
ConvergeCovered ==
  /\ phase = "loop" /\ IsConverge
  /\ phase' = "minimize"
  /\ todo' = SuccIds /\ kept' = Covered(branches)
  /\ UNCHANGED <<loopVars, feedbackVars, fileVars, log>>

\* Every successful program, seed or not, is considered.
Converge ==
  /\ phase = "loop" /\ IsConverge
  /\ phase' = "minimize"
  /\ todo' = SuccIds /\ kept' = {}
  /\ UNCHANGED <<loopVars, feedbackVars, fileVars, log>>

\* Programs by falling coverage, those of equal coverage in order.
HitCount(i) == Cardinality(Hits(workDir[i].cov))
BestFirst(S) ==
  CHOOSE i \in S : \A j \in S \ {i} :
    HitCount(i) > HitCount(j) \/ (HitCount(i) = HitCount(j) /\ i < j)

\* A program that adds no branch to those retained is removed from the seeds;
\* one that does is retained, and copied if it was not a seed.
Retain(i, new) ==
  /\ kept' = kept \cup new
  /\ seedDir' = IF new = {} THEN [seedDir EXCEPT ![i] = Absent]
                ELSE IF seedDir[i] = Absent
                THEN [seedDir EXCEPT ![i] = Program(i, succDir[i], {})]
                ELSE seedDir

Minimize ==
  /\ phase = "minimize" /\ todo # {}
  /\ \A j \in todo : HasProfile(j)
  /\ LET i == BestFirst(todo)
     IN  /\ Retain(i, Hits(workDir[i].cov) \ kept)
         /\ todo' = todo \ {i}
  /\ UNCHANGED <<phase, loopVars, feedbackVars, succDir, workDir, log>>

Finish ==
  /\ phase = "minimize" /\ todo = {}
  /\ phase' = "done"
  /\ UNCHANGED <<loopVars, feedbackVars, visitVars, fileVars, log>>

-----------------------------------------------------------------------------

Next ==
  \/ StartRound \/ Request \/ Check
  \/ SaveSucc \/ Process
  \/ EndRound \/ RecheckSeed \/ DropSeed \/ Recompute \/ Report
  \/ Converge \/ Minimize \/ Finish

Spec == Init /\ [][Next]_vars

\* The loop is one thread, and every call it makes returns: requests, compilers
\* and executions have timeouts.
FairSpec == Spec /\ WF_vars(Next)

-----------------------------------------------------------------------------
(* Properties.                                                              *)

HitsOf(programs) == UNION {Hits(p.cov) : p \in programs}
SeedFiles == {seedDir[i] : i \in SeedIds}
SuccHits == UNION {Hits(succDir[i]) : i \in SuccIds}

Phases == {"loop", "generate", "check", "save", "update", "mutate", "recheck", "drop",
           "report", "minimize", "done"}

\* The shape of the state; a program that waits to be processed has its profile.
TypeOK ==
  /\ phase \in Phases
  /\ seedId \in 0..MaxId /\ quiet \in Nat /\ checked \in BOOLEAN /\ spent \in 0..Budget
  /\ pending \subseteq Ids /\ found \subseteq Ids /\ todo \subseteq Ids
  /\ round \in [total : Nat, succ : Nat, programs : Nat, hasNew : BOOLEAN, gained : BOOLEAN]
  /\ queue \subseteq Programs
  /\ branches \in BranchMaps
  /\ kept \subseteq Branches
  /\ succDir \in [Ids -> Coverages \cup {Absent}]
  /\ seedDir \in [Ids -> Programs \cup {Absent}]
  /\ workDir \in [Ids -> Works \cup {Absent}]
  /\ log.total \in 0..MaxId /\ log.quiet \in Nat \cup {Absent}
  /\ \A i \in found : HasProfile(i)
  /\ phase \in {"save", "update"} => found # {}
  /\ phase = "drop" => todo # {}

\* The global coverage the loop steers by is exactly what its seeds reach: no
\* branch is credited that a seed of the queue does not reach, also after a
\* recheck has removed seeds.
SeedsReachCoverage ==
  phase \notin {"recheck", "drop"} => Covered(branches) = HitsOf(queue)

\* Until a recheck, a program was only left out of the queue when everything it
\* reaches was covered already.
NothingDismissed ==
  ~checked /\ phase \notin {"update", "recheck", "drop"} => SuccHits \subseteq Covered(branches)

\* The loop's queue and branch map are a seed pool.
Pool == INSTANCE SeedPool WITH
  Names <- Ids, Targets <- Branches,
  pool <- {[id |-> q.id, reach |-> Hits(q.cov)] : q \in queue},
  covered <- Covered(branches),
  rechecking <- (phase \in {"recheck", "drop"})

\* The loop does what SeedPool.tla promises of a pool, step by step.
ImplementsPool == Pool!Spec

\* The seeds in memory are the seeds on disk, credits included, so that a
\* restart or the recount after a recheck continues from the same queue.
QueueIsOnDisk == phase \notin {"minimize", "done"} => queue = SeedFiles

\* A branch is credited to one seed at most, and until the recount after a
\* recheck credits the seeds anew, no other seed reaches it.
CreditIsUnique ==
  \A q, t \in queue :
    /\ q.unique \subseteq Hits(q.cov)
    /\ q # t => /\ q.unique \cap t.unique = {}
                /\ ~checked => q.unique \cap Hits(t.cov) = {}

\* Every program that is kept still has the profile of its own run, and no seed
\* outlives its copy among the successful programs except while it is dropped.
ProfilesAreKept ==
  /\ \A i \in SuccIds : HasProfile(i) /\ workDir[i].cov = succDir[i]
  /\ \A i \in SeedIds : HasProfile(i) /\ workDir[i].cov = seedDir[i].cov /\ seedDir[i].id = i
  /\ \A i \in SeedIds \ SuccIds : phase = "drop" /\ i = First(todo)

\* No id is given out twice while programs with higher ids are kept: a new
\* program never overwrites the files of another.
IdsAreFresh == phase \in {"loop", "generate"} => \A i \in SuccIds : i < seedId

\* While seeds are removed one by one, those on disk never reach less: an
\* interruption of minimize loses no coverage.  Those that are left in the end
\* reach every branch that some successful program reaches.
MinimizeLosesNothing ==
  [][phase = "minimize" =>
       /\ HitsOf(SeedFiles) \subseteq HitsOf(SeedFiles')
       /\ phase' = "done" => HitsOf(SeedFiles') = SuccHits']_vars

\* A round counts as quiet only if none of its programs reached a new branch
\* ("How number of round without new coverage is considered as converge").
QuietRoundsAreQuiet == [][quiet' > quiet => ~round.gained]_vars

\* The loop ends: the budget, if not convergence, stops it, and a recheck
\* happens only once.
LoopEnds == <>(phase = "done")
=============================================================================
