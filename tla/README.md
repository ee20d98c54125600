# Verification of constraint_fuzz in TLA+

`constraint_fuzz` asks a language model for C++ programs that call a library, keeps the programs that compile, run
and reach new branches, and mutates its prompt from what it learned. `func_stack_pass` is the LLVM plugin and the
runtime that make an instrumented library write *guard files*, traces of calls, loops and conditions, and
`constraint_fuzz` reads those files back into call trees. This directory holds the TLA+ modules of both halves, the TLC
runs that check them on small instances, and the proofs that TLAPS checks for every value of the constants.
`PROJECT.json` lists components, runs, mutants (one plausible bug per property that the run must catch), the source
lines behind each definition, hazards, findings and theorems.

Contents: 1 inventory, 2 modules and code, 3 runs, 4 bounds, 5 fairness, 6 proofs, 7 findings, 8 not modelled, 9 plan.
Paths are relative to `src/`; `cf/` stands for `constraint_fuzz/src/`.

## 1. Inventory

### 1.1 Tracing: `func_stack_pass/` and `cf/analysis/constraint/inter/exec_tree/`

| component | state | operations | what makes it correct |
|---|---|---|---|
| **trace runtime**, `func_stack_pass/src/runtime/func_stack.cc` | maps from thread id to output stream, function stack, recursion lock and loop stack; one global mutex | `push_func`, `pop_func`, `loop_entry`, `loop_end`, the record functions, `thread_rec`, the SIGINT handler, the closing of the streams | `pop_func` finds its function whatever exceptions did to the stack; the lock sits on the outermost repeated function; guarded records come in matching pairs; what is written reaches the file |
| **instrumentation plugin**, `func_stack_pass/src/plugin.cc` | none beyond the module it rewrites | inserts a push at each entry, a pop before each `ret`, a loop entry in each header, a loop end in each exit block *per exiting edge*, records at calls and branches | the order of the inserted calls |
| **guard-file reader**, `thread_tree.rs`, `action.rs`, `mod.rs` | a tree of calls with a current node per file; a forest of threads | `read_line`: descend on *enter*, ascend on *return*, append otherwise; `from_guard_dir`: one tree per file, linked by thread ids | the current node is the frame that wrote the record; reading ends; every tree hangs below the main one |
| **execution-tree analysis**, `analyze.rs` | a queue, a stack and a list per visitor | longest nodes, recursion check, most called function and the common parent of two of its calls | what is reported is what the tree says; a node below its own name is a leaf |

The plugin fixes which runtime functions a thread calls and in which order; the runtime writes records; the reader sees
nothing but the records. The runtime never sees the call stack: it learns of calls and of ordinary returns, and nothing
tells it of frames that an exception, `longjmp` or `pthread_exit` discards. **Hard:** the runtime's stack and the real
one drift apart; three guards (loop limit, recursion lock, both) silence records independently and must agree on
*enter* and *return*; loop counters belong to a thread although loops belong to activations; thread ids are reused.

### 1.2 Generation: the loop of `cf/fuzzer.rs` and what it calls

| component | state | operations | what makes it correct |
|---|---|---|---|
| **fuzz loop**, `fuzzer.rs` | `quiet_round`, `has_checked`, the round's programs | `generate_until_n_success`, `fuzz_loop`, `is_converge`, `should_recheck`, `sync_from_previous_state` | it ends; rounds are counted as documented; a restart continues where the last session stopped |
| **branch coverage**, `feedback/branches/mod.rs`, `feedback/observer.rs` | bits per branch and bucket not yet seen | `has_new`, `has_unique_branch`, `merge`, `recompute_global_coverage`, `sync_from_previous` | the coverage is that of the seeds |
| **seed queue and output directory**, `deopt.rs` | `seed_queue`, `seed_id`; `succ_seeds/`, `seeds/`, `work/` | `update_seed_queue`, `save_program`, `load_programs_from_seeds`, `read_sort_dir`, `select_seed_exclude` | memory and the three directories agree |
| **program quality**, `program/mod.rs`, `program/serde.rs` | unique branches per seed, call counters per API (`exec_counter.json`) | `compute_quality`, `update_unique_branches`, (de)serialization | a branch is credited to one seed |
| **minimize**, `minimize.rs` | retained coverage | two passes over `succ_seeds/` and `seeds/` | no coverage is lost |
| **session log**, `execution/logger.rs` | counters per round and in total, printed to `fuzzer_*.log` | print, reset, load from the previous log | the counters a restart reads are the last ones printed |
| **program checks**, `execution/sanitize.rs` | `work/id_*`, the shared corpus and its global features | syntax, link, execution, fuzz and coverage checks in batches of processes; `evolve_corpus`; `recheck_seed` | results stay aligned with programs; a program is rejected for its own faults only |
| **execution**, `execution/mod.rs` | child processes, `fuzz.log`, profiles | `execute`, `execute_pool`, `execute_fuzzer`, `collect_code_coverage`, the coverage pool | an answer for every file; nobody waits forever; no process is left behind |
| **power schedule**, `feedback/schedule.rs` | energy per API, loaded counters | `update_energies`, `should_shuffle`, `assemble_high_energy_combiantion` | draws end; counters survive restarts |
| **prompt mutation**, `mutation.rs`, `program/rand.rs` | the prompt's APIs | insert, delete, replace, crossover | loops end; the prompt stays within its length |
| **language model requests**, `request/openai.rs`, `request/prompt.rs` | cost in `misc/openai_usage`; the prompt and its counters in files | request with retries, count the cost, load and save | no answer goes uncounted; the budget is respected |
| **InCoder requests**, `request/incoder.rs` | a child process that serves a port | start, probe, kill | no server outlives its session |
| **coverage collection**, `execution/mod.rs`, `analysis/constraint/exec_rec/mod.rs` | profiles, guard files and coverage files per corpus file; the names of running cases | run traced binaries in a pool of processes, merge profiles, find the records again | a record that is read is that of one run |
| **library fuzzers**, `program/libfuzzer.rs` | `ERROR_COUNT`, incidents, driver masks | compile, spawn, respawn after a crash, sanitize crashes | a faulty driver is masked, others are not |

One thread runs the loop. It hands programs to check processes and to worker threads and takes up their results when
all have ended; it shares nothing with them but the file system. **Hard:** credits move between seeds while the files of
both are written one by one; the recheck, the recount and the reloading of the queue are three passes over the same
files; `exponent_branch` is a global switched on and off by callees; the loop can be interrupted anywhere and resumes
from whatever files it finds; a watch polls a process that may end at any moment.

### 1.3 The rest

Driver transformation, API gadgets, headers, argument constraints, control and data flow, clang trees, coverage
reports and constraints, the layout of the coverage experiments, the constraint analysis, the function source trees, the
file-descriptor sanitizer, the compiler wrapper, precompiled headers, the configuration and the binaries are
listed in `PROJECT.json` with what is modelled of them and why not more (section 8).

## 2. Modules and the code they model

### 2.1 Tracing

**`FuncStack`** is one instrumented thread on the runtime. `frames` is the environment, the real call stack with the
loops each frame is in; `funcStack`, `recurLock` and `loopStack` are the thread's entries in the runtime's maps, `out`
the records of the last step, `crashed` a failed assertion of `pop_func`. The actions are what a thread can do:
`Start`, `Call`, `Return`, `HeaderHit`, `LoopExit`, `Record`, `ThreadRec`, and, with `Abnormal`, `Discard` (a frame is
lost to an exception) and `ThreadExit` (all are, and the next thread with this id finds what is left). `PopTo`
contains the whole unwinding loop of `pop_func` with the release of the lock in the middle of it; `LoopEnd` contains
one call of `loop_end` per exiting edge. Control flow is constrained by constants: which loops nest, which exit blocks
are shared, which calls exist. Record texts are abstracted to kind and name; the count in "out of loop" is read through
a reference to a popped entry, which changes no later step.

**`TraceTree`** extends it with the reader: `ReadRecord` is `read_line` on one record, applied to the records of each
step in order. Of the tree only the path from the root to the current node is kept. `NameOf` is the cutting of
demangled names. `open` says whether the location of a call stands in front of the next record without an end of line.
**`CallCursor`** is the abstract promise: a cursor that follows calls and returns edge by edge, or
waits where it lost the thread until the thread is back. Under the conditions of `trace_clean`, `TraceTree` implements it.

**`GuardFiles`** is all threads of one process and their files: `create_of` with its static flag, the stream per thread
id, buffers that reach the file when they are full or the stream is closed, the ends of a process (`Exit`, `Interrupt`
with its handler that closes without the lock, `Crash`), the reuse of thread ids, and `from_guard_dir` afterwards, which
reads the files in any order, line by line. `SkipGuard` is the parser's step over a text it does not know: over the
length it did parse, or over nothing. `RefuseLine` is every error of `read_line`, which ends the reading of the file and
of the directory: any line may be refused, because the texts are not modelled (`TraceTree` says when a return is). `Tidy`
says that main outlives the other threads; `Foreign` that uninstrumented code starts threads, which no record announces.
A thread may stop within a line, where `pthread_exit` or `exit` is called: the location of the call is written before it.

**`TreeAnalysis`** is `analyze.rs` on one finished tree, in the order of its passes: the walk in breadth (`Visit`) with
the list of the longest nodes (`Push`), the recursion check in depth with its assertion (`CheckRecur`), the most called
function (`MostCalled`; ties are in the order of a hash map, hence any), and the lockstep climb to a common parent
(`Climb`). Its properties compare each result with a definition over the tree itself, and are proved for every tree (section 6).
The common parent of two calls is the last node on both of their paths from the root, at any depths (`IsCommonParent`): that
the climb reports it if the calls are equally deep, and never another node, is a property that holds; that it reports one always is not (section 7).

### 2.2 The fuzz loop

**`GlobalBranches`** has the pure operators on coverage: the bit vector per branch, `Hits`, `HasNew`, `HasUnique`,
`Merge` and `MergeCoverage` in both modes. Counts are their buckets.

**`FuzzLoop`** is a session. A program is its id and its coverage; `queue` and `branches` are the memory, `succDir`,
`seedDir` and `workDir` the directories, `log` what a restart reads of the log. `phase` is the place in `fuzz_loop`:

| phase | actions | code |
|---|---|---|
| loop | `StartRound`, `Converge` | the `loop` of `fuzz_loop`, `is_converge` |
| generate, check | `Request`, `Check` | `generate_until_n_success` with `check_programs_are_correct` |
| save, update | `SaveSucc`, `Process` | the `for` over the round's programs: save, credit, queue, merge |
| mutate | `EndRound` | `mutate_prompt`, counting of quiet rounds, `should_recheck` |
| recheck, drop | `RecheckSeed`, `DropSeed`, `Recompute` | `recheck_seed` per program, removal in two directories, `recompute_global_coverage`, reload |
| report | `Report` | `reset_round`, the log line |
| minimize, done | `Minimize`, `Finish` | `minimize` |

What a program covers, whether its checks fail and which way they leave its directory, and what a recheck removes are
nondeterministic. A response always yields `Samples` programs, as chat models are asked for that many; completion models,
whose answers cost nothing and may be short, are not covered. The choice of seeds for the prompt is nondeterministic.
`round.gained` and nothing else in this module is not in the code.

**`SeedPool`** is the abstract specification of the feedback: a pool of programs and a set of covered branches. A
program joins exactly when it reaches an uncovered branch; programs leave only during a recheck; a recount makes the
covered branches those of the programs left.

**`Campaign`** composes sessions: `Work` is a step of `FuzzLoop` and the writing of `exec_counter.json`, `Crash` stops
the process between two steps, `CrashChecking` and `CrashSaving` in the middle of the two that write several files.
`fs::write` empties a file before it fills it, so three more crashes leave the file being written cut short, in `torn`:
`CrashWritingMisc` the counters or the prompt, `CrashWritingSucc` a successful program, `CrashWritingSeed` a seed.
`Resume` is `sync_from_previous_state`, `ResumeFails` its panics and errors: no counters, a profile that is missing, or a
cut file, except for a successful program, which it does not read, and at which `minimize` fails. A cut
`prompt_counter.json` stops nobody: the prompt is loaded first, and its counter is written anew (`fuzzer.rs:202`,
`prompt.rs:93`) before the old one is read (`prompt.rs:74`); `ApiCounters` has that file. `PreviousLog` is what the search for the last
session's log finds. The cost of requests is kept across sessions (`misc/openai_usage`), so `spent` survives.

**`CorpusEvolution`** looks into a check: batches of `Core` processes, one per program, that the parent launches and
then joins in order; each merges what its fuzzer found into the shared corpus and the file of global features by
reading, comparing, copying and rewriting, with no lock. Every file access is a step of its own, and any process may
come between two of them. A corpus file is the set of features it reaches.

### 2.3 Execution

**`ExecutePool`** is `execute_pool`: jobs of a thread pool, the shared flag, the channel, the caller that joins the pool
and then receives one result per file, while holding a sender itself. **`FuzzerWatch`** is `execute_fuzzer`: the
once-a-second loop, and libFuzzer writing its log or ending at any moment in between. **`CoverageRuns`** is
`execute_cov_fuzzer_pool` under the commands that use it: workers that run a traced build per corpus file, the profile
and the guard files of each run, the export of its coverage, the merging of profiles, and the search for records
(`from_cov_path`) over directories that earlier commands may have left half full. `names` is the global map of execution names.

### 2.4 Generation

**`Requests`** is the asking: `RETRY_N` tries per request, the error that ends the loop at once, the usage added in
memory and written by emptying and filling the file, the budget compared between rounds; `Crash` at any point and
`Restart` with either kind of model. `got`, `mine` and `missed` only count. **`ApiCounters`** is the three files of the
prompt and its counters; an operation is a `plan` of writes, and a crash may tear each. **`IncoderServer`** is the child process that
serves the other model over several sessions. **`PromptMutation`** is every way a prompt is made, draw by
draw; which APIs have energy is any set.

### 2.5 Modules for checking

`MCFuncStack`, `MCTraceTree`, `MCFuzzLoop`, `MCCampaign` and `MCFuzzerWatch` only define constants. Three more are *suites* of
components that share no state: **`MCExecution`** (pool, watch, coverage), **`MCGeneration`** (requests, counters,
server, prompts) and **`MCFiles`** (corpus, guard files with tidy threads or with strays, tree analysis). Each extends
one component and instantiates the others. A variable `focus`, chosen initially, says which of them takes the steps; the
others stay as they began, so the state space is the sum of the components' and not their product, and nothing is lost
as no step of one reads a variable of another. A suite asserts the assumptions of the modules it instantiates.

Operators that a comment calls *mutant* are deliberate bugs used to test the properties; no specification uses them.

## 3. Runs

| run | distinct states | question | properties |
|---|---|---|---|
| `runtime_abnormal` | 70,473 | do stacks and lock survive discarded frames and reused thread ids? | the live frames stay embedded in the function stack (`FramesEmbedded`), so `pop_func` never fails (`PopNeverUnderflows`); the lock is on the outermost repeat (`LockOnOutermostRepeat`) and never moves while taken (`LockIsStable`); looking at the innermost loop only is enough (`OnlyTopExceeds`) |
| `trace_clean` | 1,815 | does the reader rebuild the calls? Programs without unwinding, overloads or recursion from inside a loop of the same function | the current node is the frame (`PathIsCallPath`), recursion ends in leaves (`RecursionIsLeaf`), the runtime's stack is the call stack (`StackIsCallStack`), a loop is silent exactly past its limit (`LoopGuardExact`), no line is left open (`LinesAreEnded`), and the refinement `FollowsCalls` of `CallCursor` |
| `trace_recursion_in_loop`, `trace_unwind` | violations | are those conditions needed? | `ReaderNeverFails`, `RecursionIsLeaf`; section 7 |
| `fuzz_once` | 714,677 | a whole session with recheck and minimize | `SeedsReachCoverage`, `NothingDismissed`, `QueueIsOnDisk`, `CreditIsUnique`, `ProfilesAreKept`, `MinimizeLosesNothing`, the refinement `ImplementsPool`, and `LoopEnds` |
| `fuzz_quiet` | violation | does a quiet round mean no new coverage? | `QuietRoundsAreQuiet` |
| `campaign_resume` | 526,541 | two sessions, the first interrupted anywhere, also in the middle of a write | `ResumeKeepsCoverage`, `ResumeKeepsCredit` |
| `campaign_ids` | violation | does a resumed session count on? | `ResumedIdsAreFresh` |
| `executions` | 56,938 | are answers, verdicts and records right, and do they come? | of the pool `ResultIsExact`, `WaitsOnlyAfterPanic`; of the watch `VerdictIsExplained`; of the coverage `RecordsAreOfOneRun`, `ProfileHasRecords`; of all three `ExecutionsEnd` |
| `fuzzer_flat` | violation | is a flat fuzzer stopped? | `FlatIsStopped` |
| `generation` | 34,620 | what do interruptions cost, and do draws end? | `UsageIsSaved`, `BudgetHolds` (requests), `OneCallBehind` (counters), `OrphansAreExplained` (server), `PromptAsIntended` (prompts), `GenerationEnds` |
| `files_on_disk` | 1,228,639 | does unlocked sharing lose anything, and is what was written read? | `BackedByCorpus`, `FoundIsKept`, `MisjudgedByOverlap` (corpus), `WrittenIsOnDisk`, `TreesAreLinked`, `ReadingEnds` (guard files), `AnalysisIsRight` (trees) |


Type invariants are proved where there are proofs, and take no room in the runs. `CHECK_DEADLOCK FALSE` is set
throughout, because all of these systems stop: threads end, the loop is done, a session is down, a call has returned.

What the passing runs say about the hard parts:

- *Unwinding.* Extra names may lie between the live frames on the runtime's stack, never instead of one; that is why the
  unchecked `while` of `pop_func` is safe, and it is not obvious from the code.
- *Guards.* The three guards agree on pairs as long as loop counters are not shared by activations of one function.
- *Threads and files.* The file called `_main` is that of the first record, whichever thread writes it. It is the main
  thread's whenever all threads come from instrumented code, since their creation is a record. A thread that reuses an id appends to the
  same stream. After a return of main or an interrupt nothing written before is missing, although the handler takes no lock.
  Reading a run ends, with trees or with an error, wherever its threads stopped, or it hangs at the end of a file that ends
  behind the location of a call (`Stuck`); it does so nowhere else.
- *Rechecking.* After a recheck the coverage is the seeds' coverage, although the branch map is rebuilt from profiles
  and the queue from files. `NothingDismissed` and `CreditIsUnique` hold only until then: the recount credits branches in
  id order, so a removed seed's branch may return to nobody, and a program rejected for it earlier stays rejected.
- *Interruptions.* The older seeds are saved with their reduced credits before the new seed: a crash in between leaves a
  branch uncredited rather than twice credited. An interrupted `minimize` has lost nothing, because programs are
  considered by falling coverage and the copies are made before the removals they justify. A session that cannot be
  resumed has no seeds to lose, or was killed in the middle of a write and left a file that has to be removed by hand
  (`Broken`). One interruption costs one counted answer and one counted call at most.
- *Shared corpus.* The lost update of the features file is harmless for coverage: features are written after the corpus
  files that reach them are copied, and a lost update makes a later process copy again. What it can do is to make a
  reader meet a half-written file, and a right program is then rejected; only processes of one batch can do that to each other.
- *Pools.* Workers that see the flag send nothing, so there are fewer results than files; the error that raised the flag
  is received before the missing ones are missed. Only a panic breaks this.
- *Trees.* Recursions are found once each, and the tenth longest node is displaced only by a longer one. A common parent that is
  reported is the nearest, and for calls of equal depth one is reported; for others the climb gives up.

## 4. Bounds

- `FuncStack`, `TraceTree`: `MaxStack` is the length of the runtime's stack, `MaxHits` and `MaxCount` bound loop
  counters, `MaxLoops` the loop stack. With `LOOP_LIMIT = 1` (the value `install.sh` sets) two hits exceed
  the limit and three go on past it. Four stack entries on two functions allow nested recursion below a
  taken lock with frames discarded between; six in `trace_clean` add a second repetition of each name.
- `GuardFiles`: three ids with one thread each and two texts (`threads`): a thread can create one that creates another and ends
  before its creator has recorded it. Two ids used twice (`strays`): an id is reused, also main's neighbour while the process ends.
  A text may be the last of its file whatever it is.
- `TreeAnalysis`: every tree of five nodes with two functions, or with all names different, three patterns of lengths,
  and a list of three (ten in the code): the list overflows, with ties; recursion is direct and over one function; the two calls
  have equal and different depths, and climb up to two edges.
- `FuzzLoop`: two branches with two buckets, three coverages that overlap (each branch alone, both together in the other
  buckets), so a program may be new in a bucket but not in a branch, may subsume two seeds, or may be subsumed by
  two. Three requests of two programs give six programs, enough for a round with several, a quiet round, a recheck that
  removes any of them, and a minimize. `MaxId` never blocks a request, since `Budget` ends the loop first: if it did,
  `LoopEnds` would fail. `ShuffleAfter` stands for the 30 programs of `should_shuffle` (whose comment says 20). `Failures`
  holds one kind in `fuzz_once` because the loop does not tell the kinds apart; `campaign_*` has all three, as they leave
  different directories.
- `Campaign`: two sessions without recheck. Both bounds are conditions of the properties and not only of the run: a
  third session meets files that a resumed one overwrote under reused ids (section 7), and a recheck may remove the one
  seed that reached a branch while the rejected programs stay; with either, TLC finds `ResumeKeepsCoverage` false.
  A write that is cut leaves a file that cannot be parsed: what is cut behind a program's header loses some of its text only.
  As there is no recheck, no crash falls between the removals or into the writes of one.
- `CorpusEvolution`: three programs on two cores, a full batch and a shorter last one; corpora of one or two files that
  overlap within a program and between programs.
- `ExecutePool`: five files on three threads: some wait while others run, finish and fail in any order.
- `FuzzerWatch`: time is scaled (`MinTime` 2 for 60, `MaxTime` 8 for 600): three samples before the last second, coverage
  up to three, so that a fuzzer can be flat at once, late, or never. Debug mode and its timeout are an initial choice.
  Of the errors of a sample only that of an empty log is there (`SampleFails`): a log that is not UTF-8 or a number that
  does not parse (`execution/mod.rs:367`, `1079`) ends the watch the same way.
- `CoverageRuns`: two cases on two workers, a seed's directory and two experiments', two commands: the second meets what
  the first left, in the same directory or in another. `ExpeDir` takes the directory of an experiment for a new one: it is named
  by the time in seconds (`deopt.rs:711`) and created if there is none, so two commands within a second would share it.
- `Requests`: five tries as in the code, rounds of two requests, a budget of three, four sessions. `ApiCounters`,
  `IncoderServer`: as many sessions, so that what one left is met by the next and passed on. `PromptMutation`: four APIs, seeds with none to four
  calls, prompts of three (five in the code), so that each operator meets a seed that is too short, long enough and too long.

## 5. Fairness

Safety runs use none. `FuzzLoop!FairSpec` is weak fairness of the whole step relation: one thread, whose external calls
all return, because requests, compilers and executions have timeouts. It says nothing about outcomes: all programs may
fail, and it still ends. `ExecutePool!FairSpec` is weak fairness of all steps: workers and caller are threads, and a
program under test ends by its timeout. `FuzzerWatch` schedules the watch only; the fuzzer may do nothing
forever. `CoverageRuns` schedules `Progress`, the workers and the command: a run ends by its timeout, and whether it ends well is left open.
`Requests` schedules `Request`: the HTTP client gives up after a minute. `IncoderServer` schedules the probes, not the
server. `GuardFiles` schedules the reader, of orderly threads' files and of strays', not the threads: it is a loop, once
started, and which lines it refuses is left open. `PromptMutation` schedules `Draw`; a draw of
an API that is in the prompt already changes nothing and is no step, so this says that an API with energy is drawn sooner
or later, which random draws do with probability one. With too few APIs to draw from no step is possible and the draws
go on forever; `DrawsEnd` says they end whenever there are enough. Crashes are never fair.

## 6. Proofs

All theorems hold for every value of the constants that satisfies the named assumptions of the modules, which TLC
evaluates in the runs.

**`FuncStackProofs`**, about `FuncStack` with `Abnormal` either way, any program and any `LOOP_LIMIT`:
`TypeCorrect`; `PopSafe` (`PopNeverUnderflows`); `FramesStay` (`FramesEmbedded`); `LockExact` (`LockOnOutermostRepeat`);
`LockNeverMoves` (`LockIsStable`); `LoopStackSound` (`OnlyTopExceeds`); `LoopsApart` (no loop twice in a row on the loop
stack); and, without abnormal ends, `StackExact` (`StackIsCallStack`) and `LoopLimitExact` (`LoopGuardExact`).
`PopNeverUnderflows` is not inductive: from an arbitrary stack a return may miss its function. The strengthening is
`FramesEmbedded`, an order-preserving placement of the live frames in the function stack. A return pops down to the *last*
occurrence of the top frame's name, which is at or above the place the top frame is mapped to, so all other frames stay
placed; a call extends the placement by the new entry; a discard restricts it. The lock's invariant says which prefix of
the stack is free of repetitions; a pop to `k` at or below the lock's frame leaves a shorter such prefix.
`LoopLimitExact` relates the thread's one loop stack to the loops of all frames, which needs every loop to be in one
activation at a time: `LoopsDoNotRecur(reach)`, for a map from functions to the loops they and their callees come to. The
program of `trace_clean` has one; `trace_recursion_in_loop` shows that without it the reader fails.

**`TraceTreeProofs`**, about `TraceTree` under these two hypotheses, for any names and any number of records:
`ReaderIsSafe` (no return at the root), `ReaderIsWhereTheThreadIs` (`PathIsCallPath`), `LinesEnd` (`LinesAreEnded`),
`RecursionIsALeaf` (`RecursionIsLeaf`, if no two functions have one name), and `ReaderFollowsCalls`: each step of runtime
and reader is a step of `CallCursor`, or changes nothing there (`FollowsCalls`). The invariant, `Followed`, says what the reader stands on in terms of the
runtime alone: the names of the frames entered while neither the lock nor a loop over its limit silenced them. `LoopLimitExact` then
gives that an *enter* and the *return* of its frame are written both or neither. A step writes several records (a return
that unwinds the stack); that the readings of any number of records exist, and what they preserve, is argued by a least
counterexample (`Least`), a set of numbers, because an induction theorem cannot be instantiated.

**`GuardFilesProofs`**, for any threads, reuse of ids, texts and bounds: `NothingWrittenIsLost` (what threads wrote until
the end began is, in order, a prefix of the file), `MainTreeIsFound` (one file is the main one; the main thread's if no
foreign code starts threads) and `ForestIsLinked` (every other tree of an orderly run is linked to its creator). The first
rests on `Held` (disk, then memory, hold what was written, and nothing is missing while the process runs), the second on
`MainFirst` (the flag is set exactly while there is no file, and until the main thread has one it is alone), the third on
`CreationsAreWritten` (a thread that started is named in the stream of its creator, or its creator is still to write it) and
`LinksAreRead` (what a file names is linked, or in what the reader still holds). A line the parser cannot read is cut
from the front and never loses a creation, since only locations of calls stand before its last text. Where a thread stops,
and which line is refused, is left open: a refused file ends the reading, and `ForestIsLinked` is about readings that end well.
They are stated with `ThreadAssumption` as a hypothesis so that they can be instantiated.

**`FilesProofs`** instantiates them for both sets of threads of `MCFiles`: `GuardsAreOnDisk` (`WrittenIsOnDisk`) and
`GuardsAreLinked` (`TreesAreLinked`) of the suite. The same module has the theorems about `CorpusEvolution`, for any corpora,
any number of programs and any number of processes in a batch: `FeaturesAreBacked` (`BackedByCorpus`),
`NothingFoundIsLost` (`FoundIsKept`), `ResultsAreAligned` (the result at a position is that of the program there) and,
if a fuzzer leaves at least one file, `RejectedOnlyByOverlap` (`MisjudgedByOverlap`). The invariant follows a process
through its merge: what it knows is backed by the shared corpus, by files it is still to copy, or was read from the file;
the shared corpus only grows, so what others do in between does not matter. For the last theorem it adds that the
features file is empty only while a process writes it, and garbled only after two processes of a batch overlapped.

**`FuzzLoopProofs`**, about `FuzzLoop` for any library, configuration and finite set of branches (the order of `minimize`
needs a program of greatest coverage):

- `LoopInvariant`: the inductive invariant `IInv`, which conjoins the types, *staging* (programs being checked or waiting
  to be processed have ids below the next id, the waiting ones have profiles) and, while looping, `queue = SeedFiles` with
  `SeedKept` (each seed file carries its own id, its coverage is that of its profile, and no program in the stages before
  has its id). Staging is needed because `update_seed_queue` writes all seeds to files named by id: two programs with one
  id would overwrite each other, so `QueueIsOnDisk` rests on fresh ids.
- `QueueSaved` (`QueueIsOnDisk`) follows. `FilesInvariant` carries the same account of the three directories into
  `minimize`; `ProfilesStay` (`ProfilesAreKept`) and `FreshIds` (no id is given out twice in a session) follow from it.
- `LoopImplementsPool` (`ImplementsPool`): initial states map to initial states, and each action to a step of `SeedPool`
  or a stutter. `Process` offers a program; the lemmas `MergeCovers` (merging adds exactly the hits) and
  `UniqueIsUncovered` (a unique branch is one not covered) make that an offer of the pool; `DropSeedDrops` removes;
  `RecountCovers` (merging only the seeds that add a branch covers the same branches as merging all) makes `Recompute` the
  pool's recount.
- `PoolSound` is what `SeedPool` promises: outside a recheck the covered branches are those the pool reaches.
  `CoverageIsReached` (`SeedsReachCoverage`) is that, carried over through the refinement.
- `CreditsAreExclusive` (`CreditIsUnique`): until the recheck, a credited branch is reached by no other seed. The one who
  takes a branch over is the newest seed, and reaches a branch that was not covered, hence not reached.
- `DismissingLosesNothing` (`NothingDismissed`), from `Dismissed`: what any processed program reaches is covered.
- `MinimizeIsSafe` (`MinimizeLosesNothing`), from `Cut`: the retained coverage is at once that of the programs visited and
  that of the seeds visited and not removed, so each removal leaves what the directories reach as it was.

The last part of `FuzzLoopProofs` is about `Campaign`: `NoBranchForgotten` (`ResumeKeepsCoverage`) and `NoCreditShared` (`ResumeKeepsCredit`), with
`Recheck = FALSE` and at most two sessions, both necessary (section 4). In the first session the invariants of the loop
hold, the seed files reach all that was processed, programs in the middle of a step excepted, and credit on disk is not
shared, also while seeds are rewritten one by one; each crash either turns that into what the files
alone say (`Interrupted`), from which `Resume` rebuilds the coverage, or cuts a file that `Resume` reads (`Broken`), and then
the session is refused. A successful program that is cut belongs to the first kind (`CrashWritingSuccInterrupts`).

**`ExecutionProofs`**: of `ExecutePool`, for any corpus and any number of threads, `TypeCorrect`, `AnswersAreExact`
(`ResultIsExact`) and `OnlyPanicsBlock` (`WaitsOnlyAfterPanic`). The invariant relates the jobs to the channel: a result that was sent has
been received or is in it, and a skipped file has a raised flag behind it, which an error in the channel or already
received raised. Of `FuzzerWatch`, for any limits and any log, `VerdictsAreExplained` (`VerdictIsExplained`). Of
`CoverageRuns`, for any cases, experiments, workers and commands, `RecordsAreWhole` (`RecordsAreOfOneRun`) and
`ProfilesAreComplete` (`ProfileHasRecords`): the directory of an experiment is empty until a command evaluates it, a case
in it until it is run (`StillEmpty`), and a run that is recorded has its profile there when profiles are merged (`Profiled`).

**`GenerationProofs`**: of `Requests`, for any number of tries, of requests in a round and of sessions, `TypeCorrect`,
`UsageSaved` (`UsageIsSaved`), `TornByKills` (only a kill leaves an unreadable file) and `BudgetKept` (`BudgetHolds`). The
invariant adds to `UsageIsSaved` an account of each stage (what the memory has and the file lacks), and how much of the
round's allowance has been spent. `LosesOneCall` (`OneCallBehind`) for any counted APIs and prompts, `OrphansExplained`
(`OrphansAreExplained`) for any sessions and probes, and `PromptsAsIntended` (`PromptAsIntended`) for any APIs, energies,
lengths and seeds without repeated calls (`SeedCalls`).

**`TreeAnalysisProofs`**, for any number of nodes, any names of which only the root has the initial one, any lengths and
any limit of the list: `LongestListed`, `RecursionsFound`, `CommonParentFound` (a parent reported is the nearest common one, and
one is reported for equal depths), and `AnalysisRight`, their conjunction.
`AnalysesAreRight` in `FilesProofs` carries it into the suite (`AnalysisIsRight`). The invariant, `TInv`, has a part per pass:

- *the walk*: what was visited and the queue together are without repetition and contain the calls of all that was visited
  (`Walked`), so an empty queue means that every node was visited (`WalkedAll`). The list falls, and of each
  length it has as many entries of at least that length as were visited, up to its limit (`Lists`).
- *the recursion check*: the path leads from the root to the node that is visited, and what waits are later calls of nodes
  on it (`Deepened`), so that the names on the stack are those above the node (`StackIsAbove`) and the latest of them with a
  name is the nearest (`NearestFound`); what was reported are exactly the repeats that no longer wait (`Found`).
- *the climb*: the two pointers are equally far from where they began, and differed at every distance before (`Climbing`).
  Two calls that are equally deep meet, at the latest at the root (`MeetAtRoot`).

That every list can be sorted (`SortExists`) and every set of calls be put in order would be inductions; they are argued by
a least counterexample. `Sorted` and `SubFuncs` are therefore chosen among the arrangements by what they promise,
not computed by a comparison sort. The list holds lengths, of which there is one falling arrangement, and calls
have one increasing one, so the choice leaves nothing open.

**Only model-checked:** liveness (`LoopEnds`, `ExecutionsEnd`, `GenerationEnds`, `ReadingEnds`), which is out of the prover's
reach. The violations of section 7 are counterexamples and not theorems. Every invariant and every action property of a run that
passes is the subject of a theorem.

## 7. Findings

Every one is a run that must find its property violated.

- `trace_recursion_in_loop`: loop counters are kept per thread and matched by location, so a function that calls itself
  from its own loop mixes its activations' counts; an *enter* is suppressed whose *return* is written, and the reader
  rejects the file.
- `trace_unwind`: the reader does not ascend at "unwind from", so after an exception two sibling calls look nested
  and the recursion check asserts.
- `fuzz_quiet`: each program of a round overwrites `has_new`; a round whose *last* program adds nothing counts as quiet.
- `campaign_ids`: the previous log is looked for recursively and found among the `fuzz.log` files below `work/`; all
  counters restart at zero, and new programs take the ids, and overwrite the files, of programs that were kept.
- `fuzzer_flat`: coverage is compared with the first sample only, so a fuzzer that stops growing later runs its full time.


Further disagreements were met while modelling. The models do what the code does, and have no run of their own for these:

- `exec_tree/action.rs:57` cuts names at the first parenthesis, so two overloads are one function to the reader.
- `exec_tree/analyze.rs:556` climbs both call chains at the same pace and reports "No common parent found" for calls of
  different depth, although the root is above both. `CommonParentIsNearest` claims a report for equal depths only.
- `exec_tree/thread_tree.rs:423` skips zero characters, forever, after a text that ends with the location of a call. A run in
  which instrumented code calls `exit(0)` ends with code zero and leaves such a text: the model has it as `Stuck`, and
  `ReadingEnds` fails without that case.
- `deopt.rs:593`, `program/mod.rs:49`, `request/prompt.rs:248` empty seeds, counters and the prompt before they fill them. A
  session killed in between leaves a file at which the next one stops with an error or a panic, although `fuzzer.rs:67` says it
  will "sync from the previous state". The model has it as `Broken`, and `ResumeKeepsCoverage` fails without that case.
- `feedback/schedule.rs:95` with `program/mod.rs:30`: getting a counter to restore it first saves the empty one.
  `fuzzer.rs:202`: the counters of prompts are saved and never restored.
- `execution/sanitize.rs:273` compares a program's corpus files with the features known at its start, each by itself, so
  copies without new coverage are merged.
- `mutation.rs:65` and `feedback/schedule.rs:182`: the APIs deleted from a prompt are those with most energy.
- `analysis/constraint/exec_rec/case_map.rs:29`: the names of executions are global and may be
  entered once; coverage of a second seed in one process stops with an error.
- `execution/mod.rs:468`: the profile of a failed run is to be removed after a `return` that is always taken, so it is
  merged with the rest (`ProfileHasRecords` says no more than that the others are there too).
- `config.rs:239` calls the budget one of a run; `fuzzer.rs:181` compares it with the cost of all runs.
- `request/openai.rs:49`: for a Codex model `generate` calls itself until the stack ends.
- `request/incoder.rs:84`: a start that is given up leaves its server running; `test_incoder_server` (line 256) expects no
  server after the handler is dropped, and tries only a start that succeeds.
- `program/libfuzzer.rs`: `run_libfuzzer` skips what is not a directory, and the walk it uses yields files only.

## 8. Not modelled, and why

- *No state between steps*: driver transformation, gadgets and headers, argument constraints, control and data flow,
  clang trees, coverage reports and constraints, function source trees, the compiler wrapper. They are functions of source
  text or of one argument vector; their results enter the model as constants or nondeterministic choices.
- *Pure I/O*: precompiled headers, compilation, path building, configuration parsing.
- *Unreachable or unfinished in the source*: the respawning of library fuzzers (section 7), the reverse constraint analysis.
- *A process of its own*: `FDSan.h` is compiled into the programs under test and keeps a table per process; nothing of
  the loop depends on it beyond the program's exit code, which is nondeterministic here.
- *Numeric weights*: energies, density and diversity only bias choices the model makes nondeterministically.
- *Text*: the formats of records, logs and prompts. Where a property depends on where a line ends, that is modelled.
- *Most of the source tree* is vendored libraries, examples and generated drivers: they are inputs of the program, not parts of it.

## 9. Plan

Done in order: `FuncStack`, `CallCursor` and `TraceTree` on it, `GlobalBranches`, `SeedPool`, `FuzzLoop`, `Campaign` on
it, `ExecutePool`, `FuzzerWatch`; then `ApiCounters`, `CorpusEvolution`, `PromptMutation`, `GuardFiles`, `CoverageRuns`, `Requests`,
`IncoderServer`, the suites, and `TreeAnalysis`. Left:

1. `Campaign` with `Recheck = TRUE`, to find what an interruption between the two removals leaves, and on `Requests`
   instead of its own `spent`.
2. The parsers of the single record formats, as operators on sequences of tokens; the tables of `FDSan.h`.
3. The compiler wrapper and the function source trees, as pure operators against reference definitions.

Theorems left: a `Campaign` in which resumed sessions count on, as its documentation says, for which `NoBranchForgotten`
should hold for any number of sessions.
