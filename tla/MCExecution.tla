----------------------------- MODULE MCExecution -----------------------------
(***************************************************************************)
(* The three ways execution/mod.rs runs a binary: on every file of a       *)
(* corpus (ExecutePool), under libFuzzer's own loop (FuzzerWatch), and on  *)
(* every file with its trace and coverage (CoverageRuns).  They share no   *)
(* state; a behaviour is one of the first, the second or the third, as     *)
(* focus says.  Five files on three threads; three samples before the time *)
(* of a fuzzer is up; two experiments and the coverage of a seed.          *)
(***************************************************************************)
EXTENDS ExecutePool

CONSTANTS
  MinTime, MaxTime, TimeOut, MaxCov, NoLine, Other,
  Cases, Seeds, Expes, NoDir, Workers, MaxCommands,
  c1, c2, s1, e1, e2

VARIABLES
  focus,
  debug, pc, time, previous, stopping, outcome, child, line, cov, samples,
  commands, names, covPc, todo, dir, unqueued, queued, running, exporting, profraw,
  profdata, guards, covFiles

watching == <<debug, pc, time, previous, stopping, outcome, child, line, cov, samples>>
collecting ==
  <<commands, names, covPc, todo, dir, unqueued, queued, running, exporting, profraw,
    profdata, guards, covFiles>>

W == INSTANCE FuzzerWatch
C == INSTANCE CoverageRuns WITH pc <- covPc, cov <- covFiles

ASSUME SuiteAssumption == W!WatchAssumption /\ C!RunsAssumption

ExecInit ==
  /\ focus \in {"pool", "watch", "coverage"}
  /\ Init /\ W!Init /\ C!Init
  /\ focus # "watch" => debug = FALSE

ExecNext ==
  \/ focus = "pool" /\ Next /\ UNCHANGED <<focus, watching, collecting>>
  \/ focus = "watch" /\ W!Next /\ UNCHANGED <<focus, vars, collecting>>
  \/ focus = "coverage" /\ C!Next /\ UNCHANGED <<focus, vars, watching>>

\* The fairness of each of the three.
ExecSpec ==
  /\ ExecInit /\ [][ExecNext]_<<focus, vars, watching, collecting>>
  /\ WF_vars(focus = "pool" /\ Next)
  /\ WF_watching(focus = "watch" /\ W!Watch)
  /\ WF_collecting(focus = "coverage" /\ C!Progress)

-----------------------------------------------------------------------------
\* A fuzzer is stopped, and a program blamed, only as FuzzerWatch says.
VerdictIsExplained == W!VerdictIsExplained

\* A record that is read is that of one run, as CoverageRuns says.
RecordsAreOfOneRun == C!RecordsAreOfOneRun

\* A merged profile has the runs of all records, as CoverageRuns says.
ProfileHasRecords == C!ProfileHasRecords

\* execute_pool returns unless a worker panicked; execute_fuzzer returns; and a
\* collection of coverage ends: whatever the programs do that are run.
ExecutionsEnd ==
  /\ focus = "pool" => Returns
  /\ focus = "watch" => W!Returns
  /\ focus = "coverage" => C!CommandEnds
=============================================================================
