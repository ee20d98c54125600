----------------------------- MODULE CoverageRuns -----------------------------
(***************************************************************************)
(* The collection of coverage over a corpus: execute_cov_fuzzer_pool and   *)
(* execute_cov_fuzzer (execution/mod.rs), for the commands that call them: *)
(* an experiment in a working directory of its own, and the coverage of    *)
(* the seeds in theirs.  Every corpus file is run by the traced coverage   *)
(* build in a process; a run that ends well leaves guard files and a       *)
(* coverage file, by which the records are found again                     *)
(* (analysis/constraint/exec_rec/mod.rs).                                  *)
(***************************************************************************)
EXTENDS Integers, FiniteSets

CONSTANTS
  Cases,       (* the files of the corpora                                  *)
  Seeds,       (* the seeds, each with its working directory                *)
  Expes,       (* the directories of experiments, named by the time         *)
  NoDir,       (* no directory                                              *)
  Workers,     (* max_cpu_count: threads of the pool                        *)
  MaxCommands  (* bound: commands started                                   *)

Dirs == Seeds \cup Expes

RunsAssumption ==
  /\ NoDir \notin Dirs /\ Seeds \cap Expes = {}
  /\ Workers \in Nat \ {0} /\ MaxCommands \in Nat

VARIABLES
  commands,  (* how many commands were started: the current one is the last *)
  names,     (* EXEC_NAME_TO_CASE_PATH of the process                       *)
  pc,        (* idle, next, submit, join, done, bailed, failed              *)
  todo,      (* directories the command has still to evaluate               *)
  dir,       (* fuzzer_dir                                                  *)
  unqueued,  (* cases the loop has not reached                              *)
  queued,    (* cases that wait for a worker                                *)
  running,   (* cases whose process runs                                    *)
  exporting, (* cases whose coverage file is being written                  *)
  profraw,   (* files of profraw_dir: [case, passed]                        *)
  profdata,  (* per directory, what was merged last; {} before              *)
  guards,    (* per directory and case, the runs with files there           *)
  cov        (* per directory and case: none, partial or whole              *)

pool == <<unqueued, queued, running, exporting>>
disk == <<profdata, guards, cov>>
vars == <<commands, names, pc, todo, dir, pool, profraw, disk>>

Run(n, whole) == [run |-> n, whole |-> whole]

Init ==
  /\ commands = 0 /\ names = {} /\ pc = "idle" /\ todo = {} /\ dir = NoDir
  /\ unqueued = {} /\ queued = {} /\ running = {} /\ exporting = {}
  /\ profraw = {}
  /\ profdata = [d \in Dirs |-> {}]
  /\ guards = [d \in Dirs |-> [c \in Cases |-> {}]]
  /\ cov = [d \in Dirs |-> [c \in Cases |-> "none"]]

-----------------------------------------------------------------------------
(* Commands, each a process.                                                *)

Unused == {d \in Expes : \A c \in Cases : guards[d][c] = {} /\ cov[d][c] = "none"}

\* Mutant: the directory of an experiment is not named by the time.
ExpeDirSame(d) == TRUE

\* get_expe_work_dir: the name ends with the time, so the directory is new.
ExpeDir(d) == d \in Unused

Start(ds) ==
  /\ pc \in {"idle", "done", "bailed", "failed"} /\ commands < MaxCommands
  /\ commands' = commands + 1
  /\ names' = {} /\ pc' = "next" /\ todo' = ds
  /\ UNCHANGED <<dir, pool, profraw, disk>>

StartExpe == \E d \in Expes : ExpeDir(d) /\ Start({d})

\* calculate_seed_coverage: all seeds, in one process.
StartSeedCoverage == Start(Seeds)

\* The process is killed, or panics: its pool ends with it.  Runs that are under
\* way leave what they have written.
Stop(how) ==
  /\ pc' = how
  /\ unqueued' = {} /\ queued' = {} /\ running' = {} /\ exporting' = {}
  /\ guards' = [guards EXCEPT ![dir] =
                  [c \in Cases |-> @[c] \cup IF c \in running THEN {Run(commands, FALSE)} ELSE {}]]
  /\ UNCHANGED <<commands, names, todo, dir, profraw, profdata, cov>>

Killed == pc \in {"submit", "join"} /\ Stop("failed")

-----------------------------------------------------------------------------
(* execute_cov_fuzzer_pool.                                                 *)

NextDir ==
  /\ pc = "next"
  /\ \/ /\ todo = {} /\ pc' = "done"
        /\ UNCHANGED <<todo, dir, unqueued, profraw>>
     \/ \E d \in todo :
          /\ dir' = d /\ todo' = todo \ {d} /\ pc' = "submit"
          /\ profraw' = {} /\ unqueued' = Cases
  /\ UNCHANGED <<commands, names, queued, running, exporting, disk>>

\* get_exec_name_from_case_path: the name is the hash of the path, and the map
\* must not have it yet.
Submit(c) ==
  /\ pc = "submit" /\ c \in unqueued
  /\ c \notin names
  /\ names' = names \cup {c}
  /\ unqueued' = unqueued \ {c} /\ queued' = queued \cup {c}
  /\ UNCHANGED <<commands, pc, todo, dir, running, exporting, profraw, disk>>

NameExists(c) ==
  /\ pc = "submit" /\ c \in unqueued /\ c \in names
  /\ Stop("bailed")

Submitted ==
  /\ pc = "submit" /\ unqueued = {}
  /\ pc' = "join"
  /\ UNCHANGED <<commands, names, todo, dir, pool, profraw, disk>>

\* Mutant: pool.join is forgotten.
MergeEarly ==
  /\ pc = "join"
  /\ IF profraw = {} THEN pc' = "failed" /\ UNCHANGED profdata
     ELSE pc' = "next" /\ profdata' = [profdata EXCEPT ![dir] = profraw]
  /\ queued' = {} /\ UNCHANGED <<commands, names, todo, dir, unqueued, running, exporting,
                                 profraw, guards, cov>>

\* pool.join has returned: whatever is in profraw_dir is merged.  Without any
\* file llvm-profdata fails.
Merge ==
  /\ pc = "join" /\ queued = {} /\ running = {} /\ exporting = {}
  /\ IF profraw = {} THEN pc' = "failed" /\ UNCHANGED profdata
     ELSE pc' = "next" /\ profdata' = [profdata EXCEPT ![dir] = profraw]
  /\ UNCHANGED <<commands, names, todo, dir, pool, profraw, guards, cov>>

-----------------------------------------------------------------------------
(* execute_cov_fuzzer, in a worker.                                         *)

Spawn(c) ==
  /\ c \in queued /\ Cardinality(running \cup exporting) < Workers
  /\ queued' = queued \ {c} /\ running' = running \cup {c}
  /\ UNCHANGED <<commands, names, pc, todo, dir, unqueued, exporting, profraw, disk>>

Leaves(c, whole) ==
  guards' = [guards EXCEPT ![dir][c] = @ \cup {Run(commands, whole)}]

\* The process ends with code zero: its streams are closed, its profile is
\* written, and the coverage file is created for the export.
Exits(c) ==
  /\ c \in running
  /\ running' = running \ {c} /\ exporting' = exporting \cup {c}
  /\ profraw' = profraw \cup {[case |-> c, passed |-> TRUE]}
  /\ Leaves(c, TRUE)
  /\ cov' = [cov EXCEPT ![dir][c] = "partial"]
  /\ UNCHANGED <<commands, names, pc, todo, dir, unqueued, queued, profdata>>

\* Another code or a signal.  A run that fails in its last destructors has already
\* written its profile; the removal of the file comes after the return that is
\* taken because standard error is always a pipe.
Fails(c) ==
  /\ c \in running
  /\ running' = running \ {c}
  /\ \E wrote \in SUBSET {[case |-> c, passed |-> FALSE]} : profraw' = profraw \cup wrote
  /\ Leaves(c, FALSE)
  /\ UNCHANGED <<commands, names, pc, todo, dir, unqueued, queued, exporting, profdata, cov>>

\* Mutant: there is no timeout.
NeverTimesOut(c) == FALSE /\ UNCHANGED vars

\* wait_timeout: the process is killed, it writes no profile.
TimesOut(c) ==
  /\ c \in running
  /\ running' = running \ {c}
  /\ Leaves(c, FALSE)
  /\ UNCHANGED <<commands, names, pc, todo, dir, unqueued, queued, exporting, profraw,
                 profdata, cov>>

\* llvm-cov wrote the file, or failed: the worker panics, the file stays.
Exported(c) ==
  /\ c \in exporting
  /\ exporting' = exporting \ {c}
  /\ \/ cov' = [cov EXCEPT ![dir][c] = "whole"]
     \/ UNCHANGED cov
  /\ UNCHANGED <<commands, names, pc, todo, dir, unqueued, queued, running, profraw,
                 profdata, guards>>

Work(c) == Spawn(c) \/ TimesOut(c) \/ Exported(c)

Main ==
  \/ NextDir
  \/ \E c \in Cases : Submit(c) \/ NameExists(c)
  \/ Submitted
  \/ Merge

Next ==
  \/ StartExpe
  \/ StartSeedCoverage
  \/ Killed
  \/ Main
  \/ \E c \in Cases : Work(c) \/ Exits(c) \/ Fails(c)

Spec == Init /\ [][Next]_vars

\* The command or one of its workers goes on; whether a process ends by itself
\* is its own affair, but the timeout ends it.
Progress == Main \/ \E c \in Cases : Work(c)
FairSpec == Spec /\ WF_vars(Progress)

-----------------------------------------------------------------------------
(* Properties.                                                              *)

\* A record of an experiment that is read, by its coverage file, has the guard
\* files of one run, which ended well: none that a killed run has left cut off,
\* none of another process, whose threads have other ids.
RecordsAreOfOneRun ==
  \A d \in Expes, c \in Cases :
    cov[d][c] = "whole" => \E n \in 1..commands : guards[d][c] = {Run(n, TRUE)}

\* The merged profile of an experiment, on which its constraints are based, has
\* the profile of every run that has a record.
ProfileHasRecords ==
  \A d \in Expes : profdata[d] # {} =>
    \A c \in Cases : cov[d][c] = "whole" => [case |-> c, passed |-> TRUE] \in profdata[d]

\* A collection comes to an end although runs hang, crash or fail to export.
CommandEnds == pc = "next" ~> pc \in {"done", "bailed", "failed"}
=============================================================================
