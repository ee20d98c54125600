----------------------------- MODULE FuzzerWatch -----------------------------
(***************************************************************************)
(* Executor::execute_fuzzer of execution/mod.rs: libFuzzer runs a program  *)
(* under test while the executor looks once a second whether it has ended, *)
(* and every MinTime seconds at the coverage in the last line of its log.  *)
(* A fuzzer whose coverage does not grow is stopped, and so is one that    *)
(* has run MaxTime seconds.  Whatever makes execute_fuzzer fail is held    *)
(* against the program (sanitize.rs, is_program_fuzz_correct).             *)
(***************************************************************************)
EXTENDS Naturals, Sequences

CONSTANTS
  MinTime,     (* MIN_FUZZ_TIME, 60 in the code                       *)
  MaxTime,     (* MAX_FUZZ_TIME, 600 in the code                      *)
  TimeOut,     (* get_fuzz_time_out_as_secs(), for debug mode          *)
  MaxCov,      (* bound: coverage a program can reach                  *)
  NoLine,      (* the log is still empty                               *)
  Other        (* the last line of the log tells no coverage           *)

WatchAssumption ==
  /\ {MinTime, MaxTime} \subseteq Nat \ {0}
  /\ {TimeOut, MaxCov} \subseteq Nat
  /\ NoLine # Other /\ {NoLine, Other} \cap Nat = {}

VARIABLES
  debug,      (* is_debug_mode()                                        *)
  pc,         (* "sample", "poll", or "returned"                        *)
  time,       (* cost_time                                              *)
  previous,   (* previous_cov; Other for None                           *)
  stopping,   (* should_break                                           *)
  outcome,    (* "none", "ok", or "error"                               *)
  child,      (* "running", "exited", or "killed"                       *)
  line,       (* the last line of fuzz.log                              *)
  cov,        (* what the fuzzer covers                                 *)
  samples     (* what was read so far; the code keeps previous_cov only *)

watchVars == <<debug, pc, time, previous, stopping, outcome, samples>>
childVars == <<child, line, cov>>
vars == <<watchVars, childVars>>

Init ==
  /\ debug \in BOOLEAN
  /\ pc = "sample" /\ time = 0
  /\ previous = Other /\ stopping = FALSE
  /\ outcome = "none"
  /\ child = "running" /\ line = NoLine /\ cov = 0
  /\ samples = <<>>

-----------------------------------------------------------------------------
(* The fuzzer.                                                              *)

\* libFuzzer writes a line, with its coverage, which never shrinks, or without.
Write ==
  /\ child = "running"
  /\ cov' \in cov..MaxCov
  /\ line' \in {cov', Other}
  /\ UNCHANGED <<watchVars, child>>

\* It crashes, runs into a limit or ends.
Exit ==
  /\ child = "running"
  /\ child' = "exited"
  /\ UNCHANGED <<watchVars, line, cov>>

-----------------------------------------------------------------------------
(* The watch.                                                               *)

SampleDue == time >= MinTime /\ time % MinTime = 0

TimeIsUp == time >= MaxTime \/ (debug /\ time >= TimeOut)

\* Reading the coverage from an empty log fails, and execute_fuzzer with it.
SampleFails ==
  /\ pc = "sample" /\ SampleDue /\ line = NoLine
  /\ pc' = "returned" /\ outcome' = "error"
  /\ samples' = Append(samples, line)
  /\ UNCHANGED <<debug, time, previous, stopping, childVars>>

\* Mutant: a line without coverage counts as no coverage gained.
SampleAnyLine ==
  /\ pc = "sample" /\ (SampleDue => line # NoLine)
  /\ pc' = "poll"
  /\ samples' = IF SampleDue THEN Append(samples, line) ELSE samples
  /\ previous' = IF SampleDue /\ previous = Other THEN line ELSE previous
  /\ stopping' = (stopping \/ TimeIsUp \/ (SampleDue /\ line \in {previous, Other}))
  /\ UNCHANGED <<debug, time, outcome, childVars>>

\* Otherwise the coverage is compared with the one read first.
Sample ==
  /\ pc = "sample" /\ (SampleDue => line # NoLine)
  /\ pc' = "poll"
  /\ samples' = IF SampleDue THEN Append(samples, line) ELSE samples
  /\ previous' = IF SampleDue /\ previous = Other THEN line ELSE previous
  /\ stopping' = (stopping \/ TimeIsUp \/ (SampleDue /\ line # Other /\ line = previous))
  /\ UNCHANGED <<debug, time, outcome, childVars>>

\* The fuzzer ended by itself: an error, whatever was decided.
PollExited ==
  /\ pc = "poll" /\ child = "exited"
  /\ pc' = "returned" /\ outcome' = "error"
  /\ UNCHANGED <<debug, time, previous, stopping, samples, childVars>>

PollStop ==
  /\ pc = "poll" /\ child = "running" /\ stopping
  /\ child' = "killed"
  /\ pc' = "returned" /\ outcome' = "ok"
  /\ UNCHANGED <<debug, time, previous, stopping, samples, line, cov>>

PollRunning ==
  /\ pc = "poll" /\ child = "running" /\ ~stopping
  /\ time' = time + 1 /\ pc' = "sample"
  /\ UNCHANGED <<debug, previous, stopping, outcome, samples, childVars>>

Watch == SampleFails \/ Sample \/ PollExited \/ PollStop \/ PollRunning

Next == Watch \/ Write \/ Exit

Spec == Init /\ [][Next]_vars

\* The watching thread is scheduled; the fuzzer may do nothing at all.
FairSpec == Spec /\ WF_vars(Watch)

-----------------------------------------------------------------------------
(* Properties.                                                              *)

\* A fuzzer stopped before its time is up has gained nothing between two samples
\* that were MinTime or more apart, and none is watched for longer than MaxTime.
\* A program is blamed only if its fuzzer ended, or had written nothing when a
\* sample was due; this is also the only way to leave a fuzzer running.
VerdictIsExplained ==
  /\ time <= MaxTime
  /\ outcome = "ok" /\ time < MaxTime /\ ~(debug /\ time >= TimeOut) =>
       \E i, j \in DOMAIN samples :
         /\ i < j /\ samples[i] = samples[j] /\ samples[i] \in Nat
         /\ \A k \in i..j : samples[k] \in {samples[i], Other}
  /\ outcome = "error" => child = "exited" \/ NoLine \in {samples[i] : i \in DOMAIN samples}
  /\ pc = "returned" /\ child = "running" => outcome = "error"

\* A fuzzer that gained no coverage since the sample before is stopped: "no
\* coverage gained during config::MIN_FUZZ_TIME, break" (execution/mod.rs:343).
FlatIsStopped ==
  \A i \in DOMAIN samples :
    i > 1 /\ samples[i] \in Nat /\ samples[i] = samples[i - 1] => stopping

\* execute_fuzzer returns, whatever the fuzzer does.
Returns == <>(pc = "returned")
=============================================================================
