---------------------------- MODULE ExecutionProofs ----------------------------
(***************************************************************************)
(* Theorems about the watch of a fuzzer and about the collection of        *)
(* coverage, as they are part of MCExecution's specification, for every    *)
(* time limit and coverage, any number of corpus files, directories,       *)
(* workers and commands; and about what execute_pool answers, for any      *)
(* corpus and any number of threads.                                       *)
(***************************************************************************)
EXTENDS MCExecution, FiniteSetTheorems, SequenceTheorems, TLAPS

-----------------------------------------------------------------------------
(* The watch.                                                               *)

Lines == Nat \cup {NoLine, Other}

\* A sample repeats an earlier one, and none between them says otherwise.
Explained ==
  \E i, j \in DOMAIN samples :
    /\ i < j /\ samples[i] = samples[j] /\ samples[i] \in Nat
    /\ \A k \in i..j : samples[k] \in {samples[i], Other}

WatchTypes ==
  /\ debug \in BOOLEAN /\ time \in Nat /\ cov \in Nat
  /\ pc \in {"sample", "poll", "returned"} /\ stopping \in BOOLEAN
  /\ outcome \in {"none", "ok", "error"} /\ child \in {"running", "exited", "killed"}
  /\ line \in {cov, NoLine, Other}
  /\ previous \in Nat \cup {Other}
  /\ samples \in Seq(Lines)

\* The coverage that is read never shrinks, and previous is one that was read.
Growing ==
  /\ \A i \in 1..Len(samples) : samples[i] \in Nat => samples[i] <= cov
  /\ \A i, j \in 1..Len(samples) :
       i < j /\ samples[i] \in Nat /\ samples[j] \in Nat => samples[i] <= samples[j]
  /\ previous # Other => \E i \in 1..Len(samples) : samples[i] = previous

\* The watch goes on until it is told to stop, for a reason that stays.
Watched ==
  /\ time <= MaxTime
  /\ pc = "poll" => stopping \/ time < MaxTime
  /\ pc = "sample" => ~stopping
  /\ pc # "returned" => \A i \in 1..Len(samples) : samples[i] # NoLine
  /\ stopping /\ time < MaxTime /\ ~(debug /\ time >= TimeOut) => Explained

Judged ==
  /\ outcome # "none" <=> pc = "returned"
  /\ outcome = "ok" => stopping /\ child # "running"
  /\ outcome = "error" => child = "exited" \/ \E i \in 1..Len(samples) : samples[i] = NoLine
  /\ child = "killed" => outcome = "ok"

WInv == WatchTypes /\ Growing /\ Watched /\ Judged

-----------------------------------------------------------------------------
(* The collection of coverage.                                              *)

Busy == covPc \in {"submit", "join"}

CollectTypes ==
  /\ commands \in Nat /\ todo \subseteq C!Dirs
  /\ covPc \in {"next", "submit", "join"} => commands # 0
  /\ UNION {unqueued, queued, running, exporting} \subseteq Cases
  /\ guards \in [C!Dirs -> [Cases -> SUBSET [run : Nat, whole : BOOLEAN]]]
  /\ covFiles \in [C!Dirs -> [Cases -> {"none", "partial", "whole"}]]
  /\ profraw \subseteq [case : Cases, passed : BOOLEAN]
  /\ profdata \in [C!Dirs -> SUBSET [case : Cases, passed : BOOLEAN]]

\* Nothing was run in a directory yet.
Empty(d) == \A c \in Cases : guards[d][c] = {} /\ covFiles[d][c] = "none"

\* A case is at one point of its way, and there is none on its way but while the
\* pool of a directory works.
OneWay ==
  /\ ~Busy => unqueued = {} /\ queued = {} /\ running = {} /\ exporting = {}
  /\ covPc = "join" => unqueued = {}
  /\ Busy => dir \in C!Dirs \ todo
  /\ unqueued \cap queued = {} /\ unqueued \cap running = {} /\ unqueued \cap exporting = {}
  /\ queued \cap running = {} /\ queued \cap exporting = {} /\ running \cap exporting = {}

\* What is still to be evaluated is empty, for a case as for a directory; a run
\* that is being exported is the only one its case has had.
StillEmpty ==
  /\ covPc \in {"next", "submit", "join"} => \A d \in todo \cap Expes : Empty(d)
  /\ Busy /\ dir \in Expes =>
       /\ \A c \in unqueued \cup queued \cup running :
            guards[dir][c] = {} /\ covFiles[dir][c] = "none"
       /\ \A c \in exporting : guards[dir][c] = {C!Run(commands, TRUE)}

\* The profile of a run with a record is there when the profiles are merged, and
\* a directory is merged once.
Profiled ==
  /\ Busy /\ dir \in Expes =>
       /\ profdata[dir] = {}
       /\ \A c \in Cases : covFiles[dir][c] = "whole" \/ c \in exporting =>
            [case |-> c, passed |-> TRUE] \in profraw
       /\ profraw # {} => ~Empty(dir)
  /\ \A d \in Expes : profdata[d] # {} => ~Empty(d)

CInv ==
  /\ CollectTypes /\ OneWay /\ StillEmpty /\ Profiled
  /\ C!RecordsAreOfOneRun /\ C!ProfileHasRecords

-----------------------------------------------------------------------------
(* The watch keeps its invariant.                                           *)

LEMMA Limits ==
  /\ MinTime \in Nat \ {0} /\ MaxTime \in Nat \ {0} /\ TimeOut \in Nat /\ MaxCov \in Nat
  /\ NoLine # Other /\ NoLine \notin Nat /\ Other \notin Nat
  BY SuiteAssumption DEF W!WatchAssumption

\* What was explained stays so.
LEMMA ExplainedStays ==
  ASSUME WatchTypes, Explained, NEW x \in Lines, samples' \in {samples, Append(samples, x)}
  PROVE  Explained'
<1>1. CASE samples' = samples
  BY <1>1 DEF Explained
<1>2. CASE samples' = Append(samples, x)
  <2>1. PICK i \in 1..Len(samples), j \in 1..Len(samples) :
          /\ i < j /\ samples[i] = samples[j] /\ samples[i] \in Nat
          /\ \A k \in i..j : samples[k] \in {samples[i], Other}
    BY DEF Explained, WatchTypes
  <2>2. /\ \A k \in 1..Len(samples) : samples'[k] = samples[k] /\ k \in DOMAIN samples'
    BY <1>2 DEF WatchTypes
  <2>3. \A k \in i..j : k \in 1..Len(samples)
    BY DEF WatchTypes
  <2> QED
    BY <2>1, <2>2, <2>3 DEF Explained
<1> QED
  BY <1>1, <1>2

\* The fuzzer writes: what it covers grows.
LEMMA WriteStep ==
  ASSUME WInv, W!Write
  PROVE  WInv'
<1> USE DEF WInv
<1>1. /\ child = "running" /\ cov' \in cov..MaxCov /\ line' \in {cov', Other}
      /\ UNCHANGED <<debug, pc, time, previous, stopping, outcome, samples, child>>
  BY DEF W!Write, W!watchVars
<1>2. cov' \in Nat /\ cov <= cov'
  BY <1>1, Limits DEF WatchTypes
<1>3. WatchTypes'
  BY <1>1, <1>2 DEF WatchTypes, Lines
<1>4. Growing'
  <2>1. ASSUME NEW i \in 1..Len(samples), samples[i] \in Nat PROVE samples[i] <= cov'
    <3>1. samples[i] <= cov /\ cov \in Nat
      BY <2>1 DEF Growing, WatchTypes
    <3> QED
      BY <1>2, <2>1, <3>1
  <2> QED
    BY <1>1, <2>1 DEF Growing
<1>5. Watched' /\ Judged'
  BY <1>1 DEF Watched, Judged, Explained
<1> QED
  BY <1>3, <1>4, <1>5

\* A sample that is due reads the last line.
LEMMA SampleTyped ==
  ASSUME WInv, samples' \in {samples, Append(samples, line)}, UNCHANGED <<cov, line>>
  PROVE  /\ samples' \in Seq(Lines)
         /\ \A i \in 1..Len(samples') : samples'[i] \in Nat => samples'[i] <= cov
         /\ \A i, j \in 1..Len(samples') :
              i < j /\ samples'[i] \in Nat /\ samples'[j] \in Nat => samples'[i] <= samples'[j]
         /\ samples' = Append(samples, line) =>
              /\ Len(samples') = Len(samples) + 1 /\ samples'[Len(samples) + 1] = line
              /\ \A i \in 1..Len(samples) : samples'[i] = samples[i]
<1> USE DEF WInv
<1>1. samples \in Seq(Lines) /\ Len(samples) \in Nat /\ line \in Lines /\ cov \in Nat
  BY DEF WatchTypes, Lines
<1>2. line \in Nat => line = cov
  BY Limits DEF WatchTypes
<1>3. CASE samples' = samples
  BY <1>1, <1>3 DEF Growing
<1>4. CASE samples' = Append(samples, line)
  <2>1. /\ samples' \in Seq(Lines)
        /\ Len(samples') = Len(samples) + 1 /\ samples'[Len(samples) + 1] = line
        /\ \A i \in 1..Len(samples) : samples'[i] = samples[i]
    BY <1>1, <1>4
  <2>2. \A i \in 1..Len(samples') : i \in 1..Len(samples) \/ i = Len(samples) + 1
    BY <1>1, <2>1
  <2>3. \A i \in 1..Len(samples') : samples'[i] \in Nat => samples'[i] <= cov
    BY <1>1, <1>2, <2>1, <2>2 DEF Growing
  <2>4. ASSUME NEW i \in 1..Len(samples'), NEW j \in 1..Len(samples'),
               i < j, samples'[i] \in Nat, samples'[j] \in Nat
        PROVE  samples'[i] <= samples'[j]
    <3>1. i \in 1..Len(samples)
      BY <1>1, <2>1, <2>4
    <3>2. CASE j \in 1..Len(samples)
      BY <2>1, <2>4, <3>1, <3>2 DEF Growing
    <3>3. CASE j = Len(samples) + 1
      BY <1>2, <2>1, <2>3, <2>4, <3>3
    <3> QED
      BY <2>2, <3>2, <3>3
  <2> QED
    BY <2>1, <2>3, <2>4
<1> QED
  BY <1>3, <1>4

\* An empty log.
LEMMA SampleFailsStep ==
  ASSUME WInv, W!SampleFails
  PROVE  WInv'
<1> USE DEF WInv
<1>1. /\ pc = "sample" /\ line = NoLine
      /\ pc' = "returned" /\ outcome' = "error" /\ samples' = Append(samples, line)
      /\ UNCHANGED <<debug, time, previous, stopping, child, line, cov>>
  BY DEF W!SampleFails, W!childVars
<1>2. samples \in Seq(Lines) /\ Len(samples) \in Nat /\ line \in Lines
  BY DEF WatchTypes, Lines
<1>3. /\ samples' \in Seq(Lines)
      /\ \A i \in 1..Len(samples') : samples'[i] \in Nat => samples'[i] <= cov
      /\ \A i, j \in 1..Len(samples') :
           i < j /\ samples'[i] \in Nat /\ samples'[j] \in Nat => samples'[i] <= samples'[j]
      /\ Len(samples') = Len(samples) + 1 /\ samples'[Len(samples) + 1] = line
      /\ \A i \in 1..Len(samples) : samples'[i] = samples[i]
  BY <1>1, SampleTyped
<1>4. \A i \in 1..Len(samples) : i \in 1..Len(samples')
  BY <1>2, <1>3
<1>5. WatchTypes'
  BY <1>1, <1>3 DEF WatchTypes
<1>6. Growing'
  BY <1>1, <1>3, <1>4 DEF Growing
<1>7. Watched'
  BY <1>1 DEF Watched
<1>8. Judged'
  <2>1. Len(samples) + 1 \in 1..Len(samples')
    BY <1>2, <1>3
  <2>2. child # "killed"
    BY <1>1 DEF Judged
  <2> QED
    BY <1>1, <1>3, <2>1, <2>2 DEF Judged
<1> QED
  BY <1>5, <1>6, <1>7, <1>8

\* A sample, or none: the watch is told to stop only for a reason.
LEMMA SampleStep ==
  ASSUME WInv, W!Sample
  PROVE  WInv'
<1> USE DEF WInv
<1> DEFINE due == W!SampleDue
           n == Len(samples)
<1>1. /\ pc = "sample" /\ (due => line # NoLine)
      /\ pc' = "poll"
      /\ samples' = IF due THEN Append(samples, line) ELSE samples
      /\ previous' = IF due /\ previous = Other THEN line ELSE previous
      /\ stopping' = (stopping \/ W!TimeIsUp \/ (due /\ line # Other /\ line = previous))
      /\ UNCHANGED <<debug, time, outcome, child, line, cov>>
  BY DEF W!Sample, W!childVars
<1> HIDE DEF due
<1>2. /\ samples \in Seq(Lines) /\ n \in Nat /\ line \in Lines /\ time \in Nat /\ debug \in BOOLEAN
      /\ cov \in Nat /\ line \in {cov, NoLine, Other} /\ previous \in Nat \cup {Other}
  BY DEF WatchTypes, Lines
<1>3. /\ samples' \in Seq(Lines)
      /\ \A i \in 1..Len(samples') : samples'[i] \in Nat => samples'[i] <= cov
      /\ \A i, j \in 1..Len(samples') :
           i < j /\ samples'[i] \in Nat /\ samples'[j] \in Nat => samples'[i] <= samples'[j]
      /\ due => /\ Len(samples') = n + 1 /\ samples'[n + 1] = line
                /\ \A i \in 1..n : samples'[i] = samples[i]
  BY <1>1, SampleTyped
<1>4. \A i \in 1..n : i \in 1..Len(samples') /\ samples'[i] = samples[i]
  BY <1>1, <1>2, <1>3
<1>5. due => n + 1 \in 1..Len(samples') /\ \A i \in 1..Len(samples') : i \in 1..n \/ i = n + 1
  BY <1>2, <1>3
<1>6. stopping' \in BOOLEAN /\ ~stopping
  BY <1>1 DEF Watched
<1>7. WatchTypes'
  BY <1>1, <1>2, <1>3, <1>6 DEF WatchTypes
<1>8. previous' # Other => \E i \in 1..Len(samples') : samples'[i] = previous'
  <2>1. CASE due /\ previous = Other
    BY <1>1, <1>3, <1>5, <2>1
  <2>2. CASE ~(due /\ previous = Other)
    BY <1>1, <1>4, <2>2 DEF Growing
  <2> QED
    BY <2>1, <2>2
<1>9. Growing'
  BY <1>1, <1>3, <1>8 DEF Growing
<1>10. \A i \in 1..Len(samples') : samples'[i] # NoLine
  <2>1. \A i \in 1..n : samples[i] # NoLine
    BY <1>1 DEF Watched
  <2> QED
    BY <1>1, <1>3, <1>4, <1>5, <2>1
<1>15. W!TimeIsUp => stopping'
  BY <1>1
<1>16. stopping' => W!TimeIsUp \/ (due /\ line # Other /\ line = previous)
  BY <1>1, <1>6
<1>17. W!TimeIsUp <=> time >= MaxTime \/ (debug /\ time >= TimeOut)
  BY DEF W!TimeIsUp
<1>11. stopping' \/ time < MaxTime
  <2>1. time >= MaxTime \/ time < MaxTime
    BY <1>2, Limits
  <2> QED
    BY <1>15, <1>17, <2>1
<1>12. ASSUME stopping', time < MaxTime, ~(debug /\ time >= TimeOut)
       PROVE  Explained'
  <2>1. due /\ line # Other /\ line = previous
    <3>1. ~(time >= MaxTime)
      BY <1>2, <1>12, Limits
    <3> QED
      BY <1>12, <1>16, <1>17, <3>1
  <2>2. line \in Nat /\ line = cov
    BY <1>1, <1>2, <2>1, Limits
  <2>3. PICK i \in 1..n : samples[i] = line
    BY <2>1 DEF Growing
  <2>4. i < n + 1 /\ i \in DOMAIN samples' /\ n + 1 \in DOMAIN samples'
    BY <1>2, <1>3, <1>4, <1>5, <2>1
  <2>5. samples'[i] = line /\ samples'[n + 1] = line
    BY <1>3, <1>4, <2>1, <2>3
  <2>6. ASSUME NEW k \in i..(n + 1)
        PROVE  samples'[k] \in {samples'[i], Other}
    <3>1. k \in 1..Len(samples') /\ samples'[k] \in Lines
      BY <1>2, <1>3, <2>1
    <3>2. CASE samples'[k] \in Nat
      <4>1. samples'[k] <= line
        BY <1>3, <2>2, <3>1, <3>2
      <4>2. line <= samples'[k]
        BY <1>2, <1>3, <1>4, <2>2, <2>5, <3>1, <3>2
      <4> QED
        BY <2>2, <2>5, <3>2, <4>1, <4>2
    <3>3. CASE samples'[k] \notin Nat
      BY <1>10, <3>1, <3>3 DEF Lines
    <3> QED
      BY <3>2, <3>3
  <2> QED
    BY <2>2, <2>4, <2>5, <2>6 DEF Explained
<1>13. Watched'
  <2>1. time <= MaxTime
    BY DEF Watched
  <2> QED
    BY <1>1, <1>10, <1>11, <1>12, <2>1 DEF Watched
<1>14. Judged'
  BY <1>1 DEF Judged
<1> QED
  BY <1>7, <1>9, <1>13, <1>14

\* The fuzzer ends, or the watch looks at it.
LEMMA PollStep ==
  ASSUME WInv, W!Exit \/ W!PollExited \/ W!PollStop \/ W!PollRunning
  PROVE  WInv'
<1> USE DEF WInv
<1>1. CASE W!Exit
  <2>1. child' = "exited" /\ child = "running"
        /\ UNCHANGED <<debug, pc, time, previous, stopping, outcome, samples, line, cov>>
    BY <1>1 DEF W!Exit, W!watchVars
  <2> QED
    BY <2>1 DEF WatchTypes, Growing, Watched, Judged, Explained
<1>2. CASE W!PollExited
  <2>1. /\ pc = "poll" /\ child = "exited" /\ pc' = "returned" /\ outcome' = "error"
        /\ UNCHANGED <<debug, time, previous, stopping, samples, child, line, cov>>
    BY <1>2 DEF W!PollExited, W!childVars
  <2> QED
    BY <2>1 DEF WatchTypes, Growing, Watched, Judged, Explained
<1>3. CASE W!PollStop
  <2>1. /\ pc = "poll" /\ child = "running" /\ stopping
        /\ pc' = "returned" /\ outcome' = "ok" /\ child' = "killed"
        /\ UNCHANGED <<debug, time, previous, stopping, samples, line, cov>>
    BY <1>3 DEF W!PollStop
  <2> QED
    BY <2>1 DEF WatchTypes, Growing, Watched, Judged, Explained
<1>4. CASE W!PollRunning
  <2>1. /\ pc = "poll" /\ ~stopping /\ time' = time + 1 /\ pc' = "sample"
        /\ UNCHANGED <<debug, previous, stopping, outcome, samples, child, line, cov>>
    BY <1>4 DEF W!PollRunning, W!childVars
  <2>2. time' \in Nat /\ time' <= MaxTime
    BY <2>1, Limits DEF WatchTypes, Watched
  <2>3. WatchTypes' /\ Growing' /\ Judged'
    BY <2>1, <2>2 DEF WatchTypes, Growing, Judged
  <2>4. Watched'
    BY <2>1, <2>2 DEF Watched
  <2> QED
    BY <2>3, <2>4
<1> QED
  BY <1>1, <1>2, <1>3, <1>4

LEMMA WatchInductive ==
  ASSUME WInv, [ExecNext]_<<focus, vars, watching, collecting>>
  PROVE  WInv'
<1>1. CASE W!Next
  BY <1>1, WriteStep, SampleFailsStep, SampleStep, PollStep DEF W!Next, W!Watch
<1>2. CASE UNCHANGED watching
  <2>1. UNCHANGED <<debug, pc, time, previous, stopping, outcome, child, line, cov, samples>>
    BY <1>2 DEF watching
  <2> QED
    BY <2>1 DEF WInv, WatchTypes, Growing, Watched, Judged, Explained
<1> QED
  BY <1>1, <1>2 DEF ExecNext

\* The verdict follows from the invariant.
LEMMA Verdict ==
  ASSUME WInv
  PROVE  VerdictIsExplained
<1> USE DEF WInv
<1>1. outcome = "ok" => stopping
  BY DEF Judged
<1>2. ASSUME NEW i \in 1..Len(samples), samples[i] = NoLine
      PROVE  NoLine \in {samples[k] : k \in DOMAIN samples}
  BY <1>2 DEF WatchTypes
<1>3. outcome = "error" => child = "exited" \/ NoLine \in {samples[i] : i \in DOMAIN samples}
  BY <1>2 DEF Judged
<1>4. pc = "returned" /\ child = "running" => outcome = "error"
  BY DEF Judged, WatchTypes
<1> QED
  BY <1>1, <1>3, <1>4 DEF Watched, Explained, VerdictIsExplained, W!VerdictIsExplained

\* A fuzzer is stopped, and a program blamed, only for the reasons FuzzerWatch gives.
THEOREM VerdictsAreExplained == ExecSpec => []VerdictIsExplained
<1>1. ExecInit => WInv
  <2> SUFFICES ASSUME ExecInit PROVE WInv
    OBVIOUS
  <2>1. /\ debug \in BOOLEAN /\ pc = "sample" /\ time = 0 /\ previous = Other
        /\ stopping = FALSE /\ outcome = "none" /\ child = "running" /\ line = NoLine
        /\ cov = 0 /\ samples = <<>>
    BY DEF ExecInit, W!Init
  <2>2. samples \in Seq(Lines) /\ Len(samples) = 0
    BY <2>1
  <2>3. WatchTypes
    BY <2>1, <2>2 DEF WatchTypes
  <2>4. Growing /\ Judged
    BY <2>1, <2>2 DEF Growing, Judged
  <2>5. Watched
    BY <2>1, <2>2, Limits DEF Watched
  <2> QED
    BY <2>3, <2>4, <2>5 DEF WInv
<1>2. WInv /\ [ExecNext]_<<focus, vars, watching, collecting>> => WInv'
  BY WatchInductive
<1>3. WInv => VerdictIsExplained
  BY Verdict
<1> QED
  BY <1>1, <1>2, <1>3, PTL DEF ExecSpec

-----------------------------------------------------------------------------
(* The collection of coverage keeps its invariant.                          *)

LEMMA Directories ==
  /\ NoDir \notin C!Dirs /\ Seeds \cap Expes = {} /\ Workers \in Nat \ {0} /\ MaxCommands \in Nat
  /\ Seeds \subseteq C!Dirs /\ Expes \subseteq C!Dirs
  BY SuiteAssumption DEF C!RunsAssumption, C!Dirs

\* A command begins: its directories are empty.
LEMMA StartStep ==
  ASSUME CInv, C!StartExpe \/ C!StartSeedCoverage
  PROVE  CInv'
<1> USE DEF CInv
<1>1. PICK ds \in SUBSET C!Dirs : C!Start(ds) /\ \A d \in ds \cap Expes : Empty(d)
  <2>1. CASE C!StartSeedCoverage
    BY <2>1, Directories DEF C!StartSeedCoverage
  <2>2. CASE C!StartExpe
    <3>1. PICK d \in Expes : C!ExpeDir(d) /\ C!Start({d})
      BY <2>2 DEF C!StartExpe
    <3>2. Empty(d)
      BY <3>1 DEF C!ExpeDir, C!Unused, Empty
    <3> QED
      BY <3>1, <3>2, Directories
  <2> QED
    BY <2>1, <2>2
<1>2. /\ covPc \in {"idle", "done", "bailed", "failed"}
      /\ commands' = commands + 1 /\ covPc' = "next" /\ todo' = ds
      /\ UNCHANGED <<dir, unqueued, queued, running, exporting, profraw, profdata, guards, covFiles>>
  BY <1>1 DEF C!Start, C!pool, C!disk
<1>3. ~Busy /\ ~Busy'
  BY <1>2 DEF Busy
<1>4. commands \in Nat /\ commands' \in Nat \ {0}
  BY <1>2 DEF CollectTypes
<1>5. CollectTypes'
  BY <1>2, <1>4 DEF CollectTypes
<1>6. OneWay'
  BY <1>2, <1>3 DEF OneWay
<1>7. StillEmpty'
  BY <1>1, <1>2, <1>3 DEF StillEmpty, Empty
<1>8. Profiled'
  BY <1>2, <1>3 DEF Profiled, Empty
<1>9. C!RecordsAreOfOneRun'
  <2> SUFFICES ASSUME NEW d \in Expes, NEW c \in Cases, covFiles[d][c] = "whole"
               PROVE  \E n \in 1..(commands + 1) : guards[d][c] = {C!Run(n, TRUE)}
    BY <1>2 DEF C!RecordsAreOfOneRun, C!Run
  <2>1. PICK n \in 1..commands : guards[d][c] = {C!Run(n, TRUE)}
    BY DEF C!RecordsAreOfOneRun
  <2>2. n \in 1..(commands + 1)
    BY <1>4
  <2> QED
    BY <2>1, <2>2
<1>10. C!ProfileHasRecords'
  BY <1>2 DEF C!ProfileHasRecords
<1> QED
  BY <1>5, <1>6, <1>7, <1>8, <1>9, <1>10

\* What a step says that leaves commands, what is to do and the files alone.
LEMMA RecordsStay ==
  ASSUME CInv, UNCHANGED <<commands, guards, covFiles>>
  PROVE  C!RecordsAreOfOneRun'
  BY DEF CInv, C!RecordsAreOfOneRun, C!Run

\* The process ends, and its pool with it.
LEMMA StopStep ==
  ASSUME CInv, Busy, NEW how \in {"failed", "bailed"}, C!Stop(how)
  PROVE  CInv'
<1> USE DEF CInv
<1>1. /\ covPc' = how
      /\ unqueued' = {} /\ queued' = {} /\ running' = {} /\ exporting' = {}
      /\ guards' = [guards EXCEPT ![dir] =
                      [c \in Cases |-> @[c] \cup
                         IF c \in running THEN {C!Run(commands, FALSE)} ELSE {}]]
      /\ UNCHANGED <<commands, todo, dir, profraw, profdata, covFiles>>
  BY DEF C!Stop
<1>2. dir \in C!Dirs /\ dir \notin todo /\ ~Busy' /\ covPc' # "next"
  BY <1>1 DEF OneWay, Busy
<1>3. C!Run(commands, FALSE) \in [run : Nat, whole : BOOLEAN]
  BY DEF C!Run, CollectTypes
<1>4. \A d \in C!Dirs : d # dir => guards'[d] = guards[d]
  BY <1>1 DEF CollectTypes
<1>5. \A c \in Cases :
        guards'[dir][c] = guards[dir][c] \cup
           (IF c \in running THEN {C!Run(commands, FALSE)} ELSE {})
  BY <1>1, <1>2 DEF CollectTypes
<1>6. guards' \in [C!Dirs -> [Cases -> SUBSET [run : Nat, whole : BOOLEAN]]]
  <2> DEFINE row == [c \in Cases |-> guards[dir][c] \cup
                       (IF c \in running THEN {C!Run(commands, FALSE)} ELSE {})]
  <2>0. \A c \in Cases : guards[dir][c] \in SUBSET [run : Nat, whole : BOOLEAN]
    BY <1>2 DEF CollectTypes
  <2> DEFINE mark(c) == IF c \in running THEN {C!Run(commands, FALSE)} ELSE {}
  <2>3. \A c \in Cases : mark(c) \in SUBSET [run : Nat, whole : BOOLEAN]
    BY <1>3
  <2> HIDE DEF mark
  <2>4. \A c \in Cases : guards[dir][c] \cup mark(c) \in SUBSET [run : Nat, whole : BOOLEAN]
    BY <2>0, <2>3
  <2>1. row \in [Cases -> SUBSET [run : Nat, whole : BOOLEAN]]
    BY <2>4 DEF mark
  <2>2. guards' = [guards EXCEPT ![dir] = row]
    BY <1>1, <1>2 DEF CollectTypes
  <2> QED
    BY <2>1, <2>2 DEF CollectTypes
<1>7. CollectTypes'
  BY <1>1, <1>2, <1>6 DEF CollectTypes
<1>8. OneWay' /\ StillEmpty'
  BY <1>1, <1>2 DEF OneWay, StillEmpty, Busy
<1>9. \A d \in C!Dirs : Empty(d)' => Empty(d)
  BY <1>1, <1>4, <1>5 DEF Empty
<1>10. Profiled'
  BY <1>1, <1>2, <1>9, Directories DEF Profiled
<1>11. C!RecordsAreOfOneRun'
  <2> SUFFICES ASSUME NEW d \in Expes, NEW c \in Cases, covFiles[d][c] = "whole"
               PROVE  guards'[d][c] = guards[d][c]
    BY <1>1 DEF C!RecordsAreOfOneRun, C!Run
  <2>1. d = dir => c \notin running
    BY DEF StillEmpty
  <2> QED
    BY <1>4, <1>5, <2>1, Directories
<1>12. C!ProfileHasRecords'
  BY <1>1 DEF C!ProfileHasRecords
<1> QED
  BY <1>7, <1>8, <1>10, <1>11, <1>12

\* The loop of execute_cov_fuzzer_pool, but for the end of a directory.
LEMMA MainStep ==
  ASSUME CInv, C!NextDir \/ (\E c \in Cases : C!Submit(c)) \/ C!Submitted
  PROVE  CInv'
<1> USE DEF CInv
<1>1. CASE C!NextDir
  <2>0. /\ covPc = "next" /\ UNCHANGED <<commands, queued, running, exporting, profdata, guards, covFiles>>
        /\ ~Busy
    BY <1>1 DEF C!NextDir, C!disk, Busy
  <2>1. CASE todo = {} /\ covPc' = "done" /\ UNCHANGED <<todo, dir, unqueued, profraw>>
    <3>1. ~Busy'
      BY <2>1 DEF Busy
    <3>2. CollectTypes' /\ OneWay' /\ StillEmpty'
      BY <2>0, <2>1, <3>1 DEF CollectTypes, OneWay, StillEmpty
    <3>3. Profiled'
      BY <2>0, <2>1, <3>1 DEF Profiled, Empty
    <3>4. C!RecordsAreOfOneRun' /\ C!ProfileHasRecords'
      BY <2>0, RecordsStay DEF C!ProfileHasRecords
    <3> QED
      BY <3>2, <3>3, <3>4
  <2>2. ASSUME NEW d \in todo, dir' = d, todo' = todo \ {d}, covPc' = "submit",
               profraw' = {}, unqueued' = Cases
        PROVE  CInv'
    <3>1. Busy' /\ d \in C!Dirs
      BY <2>2 DEF Busy, CollectTypes
    <3>2. queued = {} /\ running = {} /\ exporting = {}
      BY <2>0 DEF OneWay
    <3>3. CollectTypes'
      BY <2>0, <2>2, <3>2 DEF CollectTypes
    <3>4. OneWay'
      BY <2>0, <2>2, <3>1, <3>2 DEF OneWay
    <3>5. d \in Expes => Empty(d)
      BY <2>0 DEF StillEmpty
    <3>6. StillEmpty'
      BY <2>0, <2>2, <3>2, <3>5 DEF StillEmpty, Empty
    <3>7. d \in Expes => profdata[d] = {}
      BY <3>5 DEF Profiled
    <3>8. Profiled'
      <4>1. d \in Expes => \A c \in Cases : covFiles[d][c] # "whole"
        BY <3>5 DEF Empty
      <4> QED
        BY <2>0, <2>2, <3>2, <3>7, <4>1 DEF Profiled, Empty
    <3>9. C!RecordsAreOfOneRun' /\ C!ProfileHasRecords'
      BY <2>0, RecordsStay DEF C!ProfileHasRecords
    <3> QED
      BY <3>3, <3>4, <3>6, <3>8, <3>9
  <2> QED
    BY <1>1, <2>1, <2>2 DEF C!NextDir
<1>2. ASSUME NEW c \in Cases, C!Submit(c)
      PROVE  CInv'
  <2>0. /\ covPc = "submit" /\ c \in unqueued
        /\ unqueued' = unqueued \ {c} /\ queued' = queued \cup {c}
        /\ UNCHANGED <<commands, covPc, todo, dir, running, exporting, profraw, profdata, guards, covFiles>>
        /\ Busy /\ Busy'
    BY <1>2 DEF C!Submit, C!disk, Busy
  <2>1. CollectTypes'
    BY <2>0 DEF CollectTypes
  <2>2. OneWay'
    BY <2>0 DEF OneWay
  <2>3. unqueued' \cup queued' \cup running' = unqueued \cup queued \cup running
    BY <2>0
  <2>4. StillEmpty'
    BY <2>0, <2>3 DEF StillEmpty, Empty
  <2>5. Profiled'
    BY <2>0 DEF Profiled, Empty
  <2>6. C!RecordsAreOfOneRun' /\ C!ProfileHasRecords'
    BY <2>0, RecordsStay DEF C!ProfileHasRecords
  <2> QED
    BY <2>1, <2>2, <2>4, <2>5, <2>6
<1>3. CASE C!Submitted
  <2>0. /\ covPc = "submit" /\ covPc' = "join" /\ unqueued = {}
        /\ UNCHANGED <<commands, todo, dir, unqueued, queued, running, exporting, profraw,
                       profdata, guards, covFiles>>
        /\ Busy /\ Busy'
    BY <1>3 DEF C!Submitted, C!pool, C!disk, Busy
  <2>1. CollectTypes' /\ OneWay'
    BY <2>0 DEF CollectTypes, OneWay
  <2>2. StillEmpty'
    BY <2>0 DEF StillEmpty, Empty
  <2>3. Profiled'
    BY <2>0 DEF Profiled, Empty
  <2>4. C!RecordsAreOfOneRun' /\ C!ProfileHasRecords'
    BY <2>0, RecordsStay DEF C!ProfileHasRecords
  <2> QED
    BY <2>1, <2>2, <2>3, <2>4
<1> QED
  BY <1>1, <1>2, <1>3

\* One more run has left files for a case of the directory.
LEMMA LeavesOne ==
  ASSUME CollectTypes, dir \in C!Dirs, NEW c \in Cases, NEW whole \in BOOLEAN, C!Leaves(c, whole)
  PROVE  /\ guards' \in [C!Dirs -> [Cases -> SUBSET [run : Nat, whole : BOOLEAN]]]
         /\ guards'[dir][c] = guards[dir][c] \cup {C!Run(commands, whole)}
         /\ \A d \in C!Dirs, x \in Cases : d # dir \/ x # c => guards'[d][x] = guards[d][x]
<1> DEFINE run == C!Run(commands, whole)
<1>1. run \in [run : Nat, whole : BOOLEAN]
  BY DEF C!Run, CollectTypes
<1>2. guards' = [guards EXCEPT ![dir][c] = @ \cup {run}]
  BY DEF C!Leaves
<1> HIDE DEF run
<1> DEFINE row == [guards[dir] EXCEPT ![c] = guards[dir][c] \cup {run}]
<1>3. guards \in [C!Dirs -> [Cases -> SUBSET [run : Nat, whole : BOOLEAN]]]
  BY DEF CollectTypes
<1>4. guards[dir] \in [Cases -> SUBSET [run : Nat, whole : BOOLEAN]]
  BY <1>3
<1>5. guards[dir][c] \cup {run} \in SUBSET [run : Nat, whole : BOOLEAN]
  BY <1>1, <1>4
<1>6. /\ row \in [Cases -> SUBSET [run : Nat, whole : BOOLEAN]]
      /\ row[c] = guards[dir][c] \cup {run}
      /\ \A x \in Cases : x # c => row[x] = guards[dir][x]
  BY <1>4, <1>5
<1>7. guards' = [guards EXCEPT ![dir] = row]
  BY <1>2
<1> HIDE DEF row
<1>8. /\ guards' \in [C!Dirs -> [Cases -> SUBSET [run : Nat, whole : BOOLEAN]]]
      /\ guards'[dir] = row
      /\ \A d \in C!Dirs : d # dir => guards'[d] = guards[d]
  BY <1>3, <1>6, <1>7
<1> QED
  BY <1>6, <1>8 DEF run

\* The coverage file of a case of the directory.
LEMMA CoverageOne ==
  ASSUME CollectTypes, dir \in C!Dirs, NEW c \in Cases, NEW x \in {"partial", "whole"},
         covFiles' = [covFiles EXCEPT ![dir][c] = x]
  PROVE  /\ covFiles' \in [C!Dirs -> [Cases -> {"none", "partial", "whole"}]]
         /\ covFiles'[dir][c] = x
         /\ \A d \in C!Dirs, y \in Cases : d # dir \/ y # c => covFiles'[d][y] = covFiles[d][y]
<1>1. covFiles \in [C!Dirs -> [Cases -> {"none", "partial", "whole"}]]
  BY DEF CollectTypes
<1> QED
  BY <1>1

\* A worker takes a case.
LEMMA SpawnStep ==
  ASSUME CInv, NEW c \in Cases, C!Spawn(c)
  PROVE  CInv'
<1> USE DEF CInv
<1>1. /\ c \in queued /\ queued' = queued \ {c} /\ running' = running \cup {c}
      /\ UNCHANGED <<commands, covPc, todo, dir, unqueued, exporting, profraw, profdata, guards, covFiles>>
  BY DEF C!Spawn, C!disk
<1>2. Busy /\ Busy'
  BY <1>1 DEF Busy, OneWay
<1>3. CollectTypes'
  BY <1>1 DEF CollectTypes
<1>4. OneWay'
  BY <1>1, <1>2 DEF OneWay
<1>5. unqueued' \cup queued' \cup running' = unqueued \cup queued \cup running
  BY <1>1
<1>6. StillEmpty'
  BY <1>1, <1>2, <1>5 DEF StillEmpty, Empty
<1>7. Profiled'
  BY <1>1, <1>2 DEF Profiled, Empty
<1>8. C!RecordsAreOfOneRun' /\ C!ProfileHasRecords'
  BY <1>1, RecordsStay DEF C!ProfileHasRecords
<1> QED
  BY <1>3, <1>4, <1>6, <1>7, <1>8

\* A run ends badly, with a profile or without: it leaves no record.
LEMMA BadEndStep ==
  ASSUME CInv, NEW c \in Cases, C!Fails(c) \/ C!TimesOut(c)
  PROVE  CInv'
<1> USE DEF CInv
<1>1. /\ c \in running /\ running' = running \ {c}
      /\ C!Leaves(c, FALSE)
      /\ UNCHANGED <<commands, covPc, todo, dir, unqueued, queued, exporting, profdata, covFiles>>
  BY DEF C!Fails, C!TimesOut
<1>2. profraw' = profraw \/ profraw' = profraw \cup {[case |-> c, passed |-> FALSE]}
  <2>1. CASE C!TimesOut(c)
    BY <2>1 DEF C!TimesOut
  <2>2. CASE C!Fails(c)
    <3>1. PICK wrote \in SUBSET {[case |-> c, passed |-> FALSE]} : profraw' = profraw \cup wrote
      BY <2>2 DEF C!Fails
    <3>2. wrote = {} \/ wrote = {[case |-> c, passed |-> FALSE]}
      OBVIOUS
    <3> QED
      BY <3>1, <3>2
  <2> QED
    BY <2>1, <2>2
<1>3. Busy /\ Busy' /\ dir \in C!Dirs /\ dir \notin todo
  BY <1>1 DEF Busy, OneWay
<1>4. /\ guards' \in [C!Dirs -> [Cases -> SUBSET [run : Nat, whole : BOOLEAN]]]
      /\ guards'[dir][c] = guards[dir][c] \cup {C!Run(commands, FALSE)}
      /\ \A d \in C!Dirs, x \in Cases : d # dir \/ x # c => guards'[d][x] = guards[d][x]
  BY <1>1, <1>3, LeavesOne
<1>5. profraw \subseteq profraw' /\ profraw' \subseteq [case : Cases, passed : BOOLEAN]
  <2>1. [case |-> c, passed |-> FALSE] \in [case : Cases, passed : BOOLEAN]
    OBVIOUS
  <2>2. profraw \subseteq [case : Cases, passed : BOOLEAN]
    BY DEF CollectTypes
  <2> QED
    BY ONLY <1>2, <2>1, <2>2
<1>6. CollectTypes'
  BY <1>1, <1>4, <1>5 DEF CollectTypes
<1>7. OneWay'
  BY <1>1, <1>3 DEF OneWay
<1>8. c \notin unqueued /\ c \notin queued /\ c \notin exporting
  BY <1>1 DEF OneWay
<1>9. \A d \in todo : Empty(d) => Empty(d)'
  <2>1. \A d \in todo : d # dir /\ d \in C!Dirs
    BY <1>3 DEF CollectTypes
  <2> QED
    BY <1>1, <1>4, <2>1 DEF Empty
<1>10. StillEmpty'
  <2>1. \A d \in todo' \cap Expes : Empty(d)'
    BY <1>1, <1>3, <1>9 DEF StillEmpty, Busy
  <2>2. ASSUME dir \in Expes, NEW x \in unqueued' \cup queued' \cup running'
        PROVE  guards'[dir][x] = {} /\ covFiles'[dir][x] = "none"
    <3>1. x \in unqueued \cup queued \cup running /\ x # c /\ x \in Cases
      BY <1>1, <1>8, <2>2 DEF CollectTypes
    <3> QED
      BY <1>1, <1>3, <1>4, <2>2, <3>1 DEF StillEmpty
  <2>3. ASSUME dir \in Expes, NEW x \in exporting'
        PROVE  guards'[dir][x] = {C!Run(commands, TRUE)}
    <3>1. x \in exporting /\ x # c /\ x \in Cases
      BY <1>1, <1>8, <2>3 DEF CollectTypes
    <3> QED
      BY <1>3, <1>4, <2>3, <3>1 DEF StillEmpty
  <2> QED
    BY <1>1, <2>1, <2>2, <2>3 DEF StillEmpty, C!Run
<1>11. \A d \in C!Dirs : ~Empty(d) => ~Empty(d)'
  <2>1. \A d \in C!Dirs, x \in Cases : guards[d][x] \subseteq guards'[d][x]
    BY <1>4
  <2> QED
    BY <1>1, <2>1 DEF Empty
<1>12. ~Empty(dir)'
  BY <1>1, <1>4 DEF Empty
<1>13. Profiled'
  <2>1. \A d \in Expes : profdata'[d] # {} => ~Empty(d)'
    BY <1>1, <1>11, Directories DEF Profiled
  <2>2. ASSUME dir \in Expes
        PROVE  /\ profdata'[dir] = {}
               /\ \A x \in Cases : covFiles'[dir][x] = "whole" \/ x \in exporting' =>
                    [case |-> x, passed |-> TRUE] \in profraw'
    BY <1>1, <1>3, <1>5, <2>2 DEF Profiled
  <2> QED
    BY <1>1, <1>12, <2>1, <2>2 DEF Profiled, Empty
<1>14. C!RecordsAreOfOneRun'
  <2> SUFFICES ASSUME NEW d \in Expes, NEW x \in Cases, covFiles[d][x] = "whole"
               PROVE  guards'[d][x] = guards[d][x]
    BY <1>1 DEF C!RecordsAreOfOneRun, C!Run
  <2>1. d = dir => x # c
    BY <1>1, <1>3 DEF StillEmpty
  <2> QED
    BY <1>4, <2>1, Directories
<1>15. C!ProfileHasRecords'
  BY <1>1 DEF C!ProfileHasRecords
<1> QED
  BY <1>6, <1>7, <1>10, <1>13, <1>14, <1>15

\* A run ends well: its files are those of one run, and its profile is there.
LEMMA ExitsStep ==
  ASSUME CInv, NEW c \in Cases, C!Exits(c)
  PROVE  CInv'
<1> USE DEF CInv
<1>1. /\ c \in running /\ running' = running \ {c} /\ exporting' = exporting \cup {c}
      /\ profraw' = profraw \cup {[case |-> c, passed |-> TRUE]}
      /\ C!Leaves(c, TRUE)
      /\ covFiles' = [covFiles EXCEPT ![dir][c] = "partial"]
      /\ UNCHANGED <<commands, covPc, todo, dir, unqueued, queued, profdata>>
  BY DEF C!Exits
<1>3. Busy /\ Busy' /\ dir \in C!Dirs /\ dir \notin todo
  BY <1>1 DEF Busy, OneWay
<1>4. /\ guards' \in [C!Dirs -> [Cases -> SUBSET [run : Nat, whole : BOOLEAN]]]
      /\ guards'[dir][c] = guards[dir][c] \cup {C!Run(commands, TRUE)}
      /\ \A d \in C!Dirs, x \in Cases : d # dir \/ x # c => guards'[d][x] = guards[d][x]
  BY <1>1, <1>3, LeavesOne
<1>2. /\ covFiles' \in [C!Dirs -> [Cases -> {"none", "partial", "whole"}]]
      /\ covFiles'[dir][c] = "partial"
      /\ \A d \in C!Dirs, y \in Cases : d # dir \/ y # c => covFiles'[d][y] = covFiles[d][y]
  BY <1>1, <1>3, CoverageOne
<1>5. /\ profraw \subseteq profraw' /\ profraw' \subseteq [case : Cases, passed : BOOLEAN]
      /\ [case |-> c, passed |-> TRUE] \in profraw'
  <2> DEFINE new == [case |-> c, passed |-> TRUE]
  <2>1. new \in [case : Cases, passed : BOOLEAN]
    OBVIOUS
  <2>2. profraw \subseteq [case : Cases, passed : BOOLEAN]
    BY DEF CollectTypes
  <2>3. profraw' = profraw \cup {new}
    BY <1>1
  <2> HIDE DEF new
  <2>4. profraw \subseteq profraw' /\ profraw' \subseteq [case : Cases, passed : BOOLEAN] /\ new \in profraw'
    BY ONLY <2>1, <2>2, <2>3
  <2> QED
    BY <2>4 DEF new
<1>6. CollectTypes'
  BY <1>1, <1>2, <1>4, <1>5 DEF CollectTypes
<1>7. OneWay'
  BY <1>1, <1>3 DEF OneWay
<1>8. c \notin unqueued /\ c \notin queued /\ c \notin exporting
  BY <1>1 DEF OneWay
<1>9. \A d \in todo : Empty(d) => Empty(d)'
  <2>1. \A d \in todo : d # dir /\ d \in C!Dirs
    BY <1>3 DEF CollectTypes
  <2> QED
    BY <1>2, <1>4, <2>1 DEF Empty
<1>10. StillEmpty'
  <2>1. \A d \in todo' \cap Expes : Empty(d)'
    BY <1>1, <1>3, <1>9 DEF StillEmpty, Busy
  <2>2. ASSUME dir \in Expes, NEW x \in unqueued' \cup queued' \cup running'
        PROVE  guards'[dir][x] = {} /\ covFiles'[dir][x] = "none"
    <3>1. x \in unqueued \cup queued \cup running /\ x # c /\ x \in Cases
      BY <1>1, <1>8, <2>2 DEF CollectTypes
    <3> QED
      BY <1>2, <1>3, <1>4, <2>2, <3>1 DEF StillEmpty
  <2>3. ASSUME dir \in Expes, NEW x \in exporting'
        PROVE  guards'[dir][x] = {C!Run(commands, TRUE)}
    <3>1. CASE x = c
      <4>1. guards[dir][c] = {}
        BY <1>1, <1>3, <2>3 DEF StillEmpty
      <4> QED
        BY <1>4, <3>1, <4>1
    <3>2. CASE x # c
      <4>1. x \in exporting /\ x \in Cases
        BY <1>1, <2>3, <3>2 DEF CollectTypes
      <4> QED
        BY <1>3, <1>4, <2>3, <3>2, <4>1 DEF StillEmpty
    <3> QED
      BY <3>1, <3>2
  <2> QED
    BY <1>1, <2>1, <2>2, <2>3 DEF StillEmpty, C!Run
<1>11. \A d \in C!Dirs : ~Empty(d) => ~Empty(d)'
  <2> SUFFICES ASSUME NEW d \in C!Dirs, Empty(d)' PROVE Empty(d)
    OBVIOUS
  <2>1. d # dir
    BY <1>4 DEF Empty
  <2> QED
    BY <1>2, <1>4, <2>1 DEF Empty
<1>12. ~Empty(dir)'
  BY <1>1, <1>4 DEF Empty
<1>13. Profiled'
  <2>1. \A d \in Expes : profdata'[d] # {} => ~Empty(d)'
    BY <1>1, <1>11, Directories DEF Profiled
  <2>2. ASSUME dir \in Expes
        PROVE  /\ profdata'[dir] = {}
               /\ \A x \in Cases : covFiles'[dir][x] = "whole" \/ x \in exporting' =>
                    [case |-> x, passed |-> TRUE] \in profraw'
    BY <1>1, <1>2, <1>3, <1>5, <2>2 DEF Profiled
  <2> QED
    BY <1>1, <1>12, <2>1, <2>2 DEF Profiled, Empty
<1>14. C!RecordsAreOfOneRun'
  <2> SUFFICES ASSUME NEW d \in Expes, NEW x \in Cases, covFiles'[d][x] = "whole"
               PROVE  guards'[d][x] = guards[d][x] /\ covFiles[d][x] = "whole"
    BY <1>1 DEF C!RecordsAreOfOneRun, C!Run
  <2>1. d = dir => x # c
    BY <1>2
  <2> QED
    BY <1>2, <1>4, <2>1, Directories
<1>15. C!ProfileHasRecords'
  <2> SUFFICES ASSUME NEW d \in Expes, NEW x \in Cases, covFiles'[d][x] = "whole"
               PROVE  covFiles[d][x] = "whole"
    BY <1>1 DEF C!ProfileHasRecords
  <2>1. d = dir => x # c
    BY <1>2
  <2> QED
    BY <1>2, <2>1, Directories
<1> QED
  BY <1>6, <1>7, <1>10, <1>13, <1>14, <1>15

\* The coverage of a run is exported, or its worker panics: either way the case
\* has reached its end.
LEMMA ExportedStep ==
  ASSUME CInv, NEW c \in Cases, C!Exported(c)
  PROVE  CInv'
<1> USE DEF CInv
<1>1. /\ c \in exporting /\ exporting' = exporting \ {c}
      /\ covFiles' = [covFiles EXCEPT ![dir][c] = "whole"] \/ covFiles' = covFiles
      /\ UNCHANGED <<commands, covPc, todo, dir, unqueued, queued, running, profraw, profdata, guards>>
  BY DEF C!Exported
<1>2. Busy /\ Busy' /\ dir \in C!Dirs /\ dir \notin todo
  BY <1>1 DEF Busy, OneWay
<1>3. /\ covFiles' \in [C!Dirs -> [Cases -> {"none", "partial", "whole"}]]
      /\ \A d \in C!Dirs, y \in Cases : d # dir \/ y # c => covFiles'[d][y] = covFiles[d][y]
  <2>1. CASE covFiles' = covFiles
    BY <2>1 DEF CollectTypes
  <2>2. CASE covFiles' = [covFiles EXCEPT ![dir][c] = "whole"]
    BY <1>2, <2>2, CoverageOne
  <2> QED
    BY <1>1, <2>1, <2>2
<1>4. CollectTypes'
  BY <1>1, <1>3 DEF CollectTypes
<1>5. OneWay'
  BY <1>1, <1>2 DEF OneWay
<1>6. c \notin unqueued \cup queued \cup running
  BY <1>1 DEF OneWay
<1>7. StillEmpty'
  <2>1. \A d \in todo : d # dir /\ d \in C!Dirs
    BY <1>2 DEF CollectTypes
  <2>2. \A d \in todo' \cap Expes : Empty(d)'
    BY <1>1, <1>2, <1>3, <2>1 DEF StillEmpty, Busy, Empty
  <2>3. ASSUME dir \in Expes, NEW x \in unqueued' \cup queued' \cup running'
        PROVE  guards'[dir][x] = {} /\ covFiles'[dir][x] = "none"
    <3>1. x \in unqueued \cup queued \cup running /\ x # c /\ x \in Cases
      BY <1>1, <1>6, <2>3 DEF CollectTypes
    <3> QED
      BY <1>1, <1>2, <1>3, <2>3, <3>1 DEF StillEmpty
  <2>4. ASSUME dir \in Expes, NEW x \in exporting'
        PROVE  guards'[dir][x] = {C!Run(commands, TRUE)}
    BY <1>1, <1>2, <2>4 DEF StillEmpty
  <2> QED
    BY <1>1, <2>2, <2>3, <2>4 DEF StillEmpty, C!Run
<1>8. \A d \in C!Dirs : ~Empty(d) => ~Empty(d)'
  <2> SUFFICES ASSUME NEW d \in C!Dirs, ~Empty(d), Empty(d)' PROVE FALSE
    OBVIOUS
  <2>1. PICK x \in Cases : ~(guards[d][x] = {} /\ covFiles[d][x] = "none")
    BY DEF Empty
  <2>2. guards[d][x] = {} /\ covFiles'[d][x] = "none"
    BY <1>1 DEF Empty
  <2>3. d = dir /\ x = c
    BY <1>3, <2>1, <2>2
  <2>4. covFiles' # covFiles
    BY <2>1, <2>2
  <2>5. covFiles'[dir][c] = "whole"
    BY <1>1, <1>2, <2>4, CoverageOne
  <2> QED
    BY <2>2, <2>3, <2>5
<1>9. Profiled'
  <2>1. \A d \in Expes : profdata'[d] # {} => ~Empty(d)'
    BY <1>1, <1>8, Directories DEF Profiled
  <2>2. ASSUME dir \in Expes
        PROVE  /\ profdata'[dir] = {}
               /\ \A x \in Cases : covFiles'[dir][x] = "whole" \/ x \in exporting' =>
                    [case |-> x, passed |-> TRUE] \in profraw'
               /\ profraw' # {} => ~Empty(dir)
    BY <1>1, <1>2, <1>3, <2>2 DEF Profiled
  <2>3. dir \in Expes /\ profraw' # {} => ~Empty(dir)'
    BY <1>1, <1>2, <1>8, <2>2
  <2> QED
    BY <1>1, <2>1, <2>2, <2>3 DEF Profiled
<1>10. C!RecordsAreOfOneRun'
  <2> SUFFICES ASSUME NEW d \in Expes, NEW x \in Cases, covFiles'[d][x] = "whole"
               PROVE  \E n \in 1..commands : guards[d][x] = {C!Run(n, TRUE)}
    BY <1>1 DEF C!RecordsAreOfOneRun, C!Run
  <2>1. CASE d = dir /\ x = c
    <3>1. guards[d][x] = {C!Run(commands, TRUE)}
      BY <1>1, <1>2, <2>1 DEF StillEmpty
    <3>2. commands \in 1..commands
      BY <1>2 DEF CollectTypes, Busy
    <3> QED
      BY <3>1, <3>2
  <2>2. CASE ~(d = dir /\ x = c)
    <3>1. covFiles[d][x] = "whole"
      BY <1>3, <2>2, Directories
    <3> QED
      BY <3>1 DEF C!RecordsAreOfOneRun
  <2> QED
    BY <2>1, <2>2
<1>11. C!ProfileHasRecords'
  <2> SUFFICES ASSUME NEW d \in Expes, profdata[d] # {},
                      NEW x \in Cases, covFiles'[d][x] = "whole"
               PROVE  [case |-> x, passed |-> TRUE] \in profdata[d]
    BY <1>1 DEF C!ProfileHasRecords
  <2>1. d # dir
    BY <1>2 DEF Profiled
  <2>2. covFiles[d][x] = "whole"
    BY <1>3, <2>1, Directories
  <2> QED
    BY <2>2 DEF C!ProfileHasRecords
<1> QED
  BY <1>4, <1>5, <1>7, <1>9, <1>10, <1>11

\* The profiles of a directory are merged: every run with a record has one.
LEMMA MergeStep ==
  ASSUME CInv, C!Merge
  PROVE  CInv'
<1> USE DEF CInv
<1>1. /\ covPc = "join" /\ queued = {} /\ running = {} /\ exporting = {}
      /\ UNCHANGED <<commands, todo, dir, unqueued, queued, running, exporting, profraw, guards, covFiles>>
      /\ \/ covPc' = "failed" /\ UNCHANGED profdata
         \/ /\ profraw # {} /\ covPc' = "next"
            /\ profdata' = [profdata EXCEPT ![dir] = profraw]
  BY DEF C!Merge, C!pool
<1>2. Busy /\ ~Busy' /\ dir \in C!Dirs /\ dir \notin todo /\ unqueued = {}
  BY <1>1 DEF Busy, OneWay
<1>3. profdata' \in [C!Dirs -> SUBSET [case : Cases, passed : BOOLEAN]]
      /\ \A d \in C!Dirs : profdata'[d] = profdata[d] \/ (d = dir /\ profdata'[d] = profraw /\ profraw # {})
  BY <1>1, <1>2 DEF CollectTypes
<1>4. CollectTypes'
  BY <1>1, <1>3 DEF CollectTypes
<1>5. OneWay'
  BY <1>1, <1>2 DEF OneWay
<1>6. \A d \in C!Dirs : Empty(d)' <=> Empty(d)
  BY <1>1 DEF Empty
<1>7. StillEmpty'
  <2>1. \A d \in todo : d \in C!Dirs
    BY DEF CollectTypes
  <2>2. \A d \in todo' \cap Expes : Empty(d)'
    BY <1>1, <1>6, <2>1 DEF StillEmpty
  <2> QED
    BY <1>2, <2>2 DEF StillEmpty
<1>8. Profiled'
  <2>1. \A d \in Expes : profdata'[d] # {} => ~Empty(d)'
    BY <1>2, <1>3, <1>6, Directories DEF Profiled
  <2> QED
    BY <1>2, <2>1 DEF Profiled
<1>9. C!RecordsAreOfOneRun'
  BY <1>1, RecordsStay
<1>10. C!ProfileHasRecords'
  <2> SUFFICES ASSUME NEW d \in Expes, profdata'[d] # {},
                      NEW x \in Cases, covFiles[d][x] = "whole"
               PROVE  [case |-> x, passed |-> TRUE] \in profdata'[d]
    BY <1>1 DEF C!ProfileHasRecords
  <2>1. CASE profdata'[d] = profdata[d]
    BY <2>1 DEF C!ProfileHasRecords
  <2>2. CASE d = dir /\ profdata'[d] = profraw
    BY <1>2, <2>2 DEF Profiled
  <2> QED
    BY <1>3, <2>1, <2>2, Directories
<1> QED
  BY <1>4, <1>5, <1>7, <1>8, <1>9, <1>10

LEMMA CollectInductive ==
  ASSUME CInv, [ExecNext]_<<focus, vars, watching, collecting>>
  PROVE  CInv'
<1>1. ASSUME C!Killed \/ \E c \in Cases : C!NameExists(c)
      PROVE  CInv'
  <2>1. Busy /\ (C!Stop("failed") \/ C!Stop("bailed"))
    BY <1>1 DEF C!Killed, C!NameExists, Busy
  <2> QED
    BY <2>1, StopStep
<1>2. CASE C!Next
  BY <1>1, <1>2, StartStep, MainStep, MergeStep, SpawnStep, BadEndStep, ExitsStep, ExportedStep
     DEF C!Next, C!Main, C!Work
<1>3. CASE UNCHANGED collecting
  <2>1. UNCHANGED <<commands, covPc, todo, dir, unqueued, queued, running, exporting, profraw,
                    profdata, guards, covFiles>>
    BY <1>3 DEF collecting
  <2>2. CollectTypes' /\ OneWay'
    BY <2>1 DEF CInv, CollectTypes, OneWay, Busy
  <2>3. StillEmpty'
    BY <2>1 DEF CInv, StillEmpty, Empty, Busy
  <2>4. Profiled'
    BY <2>1 DEF CInv, Profiled, Empty, Busy
  <2>5. C!RecordsAreOfOneRun' /\ C!ProfileHasRecords'
    BY <2>1, RecordsStay DEF CInv, C!ProfileHasRecords
  <2> QED
    BY <2>2, <2>3, <2>4, <2>5 DEF CInv
<1> QED
  BY <1>2, <1>3 DEF ExecNext

LEMMA CollectInvariant == ExecSpec => []CInv
<1>1. ExecInit => CInv
  <2> SUFFICES ASSUME ExecInit PROVE CInv
    OBVIOUS
  <2>1. /\ commands = 0 /\ covPc = "idle" /\ todo = {}
        /\ unqueued = {} /\ queued = {} /\ running = {} /\ exporting = {} /\ profraw = {}
        /\ profdata = [d \in C!Dirs |-> {}]
        /\ guards = [d \in C!Dirs |-> [c \in Cases |-> {}]]
        /\ covFiles = [d \in C!Dirs |-> [c \in Cases |-> "none"]]
    BY DEF ExecInit, C!Init
  <2>2. ~Busy
    BY <2>1 DEF Busy
  <2>3. CollectTypes /\ OneWay
    BY <2>1, <2>2 DEF CollectTypes, OneWay
  <2>4. StillEmpty /\ Profiled
    BY <2>1, <2>2, Directories DEF StillEmpty, Profiled
  <2>5. C!RecordsAreOfOneRun /\ C!ProfileHasRecords
    BY <2>1, Directories DEF C!RecordsAreOfOneRun, C!ProfileHasRecords
  <2> QED
    BY <2>3, <2>4, <2>5 DEF CInv
<1>2. CInv /\ [ExecNext]_<<focus, vars, watching, collecting>> => CInv'
  BY CollectInductive
<1> QED
  BY <1>1, <1>2, PTL DEF ExecSpec

\* Whatever is killed, crashes or hangs, a record that is read has the files of
\* one run, which ended well.
THEOREM RecordsAreWhole == ExecSpec => []RecordsAreOfOneRun
<1>1. CInv => RecordsAreOfOneRun
  BY DEF CInv, RecordsAreOfOneRun
<1> QED
  BY <1>1, CollectInvariant, PTL

\* The merged profile of an experiment has the run of every record.
THEOREM ProfilesAreComplete == ExecSpec => []ProfileHasRecords
<1>1. CInv => ProfileHasRecords
  BY DEF CInv, ProfileHasRecords
<1> QED
  BY <1>1, CollectInvariant, PTL

-----------------------------------------------------------------------------
(* The pool of threads that runs a binary on a corpus.                       *)

(***************************************************************************)
(* The invariant.  Every result sent was received or is in the channel.    *)
(* The first error received ends the loop, so until then every error sent  *)
(* is in the channel; and jobs are skipped only once a worker has flagged  *)
(* an error, which it sends before it ends.                                *)
(***************************************************************************)
Sent == {i \in Files : job[i] \in {"correct sent", "error sent"}}

Balanced == received + Len(channel) = Cardinality(Sent)

ErrorsAreSent ==
  /\ \A n \in 1..Len(channel) : channel[n] # None => job[channel[n]] = "error sent"
  /\ result # None => job[result] = "error sent"

ErrorsArePending ==
  ~returned => /\ result = None
               /\ \A i \in Files : job[i] = "error sent" =>
                    \E n \in 1..Len(channel) : channel[n] = i

SkippedForError ==
  /\ errorOccurred => \E i \in Files : job[i] \in {"flagged", "error sent"}
  /\ \A i \in Files : job[i] = "skipped" => errorOccurred

ReturnedLast == returned => Joined

PInv ==
  /\ TypeOK /\ Balanced /\ ErrorsAreSent /\ ErrorsArePending
  /\ SkippedForError /\ ReturnedLast /\ ResultIsExact

USE PoolAssumption

\* The entries of the channel are files and None.
LEMMA Entries ==
  ASSUME TypeOK
  PROVE  /\ Len(channel) \in Nat /\ received \in Nat
         /\ \A n \in 1..Len(channel) : channel[n] \in Files \cup {None}
<1>1. channel \in Seq(Files \cup {None}) /\ received \in 0..NumFiles
  BY DEF TypeOK
<1> QED
  BY <1>1

LEMMA SentIsFinite == Cardinality(Sent) \in 0..NumFiles /\ IsFiniteSet(Sent)
<1>1. IsFiniteSet(Files) /\ Cardinality(Files) = NumFiles
  BY FS_Interval DEF Files
<1>2. Sent \in SUBSET Files
  BY DEF Sent
<1> QED
  BY <1>1, <1>2, FS_Subset, FS_CardinalityType

\* When as many results were sent as there are files, each file sent one.
LEMMA AllSent == Cardinality(Sent) = NumFiles => Sent = Files
<1>1. IsFiniteSet(Files) /\ Cardinality(Files) = NumFiles
  BY FS_Interval DEF Files
<1>2. Sent \in SUBSET Files
  BY DEF Sent
<1> QED
  BY <1>1, <1>2, FS_Subset

LEMMA InitPInv == Init => PInv
<1> SUFFICES ASSUME Init PROVE PInv
  OBVIOUS
<1>1. Sent = {} /\ Cardinality(Sent) = 0
  BY FS_EmptySet DEF Init, Sent
<1>2. channel \in Seq(Files \cup {None}) /\ Len(channel) = 0
  BY EmptySeq DEF Init
<1>3. TypeOK /\ Balanced
  <2>1. received = 0 /\ received \in 0..NumFiles /\ received + Len(channel) = 0
    BY <1>2 DEF Init
  <2>2. Balanced
    BY <1>1, <2>1 DEF Balanced
  <2>3. received + Len(channel) <= NumFiles /\ received \in 0..NumFiles
    BY <2>1
  <2>4. job \in [Files -> {"queued", "running", "correct", "failed", "flagged"} \cup Ended]
    BY DEF Init
  <2> QED
    BY <1>2, <2>2, <2>3, <2>4 DEF Init, TypeOK
<1>4. ErrorsAreSent /\ ErrorsArePending /\ SkippedForError /\ ReturnedLast /\ ResultIsExact
  BY <1>2 DEF Init, ErrorsAreSent, ErrorsArePending, SkippedForError, ReturnedLast, ResultIsExact
<1> QED
  BY <1>3, <1>4 DEF PInv

-----------------------------------------------------------------------------
(* A worker has no step once execute_pool has returned; while it has not,   *)
(* only a job that sends changes what was sent.                             *)

LEMMA WorkersPrecedeReturn ==
  ASSUME PInv, NEW i \in Files, Worker(i)
  PROVE  ~returned /\ job[i] \notin Ended
<1>1. job[i] \notin Ended
  BY DEF PInv, TypeOK, Ended, Worker, Begin, Execute, Flag, Send
<1> QED
  BY <1>1 DEF PInv, ReturnedLast, Joined

\* A worker whose job has not sent an error takes none away.
LEMMA ErrorsStay ==
  ASSUME PInv, NEW i \in Files, job[i] # "error sent",
         \A j \in Files : j # i => job'[j] = job[j]
  PROVE  /\ \A n \in 1..Len(channel) : channel[n] # None => job'[channel[n]] = "error sent"
         /\ result # None => job'[result] = "error sent"
<1>1. \A n \in 1..Len(channel) : channel[n] \in Files \cup {None}
  BY Entries DEF PInv
<1>2. result \in Files \cup {None}
  BY DEF PInv, TypeOK
<1>3. ErrorsAreSent
  BY DEF PInv
<1> QED
  BY <1>1, <1>2, <1>3 DEF ErrorsAreSent

LEMMA QuietWorker ==
  ASSUME PInv, NEW i \in Files, Begin(i) \/ Execute(i) \/ Flag(i)
  PROVE  PInv'
<1> USE DEF PInv, TypeOK, Ended
<1>1. ~returned
  BY WorkersPrecedeReturn DEF Worker
<1>2. /\ job' \in [Files -> {"queued", "running", "correct", "failed", "flagged"} \cup Ended]
      /\ \A j \in Files : j # i => job'[j] = job[j]
      /\ job[i] \in {"queued", "running", "failed"}
      /\ job'[i] \in {"skipped", "running", "correct", "failed", "panicked", "flagged"}
      /\ UNCHANGED <<channel, received, returned, result>>
  BY DEF Begin, Execute, Flag
<1>3. TypeOK'
  <2>1. errorOccurred' \in BOOLEAN
    BY DEF Begin, Execute, Flag
  <2> QED
    BY <1>2, <2>1
<1>4. Sent' = Sent
  BY <1>2 DEF Sent
<1>5. Balanced'
  BY <1>2, <1>4 DEF Balanced
<1>6. ErrorsAreSent'
  <2>1. job[i] # "error sent"
    BY <1>2
  <2> QED
    BY <1>2, <2>1, ErrorsStay DEF ErrorsAreSent
<1>7. ErrorsArePending'
  BY <1>2 DEF ErrorsArePending
<1>8. SkippedForError'
  <2>1. CASE Begin(i)
    BY <1>2, <2>1 DEF Begin, SkippedForError
  <2>2. CASE Execute(i)
    BY <1>2, <2>2 DEF Execute, SkippedForError
  <2>3. CASE Flag(i)
    BY <1>2, <2>3 DEF Flag, SkippedForError
  <2> QED
    BY <2>1, <2>2, <2>3
<1>9. ReturnedLast' /\ ResultIsExact'
  BY <1>1, <1>2 DEF ReturnedLast, ResultIsExact
<1> QED
  BY <1>3, <1>5, <1>6, <1>7, <1>8, <1>9

LEMMA SendKeeps ==
  ASSUME PInv, NEW i \in Files, Send(i)
  PROVE  PInv'
<1> DEFINE S == Files \cup {None}
           r == IF job[i] = "flagged" THEN i ELSE None
<1>1. ~returned
  BY WorkersPrecedeReturn DEF Worker
<1>2. /\ job' \in [Files -> {"queued", "running", "correct", "failed", "flagged"} \cup Ended]
      /\ \A j \in Files : j # i => job'[j] = job[j]
      /\ job[i] \in {"correct", "flagged"}
      /\ job'[i] = IF job[i] = "flagged" THEN "error sent" ELSE "correct sent"
      /\ UNCHANGED <<errorOccurred, received, returned, result>>
  BY DEF PInv, TypeOK, Ended, Send
<1>3. channel \in Seq(S) /\ channel' = Append(channel, r) /\ r \in S
  BY DEF PInv, TypeOK, Send
<1>4. r # None => r = i /\ job'[i] = "error sent"
  BY <1>2
<1>5. job'[i] = "error sent" => r = i
  BY <1>2
<1> HIDE DEF r, S
<1>6. /\ channel' \in Seq(S) /\ Len(channel') = Len(channel) + 1
      /\ \A n \in 1..Len(channel) : channel'[n] = channel[n]
      /\ channel'[Len(channel) + 1] = r
  BY <1>3, AppendProperties
<1>7. Len(channel) \in Nat /\ received \in Nat
  BY Entries DEF PInv
<1>8. i \notin Sent /\ Sent' = Sent \cup {i}
  BY <1>2 DEF Sent
<1>9. Cardinality(Sent') = Cardinality(Sent) + 1
  BY <1>8, SentIsFinite, FS_AddElement
<1>10. Balanced'
  <2>1. received + Len(channel) = Cardinality(Sent)
    BY DEF PInv, Balanced
  <2> QED
    <3>1. received' = received /\ Len(channel') = Len(channel) + 1
      BY <1>2, <1>6
    <3>2. received' + Len(channel') = (received + Len(channel)) + 1
      BY <1>7, <3>1
    <3> QED
      BY <1>9, <2>1, <3>2 DEF Balanced
<1>11. received' + Len(channel') <= NumFiles
  <2>1. IsFiniteSet(Files) /\ Cardinality(Files) = NumFiles
    BY FS_Interval DEF Files
  <2>2. Sent' \in SUBSET Files
    BY DEF Sent
  <2>3. Cardinality(Sent') <= NumFiles
    BY <2>1, <2>2, FS_Subset
  <2> QED
    BY <1>10, <2>3 DEF Balanced
<1>12. TypeOK'
  BY <1>2, <1>6, <1>11 DEF PInv, TypeOK, S
<1>13. ErrorsAreSent'
  <2>1. job[i] # "error sent"
    BY <1>2
  <2>2. ASSUME NEW n \in 1..Len(channel'), channel'[n] # None
        PROVE  job'[channel'[n]] = "error sent"
    <3>1. CASE n \in 1..Len(channel)
      BY <1>2, <1>6, <2>1, <2>2, <3>1, ErrorsStay
    <3>2. CASE n = Len(channel) + 1
      <4>1. channel'[n] = r
        BY <1>6, <3>2
      <4>2. job'[r] = "error sent"
        BY <1>4, <2>2, <4>1
      <4> QED
        BY <4>1, <4>2
    <3>3. n \in 1..Len(channel) \/ n = Len(channel) + 1
      <4>1. n \in 1..(Len(channel) + 1)
        BY <1>6
      <4> QED
        BY <1>7, <4>1
    <3> QED
      BY <3>1, <3>2, <3>3
  <2>3. result' # None => job'[result'] = "error sent"
    BY <1>2, <2>1, ErrorsStay
  <2> QED
    BY <2>2, <2>3 DEF ErrorsAreSent
<1>14. ErrorsArePending'
  <2>1. ErrorsArePending
    BY DEF PInv
  <2>2. ASSUME NEW j \in Files, job'[j] = "error sent"
        PROVE  \E n \in 1..Len(channel') : channel'[n] = j
    <3>1. CASE j = i
      <4>1. channel'[Len(channel')] = j /\ Len(channel') \in 1..Len(channel')
        <5>1. Len(channel') \in 1..Len(channel')
          BY <1>6, <1>7
        <5>2. channel'[Len(channel')] = r
          BY <1>6
        <5> QED
          BY <1>5, <2>2, <3>1, <5>1, <5>2
      <4> QED
        BY <4>1
    <3>2. CASE j # i
      <4>1. PICK n \in 1..Len(channel) : channel[n] = j
        BY <1>1, <1>2, <2>1, <2>2, <3>2 DEF ErrorsArePending
      <4>2. channel'[n] = j /\ n \in 1..Len(channel')
        BY <1>6, <1>7, <4>1
      <4> QED
        BY <4>2
    <3> QED
      BY <3>1, <3>2
  <2> QED
    BY <1>1, <1>2, <2>1, <2>2 DEF ErrorsArePending
<1>15. SkippedForError'
  BY <1>2 DEF PInv, SkippedForError
<1>16. ReturnedLast' /\ ResultIsExact'
  BY <1>1, <1>2 DEF ReturnedLast, ResultIsExact
<1> QED
  BY <1>10, <1>12, <1>13, <1>14, <1>15, <1>16 DEF PInv

LEMMA ReceiveKeeps == PInv /\ Receive => PInv'
<1> SUFFICES ASSUME PInv, Receive PROVE PInv'
  OBVIOUS
<1> DEFINE S == Files \cup {None}
<1>1. channel \in Seq(S) /\ channel # <<>> /\ channel' = Tail(channel)
  BY DEF PInv, TypeOK, Receive
<1> HIDE DEF S
<1>2. /\ channel' \in Seq(S) /\ Len(channel') = Len(channel) - 1
      /\ \A n \in 1..Len(channel') : channel'[n] = channel[n + 1]
      /\ Head(channel) \in S
  BY <1>1, HeadTailProperties
<1>3. Len(channel) \in Nat \ {0} /\ received \in Nat /\ received' = received + 1
  BY <1>1, Entries, EmptySeq DEF PInv, Receive
<1>4. /\ result' = channel[1] /\ (~returned' <=> channel[1] = None)
      /\ UNCHANGED <<job, errorOccurred>> /\ ~returned /\ Joined
  <2>1. Head(channel) = channel[1]
    BY <1>1
  <2> QED
    BY <2>1 DEF Receive
<1>5. Balanced'
  <2>1. Sent' = Sent
    BY <1>4 DEF Sent
  <2>2. received + Len(channel) = Cardinality(Sent)
    BY DEF PInv, Balanced
  <2> QED
    BY <1>2, <1>3, <2>1, <2>2 DEF Balanced
<1>6. TypeOK'
  <2>1. received' + Len(channel') <= NumFiles /\ received' \in 0..NumFiles
    BY <1>2, <1>3 DEF PInv, TypeOK, Receive
  <2>2. returned' \in BOOLEAN /\ result' \in S
    BY <1>2 DEF Receive
  <2> QED
    BY <1>2, <1>4, <2>1, <2>2 DEF PInv, TypeOK, S
<1>7. ErrorsAreSent'
  <2>1. \A n \in 1..Len(channel) : channel[n] # None => job[channel[n]] = "error sent"
    BY DEF PInv, ErrorsAreSent
  <2>2. \A n \in 1..Len(channel') : n + 1 \in 1..Len(channel) /\ channel'[n] = channel[n + 1]
    BY <1>2, <1>3
  <2>3. 1 \in 1..Len(channel)
    BY <1>3
  <2> QED
    BY <1>4, <2>1, <2>2, <2>3 DEF ErrorsAreSent
<1>8. ErrorsArePending'
  <2>1. ASSUME ~returned', NEW i \in Files, job'[i] = "error sent"
        PROVE  \E n \in 1..Len(channel') : channel'[n] = i
    <3>1. PICK n \in 1..Len(channel) : channel[n] = i
      BY <1>4, <2>1 DEF PInv, ErrorsArePending
    <3>2. i # None
      BY DEF None, Files
    <3>3. n # 1
      BY <1>4, <2>1, <3>1, <3>2
    <3>4. n - 1 \in 1..Len(channel') /\ (n - 1) + 1 = n
      BY <1>2, <1>3, <3>3
    <3>5. channel'[n - 1] = i
      BY <1>2, <3>1, <3>4
    <3> QED
      BY <3>4, <3>5
  <2>2. ~returned' => result' = None
    BY <1>4
  <2> QED
    BY <2>1, <2>2 DEF ErrorsArePending
<1>9. SkippedForError' /\ ReturnedLast'
  BY <1>4 DEF PInv, SkippedForError, ReturnedLast, Joined
<1>10. ResultIsExact'
  BY <1>4, <1>7 DEF ResultIsExact, ErrorsAreSent
<1> QED
  BY <1>5, <1>6, <1>7, <1>8, <1>9, <1>10 DEF PInv

\* When every result was received none of them was an error, or it had ended the loop.
LEMMA AllReceivedKeeps == PInv /\ AllReceived => PInv'
<1> SUFFICES ASSUME PInv, AllReceived PROVE PInv'
  OBVIOUS
<1> USE DEF PInv, TypeOK, AllReceived
<1>1. Cardinality(Sent) = NumFiles /\ Len(channel) = 0
  BY SentIsFinite DEF Balanced
<1>2. \A i \in Files : job[i] = "correct sent"
  <2>1. Sent = Files
    BY <1>1, AllSent
  <2>2. \A i \in Files : job[i] # "error sent"
    <3>1. 1..Len(channel) = {}
      BY <1>1
    <3> QED
      BY <3>1 DEF ErrorsArePending
  <2> QED
    BY <2>1, <2>2 DEF Sent
<1>3. result = None
  BY DEF ErrorsArePending
<1>4. TypeOK' /\ ErrorsAreSent' /\ ErrorsArePending' /\ SkippedForError'
  BY DEF ErrorsAreSent, ErrorsArePending, SkippedForError
<1>5. Balanced'
  BY DEF Balanced, Sent
<1>6. ReturnedLast' /\ ResultIsExact'
  BY <1>2, <1>3 DEF ReturnedLast, Joined, ResultIsExact
<1> QED
  BY <1>4, <1>5, <1>6

LEMMA NextPInv == PInv /\ [Next]_vars => PInv'
<1> SUFFICES ASSUME PInv, [Next]_vars PROVE PInv'
  OBVIOUS
<1>1. ASSUME NEW i \in Files, Worker(i) PROVE PInv'
  BY <1>1, QuietWorker, SendKeeps DEF Worker
<1>2. CASE UNCHANGED vars
  BY <1>2 DEF vars, PInv, TypeOK, Balanced, Sent, ErrorsAreSent, ErrorsArePending,
              SkippedForError, ReturnedLast, Joined, ResultIsExact
<1> QED
  BY <1>1, <1>2, ReceiveKeeps, AllReceivedKeeps DEF Next

-----------------------------------------------------------------------------
(* The theorems.                                                            *)

\* The invariant holds in every state.
THEOREM PoolInvariant == Spec => []PInv
<1> QED
  BY InitPInv, NextPInv, PTL DEF Spec

\* The types of the state, and at most one result for each file.
THEOREM TypeCorrect == Spec => []TypeOK
<1>1. PInv => TypeOK
  BY DEF PInv
<1> QED
  BY <1>1, PoolInvariant, PTL

\* execute_pool says that there was no error only when the binary ran well on
\* every file, and an error it returns is that of a file of the corpus.
THEOREM AnswersAreExact == Spec => []ResultIsExact
<1>1. PInv => ResultIsExact
  BY DEF PInv
<1> QED
  BY <1>1, PoolInvariant, PTL

\* execute_pool waits for ever only if a worker panicked and none found an error.
THEOREM OnlyPanicsBlock == Spec => []WaitsOnlyAfterPanic
<1>1. PInv => WaitsOnlyAfterPanic
  <2> SUFFICES ASSUME PInv, Joined, ~returned, channel = <<>>, received < NumFiles
               PROVE  /\ \E i \in Files : job[i] = "panicked"
                      /\ \A i \in Files : job[i] # "error sent"
    BY DEF WaitsOnlyAfterPanic
  <2>1. \A i \in Files : job[i] # "error sent"
    <3>1. 1..Len(channel) = {}
      BY EmptySeq
    <3> QED
      BY <3>1 DEF PInv, ErrorsArePending
  <2>2. \A i \in Files : job[i] # "skipped"
    BY <2>1 DEF PInv, SkippedForError, Joined, Ended
  <2>3. Sent # Files
    <3>1. Cardinality(Sent) = received
      BY DEF PInv, TypeOK, Balanced
    <3> QED
      BY <3>1, FS_Interval DEF PInv, TypeOK, Files
  <2> QED
    BY <2>1, <2>2, <2>3 DEF Joined, Ended, Sent
<1> QED
  BY <1>1, PoolInvariant, PTL
=============================================================================
