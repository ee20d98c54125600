------------------------------ MODULE Campaign ------------------------------
(***************************************************************************)
(* A fuzzing campaign: sessions of the fuzz loop over one output directory,*)
(* each but the first started after the one before it was interrupted.     *)
(* A crash loses the memory and leaves the files as they are;              *)
(* sync_from_previous_state (fuzzer.rs) then rebuilds the memory from the  *)
(* files.  Files are written in place (fs::write empties a file and then   *)
(* fills it), so a crash may leave one of them cut short.  What is cut     *)
(* behind its header, where a program's text is all that is lost, counts   *)
(* as written.                                                             *)
(*                                                                         *)
(* The log of the interrupted session is looked for as the second last     *)
(* file with extension .log below the output directory, and read_sort_dir  *)
(* descends into work/, whose fuzz.log files sort after fuzzer_*.log: with *)
(* any of them there, what is read as the previous log is not one, and     *)
(* every counter is restored as zero.                                      *)
(***************************************************************************)
EXTENDS FuzzLoop

CONSTANTS
  ExponentBranch,  (* config.exponent_branch as parsed *)
  MaxSessions      (* bound: sessions                  *)

ASSUME CampaignAssumption == ExponentBranch \in BOOLEAN /\ MaxSessions \in Nat \ {0}

VARIABLES
  sessions,     (* sessions started                                          *)
  counted,      (* exec_counter.json exists                                  *)
  torn,         (* files that were cut short: directory and id of the program*)
  unprocessed   (* programs saved by the crashed session, not yet processed: *)
                (* not in the code                                           *)

campaignVars == <<sessions, counted, torn, unprocessed>>
allVars == <<vars, campaignVars>>

CampaignInit == Init /\ sessions = 1 /\ counted = FALSE /\ torn = {} /\ unprocessed = {}

Torn(dir, id) == [dir |-> dir, id |-> id]

\* exec_counter.json or prompt.json.  A cut prompt_counter.json is written anew
\* before it is read (ApiCounters).
TornMisc == Torn("misc", Absent)

\* compute_quality writes the counters of the APIs when a program calls one, as
\* every program that reaches a branch of the library does.
CountCalls ==
  IF phase = "update"
  THEN counted' \in {counted, TRUE} /\ (Hits(workDir[First(found)].cov) # {} => counted')
  ELSE UNCHANGED counted

\* minimize reads all successful programs first, and fails if it cannot.
ReadableForMinimize == \A i \in SuccIds : Torn("succ_seeds", i) \notin torn

\* The fuzz loop.
Work ==
  /\ phase = "minimize" => ReadableForMinimize
  /\ Next
  /\ CountCalls
  /\ torn' = torn \ {Torn("succ_seeds", i) : i \in IF phase = "save" THEN {First(found)} ELSE {}}
  /\ UNCHANGED <<sessions, unprocessed>>

-----------------------------------------------------------------------------
(* Crashes.                                                                 *)

Down ==
  /\ phase' = "down"
  /\ unprocessed' = found \cap SuccIds'
  /\ UNCHANGED <<loopVars, feedbackVars, visitVars, log, sessions>>

Running == phase \notin {"down", "corrupt", "done"}

\* Between two operations, or after the counters were written.
Crash ==
  /\ Running
  /\ counted' \in {counted, counted \/ phase = "update"}
  /\ UNCHANGED <<fileVars, torn>>
  /\ Down

\* While programs are checked: the fuzzers of some have started their logs.
CrashChecking ==
  /\ phase = "check"
  /\ \E S \in (SUBSET pending) \ {{}} :
       workDir' = [i \in Ids |-> IF i \in S THEN WorkAfter(workDir[i], Logged)
                                 ELSE workDir[i]]
  /\ UNCHANGED <<succDir, seedDir, counted, torn>>
  /\ Down

\* Mutant: the new seed is written before the older ones are.
CrashSavingNewFirst ==
  /\ phase = "update"
  /\ LET i   == First(found)
         new == HasUnique(branches, workDir[i].cov)
     IN  new # {} /\ seedDir' = [seedDir EXCEPT ![i] = Program(i, workDir[i].cov, new)]
  /\ counted' = TRUE
  /\ UNCHANGED <<succDir, workDir, torn>>
  /\ Down

\* The seed files when those of S were saved without the credits for cov.
SavedWithout(S, cov) ==
  [j \in Ids |-> IF \E q \in S : q.id = j
                 THEN LoseCredit(CHOOSE q \in S : q.id = j, cov) ELSE seedDir[j]]

\* While a new seed is added: some of the older ones were saved without the
\* credits it takes from them, but not yet the new one.
CrashSaving ==
  /\ phase = "update"
  /\ LET cov == workDir[First(found)].cov
     IN  /\ HasUnique(branches, cov) # {}
         /\ \E S \in (SUBSET queue) \ {{}} : seedDir' = SavedWithout(S, cov)
  /\ counted' = TRUE
  /\ UNCHANGED <<succDir, workDir, torn>>
  /\ Down

\* In the middle of a write of exec_counter.json or prompt.json: when calls are
\* counted, when the prompt is changed, and before the first round of a session,
\* when the prompt is chosen or loaded and the counters are restored.
CrashWritingMisc ==
  /\ phase \in {"update", "mutate"} \/ (phase = "loop" /\ log.quiet = Absent)
  /\ torn' = torn \cup {TornMisc}
  /\ counted' = (counted \/ phase = "update")
  /\ UNCHANGED fileVars
  /\ Down

\* ... of a successful program, which is saved again if it has nothing new.
CrashWritingSucc ==
  /\ \/ phase = "save"
     \/ phase = "update" /\ HasUnique(branches, workDir[First(found)].cov) = {}
  /\ LET i == First(found)
     IN  /\ succDir' = [succDir EXCEPT ![i] = workDir[i].cov]
         /\ torn' = torn \cup {Torn("succ_seeds", i)}
  /\ CountCalls
  /\ UNCHANGED <<seedDir, workDir>>
  /\ Down

\* ... of a seed: while a new one is added, first of one of the older ones, then of
\* the new one; while the prompt is changed, of one that was selected; in minimize,
\* of a copy.  (A recheck writes seeds too; the campaigns that are checked have
\* none.)
CrashWritingSeed ==
  \E i \in Ids :
    /\ torn' = torn \cup {Torn("seeds", i)}
    /\ \/ LET new == First(found)
              cov == workDir[new].cov
          IN  /\ phase = "update" /\ HasUnique(branches, cov) # {}
              /\ counted' = TRUE
              /\ \/ \E S \in SUBSET queue :
                      /\ i \in {q.id : q \in queue \ S}
                      /\ seedDir' = SavedWithout(S, cov)
                 \/ /\ i = new
                    /\ seedDir' = [SavedWithout(queue, cov) EXCEPT
                                     ![i] = Program(i, cov, HasUnique(branches, cov))]
       \/ /\ phase = "mutate" /\ i \in {q.id : q \in queue}
          /\ UNCHANGED <<seedDir, counted>>
       \/ /\ phase = "minimize" /\ todo # {} /\ ReadableForMinimize
          /\ \A j \in todo : HasProfile(j)
          /\ i = BestFirst(todo) /\ i \notin SeedIds
          /\ Hits(workDir[i].cov) \ kept # {}
          /\ seedDir' = [seedDir EXCEPT ![i] = Program(i, succDir[i], {})]
          /\ UNCHANGED counted
    /\ UNCHANGED <<succDir, workDir>>
    /\ Down

-----------------------------------------------------------------------------
(* The next session.                                                        *)

\* The log that is taken for the last session's.
PreviousLog == IF \E i \in Ids : workDir[i] # Absent /\ workDir[i].log THEN EmptyLog ELSE log

\* Mutant: only seeds that still have credit are merged.
RestoredFromCredit ==
  [b \in Branches |-> Bits \ {workDir[j].cov[b] :
     j \in {j \in SeedIds : seedDir[j].unique # {}}}]

\* Observer::sync_from_previous: the seeds merged in the configured mode.
Restored ==
  [b \in Branches |-> Bits \ {workDir[j].cov[b] :
     j \in {j \in SeedIds : \/ ExponentBranch
                            \/ \A k \in SeedIds : k < j => workDir[k].cov[b] = NotHit}}]

\* The prompt and the counters are unwrapped when they are read, an error of a seed
\* or of its profile is passed on; the successful programs are not read.
Resumable ==
  /\ counted
  /\ \A f \in torn : f.dir = "succ_seeds"
  /\ \A j \in SeedIds : HasProfile(j)

\* The cost of the requests is kept in a file, from one session to the next.
Resume ==
  /\ phase = "down" /\ sessions < MaxSessions /\ Resumable
  /\ phase' = "loop"
  /\ seedId' = PreviousLog.total
  /\ quiet' = IF PreviousLog.quiet = Absent THEN 0 ELSE PreviousLog.quiet
  /\ round' = [NoRound EXCEPT !.total = PreviousLog.counts.total,
                              !.succ = PreviousLog.counts.succ]
  /\ log' = [EmptyLog EXCEPT !.total = PreviousLog.total, !.counts = PreviousLog.counts]
  /\ queue' = {seedDir[j] : j \in SeedIds}
  /\ branches' = Restored
  /\ checked' = FALSE /\ pending' = {} /\ found' = {}
  /\ todo' = {} /\ kept' = {}
  /\ sessions' = sessions + 1
  /\ UNCHANGED <<spent, fileVars, counted, torn, unprocessed>>

\* "Detected corrupt state of your last execution", a file that cannot be parsed,
\* or a profile that is missing.
ResumeFails ==
  /\ phase = "down" /\ sessions < MaxSessions /\ ~Resumable
  /\ phase' = "corrupt"
  /\ sessions' = sessions + 1
  /\ UNCHANGED <<loopVars, feedbackVars, visitVars, fileVars, log, counted, torn, unprocessed>>

CampaignNext ==
  \/ Work
  \/ Crash \/ CrashChecking \/ CrashSaving
  \/ CrashWritingMisc \/ CrashWritingSucc \/ CrashWritingSeed
  \/ Resume \/ ResumeFails

CampaignSpec == CampaignInit /\ [][CampaignNext]_allVars

-----------------------------------------------------------------------------
(* Properties.                                                              *)

\* A write was cut of which the next session reads the file.
Broken == \E f \in torn : f.dir # "succ_seeds"

\* Wherever the first session is interrupted, in minimize as well, the second
\* one knows every branch of the programs that were processed: the seeds on
\* disk reach them, and the branch map is rebuilt from exactly those seeds.  A
\* campaign that has kept a seed is refused only if the interruption fell into the
\* middle of a write of a seed, the counters or the prompt.
ResumeKeepsCoverage ==
  [][phase = "down" =>
       /\ phase' = "corrupt" => SeedIds = {} \/ Broken
       /\ phase' = "loop" =>
            /\ Covered(branches') = HitsOf(SeedFiles)
            /\ UNION {Hits(succDir[i]) : i \in SuccIds \ unprocessed}
                 \subseteq Covered(branches')]_allVars

\* A crash leaves no seed credited with a branch that another credited seed
\* reaches: the older seeds give their credit up on disk before the new seed is
\* written.  (A seed that minimize copied back has no credit yet.)
ResumeKeepsCredit ==
  [][phase = "down" /\ phase' = "loop" =>
       \A q, t \in queue' :
         q # t /\ t.unique # {} => q.unique \cap Hits(t.cov) = {}]_allVars



\* A resumed session counts the programs where the last one stopped ("Restore
\* the states from the previous execution!"): it never gives the id of a
\* program that was kept to another one.
ResumedIdsAreFresh == [][phase = "down" /\ phase' = "loop" => IdsAreFresh']_allVars
=============================================================================
