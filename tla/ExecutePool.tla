----------------------------- MODULE ExecutePool -----------------------------
(***************************************************************************)
(* Executor::execute_pool of execution/mod.rs: a binary is run on every    *)
(* file of a corpus by the workers of a thread pool, and the first error   *)
(* found is returned.  Workers report through a channel; one that starts   *)
(* after an error was flagged neither runs nor reports.  The thread that   *)
(* asked keeps a sender of the channel itself, so receiving from the empty *)
(* channel waits and never fails.                                          *)
(***************************************************************************)
EXTENDS Naturals, FiniteSets, Sequences

CONSTANTS
  NumFiles,   (* files in the corpus *)
  CpuCount    (* threads of the pool *)

ASSUME PoolAssumption == NumFiles \in Nat /\ CpuCount \in Nat \ {0}

Files == 1..NumFiles
None == 0   (* a result without an error; an error is the file that caused it *)

VARIABLES
  job,            (* what became of the job of each file *)
  errorOccurred,  (* the flag the workers share          *)
  channel,        (* results sent and not yet received   *)
  received,       (* how many were received              *)
  returned,       (* execute_pool has returned ...       *)
  result          (* ... this                            *)

vars == <<job, errorOccurred, channel, received, returned, result>>

Ended == {"correct sent", "error sent", "skipped", "panicked"}
Active == {i \in Files : job[i] \in {"running", "correct", "failed", "flagged"}}

Init ==
  /\ job = [i \in Files |-> "queued"]
  /\ errorOccurred = FALSE
  /\ channel = <<>> /\ received = 0
  /\ returned = FALSE /\ result = None

\* A free thread takes the next job, which looks at the flag first.
Begin(i) ==
  /\ job[i] = "queued"
  /\ \A j \in Files : j < i => job[j] # "queued"
  /\ Cardinality(Active) < CpuCount
  /\ job' = [job EXCEPT ![i] = IF errorOccurred THEN "skipped" ELSE "running"]
  /\ UNCHANGED <<errorOccurred, channel, received, returned, result>>

\* The program ends well, or with an error or a hang; or waiting for it fails,
\* and the worker panics.
Execute(i) ==
  /\ job[i] = "running"
  /\ \E s \in {"correct", "failed", "panicked"} : job' = [job EXCEPT ![i] = s]
  /\ UNCHANGED <<errorOccurred, channel, received, returned, result>>

\* Mutant: the worker that flags the error leaves like those that see the flag.
FlagAndLeave(i) ==
  /\ job[i] = "failed"
  /\ errorOccurred' = TRUE
  /\ job' = [job EXCEPT ![i] = "skipped"]
  /\ UNCHANGED <<channel, received, returned, result>>

Flag(i) ==
  /\ job[i] = "failed"
  /\ errorOccurred' = TRUE
  /\ job' = [job EXCEPT ![i] = "flagged"]
  /\ UNCHANGED <<channel, received, returned, result>>

Send(i) ==
  /\ job[i] \in {"correct", "flagged"}
  /\ channel' = Append(channel, IF job[i] = "flagged" THEN i ELSE None)
  /\ job' = [job EXCEPT ![i] = IF @ = "flagged" THEN "error sent" ELSE "correct sent"]
  /\ UNCHANGED <<errorOccurred, received, returned, result>>

Worker(i) == Begin(i) \/ Execute(i) \/ Flag(i) \/ Send(i)

\* pool.join(): every job has ended.
Joined == \A i \in Files : job[i] \in Ended

\* A result is expected for each file; the first error ends the loop.
Receive ==
  /\ Joined /\ ~returned /\ received < NumFiles /\ channel # <<>>
  /\ received' = received + 1
  /\ channel' = Tail(channel)
  /\ result' = Head(channel)
  /\ returned' = (Head(channel) # None)
  /\ UNCHANGED <<job, errorOccurred>>

\* Mutant: the channel is drained, however many results it holds.
AllDrained ==
  /\ Joined /\ ~returned /\ channel = <<>>
  /\ returned' = TRUE
  /\ UNCHANGED <<job, errorOccurred, channel, received, result>>

AllReceived ==
  /\ Joined /\ ~returned /\ received = NumFiles
  /\ returned' = TRUE
  /\ UNCHANGED <<job, errorOccurred, channel, received, result>>

Next == (\E i \in Files : Worker(i)) \/ Receive \/ AllReceived

Spec == Init /\ [][Next]_vars

\* Some thread that has something to do is scheduled, and every execution ends
\* by its timeout.
FairSpec == Spec /\ WF_vars(Next)

-----------------------------------------------------------------------------
(* Properties.                                                              *)

\* The types of the state; each job sends one result at most.
TypeOK ==
  /\ job \in [Files -> {"queued", "running", "correct", "failed", "flagged"} \cup Ended]
  /\ errorOccurred \in BOOLEAN /\ returned \in BOOLEAN
  /\ channel \in Seq(Files \cup {None}) /\ received \in 0..NumFiles
  /\ received + Len(channel) <= NumFiles
  /\ result \in Files \cup {None}

\* "No error" means that the binary ran well on every file of the corpus, and an
\* error returned is that of a file it failed on, although workers skip files.
ResultIsExact ==
  returned => IF result = None THEN \A i \in Files : job[i] = "correct sent"
              ELSE job[result] = "error sent"

\* execute_pool waits for a result nobody will send only if a worker panicked
\* and no other one found an error: skipped files alone never make it wait.
WaitsOnlyAfterPanic ==
  Joined /\ ~returned /\ channel = <<>> /\ received < NumFiles =>
    /\ \E i \in Files : job[i] = "panicked"
    /\ \A i \in Files : job[i] # "error sent"

\* Unless a worker panics, execute_pool returns.
Returns == <>(returned \/ \E i \in Files : job[i] = "panicked")
=============================================================================
