---------------------------- MODULE ApiCounters ----------------------------
(***************************************************************************)
(* The counters that weigh the choice of APIs: how often an API was called *)
(* by kept programs (program/mod.rs) and how often it was prompted         *)
(* (request/prompt.rs), and the prompt itself.  All three are kept in a    *)
(* file each, from one session of the fuzz loop to the next.               *)
(*                                                                         *)
(* get_exec_counter_mut and get_prompt_counter_mut write the file and then *)
(* hand out the counter, so a file holds what the counter was before its   *)
(* last change.  An operation is a plan: the files it writes, in order,    *)
(* with what is written and what the memory holds afterwards.  A crash may *)
(* come between two writes or in the middle of one.                        *)
(***************************************************************************)
EXTENDS Naturals, Sequences

CONSTANTS
  Apis,         (* the functions of the library                *)
  Prompts,      (* the combinations of APIs that are prompted  *)
  Absent,       (* no file                                     *)
  Torn,         (* a file that a crash left half written       *)
  MaxCount,     (* bound: how often an API is counted          *)
  MaxSessions   (* bound: sessions                             *)

CountersAssumption ==
  /\ Prompts \subseteq SUBSET Apis /\ {} \notin Prompts
  /\ {MaxCount, MaxSessions} \subseteq Nat

Counters == [Apis -> Nat]
Zero == [a \in Apis |-> 0]
Plus(counter, comb) == [a \in Apis |-> IF a \in comb THEN counter[a] + 1 ELSE counter[a]]

VARIABLES
  stage,     (* "start", "sync", "restore", "loop"; "down", "corrupt"           *)
  sessions,  (* sessions started                                               *)
  plan,      (* what the running operation still writes                        *)
  mem,       (* EXEC_COUNTER, COUNTER and the prompt of this session           *)
  disk,      (* exec_counter.json, prompt_counter.json and prompt.json         *)
  counted    (* this session counted a call: not in the code                   *)

vars == <<stage, sessions, plan, mem, disk, counted>>

NoPrompt == {}
Fresh == [exec |-> Zero, prompted |-> Zero, prompt |-> NoPrompt]

Init ==
  /\ stage = "start" /\ sessions = 1
  /\ plan = <<>> /\ mem = Fresh
  /\ disk = [exec |-> Absent, prompted |-> Absent, prompt |-> Absent]
  /\ counted = FALSE

-----------------------------------------------------------------------------
(* The writes.                                                              *)

\* The file, what is written to it, and what its counter is afterwards.
Write(f, saved, new) == <<f, saved, new>>

\* Mutant: the counter is saved when an API is inserted only.
CountCallIfNew(a) ==
  <<Write("exec", IF mem.exec[a] = 0 THEN mem.exec ELSE disk.exec, Plus(mem.exec, {a}))>>

\* compute_quality counts each call of a new program.
CountCall(a) == <<Write("exec", mem.exec, Plus(mem.exec, {a}))>>

UpdatePromptCounter(comb) == Write("prompted", mem.prompted, Plus(mem.prompted, comb))
SavePrompt(comb) == Write("prompt", comb, comb)

FromCombination(comb) == <<UpdatePromptCounter(comb), SavePrompt(comb)>>
SetCombination(comb) == <<SavePrompt(comb), UpdatePromptCounter(comb)>>

-----------------------------------------------------------------------------
(* A session.                                                               *)

\* fuzz_loop begins with the prompt of the last session, or with any one; a
\* prompt that is loaded is counted like a new one.
LoadPrompt ==
  /\ stage = "start" /\ disk.prompt # Torn
  /\ \E comb \in IF disk.prompt = Absent THEN Prompts ELSE {disk.prompt} :
       plan' = FromCombination(comb)
  /\ stage' = IF sessions = 1 THEN "loop" ELSE "sync"
  /\ UNCHANGED <<sessions, mem, disk, counted>>

\* snyc_from_str loads both counters, then replaces those in memory, which are
\* saved as they are handed out.
Sync ==
  /\ stage = "sync" /\ plan = <<>>
  /\ {disk.prompted, disk.exec} \subseteq Counters
  /\ plan' = <<Write("exec", mem.exec, disk.exec),
               Write("prompted", mem.prompted, disk.prompted)>>
  /\ stage' = "restore"
  /\ UNCHANGED <<sessions, mem, disk, counted>>

\* A file that is missing or cannot be parsed ends the program.
SyncFails ==
  /\ \/ stage = "start" /\ disk.prompt = Torn
     \/ stage = "sync" /\ plan = <<>> /\ ~({disk.prompted, disk.exec} \subseteq Counters)
  /\ stage' = "corrupt"
  /\ UNCHANGED <<sessions, plan, mem, disk, counted>>

\* The loop counts the calls of its programs and changes the prompt: mutated or
\* shuffled (set_combination), or a new one when there is no power schedule.
Operate ==
  /\ stage = "loop" /\ plan = <<>>
  /\ \/ \E a \in Apis : mem.exec[a] < MaxCount /\ plan' = CountCall(a)
     \/ \E comb \in Prompts :
          /\ \A a \in comb : mem.prompted[a] < MaxCount
          /\ plan' = SetCombination(comb) \/ plan' = FromCombination(comb)
  /\ UNCHANGED <<stage, sessions, mem, disk, counted>>

\* The next write of the plan.
DoWrite ==
  /\ plan # <<>>
  /\ LET file == Head(plan)[1]  saved == Head(plan)[2]  new == Head(plan)[3]
     IN  /\ disk' = [disk EXCEPT ![file] = saved]
         /\ mem' = [mem EXCEPT ![file] = new]
         /\ counted' = (counted \/ (stage = "loop" /\ file = "exec"))
  /\ plan' = Tail(plan)
  /\ stage' = IF stage = "restore" /\ Tail(plan) = <<>> THEN "loop" ELSE stage
  /\ UNCHANGED sessions

\* The process is interrupted between two writes, or in the middle of one.
Crash ==
  /\ stage \in {"start", "sync", "restore", "loop"}
  /\ \/ UNCHANGED disk
     \/ plan # <<>> /\ disk' = [disk EXCEPT ![Head(plan)[1]] = Torn]
  /\ stage' = "down" /\ plan' = <<>> /\ mem' = Fresh /\ counted' = FALSE
  /\ UNCHANGED sessions

Restart ==
  /\ stage = "down" /\ sessions < MaxSessions
  /\ stage' = "start" /\ sessions' = sessions + 1
  /\ UNCHANGED <<plan, mem, disk, counted>>

Next == LoadPrompt \/ Sync \/ SyncFails \/ Operate \/ DoWrite \/ Crash \/ Restart

Spec == Init /\ [][Next]_vars

-----------------------------------------------------------------------------
(* Properties.                                                              *)

\* The file of calls is written before the counter changes, at each change: once
\* a session has counted a call, an interruption loses one call and no more.
OneCallBehind ==
  [][counted /\ stage' = "down" =>
       \/ disk'.exec = Torn
       \/ disk'.exec \in Counters /\ \E a \in Apis : mem.exec = Plus(disk'.exec, {a})]_vars
=============================================================================
