----------------------------- MODULE Requests -----------------------------
(***************************************************************************)
(* The requests to OpenAI's models (request/openai.rs) and what they cost. *)
(*                                                                         *)
(* A request is repeated up to RetryN times; the usage an answer reports   *)
(* is added to the counters in memory and written to misc/openai_usage,    *)
(* which the next session loads.  The loop of fuzzer.rs compares the cost  *)
(* with the budget between its rounds, and a round asks several times.     *)
(*                                                                         *)
(* One unit of cost is one answer.  The three numbers of the file change   *)
(* together, so they are one.  fs::write empties the file, then fills it.  *)
(***************************************************************************)
EXTENDS Naturals

CONSTANTS
  RetryN,       (* RETRY_N: how often a request is tried              *)
  Budget,       (* query_budget, in answers                           *)
  Absent,       (* no file                                            *)
  Torn,         (* a file that was emptied and not filled             *)
  RoundMax,     (* bound: requests of a round                         *)
  MaxCost,      (* bound: answers that are made                       *)
  MaxSessions   (* bound: sessions                                    *)

ASSUME RequestsAssumption ==
  /\ {RetryN, RoundMax} \subseteq Nat \ {0}
  /\ {Budget, MaxCost, MaxSessions} \subseteq Nat
  /\ Absent # Torn /\ {Absent, Torn} \cap Nat = {}

VARIABLES
  stage,     (* "load", "loop", "round", "generate", "ask", "count", "empty", "fill";   *)
             (* "converged", "failed", "overflow", "corrupt", "down"                    *)
  tries,     (* requests sent for the answer that is awaited                            *)
  asked,     (* requests of this round                                                  *)
  mem,       (* PROMPT_USAGE, COMPLETION_USAGE, QUOTA_COST                              *)
  disk,      (* openai_usage                                                            *)
  got,       (* answers that arrived and report their usage, of all sessions:           *)
             (* not in the code                                                         *)
  mine,      (* those of this session: not in the code                                  *)
  missed,    (* those that a crash or a panic kept from the file: not in the code       *)
  sessions,  (* sessions started                                                        *)
  chat       (* the model of the session is ChatGPT or GPT4, not Codex                  *)

vars == <<stage, tries, asked, mem, disk, got, mine, missed, sessions, chat>>
usage == <<mem, disk, got, mine, missed>>
sessionVars == <<sessions, chat>>

Init ==
  /\ stage = "load" /\ tries = 0 /\ asked = 0 /\ chat \in BOOLEAN
  /\ mem = 0 /\ disk = Absent /\ got = 0 /\ mine = 0 /\ missed = 0 /\ sessions = 1

-----------------------------------------------------------------------------
(* The loop.                                                                *)

\* OpenAIHanler::default loads the file if there is one; an empty file fails
\* the assertion on its three parts.
LoadUsage ==
  /\ stage = "load"
  /\ stage' = IF disk = Torn THEN "corrupt" ELSE "loop"
  /\ mem' = IF disk \in Nat THEN disk ELSE mem
  /\ UNCHANGED <<tries, asked, disk, got, mine, missed, sessionVars>>

\* Mutant: a budget that is just spent is not.
BeginRoundLate ==
  /\ stage = "loop"
  /\ stage' = IF mem > Budget THEN "converged" ELSE "round"
  /\ asked' = 0
  /\ UNCHANGED <<tries, usage, sessionVars>>

\* is_converge: the loop ends when the budget is spent.
BeginRound ==
  /\ stage = "loop"
  /\ stage' = IF mem >= Budget THEN "converged" ELSE "round"
  /\ asked' = 0
  /\ UNCHANGED <<tries, usage, sessionVars>>

\* generate_until_n_success asks once, and again until enough programs pass or
\* the prompt is given up.
GenerateAgain ==
  /\ stage = "round" /\ asked < RoundMax /\ got < MaxCost
  /\ stage' = "generate" /\ asked' = asked + 1 /\ tries' = 0
  /\ UNCHANGED <<usage, sessionVars>>

EndRound ==
  /\ stage = "round" /\ asked > 0
  /\ stage' = "loop"
  /\ UNCHANGED <<tries, asked, usage, sessionVars>>

\* generate asks a chat model.  For Codex it calls itself, until the stack is
\* full: Handler::generate is this very method, and not the default of the trait.
Generate ==
  /\ stage = "generate"
  /\ stage' = IF chat THEN "ask" ELSE "overflow"
  /\ UNCHANGED <<tries, asked, usage, sessionVars>>

-----------------------------------------------------------------------------
(* get_chat_response.                                                       *)

\* The answer arrives and is_critical_err finds it normal; the usage it reports
\* is counted, if it reports one.
Answer ==
  /\ stage = "ask" /\ tries < RetryN
  /\ tries' = tries + 1
  /\ \/ stage' = "count" /\ got' = got + 1 /\ mine' = mine + 1
     \/ stage' = "round" /\ UNCHANGED <<got, mine>>
  /\ UNCHANGED <<asked, mem, disk, missed, sessionVars>>

\* A limit is reached, the service is overloaded, the connection breaks, the
\* client's timeout ends or the answer cannot be read: the request is repeated.
Repeat ==
  /\ stage = "ask" /\ tries < RetryN
  /\ tries' = tries + 1
  /\ UNCHANGED <<stage, asked, usage, sessionVars>>

\* Any other error, or no try left, is returned and ends the program.
Refuse ==
  /\ stage = "ask"
  /\ stage' = "failed"
  /\ UNCHANGED <<tries, asked, usage, sessionVars>>

-----------------------------------------------------------------------------
(* log_openai_usage.                                                        *)

\* count_billing adds the price; it panics for a model that it has no price of.
Count ==
  /\ stage = "count"
  /\ \/ stage' = "empty" /\ mem' = mem + 1 /\ UNCHANGED missed
     \/ stage' = "failed" /\ mem' = mem /\ missed' = missed + 1
  /\ UNCHANGED <<tries, asked, disk, got, mine, sessionVars>>

Empty ==
  /\ stage = "empty"
  /\ disk' = Torn /\ stage' = "fill"
  /\ UNCHANGED <<tries, asked, mem, got, mine, missed, sessionVars>>

\* Mutant: the cost of this session is saved.
FillMine ==
  /\ stage = "fill"
  /\ disk' = mine /\ stage' = "round"
  /\ UNCHANGED <<tries, asked, mem, got, mine, missed, sessionVars>>

Fill ==
  /\ stage = "fill"
  /\ disk' = mem /\ stage' = "round"
  /\ UNCHANGED <<tries, asked, mem, got, mine, missed, sessionVars>>

-----------------------------------------------------------------------------
(* Interruptions.                                                           *)

Running == {"load", "loop", "round", "generate", "ask", "count", "empty", "fill"}

\* The process is killed.
Crash ==
  /\ stage \in Running
  /\ stage' = "down"
  /\ missed' = IF stage \in {"count", "empty", "fill"} THEN missed + 1 ELSE missed
  /\ UNCHANGED <<tries, asked, mem, disk, got, mine, sessionVars>>

\* The program is started again, whether it was killed, failed or converged.
Restart ==
  /\ stage \notin Running /\ sessions < MaxSessions
  /\ stage' = "load" /\ sessions' = sessions + 1
  /\ chat' \in BOOLEAN
  /\ tries' = 0 /\ asked' = 0 /\ mem' = 0 /\ mine' = 0
  /\ UNCHANGED <<disk, got, missed>>

Request == Generate \/ Answer \/ Repeat \/ Refuse \/ Count \/ Empty \/ Fill
Next == LoadUsage \/ BeginRound \/ GenerateAgain \/ EndRound \/ Request \/ Crash \/ Restart

Spec == Init /\ [][Next]_vars

\* The client gives up waiting after a minute, so every try comes to an end.
FairSpec == Spec /\ WF_vars(Request)

-----------------------------------------------------------------------------
(* Properties.                                                              *)

\* The types of the state.
TypeOK ==
  /\ stage \in Running \cup {"converged", "failed", "overflow", "corrupt", "down"}
  /\ tries \in 0..RetryN /\ asked \in 0..RoundMax /\ chat \in BOOLEAN
  /\ mem \in Nat /\ disk \in Nat \cup {Absent, Torn}
  /\ got \in Nat /\ mine \in 0..got /\ missed \in 0..got /\ sessions \in Nat

Saved == IF disk \in Nat THEN disk ELSE 0

\* Every answer that arrived is in the file, for the sessions to come, but for
\* the one a session was counting when it ended: the cost is never understated
\* by more than one answer for each interruption.
UsageIsSaved ==
  disk # Torn =>
    got = Saved + missed + (IF stage \in {"count", "empty"} THEN 1 ELSE 0)

\* The file is unreadable for the next session only because the process was
\* killed between emptying and filling it; an error or a panic leaves it whole.
OnlyKillsTear ==
  /\ stage \in {"converged", "failed", "overflow"} => disk # Torn
  /\ stage = "corrupt" => missed > 0

\* The budget is overspent by less than the requests of a single round in all
\* the sessions together, but for what was missed.
BudgetHolds ==
  disk # Torn => got < Budget + RoundMax + missed

\* A request comes to an end: an answer, an error, or the end of the process.
RequestsEnd == stage = "ask" ~> stage \notin {"ask", "count", "empty", "fill"}
=============================================================================
