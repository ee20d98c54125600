--------------------------- MODULE PromptMutation ---------------------------
(***************************************************************************)
(* How the next prompt is made, a list of APIs: drawn at random, drawn by  *)
(* energy, or mutated from the calls of a seed (mutation.rs and the choice *)
(* of APIs in feedback/schedule.rs).  APIs are drawn one at a time until   *)
(* there are enough of them, and a draw that hits an API of the prompt is  *)
(* repeated.  An API has energy unless it is fully covered; one without is *)
(* never drawn, except that the first one is when none has any.            *)
(***************************************************************************)
EXTENDS Naturals, Sequences, FiniteSets, Functions

CONSTANTS
  Apis,      (* the functions of the library                               *)
  SeedCalls, (* the calls a seed can have, without repetition              *)
  CombLen,   (* DEFAULT_COMB_LEN, 5 in the code                            *)
  MaxLen,    (* the longest combination drawn afresh, 9 in the code        *)
  Delta      (* how many APIs an operator changes, 3 in the code           *)

MutationAssumption ==
  /\ SeedCalls \subseteq Seq(Apis) /\ \A calls \in SeedCalls : IsInjective(calls)
  /\ {CombLen, MaxLen, Delta} \subseteq Nat \ {0}
  /\ Delta < CombLen /\ CombLen <= MaxLen

VARIABLES
  stage,      (* "idle"; what is drawn: "random", "assemble", "infill",     *)
              (* "delete", "insert"; "done"                                 *)
  operator,   (* how the prompt is made                                     *)
  from,       (* the calls of the seed                                      *)
  prompt,     (* the combination so far                                     *)
  left,       (* how many APIs are still to be drawn                        *)
  energetic,  (* the APIs with energy                                       *)
  first       (* the first entry of the schedule's map                      *)

vars == <<stage, operator, from, prompt, left, energetic, first>>
energyVars == <<energetic, first>>
originVars == <<operator, from>>

Init ==
  /\ stage = "idle" /\ operator = "none"
  /\ from = <<>> /\ prompt = <<>> /\ left = 0
  /\ energetic = {} /\ first \in Apis

\* weighted_choose over the schedule, and over the prompt, as indices.
ByEnergy == IF energetic # {} THEN energetic ELSE {first}

ByEnergyIn(comb) ==
  LET some == {i \in DOMAIN comb : comb[i] \in energetic}
  IN  IF some # {} THEN some ELSE {1}

InsertAt(comb, i, a) == SubSeq(comb, 1, i) \o <<a>> \o SubSeq(comb, i + 1, Len(comb))
RemoveAt(comb, i) == SubSeq(comb, 1, i - 1) \o SubSeq(comb, i + 1, Len(comb))

-----------------------------------------------------------------------------
(* The beginning of an operation.                                           *)

Begin(st, op, calls, comb, n) ==
  /\ stage = "idle"
  /\ stage' = st /\ operator' = op /\ from' = calls /\ prompt' = comb /\ left' = n
  /\ energetic' \in SUBSET Apis
  /\ UNCHANGED first

\* rand_choose_combination, for the first prompt and for prompt_shuffle.
BeginRandom == \E n \in CombLen..MaxLen : Begin("random", "random", <<>>, <<>>, n)

\* assemble_high_energy_combiantion: no mutation this time, or the seed has no calls.
BeginAssemble == \E n \in CombLen..MaxLen : Begin("assemble", "assemble", <<>>, <<>>, n)

BeginAdd == \E calls \in SeedCalls \ {<<>>} : Begin("insert", "add", calls, calls, Delta)

BeginReplace ==
  \E calls \in SeedCalls \ {<<>>} :
    IF Len(calls) < CombLen THEN Begin("infill", "replace", calls, calls, CombLen - Len(calls))
    ELSE Begin("delete", "replace", calls, calls, Delta)

\* A stretch of length len of one prompt in the place of one of the other.
Cross(one, two, i, j, len) ==
  SubSeq(one, 1, i) \o SubSeq(two, j + 1, j + len) \o SubSeq(one, i + len + 1, Len(one))

\* What prompt_crossover can yield, of the longer prompt and the other one: at
\* most Delta APIs are replaced, never the last one of the longer prompt.
CrossOvers(one, two) ==
  IF Len(one) <= Delta THEN {one \o two}
  ELSE IF Len(two) <= Delta
       THEN {Cross(one, two, i, 0, Len(two)) : i \in 0..(Len(one) - Len(two) - 1)}
       ELSE {Cross(one, two, i, j, Delta) : i \in 0..(Len(one) - Delta - 1),
                                            j \in 0..(Len(two) - Delta - 1)}

CrossOver ==
  \E calls \in SeedCalls \ {<<>>}, calls2 \in SeedCalls :
    LET longer  == IF Len(calls) >= Len(calls2) THEN calls ELSE calls2
        shorter == IF Len(calls) >= Len(calls2) THEN calls2 ELSE calls
    IN  \E comb \in CrossOvers(longer, shorter) : Begin("done", "crossover", longer, comb, 0)

-----------------------------------------------------------------------------
(* The draws.                                                               *)

Last == left = 1
Keep == UNCHANGED <<originVars, energyVars>>

\* A new API at the end; one the prompt has is drawn again.
DrawNew ==
  /\ \/ stage = "random" /\ \E a \in Apis \ Range(prompt) : prompt' = Append(prompt, a)
     \/ stage = "assemble" /\ \E a \in ByEnergy \ Range(prompt) : prompt' = Append(prompt, a)
  /\ left' = left - 1
  /\ stage' = IF Last THEN "done" ELSE stage
  /\ Keep

\* prompt_energy_deletion fills the prompt up, with any API ...
Infill ==
  /\ stage = "infill"
  /\ \E a \in ByEnergy : prompt' = Append(prompt, a)
  /\ left' = IF Last THEN Delta ELSE left - 1
  /\ stage' = IF Last THEN "delete" ELSE stage
  /\ Keep

\* ... and deletes by choose_low_energy_api, which weighs the APIs by energy.
Delete ==
  /\ stage = "delete"
  /\ \E i \in ByEnergyIn(prompt) : prompt' = RemoveAt(prompt, i)
  /\ left' = IF Last THEN Delta ELSE left - 1
  /\ stage' = IF Last THEN "insert" ELSE stage
  /\ Keep

\* Mutant: the count of inserted APIs is tested before it is increased.
InsertOneMore ==
  /\ stage = "insert"
  /\ \E a \in ByEnergy \ Range(prompt), i \in 0..(Len(prompt) - 1) :
       prompt' = InsertAt(prompt, i, a)
  /\ left' = IF left = 0 THEN 0 ELSE left - 1
  /\ stage' = IF left = 0 THEN "done" ELSE stage
  /\ Keep

\* prompt_insertion puts a new API before an entry of the prompt.
Insert ==
  /\ stage = "insert"
  /\ \E a \in ByEnergy \ Range(prompt), i \in 0..(Len(prompt) - 1) :
       prompt' = InsertAt(prompt, i, a)
  /\ left' = left - 1
  /\ stage' = IF Last THEN "done" ELSE stage
  /\ Keep

Draw == DrawNew \/ Infill \/ Delete \/ Insert

Next == BeginRandom \/ BeginAssemble \/ BeginAdd \/ BeginReplace \/ CrossOver \/ Draw

Spec == Init /\ [][Next]_vars

\* Every API with energy is drawn sooner or later.
FairSpec == Spec /\ WF_vars(Draw)

-----------------------------------------------------------------------------
(* Properties.                                                              *)

Longer(m, n) == IF m >= n THEN m ELSE n

\* The operators change the length of a seed's calls as intended: insertion by
\* Delta, replacement not at all unless the calls are few, crossover not at all
\* unless both are short.  An API is prompted twice only after a crossover, or
\* when the prompt was filled up.
PromptAsIntended ==
  stage = "done" =>
    /\ operator \in {"random", "assemble"} => Len(prompt) \in CombLen..MaxLen
    /\ operator = "add" => Len(prompt) = Len(from) + Delta
    /\ operator = "replace" => Len(prompt) = Longer(Len(from), CombLen)
    /\ operator = "crossover" =>
         \/ Len(prompt) = Len(from)
         \/ Len(from) <= Delta /\ Len(prompt) \in Len(from)..(2 * Delta)
    /\ Cardinality(Range(prompt)) < Len(prompt) =>
         operator = "crossover" \/ (operator = "replace" /\ Len(from) < CombLen)

\* With as many APIs to draw from as are missing, every loop of draws ends; with
\* fewer it goes on forever.
Available == (IF stage = "random" THEN Apis ELSE ByEnergy) \ Range(prompt)

DrawsEnd ==
  stage \in {"random", "assemble", "insert"} /\ Cardinality(Available) >= left ~> stage = "done"
=============================================================================
