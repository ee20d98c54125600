-------------------------- MODULE GenerationProofs --------------------------
(***************************************************************************)
(* Theorems about the requests to OpenAI, for any number of tries and of   *)
(* requests in a round and any budget, and about the local server, the     *)
(* counters of APIs and the mutation of prompts as they are part of        *)
(* MCGeneration's specification: for any number of sessions and probes,    *)
(* any APIs and prompts that are counted, any calls of a seed and any      *)
(* lengths of a prompt.                                                    *)
(***************************************************************************)
EXTENDS MCGeneration, SequenceTheorems, FiniteSetTheorems, TLAPS

-----------------------------------------------------------------------------
(* The requests to OpenAI and their cost.                                   *)

Ended == {"converged", "failed", "overflow", "corrupt", "down"}
Asking == {"generate", "ask", "count"}

\* What is in memory, compared with the file and with what has arrived: the
\* file is behind between counting an answer and writing it, and empty while it
\* is written.
Account ==
  /\ stage \in {"loop", "round", "generate", "ask"} => mem = Saved /\ got = mem + missed
  /\ stage = "count" => mem = Saved /\ got = mem + missed + 1
  /\ stage = "empty" => mem = Saved + 1 /\ got = mem + missed
  /\ stage = "fill" => disk = Torn /\ mem > 0 /\ got = mem + missed
  /\ stage \in Ended \cup {"load"} => mem \in Nat /\ (disk # Torn => got = Saved + missed)
  /\ stage = "load" => mem = 0
  /\ stage = "corrupt" => disk = Torn
  /\ disk = Torn => stage = "fill" \/ (stage \in {"down", "corrupt", "load"} /\ missed > 0)

\* A round begins below the budget and adds one answer per request.
Spending ==
  /\ asked <= RoundMax
  /\ stage = "round" => mem < Budget + asked
  /\ stage \in Asking => mem + 1 < Budget + asked
  /\ stage \in {"empty", "fill"} => mem < Budget + asked
  /\ disk # Torn => Saved < Budget + RoundMax

RInv == TypeOK /\ Account /\ Spending

LEMMA ConstantsAreNumbers ==
  /\ RetryN \in Nat \ {0} /\ RoundMax \in Nat \ {0}
  /\ Budget \in Nat /\ MaxCost \in Nat /\ MaxSessions \in Nat
  /\ Absent # Torn /\ Torn \notin Nat /\ Absent \notin Nat
BY RequestsAssumption DEF RequestsAssumption

LEMMA RInit == Init => RInv
<1> SUFFICES ASSUME Init PROVE RInv
  OBVIOUS
<1> USE ConstantsAreNumbers DEF Init
<1>1. TypeOK BY DEF TypeOK, Running
<1>2. Account BY DEF Account, Saved, Ended
<1>3. Spending BY DEF Spending, Saved, Asking
<1> QED BY <1>1, <1>2, <1>3 DEF RInv

LEMMA RStep == RInv /\ [Next]_vars => RInv'
<1> SUFFICES ASSUME RInv, [Next]_vars PROVE RInv'
  OBVIOUS
<1> USE ConstantsAreNumbers DEF RInv, TypeOK, Running, Account, Spending, Saved, Ended, Asking, usage, sessionVars
<1>1. CASE LoadUsage BY <1>1 DEF LoadUsage
<1>2. CASE BeginRound BY <1>2 DEF BeginRound
<1>3. CASE GenerateAgain BY <1>3 DEF GenerateAgain
<1>4. CASE EndRound BY <1>4 DEF EndRound
<1>5. CASE Generate BY <1>5 DEF Generate
<1>6. CASE Answer BY <1>6 DEF Answer
<1>7. CASE Repeat BY <1>7 DEF Repeat
<1>8. CASE Refuse BY <1>8 DEF Refuse
<1>9. CASE Count BY <1>9 DEF Count
<1>10. CASE Empty BY <1>10 DEF Empty
<1>11. CASE Fill BY <1>11 DEF Fill
<1>12. CASE Crash BY <1>12 DEF Crash
<1>13. CASE Restart BY <1>13 DEF Restart
<1>14. CASE UNCHANGED vars BY <1>14 DEF vars
<1> QED BY <1>1, <1>2, <1>3, <1>4, <1>5, <1>6, <1>7, <1>8, <1>9, <1>10, <1>11, <1>12, <1>13, <1>14
     DEF Next, Request

LEMMA RequestsInvariant == Spec => []RInv
BY RInit, RStep, PTL DEF Spec

\* The types of the state, in every session.
THEOREM TypeCorrect == Spec => []TypeOK
<1>1. RInv => TypeOK BY DEF RInv
<1> QED BY RequestsInvariant, <1>1, PTL

\* Every answer that arrived is in the file or was missed by an interruption.
THEOREM UsageSaved == Spec => []UsageIsSaved
<1>1. RInv => UsageIsSaved
  BY ConstantsAreNumbers DEF RInv, TypeOK, Running, Account, Ended, UsageIsSaved, Saved
<1> QED BY RequestsInvariant, <1>1, PTL

\* An error, a panic or the end of the loop leaves the file whole.
THEOREM TornByKills == Spec => []OnlyKillsTear
<1>1. RInv => OnlyKillsTear
  BY DEF RInv, Account, OnlyKillsTear
<1> QED BY RequestsInvariant, <1>1, PTL

\* The budget is overspent by less than one round.
THEOREM BudgetKept == Spec => []BudgetHolds
<1>1. RInv => BudgetHolds
  BY ConstantsAreNumbers DEF RInv, TypeOK, Running, Account, Spending, Ended, Asking, BudgetHolds, Saved
<1> QED BY RequestsInvariant, <1>1, PTL

-----------------------------------------------------------------------------
(* The local server.                                                        *)

ServerTypes ==
  /\ serving \in {"down", "probe", "serve", "ended", "failed"}
  /\ session \in 0..MaxSessions
  /\ server \in [I!Sessions -> {"none", "loading", "up", "gone"}]

\* A session that runs was begun, one that was not begun has no server.
Begun ==
  /\ serving \in {"probe", "serve"} => session # 0
  /\ \A s \in I!Sessions : s > session => server[s] = "none"

SInv == ServerTypes /\ Begun /\ I!OrphansAreExplained

-----------------------------------------------------------------------------
(* The counters.                                                            *)

Combs == SUBSET CountedApis
Missing == {Absent, Torn}

CountWrites == {"exec", "prompted"} \X C!Counters \X C!Counters
Writes == CountWrites \cup ({"prompt"} \X Combs \X Combs)

CountTypes ==
  /\ counting \in {"start", "sync", "restore", "loop", "down", "corrupt"}
  /\ counted \in BOOLEAN
  /\ counters \in [exec : C!Counters, prompted : C!Counters, prompt : Combs]
  /\ files \in [exec : C!Counters \cup Missing, prompted : C!Counters \cup Missing,
                prompt : Combs \cup Missing]
  /\ plan \in Seq(Writes)

\* A call that the loop counts is counted alone, and saved as it was before.
CallsAlone ==
  counting = "loop" => \A k \in 1..Len(plan) : plan[k][1] = "exec" =>
    /\ Len(plan) = 1
    /\ \E a \in CountedApis : plan[1] = <<"exec", counters.exec, C!Plus(counters.exec, {a})>>

\* Once a call was counted, the file is one behind.
Behind ==
  counted =>
    /\ counting = "loop" /\ files.exec \in C!Counters
    /\ \E a \in CountedApis : counters.exec = C!Plus(files.exec, {a})

NInv == CountTypes /\ CallsAlone /\ Behind

-----------------------------------------------------------------------------
(* The prompt.                                                              *)

Draws == {"random", "assemble", "infill", "delete", "insert"}

PromptTypes ==
  /\ drawing \in Draws \cup {"idle", "done"}
  /\ from \in Seq(PromptApis) /\ prompt \in Seq(PromptApis)
  /\ left \in Nat /\ (drawing \in Draws => left # 0)
  /\ energetic \subseteq PromptApis /\ first \in PromptApis

\* What is drawn, for which operator, and how long the prompt will be.
Intended ==
  /\ drawing \in {"random", "assemble"} =>
       operator = drawing /\ Len(prompt) + left \in CombLen..MaxLen
  /\ drawing = "infill" =>
       operator = "replace" /\ Len(from) < CombLen /\ Len(prompt) + left = CombLen
  /\ drawing = "delete" =>
       operator = "replace" /\ Len(prompt) + Delta = P!Longer(Len(from), CombLen) + left
  /\ drawing = "insert" =>
       \/ operator = "replace" /\ Len(prompt) + left = P!Longer(Len(from), CombLen)
       \/ operator = "add" /\ Len(prompt) + left = Len(from) + Delta

NoTwice(s) == \A i, j \in 1..Len(s) : s[i] = s[j] => i = j

\* An API is in the prompt twice only if it was filled up or crossed over.
Distinct ==
  \/ NoTwice(prompt)
  \/ operator = "crossover" \/ (operator = "replace" /\ Len(from) < CombLen)

\* What is intended of a finished prompt, but for the repetitions.
Lengths ==
  drawing = "done" =>
    /\ operator \in {"random", "assemble"} => Len(prompt) \in CombLen..MaxLen
    /\ operator = "add" => Len(prompt) = Len(from) + Delta
    /\ operator = "replace" => Len(prompt) = P!Longer(Len(from), CombLen)
    /\ operator = "crossover" =>
         \/ Len(prompt) = Len(from)
         \/ Len(from) <= Delta /\ Len(prompt) \in Len(from)..(2 * Delta)

MInv == PromptTypes /\ Intended /\ Distinct /\ Lengths

-----------------------------------------------------------------------------
(* The server keeps its invariant.                                          *)

LEMMA ServerLimits == Probes \in Nat \ {0} /\ MaxSessions \in Nat \ {0} /\ I!Sessions = 1..MaxSessions
  BY GenerationAssumption DEF I!ServerAssumption, I!Sessions

LEMMA SpawnStep ==
  ASSUME SInv, I!Spawn
  PROVE  SInv'
<1> USE DEF SInv
<1>1. /\ serving \in {"down", "ended", "failed"} /\ session < MaxSessions
      /\ session' = session + 1 /\ serving' = "probe" /\ lost' = lost
      /\ server' = [server EXCEPT ![session + 1] = "loading"]
  BY DEF I!Spawn
<1>2. session + 1 \in I!Sessions /\ I!Sessions = 1..MaxSessions
  BY <1>1, ServerLimits DEF ServerTypes
<1>3. \A s \in I!Sessions : server'[s] = IF s = session + 1 THEN "loading" ELSE server[s]
  BY <1>1 DEF ServerTypes
<1>4. ServerTypes'
  BY <1>1, <1>2, ServerLimits DEF ServerTypes
<1>5. Begun'
  BY <1>1, <1>2, <1>3 DEF Begun, ServerTypes
<1>6. I!OrphansAreExplained'
  BY <1>1, <1>2, <1>3 DEF I!OrphansAreExplained
<1> QED
  BY <1>4, <1>5, <1>6

LEMMA ProbeStep ==
  ASSUME SInv, I!Probe
  PROVE  SInv'
<1>1. /\ serving = "probe" /\ serving' \in {"probe", "serve"}
      /\ UNCHANGED <<session, server, lost>>
  BY DEF I!Probe
<1> QED
  BY <1>1 DEF SInv, ServerTypes, Begun, I!OrphansAreExplained, I!Sessions

LEMMA GiveUpStep ==
  ASSUME SInv, I!GiveUp
  PROVE  SInv'
<1>1. /\ serving = "probe" /\ serving' = "failed" /\ lost' = lost \cup {session}
      /\ UNCHANGED <<session, server>>
  BY DEF I!GiveUp
<1> QED
  BY <1>1 DEF SInv, ServerTypes, Begun, I!OrphansAreExplained, I!Sessions

\* Whatever becomes of the servers that were started, of the sessions nothing
\* changes but that one ends and kills its server or leaves it behind.
LEMMA ServersMove ==
  ASSUME SInv, NEW moved \in [I!Sessions -> {"none", "loading", "up", "gone"}], server' = moved,
         \A s \in I!Sessions : s > session => moved[s] = server[s],
         \A s \in I!Sessions : moved[s] \in {"loading", "up"} => server[s] \in {"loading", "up"},
         session' = session,
         \/ serving' = serving /\ lost' = lost
         \/ /\ serving \in {"probe", "serve"} /\ serving' \in {"down", "ended", "failed"}
            /\ lost \subseteq lost'
            /\ session \in lost' \/ moved[session] = "gone"
  PROVE  SInv'
<1>1. ServerTypes'
  BY DEF SInv, ServerTypes, I!Sessions
<1>2. Begun'
  BY DEF SInv, Begun, I!Sessions
<1>3. I!OrphansAreExplained'
  BY DEF SInv, I!OrphansAreExplained, I!Sessions
<1> QED
  BY <1>1, <1>2, <1>3 DEF SInv

LEMMA KilledIsGone ==
  ASSUME SInv, NEW s \in I!Sessions, ~(s > session)
  PROVE  /\ I!Killed(s) \in [I!Sessions -> {"none", "loading", "up", "gone"}]
         /\ I!Killed(s)[s] = "gone"
         /\ \A t \in I!Sessions : t > session => I!Killed(s)[t] = server[t]
         /\ \A t \in I!Sessions : I!Killed(s)[t] \in {"loading", "up"} =>
              server[t] \in {"loading", "up"}
  BY DEF SInv, ServerTypes, I!Killed

LEMMA RunningSession ==
  ASSUME SInv, serving \in {"probe", "serve"}
  PROVE  session \in I!Sessions /\ ~(session > session)
  BY ServerLimits DEF SInv, ServerTypes, Begun

LEMMA DropStep ==
  ASSUME SInv, I!Drop
  PROVE  SInv'
<1>1. /\ serving = "serve" /\ serving' \in {"ended", "failed"} /\ server' = I!Killed(session)
      /\ session' = session /\ lost' = lost
  BY DEF I!Drop
<1> QED
  BY <1>1, RunningSession, KilledIsGone, ServersMove

LEMMA LoadStep ==
  ASSUME SInv, NEW s \in I!Sessions, I!Load(s)
  PROVE  SInv'
<1>1. /\ server[s] = "loading" /\ UNCHANGED <<serving, session, lost>>
      /\ server' = [server EXCEPT ![s] = IF I!Answers THEN "gone" ELSE "up"]
  BY DEF I!Load
<1>2. ~(s > session)
  BY <1>1 DEF SInv, Begun
<1>3. /\ server' \in [I!Sessions -> {"none", "loading", "up", "gone"}]
      /\ \A t \in I!Sessions : t # s => server'[t] = server[t]
  BY <1>1 DEF SInv, ServerTypes
<1> QED
  BY <1>1, <1>2, <1>3, ServersMove

LEMMA DeathStep ==
  ASSUME SInv, NEW s \in I!Sessions, I!ServerDies(s)
  PROVE  SInv'
<1>1. /\ server[s] \in {"loading", "up"} /\ server' = I!Killed(s)
      /\ UNCHANGED <<serving, session, lost>>
  BY DEF I!ServerDies
<1>2. ~(s > session)
  BY <1>1 DEF SInv, Begun
<1> QED
  BY <1>1, <1>2, KilledIsGone, ServersMove

LEMMA InterruptStep ==
  ASSUME SInv, I!Interrupt
  PROVE  SInv'
<1>1. /\ serving \in {"probe", "serve"} /\ serving' = "down" /\ session' = session
      /\ \/ server' = server /\ lost' = lost \cup {session}
         \/ server' = I!Killed(session) /\ lost' = lost
  BY DEF I!Interrupt
<1>2. CASE server' = server /\ lost' = lost \cup {session}
  <2>1. server \in [I!Sessions -> {"none", "loading", "up", "gone"}]
    BY DEF SInv, ServerTypes
  <2> QED
    BY <1>1, <1>2, <2>1, ServersMove
<1>3. CASE server' = I!Killed(session) /\ lost' = lost
  BY <1>1, <1>3, RunningSession, KilledIsGone, ServersMove
<1> QED
  BY <1>1, <1>2, <1>3

LEMMA ServerStep ==
  ASSUME SInv, I!Next
  PROVE  SInv'
  BY SpawnStep, ProbeStep, GiveUpStep, DropStep, LoadStep, DeathStep, InterruptStep
  DEF I!Next, I!Environment

\* OrphansAreExplained: a server that still runs belongs to the session that
\* runs, or to one that was killed or gave up waiting; a session that ended
\* regularly, or whose request failed, has stopped its own.
THEOREM OrphansExplained == GenSpec => []OrphansAreExplained
<1>1. GenInit => SInv
  <2> SUFFICES ASSUME I!Init PROVE SInv
    BY DEF GenInit
  <2>1. /\ serving = "down" /\ session = 0 /\ server = [s \in I!Sessions |-> "none"]
    BY DEF I!Init
  <2> QED
    BY <2>1, ServerLimits DEF SInv, ServerTypes, Begun, I!OrphansAreExplained
<1>2. SInv /\ [GenNext]_<<focus, vars, countVars, serverVars, promptVars>> => SInv'
  <2> SUFFICES ASSUME SInv, GenNext \/ UNCHANGED serverVars
               PROVE  SInv'
    OBVIOUS
  <2>1. CASE UNCHANGED serverVars
    BY <2>1 DEF serverVars, SInv, ServerTypes, Begun, I!OrphansAreExplained, I!Sessions
  <2>2. CASE I!Next
    BY <2>2, ServerStep
  <2> QED
    BY <2>1, <2>2 DEF GenNext
<1>3. SInv => OrphansAreExplained
  BY DEF SInv, OrphansAreExplained
<1> QED
  BY <1>1, <1>2, <1>3, PTL DEF GenSpec

-----------------------------------------------------------------------------
(* The counters keep their invariant.                                       *)

LEMMA Combinations == CountedPrompts \subseteq Combs
  BY GenerationAssumption DEF C!CountersAssumption, Combs

\* What an operation writes are writes.
LEMMA WriteTypes ==
  ASSUME CountTypes
  PROVE  /\ \A comb \in Combs :
              /\ C!UpdatePromptCounter(comb) \in Writes /\ C!UpdatePromptCounter(comb)[1] # "exec"
              /\ C!SavePrompt(comb) \in Writes /\ C!SavePrompt(comb)[1] # "exec"
         /\ \A a \in CountedApis :
              <<"exec", counters.exec, C!Plus(counters.exec, {a})>> \in Writes
<1>1. \A counter \in C!Counters, comb \in Combs : C!Plus(counter, comb) \in C!Counters
  BY DEF C!Plus, C!Counters
<1>2. /\ counters.exec \in C!Counters /\ counters.prompted \in C!Counters
  BY DEF CountTypes
<1>3. \A a \in CountedApis : {a} \in Combs
  BY DEF Combs
<1>4. \A comb \in Combs :
        /\ C!UpdatePromptCounter(comb)
             = <<"prompted", counters.prompted, C!Plus(counters.prompted, comb)>>
        /\ C!SavePrompt(comb) = <<"prompt", comb, comb>>
  BY DEF C!UpdatePromptCounter, C!SavePrompt, C!Write
<1> QED
  BY <1>1, <1>2, <1>3, <1>4 DEF Writes, CountWrites

LEMMA PromptPlans ==
  ASSUME CountTypes, NEW comb \in Combs
  PROVE  \A p \in {C!FromCombination(comb), C!SetCombination(comb)} :
           p \in Seq(Writes) /\ \A k \in 1..Len(p) : p[k][1] # "exec"
<1>1. /\ C!UpdatePromptCounter(comb) \in Writes /\ C!UpdatePromptCounter(comb)[1] # "exec"
      /\ C!SavePrompt(comb) \in Writes /\ C!SavePrompt(comb)[1] # "exec"
  BY WriteTypes
<1>2. \A x, y \in Writes : x[1] # "exec" /\ y[1] # "exec" =>
        <<x, y>> \in Seq(Writes) /\ \A k \in 1..Len(<<x, y>>) : <<x, y>>[k][1] # "exec"
  OBVIOUS
<1> QED
  BY <1>1, <1>2 DEF C!FromCombination, C!SetCombination

LEMMA LoadPromptStep ==
  ASSUME NInv, C!LoadPrompt
  PROVE  NInv'
<1>1. /\ counting = "start" /\ files.prompt # Torn /\ counting' \in {"loop", "sync"}
      /\ UNCHANGED <<counters, files, counted>>
  BY DEF C!LoadPrompt
<1>2. PICK comb \in IF files.prompt = Absent THEN CountedPrompts ELSE {files.prompt} :
        plan' = C!FromCombination(comb)
  BY DEF C!LoadPrompt
<1>3. comb \in Combs
  <2>1. files.prompt \in Combs \cup Missing
    BY DEF NInv, CountTypes
  <2> QED
    BY <1>1, <1>2, <2>1, Combinations DEF Missing
<1>4. plan' \in Seq(Writes) /\ \A k \in 1..Len(plan') : plan'[k][1] # "exec"
  BY <1>2, <1>3, PromptPlans DEF NInv
<1>5. CountTypes'
  BY <1>1, <1>4 DEF NInv, CountTypes
<1>6. CallsAlone'
  BY <1>4 DEF CallsAlone
<1>7. Behind'
  BY <1>1 DEF NInv, Behind
<1> QED
  BY <1>5, <1>6, <1>7 DEF NInv

LEMMA SyncStep ==
  ASSUME NInv, C!Sync
  PROVE  NInv'
<1>1. /\ counting = "sync" /\ {files.prompted, files.exec} \subseteq C!Counters
      /\ plan' = <<C!Write("exec", counters.exec, files.exec),
                   C!Write("prompted", counters.prompted, files.prompted)>>
      /\ counting' = "restore" /\ UNCHANGED <<counters, files, counted>>
  BY DEF C!Sync
<1>2. counters.exec \in C!Counters /\ counters.prompted \in C!Counters
  BY DEF NInv, CountTypes
<1>3. /\ C!Write("exec", counters.exec, files.exec) \in Writes
      /\ C!Write("prompted", counters.prompted, files.prompted) \in Writes
  BY <1>1, <1>2 DEF C!Write, Writes, CountWrites
<1>4. \A x, y \in Writes : <<x, y>> \in Seq(Writes)
  OBVIOUS
<1>5. plan' \in Seq(Writes)
  BY <1>1, <1>3, <1>4
<1>6. CountTypes'
  BY <1>1, <1>5 DEF NInv, CountTypes
<1>7. CallsAlone' /\ Behind'
  BY <1>1 DEF NInv, CallsAlone, Behind
<1> QED
  BY <1>6, <1>7 DEF NInv

LEMMA SyncFailsStep ==
  ASSUME NInv, C!SyncFails
  PROVE  NInv'
<1>1. /\ counting # "loop" /\ counting' = "corrupt"
      /\ UNCHANGED <<plan, counters, files, counted>>
  BY DEF C!SyncFails
<1> QED
  BY <1>1 DEF NInv, CountTypes, CallsAlone, Behind

LEMMA OperateStep ==
  ASSUME NInv, C!Operate
  PROVE  NInv'
<1>1. counting = "loop" /\ UNCHANGED <<counting, counters, files, counted>>
  BY DEF C!Operate
<1>2. \/ \E a \in CountedApis : plan' = C!CountCall(a)
      \/ \E comb \in CountedPrompts :
           plan' \in {C!FromCombination(comb), C!SetCombination(comb)}
  BY DEF C!Operate
<1>3. plan' \in Seq(Writes) /\ CallsAlone'
  <2>1. CASE \E a \in CountedApis : plan' = C!CountCall(a)
    <3>1. PICK a \in CountedApis :
            plan' = << <<"exec", counters.exec, C!Plus(counters.exec, {a})>> >>
      BY <2>1 DEF C!CountCall, C!Write
    <3>2. <<"exec", counters.exec, C!Plus(counters.exec, {a})>> \in Writes
      BY WriteTypes DEF NInv
    <3>3. \A x \in Writes : <<x>> \in Seq(Writes) /\ Len(<<x>>) = 1 /\ <<x>>[1] = x
      OBVIOUS
    <3>4. plan' \in Seq(Writes) /\ Len(plan') = 1
          /\ plan'[1] = <<"exec", counters.exec, C!Plus(counters.exec, {a})>>
      BY <3>1, <3>2, <3>3
    <3>5. \E b \in CountedApis : plan'[1] = <<"exec", counters'.exec, C!Plus(counters'.exec, {b})>>
      BY <1>1, <3>4
    <3> QED
      BY <1>1, <3>4, <3>5 DEF CallsAlone, C!Plus
  <2>2. CASE \E comb \in CountedPrompts :
               plan' \in {C!FromCombination(comb), C!SetCombination(comb)}
    BY <2>2, PromptPlans, Combinations DEF NInv, CallsAlone
  <2> QED
    BY <1>2, <2>1, <2>2
<1>4. CountTypes' /\ Behind'
  BY <1>1, <1>3 DEF NInv, CountTypes, Behind, C!Plus
<1> QED
  BY <1>3, <1>4 DEF NInv

\* A write stores what it says in its file and in its counter.
LEMMA OneWrite ==
  ASSUME CountTypes, C!DoWrite
  PROVE  /\ plan # <<>> /\ plan' = Tail(plan) /\ plan[1] \in Writes
         /\ files' = [files EXCEPT ![plan[1][1]] = plan[1][2]]
         /\ counters' = [counters EXCEPT ![plan[1][1]] = plan[1][3]]
         /\ counted' = (counted \/ (counting = "loop" /\ plan[1][1] = "exec"))
         /\ counting' = IF counting = "restore" /\ Tail(plan) = <<>> THEN "loop" ELSE counting
<1>1. plan # <<>> /\ plan \in Seq(Writes)
  BY DEF C!DoWrite, CountTypes
<1>2. Head(plan) = plan[1] /\ plan[1] \in Writes
  BY <1>1
<1> QED
  BY <1>1, <1>2 DEF C!DoWrite

LEMMA DoWriteStep ==
  ASSUME NInv, C!DoWrite
  PROVE  NInv'
<1>1. /\ plan # <<>> /\ plan' = Tail(plan) /\ plan[1] \in Writes
      /\ files' = [files EXCEPT ![plan[1][1]] = plan[1][2]]
      /\ counters' = [counters EXCEPT ![plan[1][1]] = plan[1][3]]
      /\ counted' = (counted \/ (counting = "loop" /\ plan[1][1] = "exec"))
      /\ counting' = IF counting = "restore" /\ Tail(plan) = <<>> THEN "loop" ELSE counting
  BY OneWrite DEF NInv
<1>2. plan \in Seq(Writes) /\ CountTypes
  BY DEF NInv, CountTypes
<1>3. /\ plan' \in Seq(Writes) /\ 1 \in 1..Len(plan) /\ Len(plan') = Len(plan) - 1
      /\ \A k \in 1..Len(plan') : k + 1 \in 1..Len(plan) /\ plan'[k] = plan[k + 1]
  BY <1>1, <1>2
<1>4. /\ plan[1][1] \in {"exec", "prompted", "prompt"}
      /\ plan[1][1] = "prompt" => plan[1][2] \in Combs /\ plan[1][3] \in Combs
      /\ plan[1][1] # "prompt" => plan[1][2] \in C!Counters /\ plan[1][3] \in C!Counters
  BY <1>1 DEF Writes, CountWrites
<1>5. /\ counters' \in [exec : C!Counters, prompted : C!Counters, prompt : Combs]
      /\ plan[1][1] # "exec" => counters'.exec = counters.exec
      /\ plan[1][1] = "exec" => counters'.exec = plan[1][3]
  BY <1>1, <1>2, <1>4 DEF CountTypes
<1>6. /\ files' \in [exec : C!Counters \cup Missing, prompted : C!Counters \cup Missing,
                     prompt : Combs \cup Missing]
      /\ plan[1][1] # "exec" => files'.exec = files.exec
      /\ plan[1][1] = "exec" => files'.exec = plan[1][2]
  BY <1>1, <1>2, <1>4 DEF CountTypes
<1>7. CountTypes'
  BY <1>1, <1>2, <1>3, <1>5, <1>6 DEF CountTypes
<1>8. counting = "loop" => \A k \in 1..Len(plan) : plan[k][1] = "exec" =>
        Len(plan) = 1 /\ \E a \in CountedApis :
          plan[1] = <<"exec", counters.exec, C!Plus(counters.exec, {a})>>
  BY DEF NInv, CallsAlone
<1>9. CallsAlone'
  <2>1. CASE counting = "loop"
    \* No call is left: it would have been alone.
    <3>1. \A k \in 1..Len(plan') : plan'[k][1] # "exec"
      <4> SUFFICES ASSUME NEW k \in 1..Len(plan'), plan'[k][1] = "exec" PROVE FALSE
        OBVIOUS
      <4>1. k + 1 \in 1..Len(plan) /\ plan[k + 1][1] = "exec"
        BY <1>3
      <4> QED
        BY <1>3, <1>8, <2>1, <4>1
    <3> QED
      BY <3>1 DEF CallsAlone
  <2>2. CASE counting # "loop"
    <3>1. counting' = "loop" => plan' = <<>>
      BY <1>1, <2>2
    <3> QED
      BY <3>1 DEF CallsAlone
  <2> QED
    BY <2>1, <2>2
<1>10. Behind'
  <2>1. CASE counting = "loop" /\ plan[1][1] = "exec"
    <3>1. PICK a \in CountedApis :
            plan[1] = <<"exec", counters.exec, C!Plus(counters.exec, {a})>>
      BY <1>3, <1>8, <2>1
    <3>2. files'.exec = counters.exec /\ counters'.exec = C!Plus(counters.exec, {a})
      BY <1>5, <1>6, <2>1, <3>1
    <3>3. counters.exec \in C!Counters /\ counting' = "loop"
      BY <1>1, <1>2, <2>1 DEF CountTypes
    <3>4. \E b \in CountedApis : counters'.exec = C!Plus(files'.exec, {b})
      BY <3>2
    <3> QED
      BY <3>2, <3>3, <3>4 DEF Behind, C!Plus, C!Counters
  <2>2. CASE ~(counting = "loop" /\ plan[1][1] = "exec")
    <3> SUFFICES ASSUME counted' PROVE Behind'
      BY DEF Behind
    <3>1. counted /\ counting = "loop" /\ plan[1][1] # "exec" /\ counting' = "loop"
      BY <1>1, <2>2 DEF NInv, Behind
    <3>2. files'.exec = files.exec /\ counters'.exec = counters.exec
      BY <1>5, <1>6, <3>1
    <3> QED
      BY <3>1, <3>2 DEF NInv, Behind, C!Plus, C!Counters
  <2> QED
    BY <2>1, <2>2
<1> QED
  BY <1>7, <1>9, <1>10 DEF NInv

\* A crash empties the memory, and leaves the files or spoils one.
LEMMA CrashStep ==
  ASSUME NInv, C!Crash
  PROVE  NInv'
<1>1. /\ counting' = "down" /\ plan' = <<>> /\ counters' = C!Fresh
  BY DEF C!Crash
<1>2. C!Fresh \in [exec : C!Counters, prompted : C!Counters, prompt : Combs]
  <2>1. C!Zero \in C!Counters /\ C!NoPrompt \in Combs
    BY DEF C!Zero, C!Counters, C!NoPrompt, Combs
  <2> QED
    BY <2>1 DEF C!Fresh
<1>3. /\ files' \in [exec : C!Counters \cup Missing, prompted : C!Counters \cup Missing,
                     prompt : Combs \cup Missing]
  <2>1. /\ files \in [exec : C!Counters \cup Missing, prompted : C!Counters \cup Missing,
                      prompt : Combs \cup Missing]
        /\ plan \in Seq(Writes)
    BY DEF NInv, CountTypes
  <2>2. CASE files' = files
    BY <2>1, <2>2
  <2>3. CASE plan # <<>> /\ files' = [files EXCEPT ![Head(plan)[1]] = Torn]
    <3>1. Head(plan) \in Writes
      BY <2>1, <2>3
    <3>2. Head(plan)[1] \in {"exec", "prompted", "prompt"}
      BY <3>1 DEF Writes, CountWrites
    <3> QED
      BY <2>1, <2>3, <3>2 DEF Missing
  <2> QED
    BY <2>2, <2>3 DEF C!Crash
<1>4. plan' \in Seq(Writes)
  BY <1>1
<1>5. counted' = FALSE
  BY DEF C!Crash
<1>6. CountTypes'
  BY <1>1, <1>2, <1>3, <1>4, <1>5 DEF CountTypes
<1>7. CallsAlone' /\ Behind'
  BY <1>1, <1>5 DEF CallsAlone, Behind
<1> QED
  BY <1>6, <1>7 DEF NInv

LEMMA RestartStep ==
  ASSUME NInv, C!Restart
  PROVE  NInv'
<1>1. /\ counting = "down" /\ counting' = "start"
      /\ UNCHANGED <<plan, counters, files, counted>>
  BY DEF C!Restart
<1> QED
  BY <1>1 DEF NInv, CountTypes, CallsAlone, Behind

LEMMA CountStep ==
  ASSUME NInv, C!Next
  PROVE  NInv'
  BY LoadPromptStep, SyncStep, SyncFailsStep, OperateStep, DoWriteStep, CrashStep, RestartStep
  DEF C!Next

\* OneCallBehind: when a session that has counted a call is interrupted, the
\* file of calls is torn or one call behind the memory that is lost.
THEOREM LosesOneCall == GenSpec => OneCallBehind
<1>1. GenInit => NInv
  <2> SUFFICES ASSUME C!Init PROVE NInv
    BY DEF GenInit
  <2>1. /\ counting = "start" /\ plan = <<>> /\ counters = C!Fresh /\ counted = FALSE
        /\ files = [exec |-> Absent, prompted |-> Absent, prompt |-> Absent]
    BY DEF C!Init
  <2>2. C!Fresh \in [exec : C!Counters, prompted : C!Counters, prompt : Combs]
    <3>1. C!Zero \in C!Counters /\ C!NoPrompt \in Combs
      BY DEF C!Zero, C!Counters, C!NoPrompt, Combs
    <3> QED
      BY <3>1 DEF C!Fresh
  <2>3. CountTypes
    <3>1. plan \in Seq(Writes)
      BY <2>1, EmptySeq
    <3>3. counted \in BOOLEAN
      BY <2>1, Zenon
    <3>2. files \in [exec : C!Counters \cup Missing, prompted : C!Counters \cup Missing,
                     prompt : Combs \cup Missing]
      BY <2>1 DEF Missing
    <3> QED
      BY <2>1, <2>2, <3>1, <3>2, <3>3 DEF CountTypes
  <2> QED
    BY <2>1, <2>3 DEF NInv, CallsAlone, Behind
<1>2. NInv /\ [GenNext]_<<focus, vars, countVars, serverVars, promptVars>> => NInv'
  <2> SUFFICES ASSUME NInv, GenNext \/ UNCHANGED countVars
               PROVE  NInv'
    OBVIOUS
  <2>1. CASE UNCHANGED countVars
    BY <2>1 DEF countVars, NInv, CountTypes, CallsAlone, Behind, C!Plus
  <2>2. CASE C!Next
    BY <2>2, CountStep
  <2> QED
    BY <2>1, <2>2 DEF GenNext
<1>3. NInv /\ [GenNext]_<<focus, vars, countVars, serverVars, promptVars>> =>
        [counted /\ counting' = "down" =>
           \/ files'.exec = Torn
           \/ /\ files'.exec \in C!Counters
              /\ \E a \in CountedApis : counters.exec = C!Plus(files'.exec, {a})]_C!vars
  <2> SUFFICES ASSUME NInv, GenNext \/ UNCHANGED countVars, counted, counting' = "down",
                      ~UNCHANGED C!vars
               PROVE  \/ files'.exec = Torn
                      \/ /\ files'.exec \in C!Counters
                         /\ \E a \in CountedApis : counters.exec = C!Plus(files'.exec, {a})
    OBVIOUS
  <2>1. /\ counting = "loop" /\ files.exec \in C!Counters /\ CountTypes
        /\ \E a \in CountedApis : counters.exec = C!Plus(files.exec, {a})
    BY DEF NInv, Behind
  <2>2. C!Next
    BY DEF GenNext, countVars, C!vars
  <2>3. C!Crash
    BY <2>1, <2>2 DEF C!Next, C!LoadPrompt, C!Sync, C!SyncFails, C!Operate, C!DoWrite, C!Restart
  <2>4. CASE files' = files
    BY <2>1, <2>4
  <2>5. CASE plan # <<>> /\ files' = [files EXCEPT ![Head(plan)[1]] = Torn]
    <3>1. Head(plan) \in Writes
      BY <2>1, <2>5 DEF CountTypes
    <3>2. Head(plan)[1] \in {"exec", "prompted", "prompt"}
      BY <3>1 DEF Writes, CountWrites
    <3>3. files'.exec = Torn \/ files'.exec = files.exec
      BY <2>1, <2>5, <3>2 DEF CountTypes
    <3> QED
      BY <2>1, <3>3
  <2> QED
    BY <2>3, <2>4, <2>5 DEF C!Crash
<1>4. GenSpec => [][counted /\ counting' = "down" =>
           \/ files'.exec = Torn
           \/ /\ files'.exec \in C!Counters
              /\ \E a \in CountedApis : counters.exec = C!Plus(files'.exec, {a})]_C!vars
  BY <1>1, <1>2, <1>3, PTL DEF GenSpec
<1> QED
  BY <1>4, PTL DEF OneCallBehind, C!OneCallBehind

-----------------------------------------------------------------------------
(* Lists of APIs.                                                           *)

\* The part of a list between two places.
LEMMA Part ==
  ASSUME NEW S, NEW s \in Seq(S), NEW m \in 1..(Len(s) + 1), NEW n \in (m - 1)..Len(s)
  PROVE  /\ SubSeq(s, m, n) \in Seq(S) /\ Len(SubSeq(s, m, n)) = n - m + 1
         /\ \A k \in 1..(n - m + 1) : SubSeq(s, m, n)[k] = s[m + k - 1]
<1>1. \A k \in m..n : s[k] \in S
  OBVIOUS
<1>2. m \in Int /\ n \in Int
  OBVIOUS
<1> QED
  BY <1>1, <1>2, SubSeqProperties

\* Three lists, one after the other.
LEMMA Three ==
  ASSUME NEW S, NEW p \in Seq(S), NEW q \in Seq(S), NEW r \in Seq(S)
  PROVE  p \o q \o r \in Seq(S) /\ Len(p \o q \o r) = Len(p) + Len(q) + Len(r)
<1>1. p \o q \in Seq(S) /\ Len(p \o q) = Len(p) + Len(q)
  BY ConcatProperties
<1> QED
  BY <1>1, ConcatProperties

LEMMA InsertedAt ==
  ASSUME NEW S, NEW s \in Seq(S), NEW i \in 0..Len(s), NEW a \in S
  PROVE  /\ P!InsertAt(s, i, a) \in Seq(S) /\ Len(P!InsertAt(s, i, a)) = Len(s) + 1
         /\ NoTwice(s) /\ a \notin Range(s) => NoTwice(P!InsertAt(s, i, a))
<1> DEFINE p == SubSeq(s, 1, i)  q == <<a>>  r == SubSeq(s, i + 1, Len(s))
           t == P!InsertAt(s, i, a)
<1>1. /\ p \in Seq(S) /\ Len(p) = i /\ \A k \in 1..i : p[k] = s[k]
  BY Part
<1>2. /\ r \in Seq(S) /\ Len(r) = Len(s) - i /\ \A k \in 1..(Len(s) - i) : r[k] = s[i + k]
  BY Part
<1>3. q \in Seq(S) /\ Len(q) = 1 /\ q[1] = a
  OBVIOUS
<1>4. t = p \o q \o r
  BY DEF P!InsertAt
<1> HIDE DEF p, q, r, t
<1>5. /\ t \in Seq(S) /\ Len(t) = Len(s) + 1
      /\ \A k \in 1..(Len(s) + 1) :
           t[k] = IF k <= i THEN s[k] ELSE IF k = i + 1 THEN a ELSE s[k - 1]
  <2>1. /\ t \in Seq(S) /\ Len(t) = Len(p) + Len(q) + Len(r)
        /\ \A k \in 1..(Len(p) + Len(q) + Len(r)) : t[k] =
             IF k <= Len(p) THEN p[k]
             ELSE IF k <= Len(p) + Len(q) THEN q[k - Len(p)] ELSE r[k - Len(p) - Len(q)]
    <3> DEFINE pq == p \o q
    <3>1. /\ pq \in Seq(S) /\ Len(pq) = Len(p) + Len(q)
          /\ \A k \in 1..(Len(p) + Len(q)) : pq[k] = IF k <= Len(p) THEN p[k] ELSE q[k - Len(p)]
      BY <1>1, <1>3, ConcatProperties
    <3>2. t = pq \o r
      BY <1>4
    <3> HIDE DEF pq
    <3>3. /\ t \in Seq(S) /\ Len(t) = Len(pq) + Len(r)
          /\ \A k \in 1..(Len(pq) + Len(r)) :
               t[k] = IF k <= Len(pq) THEN pq[k] ELSE r[k - Len(pq)]
      <4> DEFINE u == pq \o r
      <4>1. pq \in Seq(S) /\ r \in Seq(S)
        BY <1>2, <3>1
      <4>2. /\ u \in Seq(S) /\ Len(u) = Len(pq) + Len(r)
            /\ \A k \in 1..(Len(pq) + Len(r)) :
                 u[k] = IF k <= Len(pq) THEN pq[k] ELSE r[k - Len(pq)]
        BY ONLY <4>1, ConcatProperties
      <4>3. t = u
        BY <3>2
      <4> HIDE DEF u
      <4> QED
        BY <4>2, <4>3
    <3>4. Len(p) \in Nat /\ Len(q) \in Nat /\ Len(r) \in Nat
      BY <1>1, <1>2, <1>3
    <3> QED
      BY <3>1, <3>3, <3>4
  <2>2. Len(s) \in Nat /\ i \in Nat /\ i <= Len(s)
    OBVIOUS
  <2>3. Len(p) + Len(q) + Len(r) = Len(s) + 1
    BY <1>1, <1>2, <1>3, <2>2
  <2>4. ASSUME NEW k \in 1..(Len(s) + 1)
        PROVE  t[k] = IF k <= i THEN s[k] ELSE IF k = i + 1 THEN a ELSE s[k - 1]
    <3>1. CASE k <= i
      BY <1>1, <2>1, <2>2, <2>3, <3>1
    <3>2. CASE k = i + 1
      BY <1>1, <1>3, <2>1, <2>2, <2>3, <3>2
    <3>3. CASE k > i + 1
      <4>1. t[k] = r[k - i - 1] /\ k - i - 1 \in 1..(Len(s) - i)
        BY <1>1, <1>3, <2>1, <2>2, <2>3, <3>3
      <4> QED
        BY <1>2, <2>2, <3>3, <4>1
    <3> QED
      BY <2>2, <3>1, <3>2, <3>3
  <2> QED
    BY <2>1, <2>3, <2>4
<1>6. ASSUME NoTwice(s), a \notin Range(s) PROVE NoTwice(t)
  <2>1. \A k \in 1..Len(s) : s[k] # a
    BY <1>6 DEF Range
  <2>2. \A j, k \in 1..Len(s) : j # k => s[j] # s[k]
    BY <1>6 DEF NoTwice
  <2>3. ASSUME NEW j \in 1..(Len(s) + 1), NEW k \in 1..(Len(s) + 1), j < k
        PROVE  t[j] # t[k]
    <3>1. CASE k <= i
      BY <1>5, <2>2, <2>3, <3>1, SMTT(20)
    <3>2. CASE k = i + 1
      <4>1. t[k] = a /\ t[j] = s[j] /\ j \in 1..Len(s)
        BY <1>5, <2>3, <3>2
      <4> QED
        BY <2>1, <4>1
    <3>3. CASE k > i + 1
      <4>1. t[k] = s[k - 1] /\ k - 1 \in 1..Len(s)
        BY <1>5, <3>3
      <4>2. CASE j <= i
        <5>1. t[j] = s[j] /\ j \in 1..Len(s) /\ j # k - 1
          BY <1>5, <3>3, <4>2
        <5> QED
          BY <2>2, <4>1, <5>1
      <4>3. CASE j = i + 1
        BY <1>5, <2>1, <4>1, <4>3
      <4>4. CASE j > i + 1
        <5>1. t[j] = s[j - 1] /\ j - 1 \in 1..Len(s) /\ j - 1 # k - 1
          BY <1>5, <2>3, <4>4
        <5> QED
          BY <2>2, <4>1, <5>1
      <4> QED
        BY <4>2, <4>3, <4>4
    <3> QED
      BY <3>1, <3>2, <3>3
  <2> QED
    BY <1>5, <2>3 DEF NoTwice
<1> QED
  BY <1>5, <1>6 DEF t

LEMMA RemovedAt ==
  ASSUME NEW S, NEW s \in Seq(S), NEW i \in 1..Len(s)
  PROVE  /\ P!RemoveAt(s, i) \in Seq(S) /\ Len(P!RemoveAt(s, i)) = Len(s) - 1
         /\ NoTwice(s) => NoTwice(P!RemoveAt(s, i))
<1> DEFINE p == SubSeq(s, 1, i - 1)  r == SubSeq(s, i + 1, Len(s))  t == P!RemoveAt(s, i)
<1>1. /\ p \in Seq(S) /\ Len(p) = i - 1 /\ \A k \in 1..(i - 1) : p[k] = s[k]
  BY Part
<1>2. /\ r \in Seq(S) /\ Len(r) = Len(s) - i /\ \A k \in 1..(Len(s) - i) : r[k] = s[i + k]
  BY Part
<1>3. t = p \o r
  BY DEF P!RemoveAt
<1> HIDE DEF p, r, t
<1>4. /\ t \in Seq(S) /\ Len(t) = Len(s) - 1
      /\ \A k \in 1..(Len(s) - 1) : t[k] = IF k < i THEN s[k] ELSE s[k + 1]
  <2>1. /\ t \in Seq(S) /\ Len(t) = Len(p) + Len(r)
        /\ \A k \in 1..(Len(p) + Len(r)) :
             t[k] = IF k <= Len(p) THEN p[k] ELSE r[k - Len(p)]
    BY <1>1, <1>2, <1>3, ConcatProperties
  <2>2. Len(s) \in Nat /\ i \in Nat /\ Len(p) + Len(r) = Len(s) - 1
    BY <1>1, <1>2
  <2>3. ASSUME NEW k \in 1..(Len(s) - 1)
        PROVE  t[k] = IF k < i THEN s[k] ELSE s[k + 1]
    <3>1. k \in Int /\ 1 <= k /\ k <= Len(s) - 1 /\ k \in 1..(Len(p) + Len(r)) /\ Len(p) = i - 1
      BY <1>1, <2>2
    <3>2. t[k] = IF k <= Len(p) THEN p[k] ELSE r[k - Len(p)]
      BY <2>1, <3>1
    <3>3. CASE k < i
      <4>1. k <= Len(p) /\ k \in 1..(i - 1)
        BY <2>2, <3>1, <3>3
      <4>2. t[k] = p[k] /\ p[k] = s[k]
        BY <1>1, <3>2, <4>1
      <4> QED
        BY <3>3, <4>2
    <3>4. CASE ~(k < i)
      <4>1. ~(k <= Len(p)) /\ k - Len(p) \in 1..(Len(s) - i) /\ i + (k - Len(p)) = k + 1
        BY <2>2, <3>1, <3>4
      <4>2. t[k] = r[k - Len(p)]
        BY <3>2, <4>1
      <4>3. r[k - Len(p)] = s[i + (k - Len(p))]
        BY <1>2, <4>1
      <4> QED
        BY <3>4, <4>1, <4>2, <4>3
    <3> QED
      BY <3>3, <3>4
  <2> QED
    BY <2>1, <2>2, <2>3
<1>5. ASSUME NoTwice(s) PROVE NoTwice(t)
  BY <1>4, <1>5 DEF NoTwice
<1> QED
  BY <1>4, <1>5 DEF t

LEMMA AddedAtTheEnd ==
  ASSUME NEW S, NEW s \in Seq(S), NEW a \in S
  PROVE  /\ Append(s, a) \in Seq(S) /\ Len(Append(s, a)) = Len(s) + 1
         /\ NoTwice(s) /\ a \notin Range(s) => NoTwice(Append(s, a))
<1>1. /\ Append(s, a) \in Seq(S) /\ Len(Append(s, a)) = Len(s) + 1
      /\ \A k \in 1..Len(s) : Append(s, a)[k] = s[k]
      /\ Append(s, a)[Len(s) + 1] = a
  OBVIOUS
<1>2. ASSUME NoTwice(s), a \notin Range(s) PROVE NoTwice(Append(s, a))
  <2>1. \A k \in 1..Len(s) : s[k] # a
    BY <1>2 DEF Range
  <2> QED
    BY <1>1, <1>2, <2>1 DEF NoTwice
<1> QED
  BY <1>1, <1>2

\* Without repetition a list has as many APIs as entries.
LEMMA AllDifferent ==
  ASSUME NEW S, NEW s \in Seq(S), NoTwice(s)
  PROVE  Cardinality(Range(s)) = Len(s)
<1>1. s \in Bijection(1..Len(s), Range(s))
  BY DEF NoTwice, Range, Bijection, Injection, Surjection, IsInjective
<1>2. ExistsBijection(1..Len(s), Range(s))
  BY <1>1 DEF ExistsBijection
<1> QED
  BY <1>2, FS_CountingElements

\* A stretch of the other list replaces one of the same length.
LEMMA Crossed ==
  ASSUME NEW S, NEW one \in Seq(S), NEW two \in Seq(S), NEW i \in Nat, NEW j \in Nat,
         NEW len \in Nat, i + len <= Len(one), j + len <= Len(two)
  PROVE  /\ P!Cross(one, two, i, j, len) \in Seq(S)
         /\ Len(P!Cross(one, two, i, j, len)) = Len(one)
<1> DEFINE p == SubSeq(one, 1, i)  q == SubSeq(two, j + 1, j + len)
           r == SubSeq(one, i + len + 1, Len(one))
<1>1. p \in Seq(S) /\ Len(p) = i
  BY Part
<1>2. q \in Seq(S) /\ Len(q) = len
  <2>1. j + 1 \in 1..(Len(two) + 1) /\ j + len \in (j + 1 - 1)..Len(two)
    OBVIOUS
  <2> QED
    BY <2>1, Part
<1>3. r \in Seq(S) /\ Len(r) = Len(one) - i - len
  <2>1. i + len + 1 \in 1..(Len(one) + 1) /\ Len(one) \in (i + len + 1 - 1)..Len(one)
    OBVIOUS
  <2> QED
    BY <2>1, Part
<1>4. P!Cross(one, two, i, j, len) = p \o q \o r
  BY DEF P!Cross
<1> HIDE DEF p, q, r
<1>5. p \o q \o r \in Seq(S) /\ Len(p \o q \o r) = Len(p) + Len(q) + Len(r)
  <2>1. p \in Seq(S) /\ q \in Seq(S) /\ r \in Seq(S)
    BY <1>1, <1>2, <1>3
  <2> QED
    BY ONLY <2>1, Three
<1> QED
  BY <1>1, <1>2, <1>3, <1>4, <1>5

LEMMA PromptLimits ==
  /\ CombLen \in Nat \ {0} /\ MaxLen \in Nat \ {0} /\ Delta \in Nat \ {0}
  /\ Delta < CombLen /\ CombLen <= MaxLen
  /\ \A calls \in SeedCalls : calls \in Seq(PromptApis) /\ NoTwice(calls)
<1>1. /\ SeedCalls \subseteq Seq(PromptApis) /\ \A calls \in SeedCalls : P!IsInjective(calls)
      /\ {CombLen, MaxLen, Delta} \subseteq Nat \ {0} /\ Delta < CombLen /\ CombLen <= MaxLen
  BY GenerationAssumption DEF P!MutationAssumption
<1> QED
  BY <1>1 DEF P!IsInjective, NoTwice

\* Which lengths a crossover can have.
LEMMA CrossOverLengths ==
  ASSUME NEW one \in Seq(PromptApis), NEW two \in Seq(PromptApis), Len(two) <= Len(one),
         NEW comb \in P!CrossOvers(one, two)
  PROVE  /\ comb \in Seq(PromptApis)
         /\ \/ Len(comb) = Len(one)
            \/ Len(one) <= Delta /\ Len(comb) \in Len(one)..(2 * Delta)
<1>1. Len(one) \in Nat /\ Len(two) \in Nat /\ Delta \in Nat
  BY PromptLimits
<1>2. CASE Len(one) <= Delta
  <2>1. comb = one \o two
    BY <1>2 DEF P!CrossOvers
  <2>2. comb \in Seq(PromptApis) /\ Len(comb) = Len(one) + Len(two)
    BY <2>1, ConcatProperties
  <2> QED
    BY <1>1, <1>2, <2>2
<1>3. CASE Len(one) > Delta /\ Len(two) <= Delta
  <2>1. PICK i \in 0..(Len(one) - Len(two) - 1) : comb = P!Cross(one, two, i, 0, Len(two))
    BY <1>1, <1>3 DEF P!CrossOvers
  <2>2. i \in Nat /\ 0 \in Nat /\ i + Len(two) <= Len(one) /\ 0 + Len(two) <= Len(two)
    BY <1>1, <2>1
  <2> QED
    BY <1>1, <2>1, <2>2, Crossed
<1>4. CASE Len(one) > Delta /\ Len(two) > Delta
  <2>1. PICK i \in 0..(Len(one) - Delta - 1), j \in 0..(Len(two) - Delta - 1) :
          comb = P!Cross(one, two, i, j, Delta)
    BY <1>1, <1>4 DEF P!CrossOvers
  <2>2. i \in Nat /\ j \in Nat /\ i + Delta <= Len(one) /\ j + Delta <= Len(two)
    BY <1>1, <2>1
  <2> QED
    BY <1>1, <2>1, <2>2, Crossed
<1> QED
  BY <1>1, <1>2, <1>3, <1>4

LEMMA SameCount == \A S : P!Cardinality(S) = Cardinality(S)
  BY DEF P!Cardinality, Cardinality

LEMMA PromptIsAsIntended ==
  ASSUME MInv
  PROVE  P!PromptAsIntended
<1>1. P!Cardinality(P!Range(prompt)) < Len(prompt) =>
        operator = "crossover" \/ (operator = "replace" /\ Len(from) < CombLen)
  <2> SUFFICES ASSUME NoTwice(prompt) PROVE ~(P!Cardinality(P!Range(prompt)) < Len(prompt))
    BY DEF MInv, Distinct, NoTwice
  <2>1. Cardinality(Range(prompt)) = Len(prompt) /\ Len(prompt) \in Nat
    BY AllDifferent DEF MInv, PromptTypes
  <2> QED
    BY <2>1, SameCount DEF Range, P!Range
<1> QED
  BY <1>1, Zenon DEF MInv, Lengths, P!PromptAsIntended

-----------------------------------------------------------------------------
(* The mutation keeps its invariant.                                        *)

LEMMA BeginRandomStep ==
  ASSUME MInv, P!BeginRandom \/ P!BeginAssemble
  PROVE  MInv'
<1>1. /\ drawing' \in {"random", "assemble"} /\ operator' = drawing'
      /\ from' = <<>> /\ prompt' = <<>> /\ left' \in CombLen..MaxLen
      /\ energetic' \subseteq PromptApis /\ first' = first
  BY DEF P!BeginRandom, P!BeginAssemble, P!Begin
<1>2. <<>> \in Seq(PromptApis) /\ Len(<<>>) = 0
  BY EmptySeq
<1>3. /\ from' \in Seq(PromptApis) /\ prompt' \in Seq(PromptApis) /\ Len(prompt') = 0
      /\ left' \in Nat \ {0}
  BY <1>1, <1>2, PromptLimits
<1>4. PromptTypes'
  BY <1>1, <1>3 DEF MInv, PromptTypes, Draws
<1>5. Intended'
  BY <1>1, <1>3 DEF Intended
<1>6. Distinct'
  BY <1>3 DEF Distinct, NoTwice
<1>7. Lengths'
  BY <1>1 DEF Lengths
<1> QED
  BY <1>4, <1>5, <1>6, <1>7 DEF MInv

LEMMA BeginAddStep ==
  ASSUME MInv, P!BeginAdd
  PROVE  MInv'
<1>1. PICK calls \in SeedCalls :
        /\ drawing' = "insert" /\ operator' = "add"
        /\ from' = calls /\ prompt' = calls /\ left' = Delta
        /\ energetic' \subseteq PromptApis /\ first' = first
  BY DEF P!BeginAdd, P!Begin
<1>2. /\ from' \in Seq(PromptApis) /\ prompt' \in Seq(PromptApis) /\ NoTwice(prompt')
      /\ left' \in Nat \ {0}
  BY <1>1, PromptLimits
<1>3. PromptTypes'
  BY <1>1, <1>2 DEF MInv, PromptTypes, Draws
<1>4. Intended'
  BY <1>1 DEF Intended
<1>5. Distinct' /\ Lengths'
  BY <1>1, <1>2 DEF Distinct, Lengths, NoTwice
<1> QED
  BY <1>3, <1>4, <1>5 DEF MInv

LEMMA BeginReplaceStep ==
  ASSUME MInv, P!BeginReplace
  PROVE  MInv'
<1>1. PICK calls \in SeedCalls :
        /\ operator' = "replace" /\ from' = calls /\ prompt' = calls
        /\ energetic' \subseteq PromptApis /\ first' = first
        /\ IF Len(calls) < CombLen THEN drawing' = "infill" /\ left' = CombLen - Len(calls)
                                   ELSE drawing' = "delete" /\ left' = Delta
  BY DEF P!BeginReplace, P!Begin
<1>2. /\ from' \in Seq(PromptApis) /\ prompt' \in Seq(PromptApis) /\ NoTwice(prompt')
      /\ left' \in Nat \ {0} /\ drawing' \in {"infill", "delete"} /\ Len(calls) \in Nat
  BY <1>1, PromptLimits
<1>3. PromptTypes'
  BY <1>1, <1>2 DEF MInv, PromptTypes, Draws
<1>4. Intended'
  <2>1. CASE Len(calls) < CombLen
    BY <1>1, <1>2, <2>1, PromptLimits DEF Intended
  <2>2. CASE ~(Len(calls) < CombLen)
    BY <1>1, <1>2, <2>2, PromptLimits DEF Intended, P!Longer
  <2> QED
    BY <2>1, <2>2
<1>5. Distinct' /\ Lengths'
  BY <1>1, <1>2 DEF Distinct, Lengths, NoTwice
<1> QED
  BY <1>3, <1>4, <1>5 DEF MInv

LEMMA CrossOverStep ==
  ASSUME MInv, P!CrossOver
  PROVE  MInv'
<1>1. PICK one \in SeedCalls, two \in SeedCalls :
        /\ Len(two) <= Len(one)
        /\ \E comb \in P!CrossOvers(one, two) : P!Begin("done", "crossover", one, comb, 0)
  <2>1. PICK calls \in SeedCalls, calls2 \in SeedCalls :
          LET longer  == IF Len(calls) >= Len(calls2) THEN calls ELSE calls2
              shorter == IF Len(calls) >= Len(calls2) THEN calls2 ELSE calls
          IN  \E comb \in P!CrossOvers(longer, shorter) :
                P!Begin("done", "crossover", longer, comb, 0)
    BY DEF P!CrossOver
  <2>2. Len(calls) \in Nat /\ Len(calls2) \in Nat
    BY PromptLimits
  <2>3. CASE Len(calls) >= Len(calls2)
    BY <2>1, <2>2, <2>3
  <2>4. CASE ~(Len(calls) >= Len(calls2))
    BY <2>1, <2>2, <2>4
  <2> QED
    BY <2>3, <2>4
<1>2. PICK comb \in P!CrossOvers(one, two) :
        /\ drawing' = "done" /\ operator' = "crossover" /\ from' = one /\ prompt' = comb
        /\ left' = 0 /\ energetic' \subseteq PromptApis /\ first' = first
  BY <1>1 DEF P!Begin
<1>3. one \in Seq(PromptApis) /\ two \in Seq(PromptApis)
  BY PromptLimits
<1>4. /\ comb \in Seq(PromptApis)
      /\ Len(comb) = Len(one) \/ (Len(one) <= Delta /\ Len(comb) \in Len(one)..(2 * Delta))
  BY <1>1, <1>3, CrossOverLengths
<1>5. PromptTypes'
  BY <1>2, <1>3, <1>4 DEF MInv, PromptTypes, Draws
<1>6. Intended' /\ Distinct' /\ Lengths'
  BY <1>2, <1>4 DEF Intended, Distinct, Lengths
<1> QED
  BY <1>5, <1>6 DEF MInv

\* What is drawn by energy is an API, or a place of the prompt.
LEMMA DrawnByEnergy ==
  ASSUME PromptTypes
  PROVE  /\ P!ByEnergy \subseteq PromptApis
         /\ Len(prompt) # 0 => P!ByEnergyIn(prompt) \subseteq 1..Len(prompt)
<1>1. P!ByEnergy \subseteq PromptApis
  BY DEF P!ByEnergy, PromptTypes
<1>2. prompt \in Seq(PromptApis)
  BY DEF PromptTypes
<1>3. Len(prompt) # 0 => 1 \in 1..Len(prompt) /\ DOMAIN prompt = 1..Len(prompt)
  BY <1>2
<1> QED
  BY <1>1, <1>3 DEF P!ByEnergyIn

LEMMA DrawNewStep ==
  ASSUME MInv, P!DrawNew
  PROVE  MInv'
<1>1. PICK a \in PromptApis :
        /\ a \notin Range(prompt) /\ prompt' = Append(prompt, a)
        /\ drawing \in {"random", "assemble"} /\ left' = left - 1
        /\ drawing' = IF left = 1 THEN "done" ELSE drawing
        /\ UNCHANGED <<operator, from, energetic, first>>
  BY DrawnByEnergy
  DEF MInv, P!DrawNew, P!Last, P!Keep, P!originVars, P!energyVars, P!Range, Range
<1>2. /\ prompt \in Seq(PromptApis) /\ left \in Nat \ {0} /\ Len(prompt) \in Nat
      /\ operator = drawing /\ Len(prompt) + left \in CombLen..MaxLen
  BY <1>1 DEF MInv, PromptTypes, Intended, Draws
<1>3. /\ prompt' \in Seq(PromptApis) /\ Len(prompt') = Len(prompt) + 1
      /\ NoTwice(prompt) => NoTwice(prompt')
  BY <1>1, <1>2, AddedAtTheEnd
<1>4. PromptTypes'
  BY <1>1, <1>2, <1>3 DEF MInv, PromptTypes, Draws
<1>5. Len(prompt') + left' = Len(prompt) + left
  BY <1>1, <1>2, <1>3
<1>6. Intended'
  BY <1>1, <1>2, <1>5 DEF Intended
<1>7. Distinct'
  BY <1>1, <1>3 DEF MInv, Distinct, NoTwice
<1>8. Lengths'
  BY <1>1, <1>2, <1>3 DEF Lengths
<1> QED
  BY <1>4, <1>6, <1>7, <1>8 DEF MInv

LEMMA InfillStep ==
  ASSUME MInv, P!Infill
  PROVE  MInv'
<1>1. PICK a \in PromptApis :
        /\ prompt' = Append(prompt, a) /\ drawing = "infill"
        /\ left' = IF left = 1 THEN Delta ELSE left - 1
        /\ drawing' = IF left = 1 THEN "delete" ELSE drawing
        /\ UNCHANGED <<operator, from, energetic, first>>
  BY DrawnByEnergy DEF MInv, P!Infill, P!Last, P!Keep, P!originVars, P!energyVars
<1>2. /\ prompt \in Seq(PromptApis) /\ left \in Nat \ {0} /\ Len(prompt) \in Nat
      /\ operator = "replace" /\ Len(from) < CombLen /\ Len(prompt) + left = CombLen
      /\ from \in Seq(PromptApis) /\ Len(from) \in Nat
  BY <1>1 DEF MInv, PromptTypes, Intended, Draws
<1>3. prompt' \in Seq(PromptApis) /\ Len(prompt') = Len(prompt) + 1
  BY <1>1, <1>2, AddedAtTheEnd
<1>4. PromptTypes'
  BY <1>1, <1>2, <1>3, PromptLimits DEF MInv, PromptTypes, Draws
<1>5. P!Longer(Len(from), CombLen) = CombLen
  BY <1>2, PromptLimits DEF P!Longer
<1>6. Intended'
  <2>1. CASE left = 1
    BY <1>1, <1>2, <1>3, <1>5, <2>1, PromptLimits DEF Intended, P!Longer
  <2>2. CASE left # 1
    BY <1>1, <1>2, <1>3, <2>2 DEF Intended
  <2> QED
    BY <2>1, <2>2
<1>7. Distinct' /\ Lengths'
  BY <1>1, <1>2 DEF Distinct, Lengths
<1> QED
  BY <1>4, <1>6, <1>7 DEF MInv

LEMMA DeleteStep ==
  ASSUME MInv, P!Delete
  PROVE  MInv'
<1>1. /\ drawing = "delete" /\ left \in Nat \ {0} /\ prompt \in Seq(PromptApis)
      /\ from \in Seq(PromptApis) /\ operator = "replace"
      /\ Len(prompt) + Delta = P!Longer(Len(from), CombLen) + left
  BY DEF P!Delete, MInv, PromptTypes, Intended, Draws
<1>2. Len(prompt) \in Nat \ {0} /\ Len(from) \in Nat /\ P!Longer(Len(from), CombLen) \in Nat
  BY <1>1, PromptLimits DEF P!Longer
<1>3. PICK i \in 1..Len(prompt) :
        /\ prompt' = P!RemoveAt(prompt, i)
        /\ left' = IF left = 1 THEN Delta ELSE left - 1
        /\ drawing' = IF left = 1 THEN "insert" ELSE drawing
        /\ UNCHANGED <<operator, from, energetic, first>>
  BY <1>2, DrawnByEnergy DEF MInv, P!Delete, P!Last, P!Keep, P!originVars, P!energyVars
<1>4. /\ prompt' \in Seq(PromptApis) /\ Len(prompt') = Len(prompt) - 1
      /\ NoTwice(prompt) => NoTwice(prompt')
  BY <1>1, <1>3, RemovedAt
<1>5. PromptTypes'
  BY <1>1, <1>3, <1>4, PromptLimits DEF MInv, PromptTypes, Draws
<1>6. Intended'
  <2>1. CASE left = 1
    BY <1>1, <1>2, <1>3, <1>4, <2>1, PromptLimits DEF Intended, P!Longer
  <2>2. CASE left # 1
    BY <1>1, <1>2, <1>3, <1>4, <2>2, PromptLimits DEF Intended, P!Longer
  <2> QED
    BY <2>1, <2>2
<1>7. Distinct'
  BY <1>3, <1>4 DEF MInv, Distinct, NoTwice
<1>8. Lengths'
  BY <1>1, <1>3 DEF Lengths
<1> QED
  BY <1>5, <1>6, <1>7, <1>8 DEF MInv

LEMMA InsertStep ==
  ASSUME MInv, P!Insert
  PROVE  MInv'
<1>1. /\ drawing = "insert" /\ left \in Nat \ {0} /\ prompt \in Seq(PromptApis)
      /\ from \in Seq(PromptApis) /\ Len(prompt) \in Nat /\ Len(from) \in Nat
      /\ \/ operator = "replace" /\ Len(prompt) + left = P!Longer(Len(from), CombLen)
         \/ operator = "add" /\ Len(prompt) + left = Len(from) + Delta
  BY DEF P!Insert, MInv, PromptTypes, Intended, Draws
<1>2. PICK a \in PromptApis, i \in 0..Len(prompt) :
        /\ a \notin Range(prompt) /\ prompt' = P!InsertAt(prompt, i, a) /\ left' = left - 1
        /\ drawing' = IF left = 1 THEN "done" ELSE drawing
        /\ UNCHANGED <<operator, from, energetic, first>>
  BY <1>1, DrawnByEnergy
  DEF MInv, P!Insert, P!Last, P!Keep, P!originVars, P!energyVars, P!Range, Range
<1>3. /\ prompt' \in Seq(PromptApis) /\ Len(prompt') = Len(prompt) + 1
      /\ NoTwice(prompt) => NoTwice(prompt')
  BY <1>1, <1>2, InsertedAt
<1>4. Len(prompt') + left' = Len(prompt) + left
  BY <1>1, <1>2, <1>3
<1>5. PromptTypes'
  BY <1>1, <1>2, <1>3 DEF MInv, PromptTypes, Draws
<1>6. Intended'
  BY <1>1, <1>2, <1>4 DEF Intended, P!Longer
<1>7. Distinct'
  BY <1>2, <1>3 DEF MInv, Distinct, NoTwice
<1>8. Lengths'
  <2>1. CASE left = 1
    <3>1. Len(prompt') = Len(prompt) + left
      BY <1>3, <2>1
    <3> QED
      BY <1>1, <1>2, <3>1 DEF Lengths, P!Longer
  <2>2. CASE left # 1
    BY <1>1, <1>2, <2>2 DEF Lengths
  <2> QED
    BY <2>1, <2>2
<1> QED
  BY <1>5, <1>6, <1>7, <1>8 DEF MInv

LEMMA PromptStep ==
  ASSUME MInv, P!Next
  PROVE  MInv'
  BY BeginRandomStep, BeginAddStep, BeginReplaceStep, CrossOverStep,
     DrawNewStep, InfillStep, DeleteStep, InsertStep
  DEF P!Next, P!Draw

\* PromptAsIntended: a prompt that was made has the length that its operator
\* intends, and an API is in it twice only after a crossover, or after calls that
\* were too few had been filled up.
THEOREM PromptsAsIntended == GenSpec => []PromptAsIntended
<1>1. GenInit => MInv
  <2> SUFFICES ASSUME P!Init PROVE MInv
    BY DEF GenInit
  <2>1. /\ drawing = "idle" /\ operator = "none" /\ from = <<>> /\ prompt = <<>>
        /\ left = 0 /\ energetic = {} /\ first \in PromptApis
    BY DEF P!Init
  <2>2. from \in Seq(PromptApis) /\ prompt \in Seq(PromptApis) /\ Len(prompt) = 0
    BY <2>1, EmptySeq
  <2>3. PromptTypes
    BY <2>1, <2>2 DEF PromptTypes, Draws
  <2>4. Intended /\ Distinct /\ Lengths
    BY <2>1, <2>2 DEF Intended, Distinct, NoTwice, Lengths
  <2> QED
    BY <2>3, <2>4 DEF MInv
<1>2. MInv /\ [GenNext]_<<focus, vars, countVars, serverVars, promptVars>> => MInv'
  <2> SUFFICES ASSUME MInv, GenNext \/ UNCHANGED promptVars
               PROVE  MInv'
    OBVIOUS
  <2>1. CASE UNCHANGED promptVars
    BY <2>1 DEF promptVars, MInv, PromptTypes, Intended, Distinct, NoTwice, Lengths, P!Longer
  <2>2. CASE P!Next
    BY <2>2, PromptStep
  <2> QED
    BY <2>1, <2>2 DEF GenNext
<1>3. MInv => PromptAsIntended
  BY PromptIsAsIntended DEF PromptAsIntended
<1> QED
  BY <1>1, <1>2, <1>3, PTL DEF GenSpec
=============================================================================
