---------------------------- MODULE MCGeneration ----------------------------
(***************************************************************************)
(* The making of programs before any is run: the requests to OpenAI and    *)
(* their cost (Requests), the local server of the other model              *)
(* (IncoderServer), the prompts (PromptMutation) and the counters that     *)
(* weigh their APIs (ApiCounters).  They share no state but files of their *)
(* own; a behaviour is one of the four, as focus says.  In the run two     *)
(* APIs are counted, alone or together; four APIs are prompted, by seeds   *)
(* with no call, one, two, as many as a prompt, and one more.              *)
(***************************************************************************)
EXTENDS Requests

CONSTANTS
  a1, a2, a3, a4,                          (* four APIs, of the run only  *)
  CountedApis, CountedPrompts,             (* Apis and Prompts that are counted *)
  PromptApis, SeedCalls,                   (* Apis that are prompted, by seeds  *)
  MaxCount, Probes, CombLen, MaxLen, Delta

VARIABLES
  focus,
  counting, countSessions, plan, counters, files, counted,
  serving, session, server, probes, lost,
  drawing, operator, from, prompt, left, energetic, first

countVars == <<counting, countSessions, plan, counters, files, counted>>
serverVars == <<serving, session, server, probes, lost>>
promptVars == <<drawing, operator, from, prompt, left, energetic, first>>

C == INSTANCE ApiCounters
       WITH stage <- counting, sessions <- countSessions, mem <- counters, disk <- files,
            Apis <- CountedApis, Prompts <- CountedPrompts
I == INSTANCE IncoderServer WITH stage <- serving
P == INSTANCE PromptMutation WITH stage <- drawing, Apis <- PromptApis

ASSUME GenerationAssumption ==
  C!CountersAssumption /\ I!ServerAssumption /\ P!MutationAssumption

MCSeedCalls ==
  {<<>>, <<a1>>, <<a2, a1>>, <<a3, a1, a2>>, <<a1, a2, a3, a4>>, <<a4, a3, a2, a1>>}

GenInit ==
  /\ focus \in {"requests", "counters", "server", "prompt"}
  /\ Init /\ C!Init /\ I!Init /\ P!Init
  /\ focus # "requests" => chat
  /\ focus # "prompt" => first = CHOOSE a \in PromptApis : TRUE

GenNext ==
  \/ focus = "requests" /\ Next /\ UNCHANGED <<focus, countVars, serverVars, promptVars>>
  \/ focus = "counters" /\ C!Next /\ UNCHANGED <<focus, vars, serverVars, promptVars>>
  \/ focus = "server" /\ I!Next /\ UNCHANGED <<focus, vars, countVars, promptVars>>
  \/ focus = "prompt" /\ P!Next /\ UNCHANGED <<focus, vars, countVars, serverVars>>

\* The fairness of the requests, of the server's start and of the draws.
GenSpec ==
  /\ GenInit /\ [][GenNext]_<<focus, vars, countVars, serverVars, promptVars>>
  /\ WF_vars(focus = "requests" /\ Request)
  /\ WF_serverVars(focus = "server" /\ (I!Probe \/ I!GiveUp))
  /\ WF_promptVars(focus = "prompt" /\ P!Draw)

-----------------------------------------------------------------------------
\* An interruption loses one call of the counter at most, as ApiCounters says.
OneCallBehind == C!OneCallBehind

\* A server outlives its session only as IncoderServer says.
OrphansAreExplained == I!OrphansAreExplained

\* A prompt has the length its operator intends, as PromptMutation says.
PromptAsIntended == P!PromptAsIntended

\* A request, the start of the server and a prompt that can be made all end.
GenerationEnds ==
  /\ focus = "requests" => RequestsEnd
  /\ focus = "server" => I!StartEnds
  /\ focus = "prompt" => P!DrawsEnd
=============================================================================
