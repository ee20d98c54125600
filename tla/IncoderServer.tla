--------------------------- MODULE IncoderServer ---------------------------
(***************************************************************************)
(* The local server of the InCoder model (request/incoder.rs): each        *)
(* session starts one, waits until something answers on the port, and      *)
(* kills it when it ends regularly.                                        *)
(***************************************************************************)
EXTENDS Naturals, FiniteSets

CONSTANTS
  Probes,       (* how often the server is probed, ten seconds apart *)
  MaxSessions   (* bound: sessions                                   *)

ServerAssumption == Probes \in Nat \ {0} /\ MaxSessions \in Nat \ {0}

Sessions == 1..MaxSessions

VARIABLES
  stage,     (* "down", "probe", "serve"; "ended", "failed"              *)
  session,   (* the session that runs, or the last one                   *)
  server,    (* of each session: "none", "loading", "up" or "gone"       *)
  probes,    (* probes that were not answered                            *)
  lost       (* sessions that left their server behind: not in the code  *)

vars == <<stage, session, server, probes, lost>>

Answers == \E s \in Sessions : server[s] = "up"
Killed(s) == [server EXCEPT ![s] = "gone"]

Init ==
  /\ stage = "down" /\ session = 0 /\ probes = 0 /\ lost = {}
  /\ server = [s \in Sessions |-> "none"]

\* init_incoder_server spawns the script.
Spawn ==
  /\ stage \in {"down", "ended", "failed"} /\ session < MaxSessions
  /\ session' = session + 1
  /\ server' = [server EXCEPT ![session + 1] = "loading"]
  /\ stage' = "probe" /\ probes' = 0
  /\ UNCHANGED lost

\* Mutant: the probes are not counted.
ProbeForever ==
  /\ stage = "probe"
  /\ IF Answers THEN stage' = "serve" /\ UNCHANGED probes
                ELSE probes' = (probes + 1) % Probes /\ UNCHANGED stage
  /\ UNCHANGED <<session, server, lost>>

\* test_server_status: any server that answers on the port will do.
Probe ==
  /\ stage = "probe" /\ probes < Probes
  /\ IF Answers THEN stage' = "serve" /\ UNCHANGED probes
                ELSE probes' = probes + 1 /\ UNCHANGED stage
  /\ UNCHANGED <<session, server, lost>>

\* The error panics before there is a handler: the child is dropped, and a
\* child that is dropped goes on.
GiveUp ==
  /\ stage = "probe" /\ probes = Probes
  /\ stage' = "failed" /\ lost' = lost \cup {session}
  /\ UNCHANGED <<session, server, probes>>

\* Mutant: the handler is dropped, and its child with it.
DropChild ==
  /\ stage = "serve"
  /\ stage' \in {"ended", "failed"}
  /\ UNCHANGED <<session, server, probes, lost>>

\* The session ends, or a request is not answered and its error ends it: either
\* way the handler is dropped, which kills its child.
Drop ==
  /\ stage = "serve"
  /\ stage' \in {"ended", "failed"}
  /\ server' = Killed(session)
  /\ UNCHANGED <<session, probes, lost>>

-----------------------------------------------------------------------------
(* Not in the code: the server and the operating system.                    *)

\* The model is loaded; the port can be bound if no other server holds it.
Load(s) ==
  /\ server[s] = "loading"
  /\ server' = [server EXCEPT ![s] = IF Answers THEN "gone" ELSE "up"]
  /\ UNCHANGED <<stage, session, probes, lost>>

ServerDies(s) ==
  /\ server[s] \in {"loading", "up"}
  /\ server' = Killed(s)
  /\ UNCHANGED <<stage, session, probes, lost>>

\* A kill ends the session only; an interrupt from the terminal the server, too.
Interrupt ==
  /\ stage \in {"probe", "serve"}
  /\ stage' = "down"
  /\ \/ server' = server /\ lost' = lost \cup {session}
     \/ server' = Killed(session) /\ lost' = lost
  /\ UNCHANGED <<session, probes>>

Environment == Interrupt \/ \E s \in Sessions : Load(s) \/ ServerDies(s)
Next == Spawn \/ Probe \/ GiveUp \/ Drop \/ Environment

Spec == Init /\ [][Next]_vars

\* A probe that is not answered is repeated after ten seconds.
FairSpec == Spec /\ WF_vars(Probe \/ GiveUp)

-----------------------------------------------------------------------------
(* Properties.                                                              *)

\* A server outlives its session only if that was killed or gave up waiting:
\* a session that ended, or failed later, has stopped its own.
OrphansAreExplained ==
  \A s \in Sessions : server[s] \in {"loading", "up"} =>
    s \in lost \/ (s = session /\ stage \in {"probe", "serve"})

\* Waiting for the server ends: "The server could not start within 100 seconds".
StartEnds == stage = "probe" ~> stage # "probe"
=============================================================================
