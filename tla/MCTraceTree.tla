----------------------------- MODULE MCTraceTree -----------------------------
(***************************************************************************)
(* Instances of TraceTree for TLC.  Programs differ in where they recurse. *)
(***************************************************************************)
EXTENDS TraceTree

CONSTANTS f, g, L, M, N

MCFuncs == {f, g}
MCLoops == {L, M, N}
\* f contains loop L, L contains loop M; g contains loop N.
MCLoopFunc == L :> f @@ M :> f @@ N :> g
MCLoopParent == L :> NoLoop @@ M :> L @@ N :> NoLoop
MCExitEdges == L :> 2 @@ M :> 1 @@ N :> 1
MCSharedExits == {L}

\* g recurses, from anywhere; f recurses outside its loops only.
RecursionOutsideLoops ==
  {<<f, NoLoop, f>>, <<f, L, g>>, <<f, M, g>>, <<f, NoLoop, g>>, <<g, NoLoop, g>>}

\* f calls itself from its loop.
RecursionInLoop == {<<f, L, f>>}

\* f calls g; nothing recurses.
NoRecursion == {<<f, NoLoop, g>>, <<f, L, g>>, <<f, M, g>>}

\* A function whose name is not shared, and one overload calling the other.
OwnNames == f :> f @@ g :> g
SharedName == f :> f @@ g :> f
OverloadCalls == {<<f, NoLoop, g>>, <<g, NoLoop, f>>}
=============================================================================
