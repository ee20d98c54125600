----------------------------- MODULE MCFuncStack -----------------------------
(***************************************************************************)
(* Instances of FuncStack for TLC: two functions that call each other and  *)
(* themselves, inside and outside loops.                                   *)
(***************************************************************************)
EXTENDS FuncStack, TLC

CONSTANTS f, g, L, M

MCFuncs == {f, g}
MCLoops == {L, M}

\* f contains loop L, L contains loop M.
MCLoopFunc == L :> f @@ M :> f
MCLoopParent == L :> NoLoop @@ M :> L

\* L is left over two edges into one block, M over one.
MCExitEdges == L :> 2 @@ M :> 1
MCSharedExits == {L}

\* Calls in and out of loops, direct and mutual recursion.
RecursiveCalls == {<<f, NoLoop, g>>, <<f, L, f>>, <<f, M, g>>, <<g, NoLoop, f>>, <<g, NoLoop, g>>}
=============================================================================
