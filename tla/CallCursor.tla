------------------------------ MODULE CallCursor ------------------------------
(***************************************************************************)
(* What a guard file promises to its reader: a cursor into the call tree   *)
(* follows the thread edge by edge.  The cursor may stop following at a    *)
(* call it is not told of; it then waits where it is, and moves again only *)
(* when the thread is back at the function the cursor stands on.           *)
(***************************************************************************)
EXTENDS Sequences, Naturals

CONSTANT Names

VARIABLES calls,   (* the names of the functions being executed  *)
          cursor   (* the path from the root to the current node *)

vars == <<calls, cursor>>

Init == calls = <<>> /\ cursor = <<>>

InStep == Len(cursor) = Len(calls)

\* A call the cursor follows, and one it does not see.
SeenCall(f) ==
  /\ InStep
  /\ calls' = Append(calls, f)
  /\ cursor' = Append(cursor, f)

HiddenCall(f) == calls' = Append(calls, f) /\ UNCHANGED cursor

Up(s) == SubSeq(s, 1, Len(s) - 1)

\* Returning from the cursor's own node moves it up; returning from below does not.
SeenReturn ==
  /\ calls # <<>> /\ InStep
  /\ calls' = Up(calls)
  /\ cursor' = Up(cursor)

HiddenReturn ==
  /\ calls # <<>> /\ ~InStep
  /\ calls' = Up(calls)
  /\ UNCHANGED cursor

Next ==
  \/ \E f \in Names : SeenCall(f) \/ HiddenCall(f)
  \/ SeenReturn
  \/ HiddenReturn

Spec == Init /\ [][Next]_vars
=============================================================================
