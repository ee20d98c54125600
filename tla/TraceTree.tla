------------------------------ MODULE TraceTree ------------------------------
(***************************************************************************)
(* The reader of a guard file, ThreadExecTree (exec_tree/thread_tree.rs),  *)
(* fed with the records the runtime of FuncStack writes, in their order.   *)
(* Of the tree under construction only the path from the root to the       *)
(* current node is kept: every node is on that path when a child is added  *)
(* to it, and the tree's recursion check concerns a node, its ancestors    *)
(* and whether it has children.                                            *)
(***************************************************************************)
EXTENDS FuncStack, SequencesExt

CONSTANTS
  Names,    (* function names as the reader sees them: cut at the first '(' *)
  NameOf    (* the demangled, cut name of an instrumented function          *)

ASSUME NameAssumption == NameOf \in [Funcs -> Names]

\* [path: names below the root, failed: read_line returned Err, open: the text
\* so far ends with the location of a call, which does not end a line]
VARIABLE tree

tvars == <<vars, tree>>

\* Mutant: a return does not ascend.
DescendOnly(t, rec) ==
  IF rec[1] = "enter" THEN [t EXCEPT !.path = Append(@, NameOf[rec[2]])] ELSE t

\* A call descends into a new node, a return ascends, every other record is
\* only appended to the current node.
Move(t, rec) ==
  CASE rec[1] = "enter"  -> [t EXCEPT !.path = Append(@, NameOf[rec[2]])]
    [] rec[1] = "return" -> IF t.path = <<>> THEN [t EXCEPT !.failed = TRUE]
                            ELSE [t EXCEPT !.path = Front(@)]
    [] OTHER -> t

\* read_line on one record.
ReadRecord(t, rec) ==
  IF t.failed THEN t ELSE [Move(t, rec) EXCEPT !.open = rec[1] = "invoc"]

\* read_line on one record after the other.
ReadAll(t, recs) ==
  LET after[n \in 0..Len(recs)] == IF n = 0 THEN t ELSE ReadRecord(after[n - 1], recs[n])
  IN  after[Len(recs)]

TreeInit == Init /\ tree = [path |-> <<>>, failed |-> FALSE, open |-> FALSE]

TreeNext == Next /\ tree' = ReadAll(tree, out')

TreeSpec == TreeInit /\ [][TreeNext]_tvars

-----------------------------------------------------------------------------
(* Properties.                                                              *)

\* The names of the functions the thread is executing.
CallNames == [i \in 1..Len(frames) |-> NameOf[frames[i].func]]

Silent == ExceedLoopLimit \/ recurLock.value

\* The reader never sees a return at the root: "Current node has no parent,
\* cannot return" (thread_tree.rs:515) is not reached.
ReaderNeverFails == ~tree.failed

\* The current node is where the thread is, or where it was when the guards
\* fell silent: the path is always a prefix of the call stack, and all of it
\* whenever records are written.
PathIsCallPath ==
  /\ IsPrefix(tree.path, CallNames)
  /\ ~Silent => tree.path = CallNames

\* What ThreadTreeRecurChecker asserts of every node it finds below a node of
\* the same name: it "should not have sub functions" (analyze.rs:695).
RecursionIsLeaf ==
  \A i \in 1..(Len(tree.path) - 1) : \A j \in 1..(i - 1) : tree.path[i] # tree.path[j]

\* A thread whose outermost function has returned leaves whole lines: the guards
\* never fall silent between the location of a call and the next record in a way
\* that lasts to the end. The parse loop (thread_tree.rs:419) does not end on a
\* location alone.
LinesAreEnded == frames = <<>> => ~tree.open

\* Every step moves the cursor of the tree along the thread's own step, or not
\* at all.
Cursor == INSTANCE CallCursor WITH calls <- CallNames, cursor <- tree.path

FollowsCalls == Cursor!Spec
=============================================================================
