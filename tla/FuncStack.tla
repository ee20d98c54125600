------------------------------ MODULE FuncStack ------------------------------
(***************************************************************************)
(* The per-thread state of the tracing runtime in                          *)
(* func_stack_pass/src/runtime/func_stack.cc, driven by one instrumented   *)
(* thread.  The runtime keeps, per thread id, a stack of function names,   *)
(* a recursion lock and a stack of loop counters; each of them silences    *)
(* the records written to the thread's guard file.  The runtime never sees *)
(* the call stack itself: it is told of a call by push_func and of an      *)
(* ordinary return by pop_func, and it is told nothing when an exception,  *)
(* a longjmp or pthread_exit discards frames.                              *)
(*                                                                         *)
(* "frames" is the environment: the thread's real call stack, with the     *)
(* loops each frame is in.  All the other variables are the runtime's.     *)
(***************************************************************************)
EXTENDS Integers, Sequences

CONSTANTS
  Funcs,        (* instrumented functions, by mangled name                  *)
  Loops,        (* loops, by the location of their header                   *)
  NoFunc,       (* the absent recursion frame                               *)
  NoLoop,       (* "not in a loop"                                          *)
  LoopFunc,     (* the function a loop belongs to                           *)
  LoopParent,   (* the loop that encloses a loop in its function, or NoLoop *)
  ExitEdges,    (* how many exiting edges a loop's exit block has           *)
  SharedExits,  (* loops whose exit block is also reached around the loop   *)
  CallSites,    (* <<caller, innermost loop or NoLoop, callee>>             *)
  Abnormal,     (* may frames be discarded without a return?                *)
  LOOP_LIMIT,   (* hits of a loop that are recorded                         *)
  MaxStack,     (* bound: length of the runtime's function stack            *)
  MaxHits,      (* bound: header hits of one loop in one activation         *)
  MaxLoops,     (* bound: length of the runtime's loop stack                *)
  MaxCount      (* bound: count of a loop stack entry                       *)

ASSUME LimitAssumption == LOOP_LIMIT \in Nat
ASSUME NamesAssumption == NoFunc \notin Funcs /\ NoLoop \notin Loops
ASSUME LoopAssumption ==
  /\ LoopFunc \in [Loops -> Funcs]
  /\ LoopParent \in [Loops -> Loops \cup {NoLoop}]
  /\ ExitEdges \in [Loops -> Nat \ {0}]
  /\ SharedExits \subseteq Loops
  /\ CallSites \subseteq Funcs \X (Loops \cup {NoLoop}) \X Funcs
  /\ Abnormal \in BOOLEAN

VARIABLES
  frames,     (* the real call stack: [func, loops], loops innermost last   *)
  funcStack,  (* func_stack_map[tid]                                        *)
  recurLock,  (* recur_lock_map[tid]                                        *)
  loopStack,  (* loop_stack_map[tid]                                        *)
  out,        (* the records this step appended to the thread's stream      *)
  crashed     (* pop_func asserted, or read the back of an empty vector     *)

vars == <<frames, funcStack, recurLock, loopStack, out, crashed>>

Unlocked == [value |-> FALSE, func |-> NoFunc, idx |-> 0]

Init ==
  /\ frames = <<>>
  /\ funcStack = <<>>
  /\ recurLock = Unlocked
  /\ loopStack = <<>>
  /\ out = <<>>
  /\ crashed = FALSE

-----------------------------------------------------------------------------
(* The output guards.                                                       *)

\* Only the innermost entry of the loop stack is looked at.
ExceedLoopLimit == loopStack # <<>> /\ loopStack[Len(loopStack)].count > LOOP_LIMIT

\* Mutant: the recursion lock is not consulted.
GuardedByLoopsOnly(recs) == IF ExceedLoopLimit THEN <<>> ELSE recs

\* print_rec_to_file_with_guard: silent past the loop limit or in recursion.
Guarded(recs) == IF ExceedLoopLimit \/ recurLock.value THEN <<>> ELSE recs

\* print_rec_to_file_with_recur_guard: silent in recursion only.
RecurGuarded(recs) == IF recurLock.value THEN <<>> ELSE recs

-----------------------------------------------------------------------------
(* push_func and pop_func.                                                  *)

CheckRecur(f) == \E i \in DOMAIN funcStack : funcStack[i] = f

\* Mutant: nested recursion takes the lock again.
LocksAgain(f) == CheckRecur(f)

Locks(f) == CheckRecur(f) /\ ~recurLock.value

\* Mutant: a function entered under the lock is not pushed.
PushFuncUnlessLocked(f) ==
  /\ funcStack' = IF recurLock.value THEN funcStack ELSE Append(funcStack, f)
  /\ recurLock' = IF Locks(f)
                  THEN [value |-> TRUE, func |-> f, idx |-> Len(funcStack)]
                  ELSE recurLock

PushFunc(f) ==
  /\ funcStack' = Append(funcStack, f)
  /\ recurLock' = IF Locks(f)
                  THEN [value |-> TRUE, func |-> f, idx |-> Len(funcStack)]
                  ELSE recurLock

\* Mutant: the lock is taken before the entry is written.
PushRecordsAfterLock(f) == IF Locks(f) THEN <<>> ELSE Guarded(<<<<"enter", f>>>>)

PushRecords(f) ==
  Guarded(<<<<"enter", f>>>> \o IF Locks(f) THEN <<<<"locked">>>> ELSE <<>>)

\* Mutant: the lock is matched by name alone.
LockMatchesName(i) == recurLock.value /\ recurLock.func = funcStack[i]

\* The frame the lock was taken for is position i of the stack.
LockMatches(i) ==
  recurLock.value /\ recurLock.idx = i - 1 /\ recurLock.func = funcStack[i]

\* Mutant: the stack is searched from the bottom.
IsFirstOccurrence(f, k) ==
  /\ funcStack[k] = f
  /\ \A j \in 1..(k - 1) : funcStack[j] # f

\* pop_func(f) pops down to the last occurrence k of f.
IsLastOccurrence(f, k) ==
  /\ funcStack[k] = f
  /\ \A j \in (k + 1)..Len(funcStack) : funcStack[j] # f

Releases(k) == \E i \in k..Len(funcStack) : LockMatches(i)

\* The highest popped position whose record is not silenced by the lock.
FirstVoiced(k) ==
  IF Releases(k) THEN recurLock.idx + 1
  ELSE IF recurLock.value THEN k - 1 ELSE Len(funcStack)

\* Mutant: the loop over the popped frames stops before the last one.
PopRecordsShort(k) ==
  LET top == FirstVoiced(k)
      recs == [j \in 1..(top - k) |-> <<"unwind", funcStack[top - j + 1]>>]
  IN  IF ExceedLoopLimit THEN <<>>
      ELSE (IF Releases(k) THEN <<<<"released">>>> ELSE <<>>) \o recs

PopRecords(k) ==
  LET top == FirstVoiced(k)
      recs == [j \in 1..(top - k + 1) |->
                 LET i == top - j + 1
                 IN  <<IF i = k THEN "return" ELSE "unwind", funcStack[i]>>]
  IN  IF ExceedLoopLimit THEN <<>>
      ELSE (IF Releases(k) THEN <<<<"released">>>> ELSE <<>>) \o recs

PopTo(k) ==
  /\ funcStack' = SubSeq(funcStack, 1, k - 1)
  /\ recurLock' = IF Releases(k) THEN Unlocked ELSE recurLock
  /\ out' = PopRecords(k)

-----------------------------------------------------------------------------
(* loop_entry and loop_end.                                                 *)

LoopTop == loopStack[Len(loopStack)]

PushLoop(l) ==
  /\ loopStack' = Append(loopStack, [loop |-> l, count |-> 1])
  /\ out' = RecurGuarded(<<<<"loop hit", l>>>>)

CountLoop(l) ==
  LET n == LoopTop.count + 1
  IN  /\ loopStack' = [loopStack EXCEPT ![Len(loopStack)].count = n]
      /\ out' = RecurGuarded(IF n <= LOOP_LIMIT THEN <<<<"loop hit", l>>>>
                             ELSE IF n - LOOP_LIMIT = 1 THEN <<<<"loop exceed", l>>>>
                             ELSE <<>>)

\* Mutant: a nested loop is pushed whatever the count of the loop around it.
LoopEntryUnlimited(l) ==
  IF loopStack # <<>> /\ LoopTop.loop = l THEN CountLoop(l) ELSE PushLoop(l)

LoopEntry(l) ==
  IF loopStack = <<>> THEN PushLoop(l)
  ELSE IF LoopTop.loop = l THEN CountLoop(l)
  ELSE IF LoopTop.count > LOOP_LIMIT
       THEN out' = <<>> /\ UNCHANGED loopStack
       ELSE PushLoop(l)

\* Mutant: the loop is left on the stack.
LoopEndKeeping(l, edges) ==
  /\ out' = RecurGuarded(<<<<"out of loop", l>>>>)
  /\ UNCHANGED loopStack

\* One exit block holds a call of loop_end per exiting edge: the first call may
\* pop the loop, the others find another loop on top.  The count written with
\* "out of loop" is read from the entry just popped, whose storage the stack
\* keeps, so the records leave counts out.
LoopEnd(l, edges) ==
  LET pops  == loopStack # <<>> /\ LoopTop.loop = l
      rest  == IF pops THEN SubSeq(loopStack, 1, Len(loopStack) - 1) ELSE loopStack
      quiet == rest # <<>> /\ rest[Len(rest)].count > LOOP_LIMIT
      extra == IF pops THEN edges - 1 ELSE edges
  IN  /\ loopStack' = rest
      /\ out' = RecurGuarded(
                  (IF pops THEN <<<<"out of loop", l>>>> ELSE <<>>)
                  \o (IF quiet THEN <<>> ELSE [i \in 1..extra |-> <<"no start", l>>]))

-----------------------------------------------------------------------------
(* What the instrumented thread does.                                       *)

Top == frames[Len(frames)]
InnermostLoop == IF Top.loops = <<>> THEN NoLoop ELSE Top.loops[Len(Top.loops)].loop
SetTopLoops(ls) == [frames EXCEPT ![Len(frames)].loops = ls]

Enter(f) ==
  /\ frames' = Append(frames, [func |-> f, loops |-> <<>>])
  /\ PushFunc(f)
  /\ UNCHANGED <<loopStack, crashed>>

\* The outermost function of a thread, entered from code that is not
\* instrumented: main, a thread's start routine, LLVMFuzzerTestOneInput.
Start(f) ==
  /\ ~crashed /\ frames = <<>> /\ Len(funcStack) < MaxStack
  /\ Enter(f)
  /\ out' = PushRecords(f)

\* The call site writes its location, without a newline, before the call.
Call(g) ==
  /\ ~crashed /\ frames # <<>> /\ Len(funcStack) < MaxStack
  /\ <<Top.func, InnermostLoop, g>> \in CallSites
  /\ Enter(g)
  /\ out' = Guarded(<<<<"invoc">>>>) \o PushRecords(g)

\* A return instruction is outside every loop of its function.  The assertion
\* of pop_func and the unchecked loop below it both fail when the name is absent.
Return ==
  /\ ~crashed /\ frames # <<>> /\ Top.loops = <<>>
  /\ frames' = SubSeq(frames, 1, Len(frames) - 1)
  /\ UNCHANGED loopStack
  /\ \/ \E k \in DOMAIN funcStack :
          /\ IsLastOccurrence(Top.func, k)
          /\ PopTo(k)
          /\ UNCHANGED crashed
     \/ /\ ~CheckRecur(Top.func)
        /\ crashed' = TRUE
        /\ out' = <<>>
        /\ UNCHANGED <<funcStack, recurLock>>

\* The header of l is reached: for the first time in this activation, from the
\* loop that encloses it, or once more.
HeaderHit(l) ==
  /\ ~crashed /\ frames # <<>> /\ LoopFunc[l] = Top.func
  /\ \/ /\ InnermostLoop = LoopParent[l]
        /\ frames' = SetTopLoops(Append(Top.loops, [loop |-> l, hits |-> 1]))
     \/ /\ InnermostLoop = l
        /\ Top.loops[Len(Top.loops)].hits < MaxHits
        /\ frames' = SetTopLoops([Top.loops EXCEPT ![Len(Top.loops)].hits = @ + 1])
  /\ Len(loopStack) < MaxLoops
  /\ loopStack # <<>> => LoopTop.count < MaxCount
  /\ LoopEntry(l)
  /\ UNCHANGED <<funcStack, recurLock, crashed>>

\* Control leaves the innermost loop, or passes around l to its exit block.
LoopExit(l) ==
  /\ ~crashed /\ frames # <<>> /\ LoopFunc[l] = Top.func
  /\ \/ /\ InnermostLoop = l
        /\ frames' = SetTopLoops(SubSeq(Top.loops, 1, Len(Top.loops) - 1))
     \/ /\ l \in SharedExits /\ InnermostLoop = LoopParent[l]
        /\ UNCHANGED frames
  /\ LoopEnd(l, ExitEdges[l])
  /\ UNCHANGED <<funcStack, recurLock, crashed>>

\* A conditional jump, a switch or a value that reaches a branch is recorded,
\* or the location of a call of a function that is not instrumented.
Record ==
  /\ ~crashed /\ frames # <<>>
  /\ \E kind \in {"jump", "invoc"} : out' = Guarded(<<<<kind>>>>)
  /\ UNCHANGED <<frames, funcStack, recurLock, loopStack, crashed>>

\* pthread_create returned: thread_rec writes whatever the guards say.
ThreadRec ==
  /\ ~crashed /\ frames # <<>>
  /\ out' = Guarded(<<<<"invoc">>>>) \o <<<<"thread">>>>
  /\ UNCHANGED <<frames, funcStack, recurLock, loopStack, crashed>>

\* An exception or a longjmp discards the innermost frame: no return
\* instruction runs, hence no pop_func.  A frame with a landing pad leaves its
\* loops first (LoopExit), one without does not.
Discard ==
  /\ Abnormal /\ ~crashed /\ Len(frames) > 1
  /\ frames' = SubSeq(frames, 1, Len(frames) - 1)
  /\ out' = <<>>
  /\ UNCHANGED <<funcStack, recurLock, loopStack, crashed>>

\* pthread_exit; a later thread with the same id finds the state left here.
ThreadExit ==
  /\ Abnormal /\ ~crashed /\ frames # <<>>
  /\ frames' = <<>>
  /\ out' = <<>>
  /\ UNCHANGED <<funcStack, recurLock, loopStack, crashed>>

Next ==
  \/ \E f \in Funcs : Start(f)
  \/ \E f \in Funcs : Call(f)
  \/ Return
  \/ \E l \in Loops : HeaderHit(l)
  \/ \E l \in Loops : LoopExit(l)
  \/ Record
  \/ ThreadRec
  \/ Discard
  \/ ThreadExit

Spec == Init /\ [][Next]_vars

-----------------------------------------------------------------------------
(* Properties.                                                              *)

\* The shape of the state; the lock names a frame exactly while it is taken.
TypeOK ==
  /\ frames \in Seq([func : Funcs, loops : Seq([loop : Loops, hits : Nat \ {0}])])
  /\ funcStack \in Seq(Funcs)
  /\ recurLock \in [value : BOOLEAN, func : Funcs \cup {NoFunc}, idx : Nat]
  /\ recurLock.value <=> recurLock.func # NoFunc
  /\ loopStack \in Seq([loop : Loops, count : Nat \ {0}])
  /\ crashed \in BOOLEAN

\* An order-preserving placement of the frames fs in the function stack st.
Places(e, fs, st) ==
  /\ \A i, j \in 1..Len(fs) : i < j => e[i] < e[j]
  /\ \A i \in 1..Len(fs) : st[e[i]] = fs[i].func

\* Whatever frames are discarded behind its back, the runtime's stack still
\* holds every live frame in call order: discarded frames only leave extra
\* names between them.
FramesEmbedded ==
  \E e \in [1..Len(frames) -> 1..Len(funcStack)] : Places(e, frames, funcStack)

\* pop_func never fails its assertion "Function stack is empty, cannot pop
\* function", and its unwinding loop, which does not test for emptiness, always
\* meets the function that returns.
PopNeverUnderflows == ~crashed

\* Within the first n entries of the runtime's stack no name occurs twice.
DistinctUpTo(n) ==
  \A i, j \in 1..Len(funcStack) : i < j /\ j <= n => funcStack[i] # funcStack[j]

\* The lock is taken exactly when some name is on the runtime's stack twice, and
\* it sits on the outermost repeated entry: nested recursion does not move it,
\* and releasing it leaves a stack without repetition.
LockOnOutermostRepeat ==
  IF recurLock.value
  THEN /\ recurLock.idx + 1 <= Len(funcStack)
       /\ funcStack[recurLock.idx + 1] = recurLock.func
       /\ \E i \in 1..recurLock.idx : funcStack[i] = recurLock.func
       /\ DistinctUpTo(recurLock.idx)
  ELSE DistinctUpTo(Len(funcStack))

\* Looking only at the innermost loop is enough to know that some loop is past
\* the limit: no loop is pushed above one that is.
OnlyTopExceeds ==
  \A i \in 1..(Len(loopStack) - 1) : loopStack[i].count <= LOOP_LIMIT

\* The same loop is never on the loop stack twice in a row, so a second
\* loop_end of one exit block cannot pop an entry of an enclosing activation.
NoAdjacentRepeat ==
  \A i \in 1..(Len(loopStack) - 1) : loopStack[i].loop # loopStack[i + 1].loop

\* When every frame leaves by a return, the runtime's stack is the call stack.
StackIsCallStack ==
  /\ Len(funcStack) = Len(frames)
  /\ \A i \in 1..Len(frames) : funcStack[i] = frames[i].func

\* The limit silences the thread exactly while it is in a loop activation whose
\* header was reached more than LOOP_LIMIT times.
LoopGuardExact ==
  ExceedLoopLimit <=>
    \E i \in DOMAIN frames : \E j \in DOMAIN frames[i].loops :
      frames[i].loops[j].hits > LOOP_LIMIT

\* The lock moves only by being taken or released: a step that starts and ends
\* with it taken leaves its frame alone, and a step that releases it pops its frame.
LockStable ==
  recurLock.value =>
    IF recurLock'.value THEN recurLock' = recurLock
    ELSE Len(funcStack') <= recurLock.idx

LockIsStable == [][LockStable]_vars
=============================================================================
