--------------------------- MODULE FuncStackProofs ---------------------------
(***************************************************************************)
(* Theorems about FuncStack, for every program (call sites, loops, exit    *)
(* edges), every LOOP_LIMIT and any number of discarded frames.            *)
(***************************************************************************)
EXTENDS FuncStack, TLAPS

\* The types of the two parts of a frame.
Hits == [loop : Loops, hits : Nat \ {0}]
Frame == [func : Funcs, loops : Seq(Hits)]
LoopCount == [loop : Loops, count : Nat \ {0}]

-----------------------------------------------------------------------------
(* Sequences.                                                               *)

\* The last element of a sequence, and a sequence with one more.
LEMMA LastOf ==
  ASSUME NEW S, NEW s \in Seq(S)
  PROVE  /\ s # <<>> => s[Len(s)] \in S /\ Len(s) \in Nat \ {0}
         /\ \A x \in S : /\ Append(s, x) \in Seq(S)
                        /\ Len(Append(s, x)) = Len(s) + 1
                        /\ Append(s, x)[Len(s) + 1] = x
                        /\ \A i \in 1..Len(s) : Append(s, x)[i] = s[i]
  OBVIOUS

\* Dropping a suffix keeps the elements of what remains.
LEMMA PrefixOf ==
  ASSUME NEW S, NEW s \in Seq(S), NEW n \in Nat, n <= Len(s)
  PROVE  /\ SubSeq(s, 1, n) \in Seq(S)
         /\ Len(SubSeq(s, 1, n)) = n
         /\ \A i \in 1..n : SubSeq(s, 1, n)[i] = s[i]
  OBVIOUS

\* Replacing the last element keeps the type and every other element.
LEMMA ReplaceLast ==
  ASSUME NEW S, NEW s \in Seq(S), s # <<>>, NEW x \in S
  PROVE  /\ [s EXCEPT ![Len(s)] = x] \in Seq(S)
         /\ Len([s EXCEPT ![Len(s)] = x]) = Len(s)
         /\ [s EXCEPT ![Len(s)] = x][Len(s)] = x
         /\ \A i \in 1..(Len(s) - 1) : [s EXCEPT ![Len(s)] = x][i] = s[i]
  OBVIOUS

\* A new list of loops in the innermost frame leaves the call stack as it is.
LEMMA TopLoops ==
  ASSUME NEW fs \in Seq(Frame), fs # <<>>, NEW ls \in Seq(Hits)
  PROVE  LET new == [fs EXCEPT ![Len(fs)].loops = ls]
         IN  /\ new \in Seq(Frame)
             /\ Len(new) = Len(fs)
             /\ \A i \in 1..Len(fs) : new[i].func = fs[i].func
<1> DEFINE new == [fs EXCEPT ![Len(fs)].loops = ls]
           top == [fs[Len(fs)] EXCEPT !.loops = ls]
<1>1. fs[Len(fs)] \in Frame
  OBVIOUS
<1>2. top \in Frame /\ top.func = fs[Len(fs)].func
  BY <1>1 DEF Frame
<1>3. new = [fs EXCEPT ![Len(fs)] = top]
  OBVIOUS
<1> QED
  BY <1>2, <1>3, ReplaceLast

-----------------------------------------------------------------------------
(* Types.                                                                   *)

\* The step of a HeaderHit or LoopExit in the real frames is well typed.
LEMMA FramesTyped ==
  ASSUME TypeOK, frames # <<>>
  PROVE  /\ Top \in Frame
         /\ \A l \in Loops :
              SetTopLoops(Append(Top.loops, [loop |-> l, hits |-> 1])) \in Seq(Frame)
         /\ Top.loops # <<>> =>
              /\ SetTopLoops(SubSeq(Top.loops, 1, Len(Top.loops) - 1)) \in Seq(Frame)
              /\ SetTopLoops([Top.loops EXCEPT ![Len(Top.loops)].hits = @ + 1]) \in Seq(Frame)
<1>1. frames \in Seq(Frame) /\ Top \in Frame
  <2>1. frames \in Seq(Frame)
    BY DEF TypeOK, Frame, Hits
  <2> QED
    BY <2>1, LastOf DEF Top
<1>2. Top.loops \in Seq(Hits)
  BY <1>1 DEF Frame
<1>3. ASSUME NEW l \in Loops
      PROVE  Append(Top.loops, [loop |-> l, hits |-> 1]) \in Seq(Hits)
  BY <1>2 DEF Hits
<1>4. ASSUME Top.loops # <<>>
      PROVE  SubSeq(Top.loops, 1, Len(Top.loops) - 1) \in Seq(Hits)
  BY <1>2, <1>4
<1>5. ASSUME Top.loops # <<>>
      PROVE  [Top.loops EXCEPT ![Len(Top.loops)].hits = @ + 1] \in Seq(Hits)
  <2> DEFINE last == Top.loops[Len(Top.loops)]
             more == [last EXCEPT !.hits = @ + 1]
  <2>1. last \in Hits
    BY <1>2, <1>5
  <2>2. more \in Hits
    BY <2>1 DEF Hits
  <2>3. [Top.loops EXCEPT ![Len(Top.loops)].hits = @ + 1]
          = [Top.loops EXCEPT ![Len(Top.loops)] = more]
    OBVIOUS
  <2> QED
    BY <1>2, <1>5, <2>2, <2>3, ReplaceLast
<1> QED
  BY <1>1, <1>3, <1>4, <1>5, TopLoops DEF SetTopLoops

\* loop_entry keeps the loop stack well typed.
LEMMA LoopEntryTyped ==
  ASSUME TypeOK, NEW l \in Loops, LoopEntry(l)
  PROVE  loopStack' \in Seq(LoopCount)
<1>1. loopStack \in Seq(LoopCount)
  BY DEF TypeOK, LoopCount
<1>2. CASE PushLoop(l)
  <2>1. [loop |-> l, count |-> 1] \in LoopCount
    BY DEF LoopCount
  <2> QED
    BY <1>1, <1>2, <2>1, LastOf DEF PushLoop
<1>3. CASE loopStack # <<>> /\ CountLoop(l)
  <2> DEFINE more == [LoopTop EXCEPT !.count = LoopTop.count + 1]
  <2>1. LoopTop \in LoopCount
    BY <1>1, <1>3 DEF LoopTop
  <2>2. more \in LoopCount
    BY <2>1 DEF LoopCount
  <2>3. loopStack' = [loopStack EXCEPT ![Len(loopStack)] = more]
    BY <1>3 DEF CountLoop, LoopTop
  <2> QED
    BY <1>1, <1>3, <2>2, <2>3, ReplaceLast
<1>4. CASE UNCHANGED loopStack
  BY <1>1, <1>4
<1> QED
  BY <1>2, <1>3, <1>4 DEF LoopEntry

\* TypeOK holds in every reachable state.
THEOREM TypeCorrect == Spec => []TypeOK
<1>1. Init => TypeOK
  <2>1. <<>> \in Seq(Frame) /\ <<>> \in Seq(Funcs) /\ <<>> \in Seq(LoopCount)
    OBVIOUS
  <2>2. /\ Unlocked \in [value : BOOLEAN, func : Funcs \cup {NoFunc}, idx : Nat]
        /\ Unlocked.value = FALSE /\ Unlocked.func = NoFunc
    BY DEF Unlocked
  <2> QED
    BY <2>1, <2>2 DEF Init, TypeOK, Frame, Hits, LoopCount
<1>2. TypeOK /\ [Next]_vars => TypeOK'
  <2> SUFFICES ASSUME TypeOK, [Next]_vars PROVE TypeOK'
    OBVIOUS
  <2>0. Len(funcStack) \in Nat /\ Unlocked \in [value : BOOLEAN, func : Funcs \cup {NoFunc}, idx : Nat]
    BY DEF TypeOK, Unlocked
  <2>1. ASSUME NEW f \in Funcs, Enter(f) PROVE TypeOK'
    <3>1. frames' \in Seq(Frame)
      BY <2>1 DEF TypeOK, Enter, Frame, Hits
    <3>2. funcStack' \in Seq(Funcs)
      BY <2>1 DEF TypeOK, Enter, PushFunc
    <3>3. recurLock' \in [value : BOOLEAN, func : Funcs \cup {NoFunc}, idx : Nat]
          /\ (recurLock'.value <=> recurLock'.func # NoFunc)
      BY <2>0, <2>1, NamesAssumption DEF TypeOK, Enter, PushFunc
    <3> QED
      BY <2>1, <3>1, <3>2, <3>3 DEF TypeOK, Enter, Frame, Hits
  <2>2. ASSUME NEW f \in Funcs, Start(f) PROVE TypeOK'
    BY <2>1, <2>2 DEF Start
  <2>3. ASSUME NEW f \in Funcs, Call(f) PROVE TypeOK'
    BY <2>1, <2>3 DEF Call
  <2>4. CASE Return
    <3>0. frames \in Seq(Frame) /\ Len(frames) - 1 \in Nat
      BY <2>4 DEF TypeOK, Return, Frame, Hits
    <3>1. frames' \in Seq(Frame)
      BY <2>4, <3>0, PrefixOf DEF Return
    <3>2. ASSUME NEW k \in DOMAIN funcStack, PopTo(k)
          PROVE  /\ funcStack' \in Seq(Funcs)
                 /\ recurLock' \in [value : BOOLEAN, func : Funcs \cup {NoFunc}, idx : Nat]
                 /\ recurLock'.value <=> recurLock'.func # NoFunc
      BY <2>0, <3>2 DEF TypeOK, PopTo, Unlocked
    <3> QED
      BY <2>4, <3>1, <3>2 DEF TypeOK, Return, Frame, Hits
  <2>5. ASSUME NEW l \in Loops, HeaderHit(l) PROVE TypeOK'
    <3>1. Top.loops = <<>> => InnermostLoop = NoLoop
      BY DEF InnermostLoop
    <3>2. frames' \in Seq(Frame)
      BY <2>5, <3>1, FramesTyped, NamesAssumption DEF HeaderHit
    <3> QED
      BY <2>5, <3>2, LoopEntryTyped DEF HeaderHit, TypeOK, Frame, Hits, LoopCount
  <2>6. ASSUME NEW l \in Loops, LoopExit(l) PROVE TypeOK'
    <3>1. Top.loops = <<>> => InnermostLoop = NoLoop
      BY DEF InnermostLoop
    <3>2. frames' \in Seq(Frame)
      BY <2>6, <3>1, FramesTyped, NamesAssumption DEF LoopExit, TypeOK, Frame, Hits
    <3>3. loopStack' \in Seq(LoopCount)
      <4>1. loopStack \in Seq(LoopCount)
        BY DEF TypeOK, LoopCount
      <4>2. loopStack # <<>> => SubSeq(loopStack, 1, Len(loopStack) - 1) \in Seq(LoopCount)
        BY <4>1
      <4> QED
        BY <2>6, <4>1, <4>2 DEF LoopExit, LoopEnd
    <3> QED
      BY <2>6, <3>2, <3>3 DEF LoopExit, TypeOK, Frame, Hits, LoopCount
  <2>7. CASE Record \/ ThreadRec
    BY <2>7 DEF Record, ThreadRec, TypeOK
  <2>8. CASE Discard
    <3>1. frames \in Seq(Frame) /\ Len(frames) - 1 \in Nat
      BY <2>8 DEF TypeOK, Discard, Frame, Hits
    <3>2. frames' \in Seq(Frame)
      BY <2>8, <3>1, PrefixOf DEF Discard
    <3> QED
      BY <2>8, <3>2 DEF Discard, TypeOK, Frame, Hits
  <2>9. CASE ThreadExit
    BY <2>9 DEF ThreadExit, TypeOK
  <2>10. CASE UNCHANGED vars
    BY <2>10 DEF vars, TypeOK
  <2> QED
    BY <2>2, <2>3, <2>4, <2>5, <2>6, <2>7, <2>8, <2>9, <2>10 DEF Next
<1> QED
  BY <1>1, <1>2, PTL DEF Spec

-----------------------------------------------------------------------------
(* pop_func finds the function that returns.                                *)

\* The stacks are sequences, which is all of TypeOK that this section needs.
LEMMA Stacks ==
  ASSUME TypeOK
  PROVE  /\ frames \in Seq(Frame) /\ Len(frames) \in Nat
         /\ funcStack \in Seq(Funcs) /\ Len(funcStack) \in Nat
         /\ DOMAIN funcStack = 1..Len(funcStack)
<1>1. frames \in Seq(Frame) /\ funcStack \in Seq(Funcs)
  BY DEF TypeOK, Frame, Hits
<1> QED
  BY <1>1

\* A call is placed above everything placed before it.
LEMMA EnterEmbeds ==
  ASSUME TypeOK, FramesEmbedded, NEW f \in Funcs, Enter(f)
  PROVE  FramesEmbedded'
<1> DEFINE n == Len(frames)
           m == Len(funcStack)
<1>1. PICK e \in [1..n -> 1..m] : Places(e, frames, funcStack)
  BY DEF FramesEmbedded
<1> DEFINE d == [i \in 1..(n + 1) |-> IF i = n + 1 THEN m + 1 ELSE e[i]]
<1>2. n \in Nat /\ m \in Nat
  BY Stacks
<1>3. /\ Len(frames') = n + 1
      /\ frames'[n + 1].func = f
      /\ \A i \in 1..n : frames'[i] = frames[i]
  BY Stacks DEF Enter
<1>4. /\ Len(funcStack') = m + 1
      /\ funcStack'[m + 1] = f
      /\ \A i \in 1..m : funcStack'[i] = funcStack[i]
  BY Stacks DEF Enter, PushFunc
<1>5. d \in [1..Len(frames') -> 1..Len(funcStack')]
  BY <1>2, <1>3, <1>4
<1>6. Places(d, frames', funcStack')
  <2> SUFFICES ASSUME NEW i \in 1..(n + 1)
               PROVE  /\ \A j \in 1..(n + 1) : i < j => d[i] < d[j]
                      /\ funcStack'[d[i]] = frames'[i].func
    BY <1>3 DEF Places
  <2>1. CASE i = n + 1
    BY <1>2, <1>3, <1>4, <2>1
  <2>2. CASE i \in 1..n
    <3>1. d[i] = e[i] /\ e[i] \in 1..m
      BY <1>2, <2>2
    <3> QED
      BY <1>1, <1>2, <1>3, <1>4, <2>2, <3>1 DEF Places
  <2> QED
    BY <1>2, <2>1, <2>2
<1> QED
  BY <1>5, <1>6 DEF FramesEmbedded

\* Forgetting the innermost frames keeps the placement of the others, in any
\* prefix of the runtime's stack that reaches as far as they do.
LEMMA PrefixEmbeds ==
  ASSUME TypeOK,
         NEW e \in [1..Len(frames) -> 1..Len(funcStack)], Places(e, frames, funcStack),
         NEW n \in 0..Len(frames), NEW m \in 0..Len(funcStack),
         \A i \in 1..n : e[i] <= m,
         Len(frames') = n, \A i \in 1..n : frames'[i].func = frames[i].func,
         funcStack' = SubSeq(funcStack, 1, m)
  PROVE  FramesEmbedded'
<1> DEFINE d == [i \in 1..n |-> e[i]]
<1>1. Len(funcStack') = m /\ \A i \in 1..m : funcStack'[i] = funcStack[i]
  BY Stacks, PrefixOf
<1>2. ASSUME NEW i \in 1..n PROVE i \in 1..Len(frames) /\ e[i] \in 1..m
  <2>1. i \in 1..Len(frames)
    BY Stacks
  <2>2. e[i] \in 1..Len(funcStack) /\ e[i] <= m
    BY <2>1
  <2> QED
    BY <2>1, <2>2, Stacks
<1>3. d \in [1..Len(frames') -> 1..Len(funcStack')]
  BY <1>1, <1>2
<1>4. Places(d, frames', funcStack')
  BY <1>1, <1>2 DEF Places
<1> QED
  BY <1>3, <1>4 DEF FramesEmbedded

\* The steps that keep the runtime's stack and drop frames, or none.
LEMMA DropEmbeds ==
  ASSUME TypeOK, FramesEmbedded, UNCHANGED funcStack,
         NEW n \in 0..Len(frames), Len(frames') = n,
         \A i \in 1..n : frames'[i].func = frames[i].func
  PROVE  FramesEmbedded'
<1>1. PICK e \in [1..Len(frames) -> 1..Len(funcStack)] : Places(e, frames, funcStack)
  BY DEF FramesEmbedded
<1>2. Len(funcStack) \in 0..Len(funcStack) /\ funcStack' = SubSeq(funcStack, 1, Len(funcStack))
  BY Stacks
<1>3. \A i \in 1..n : e[i] <= Len(funcStack)
  BY Stacks
<1> QED
  BY <1>1, <1>2, <1>3, PrefixEmbeds

\* The innermost frame is on the runtime's stack, so the return finds it, and
\* what it pops lies above the frames that stay.
LEMMA ReturnEmbeds ==
  ASSUME TypeOK, FramesEmbedded, Return
  PROVE  FramesEmbedded' /\ UNCHANGED crashed
<1> DEFINE n == Len(frames)
<1>1. PICK e \in [1..n -> 1..Len(funcStack)] : Places(e, frames, funcStack)
  BY DEF FramesEmbedded
<1>2. n \in Nat \ {0} /\ Len(frames') = n - 1
      /\ \A i \in 1..(n - 1) : frames'[i] = frames[i]
  <2>1. n \in Nat /\ n # 0 /\ n - 1 \in Nat /\ n - 1 <= n
    BY Stacks DEF Return
  <2>2. frames' = SubSeq(frames, 1, n - 1)
    BY DEF Return
  <2> QED
    BY <2>1, <2>2, Stacks, PrefixOf
<1>3. e[n] \in DOMAIN funcStack /\ funcStack[e[n]] = Top.func
  BY <1>1, <1>2, Stacks DEF Places, Top
<1>4. PICK k \in DOMAIN funcStack :
         IsLastOccurrence(Top.func, k) /\ PopTo(k) /\ UNCHANGED crashed
  BY <1>3 DEF Return, CheckRecur
<1>5. e[n] <= k
  BY <1>3, <1>4, Stacks DEF IsLastOccurrence
<1>6. \A i \in 1..(n - 1) : e[i] <= k - 1
  <2> SUFFICES ASSUME NEW i \in 1..(n - 1) PROVE e[i] <= k - 1
    OBVIOUS
  <2>1. i \in 1..n /\ n \in 1..n /\ i < n
    BY <1>2
  <2>2. e[i] < e[n]
    BY <1>1, <2>1 DEF Places
  <2>3. e[i] \in 1..Len(funcStack)
    BY <2>1
  <2> QED
    BY <1>3, <1>4, <1>5, <2>2, <2>3, Stacks
<1>7. k - 1 \in 0..Len(funcStack) /\ n - 1 \in 0..Len(frames)
  BY <1>2, <1>4, Stacks
<1>8. funcStack' = SubSeq(funcStack, 1, k - 1)
  BY <1>4 DEF PopTo
<1> QED
  BY <1>1, <1>2, <1>4, <1>6, <1>7, <1>8, PrefixEmbeds

\* Entering, repeating and leaving a loop change no call.
LEMMA LoopStepKeepsCalls ==
  ASSUME TypeOK, NEW l \in Loops, HeaderHit(l) \/ LoopExit(l)
  PROVE  /\ Len(frames') = Len(frames)
         /\ \A i \in 1..Len(frames) : frames'[i].func = frames[i].func
<1>0. frames \in Seq(Frame) /\ frames # <<>>
  BY Stacks DEF HeaderHit, LoopExit
<1>1. ASSUME NEW ls \in Seq(Hits), frames' = SetTopLoops(ls)
      PROVE  /\ Len(frames') = Len(frames)
             /\ \A i \in 1..Len(frames) : frames'[i].func = frames[i].func
  BY <1>0, <1>1, TopLoops DEF SetTopLoops
<1>2. Top.loops \in Seq(Hits)
  <2>1. Top \in Frame
    BY <1>0, LastOf DEF Top
  <2> QED
    BY <2>1 DEF Frame
<1>3. CASE HeaderHit(l)
  <2>1. Append(Top.loops, [loop |-> l, hits |-> 1]) \in Seq(Hits)
    BY <1>2 DEF Hits
  <2>2. ASSUME Top.loops # <<>>
        PROVE  [Top.loops EXCEPT ![Len(Top.loops)].hits = @ + 1] \in Seq(Hits)
    <3>1. Top.loops[Len(Top.loops)] \in Hits
      BY <1>2, <2>2
    <3> DEFINE more == [Top.loops[Len(Top.loops)] EXCEPT !.hits = @ + 1]
    <3>2. more \in Hits
      BY <3>1 DEF Hits
    <3>3. [Top.loops EXCEPT ![Len(Top.loops)].hits = @ + 1]
            = [Top.loops EXCEPT ![Len(Top.loops)] = more]
      OBVIOUS
    <3> QED
      BY <1>2, <2>2, <3>2, <3>3, ReplaceLast
  <2>3. Top.loops = <<>> => InnermostLoop # l
    BY NamesAssumption DEF InnermostLoop
  <2>4. PICK ls \in Seq(Hits) : frames' = SetTopLoops(ls)
    BY <1>3, <2>1, <2>2, <2>3 DEF HeaderHit
  <2> QED
    BY <1>1, <2>4
<1>4. CASE LoopExit(l)
  <2>1. CASE UNCHANGED frames
    BY <2>1
  <2>2. CASE InnermostLoop = l /\ frames' = SetTopLoops(SubSeq(Top.loops, 1, Len(Top.loops) - 1))
    <3>1. Top.loops # <<>>
      BY <2>2, NamesAssumption DEF InnermostLoop
    <3>2. SubSeq(Top.loops, 1, Len(Top.loops) - 1) \in Seq(Hits)
      BY <1>2, <3>1
    <3> QED
      BY <1>1, <2>2, <3>2
  <2> QED
    BY <1>4, <2>1, <2>2 DEF LoopExit
<1> QED
  BY <1>3, <1>4

\* The runtime's stack always contains the call stack, and therefore pop_func
\* neither fails its assertion nor runs off the bottom of the stack, whatever
\* frames exceptions, longjmp or pthread_exit discarded before.
THEOREM PopSafe == Spec => [](FramesEmbedded /\ PopNeverUnderflows)
<1> DEFINE IInv == FramesEmbedded /\ PopNeverUnderflows
<1>1. Init => IInv
  <2> SUFFICES ASSUME Init PROVE IInv
    OBVIOUS
  <2> DEFINE e == [i \in 1..0 |-> 0]
  <2>1. Len(frames) = 0 /\ Len(funcStack) = 0 /\ ~crashed
    BY DEF Init
  <2>2. e \in [1..Len(frames) -> 1..Len(funcStack)] /\ Places(e, frames, funcStack)
    BY <2>1 DEF Places
  <2> QED
    BY <2>1, <2>2 DEF FramesEmbedded, PopNeverUnderflows
<1>2. TypeOK /\ IInv /\ [Next]_vars => IInv'
  <2> SUFFICES ASSUME TypeOK, FramesEmbedded, PopNeverUnderflows, [Next]_vars
               PROVE  FramesEmbedded' /\ PopNeverUnderflows'
    OBVIOUS
  <2>0. frames \in Seq(Frame) /\ Len(frames) \in 0..Len(frames)
    BY Stacks
  <2>1. ASSUME NEW f \in Funcs, Start(f) \/ Call(f)
        PROVE  FramesEmbedded' /\ UNCHANGED crashed
    BY <2>1, EnterEmbeds DEF Start, Call, Enter
  <2>2. CASE Return
    BY <2>2, ReturnEmbeds DEF PopNeverUnderflows
  <2>3. ASSUME NEW l \in Loops, HeaderHit(l) \/ LoopExit(l)
        PROVE  FramesEmbedded' /\ UNCHANGED crashed
    <3>1. Len(frames') = Len(frames) /\ \A i \in 1..Len(frames) : frames'[i].func = frames[i].func
      BY <2>3, LoopStepKeepsCalls
    <3>2. UNCHANGED <<funcStack, crashed>>
      BY <2>3 DEF HeaderHit, LoopExit
    <3> QED
      BY <2>0, <3>1, <3>2, DropEmbeds
  <2>4. CASE Record \/ ThreadRec \/ UNCHANGED vars
    BY <2>0, <2>4, DropEmbeds DEF Record, ThreadRec, vars, PopNeverUnderflows
  <2>5. CASE Discard
    <3>1. Len(frames) - 1 \in 0..Len(frames) /\ Len(frames') = Len(frames) - 1
          /\ \A i \in 1..(Len(frames) - 1) : frames'[i] = frames[i]
      BY <2>0, <2>5 DEF Discard
    <3> QED
      BY <2>5, <3>1, DropEmbeds DEF Discard, PopNeverUnderflows
  <2>6. CASE ThreadExit
    <3>1. 0 \in 0..Len(frames) /\ Len(frames') = 0
      BY <2>0, <2>6 DEF ThreadExit
    <3> QED
      BY <2>6, <3>1, DropEmbeds DEF ThreadExit, PopNeverUnderflows
  <2> QED
    BY <2>1, <2>2, <2>3, <2>4, <2>5, <2>6 DEF Next, PopNeverUnderflows
<1> QED
  BY <1>1, <1>2, TypeCorrect, PTL DEF Spec

\* Every live frame has its name on the runtime's stack, in call order.
THEOREM FramesStay == Spec => []FramesEmbedded
<1> QED
  BY PopSafe, PTL

\* Where no frame is discarded, the runtime's stack is the call stack at all times.
THEOREM StackExact == ASSUME ~Abnormal PROVE Spec => []StackIsCallStack
<1>1. Init => StackIsCallStack
  BY DEF Init, StackIsCallStack
<1>2. TypeOK /\ StackIsCallStack /\ [Next]_vars => StackIsCallStack'
  <2> SUFFICES ASSUME TypeOK, StackIsCallStack, [Next]_vars PROVE StackIsCallStack'
    OBVIOUS
  <2> DEFINE n == Len(frames)
  <2>0. /\ n \in Nat /\ Len(funcStack) = n
        /\ \A i \in 1..n : funcStack[i] = frames[i].func
    BY Stacks DEF StackIsCallStack
  <2>1. ASSUME NEW f \in Funcs, Enter(f)
        PROVE  StackIsCallStack'
    <3>1. /\ Len(frames') = n + 1 /\ frames'[n + 1].func = f
          /\ \A i \in 1..n : frames'[i] = frames[i]
      BY <2>1, Stacks DEF Enter
    <3>2. /\ Len(funcStack') = n + 1 /\ funcStack'[n + 1] = f
          /\ \A i \in 1..n : funcStack'[i] = funcStack[i]
      BY <2>0, <2>1, Stacks DEF Enter, PushFunc
    <3>3. \A i \in 1..(n + 1) : i \in 1..n \/ i = n + 1
      BY <2>0
    <3> QED
      BY <2>0, <3>1, <3>2, <3>3 DEF StackIsCallStack
  <2>2. CASE Return
    <3>1. n # 0 /\ n - 1 \in Nat /\ n - 1 <= n /\ frames' = SubSeq(frames, 1, n - 1)
      BY <2>2, Stacks DEF Return
    <3>2. Len(frames') = n - 1 /\ \A i \in 1..(n - 1) : frames'[i] = frames[i]
      BY <3>1, Stacks, PrefixOf
    <3>3. n \in DOMAIN funcStack /\ funcStack[n] = Top.func
      BY <2>0, <3>1, Stacks DEF Top
    <3>4. PICK k \in DOMAIN funcStack : IsLastOccurrence(Top.func, k) /\ PopTo(k)
      BY <2>2, <3>3 DEF Return, CheckRecur
    <3>5. k = n
      BY <2>0, <3>3, <3>4, Stacks DEF IsLastOccurrence
    <3>6. Len(funcStack') = n - 1 /\ \A i \in 1..(n - 1) : funcStack'[i] = funcStack[i]
      BY <2>0, <3>1, <3>4, <3>5, Stacks, PrefixOf DEF PopTo
    <3> QED
      BY <2>0, <3>2, <3>6 DEF StackIsCallStack
  <2>3. ASSUME NEW l \in Loops, HeaderHit(l) \/ LoopExit(l)
        PROVE  StackIsCallStack'
    <3>1. UNCHANGED funcStack
      BY <2>3 DEF HeaderHit, LoopExit
    <3> QED
      BY <2>0, <2>3, <3>1, LoopStepKeepsCalls DEF StackIsCallStack
  <2>4. CASE Record \/ ThreadRec \/ UNCHANGED vars
    BY <2>4 DEF Record, ThreadRec, vars, StackIsCallStack
  <2> QED
    BY <2>1, <2>2, <2>3, <2>4 DEF Next, Start, Call, Discard, ThreadExit
<1> QED
  BY <1>1, <1>2, TypeCorrect, PTL DEF Spec

-----------------------------------------------------------------------------
(* The recursion lock.                                                      *)

\* While the lock is taken its frame is on the stack, and only there does
\* LockMatches hold: a pop releases the lock exactly when it reaches that entry.
LEMMA ReleaseAt ==
  ASSUME TypeOK, LockOnOutermostRepeat, NEW k \in DOMAIN funcStack
  PROVE  Releases(k) <=> recurLock.value /\ k <= recurLock.idx + 1
<1>1. recurLock.idx \in Nat
  BY DEF TypeOK
<1>2. ASSUME recurLock.value, k <= recurLock.idx + 1 PROVE Releases(k)
  <2>1. recurLock.idx + 1 \in k..Len(funcStack)
    BY <1>1, <1>2, Stacks DEF LockOnOutermostRepeat
  <2>2. LockMatches(recurLock.idx + 1)
    BY <1>1, <1>2 DEF LockMatches, LockOnOutermostRepeat
  <2> QED
    BY <2>1, <2>2 DEF Releases
<1>3. ASSUME Releases(k) PROVE recurLock.value /\ k <= recurLock.idx + 1
  BY <1>1, <1>3, Stacks DEF Releases, LockMatches
<1> QED
  BY <1>2, <1>3

\* Pushing a name takes the lock at the first repetition and only there.
LEMMA EnterLocks ==
  ASSUME TypeOK, LockOnOutermostRepeat, NEW f \in Funcs, Enter(f)
  PROVE  LockOnOutermostRepeat' /\ (recurLock.value => recurLock' = recurLock)
<1> DEFINE m == Len(funcStack)
<1>1. /\ m \in Nat
      /\ Len(funcStack') = m + 1
      /\ funcStack'[m + 1] = f
      /\ \A i \in 1..m : funcStack'[i] = funcStack[i]
  BY Stacks, LastOf DEF Enter, PushFunc
<1>2. recurLock.idx \in Nat /\ recurLock.value \in BOOLEAN
  BY DEF TypeOK
<1>3. CASE recurLock.value
  <2>1. recurLock' = recurLock
    BY <1>3 DEF Enter, PushFunc, Locks
  <2>2. recurLock.idx + 1 <= m /\ DistinctUpTo(recurLock.idx)
    BY <1>3 DEF LockOnOutermostRepeat
  <2>3. DistinctUpTo(recurLock.idx)'
    BY <1>1, <1>2, <2>1, <2>2 DEF DistinctUpTo
  <2> QED
    BY <1>1, <1>2, <1>3, <2>1, <2>2, <2>3 DEF LockOnOutermostRepeat
<1>4. CASE ~recurLock.value /\ CheckRecur(f)
  <2>1. recurLock' = [value |-> TRUE, func |-> f, idx |-> m]
    BY <1>4 DEF Enter, PushFunc, Locks
  <2>2. DistinctUpTo(m)
    BY <1>4 DEF LockOnOutermostRepeat
  <2>3. recurLock'.value /\ recurLock'.func = f /\ recurLock'.idx = m
    BY <2>1
  <2>4. PICK i \in 1..m : funcStack'[i] = f
    BY <1>1, <1>4, Stacks DEF CheckRecur
  <2>5. DistinctUpTo(recurLock.idx)'
    BY <1>1, <2>2, <2>3 DEF DistinctUpTo
  <2> QED
    BY <1>1, <1>4, <2>3, <2>4, <2>5 DEF LockOnOutermostRepeat
<1>5. CASE ~recurLock.value /\ ~CheckRecur(f)
  <2>1. recurLock' = recurLock
    BY <1>5 DEF Enter, PushFunc, Locks
  <2>2. DistinctUpTo(m)
    BY <1>5 DEF LockOnOutermostRepeat
  <2>3. \A i \in 1..m : funcStack[i] # f
    BY <1>5, Stacks DEF CheckRecur
  <2>4. DistinctUpTo(Len(funcStack))'
    BY <1>1, <2>2, <2>3 DEF DistinctUpTo
  <2> QED
    BY <1>5, <2>1, <2>4 DEF LockOnOutermostRepeat
<1> QED
  BY <1>2, <1>3, <1>4, <1>5

\* A pop that reaches the locked frame releases the lock and leaves a stack
\* without repetition; any other pop leaves the lock and the part below it alone.
LEMMA PopLocks ==
  ASSUME TypeOK, LockOnOutermostRepeat, NEW k \in DOMAIN funcStack, PopTo(k)
  PROVE  LockOnOutermostRepeat' /\ LockStable
<1>1. /\ k \in 1..Len(funcStack)
      /\ k - 1 \in Nat
      /\ Len(funcStack') = k - 1
      /\ \A i \in 1..(k - 1) : funcStack'[i] = funcStack[i]
  <2>1. k - 1 \in Nat /\ k - 1 <= Len(funcStack) /\ k \in 1..Len(funcStack)
    BY Stacks
  <2> QED
    BY <2>1, Stacks, PrefixOf DEF PopTo
<1>2. recurLock.idx \in Nat /\ recurLock.value \in BOOLEAN /\ Len(funcStack) \in Nat
  BY Stacks DEF TypeOK
<1>3. CASE ~recurLock.value
  <2>1. recurLock' = recurLock
    BY <1>3, ReleaseAt DEF PopTo
  <2>2. DistinctUpTo(Len(funcStack))'
    <3>1. DistinctUpTo(Len(funcStack))
      BY <1>3 DEF LockOnOutermostRepeat
    <3> QED
      BY <1>1, <1>2, <3>1 DEF DistinctUpTo
  <2> QED
    BY <1>3, <2>1, <2>2 DEF LockOnOutermostRepeat, LockStable
<1>4. CASE recurLock.value /\ k <= recurLock.idx + 1
  <2>1. recurLock'.value = FALSE
    BY <1>4, ReleaseAt DEF PopTo, Unlocked
  <2>2. DistinctUpTo(Len(funcStack))'
    <3>1. DistinctUpTo(recurLock.idx)
      BY <1>4 DEF LockOnOutermostRepeat
    <3>2. k - 1 <= recurLock.idx
      BY <1>1, <1>2, <1>4
    <3> SUFFICES ASSUME NEW i \in 1..(k - 1), NEW j \in 1..(k - 1), i < j
                 PROVE  funcStack'[i] # funcStack'[j]
      BY <1>1 DEF DistinctUpTo
    <3>3. i \in 1..Len(funcStack) /\ j \in 1..Len(funcStack) /\ j <= recurLock.idx
      BY <1>1, <1>2, <3>2
    <3>4. funcStack[i] # funcStack[j]
      BY <3>1, <3>3 DEF DistinctUpTo
    <3> QED
      BY <1>1, <3>4
  <2> QED
    BY <1>1, <1>2, <1>4, <2>1, <2>2 DEF LockOnOutermostRepeat, LockStable
<1>5. CASE recurLock.value /\ ~(k <= recurLock.idx + 1)
  <2>1. recurLock' = recurLock
    BY <1>5, ReleaseAt DEF PopTo
  <2>2. recurLock.idx + 1 <= k - 1
    BY <1>1, <1>2, <1>5
  <2>3. DistinctUpTo(recurLock.idx)'
    <3>1. DistinctUpTo(recurLock.idx)
      BY <1>5 DEF LockOnOutermostRepeat
    <3>2. recurLock'.idx = recurLock.idx
      BY <2>1
    <3> SUFFICES ASSUME NEW i \in 1..Len(funcStack'), NEW j \in 1..Len(funcStack'),
                        i < j, j <= recurLock.idx
                 PROVE  funcStack'[i] # funcStack'[j]
      BY <3>2 DEF DistinctUpTo
    <3>3. i \in 1..Len(funcStack) /\ j \in 1..Len(funcStack)
      BY <1>1, <1>2
    <3>4. funcStack[i] # funcStack[j]
      BY <3>1, <3>3 DEF DistinctUpTo
    <3>5. funcStack'[i] = funcStack[i] /\ funcStack'[j] = funcStack[j]
      BY <1>1
    <3> QED
      BY <3>4, <3>5
  <2> QED
    BY <1>1, <1>2, <1>5, <2>1, <2>2, <2>3 DEF LockOnOutermostRepeat, LockStable
<1> QED
  BY <1>2, <1>3, <1>4, <1>5

\* Every step keeps the lock on the outermost repetition.
LEMMA LockInductive ==
  ASSUME TypeOK, LockOnOutermostRepeat, [Next]_vars
  PROVE  LockOnOutermostRepeat' /\ LockStable
<1>1. CASE UNCHANGED <<funcStack, recurLock>>
  BY <1>1 DEF LockOnOutermostRepeat, DistinctUpTo, LockStable
<1>2. ASSUME NEW f \in Funcs, Start(f) \/ Call(f)
      PROVE  LockOnOutermostRepeat' /\ LockStable
  <2>1. Enter(f)
    BY <1>2 DEF Start, Call
  <2> QED
    BY <2>1, EnterLocks DEF LockStable
<1>3. CASE Return
  BY <1>1, <1>3, PopLocks DEF Return
<1>4. ASSUME NEW l \in Loops, HeaderHit(l) \/ LoopExit(l)
      PROVE  UNCHANGED <<funcStack, recurLock>>
  BY <1>4 DEF HeaderHit, LoopExit
<1>5. ASSUME Record \/ ThreadRec \/ Discard \/ ThreadExit \/ UNCHANGED vars
      PROVE  UNCHANGED <<funcStack, recurLock>>
  BY <1>5 DEF Record, ThreadRec, Discard, ThreadExit, vars
<1> QED
  BY <1>1, <1>2, <1>3, <1>4, <1>5 DEF Next

\* The lock is taken exactly while the runtime's stack repeats a name, for the
\* outermost repetition.
THEOREM LockExact == Spec => []LockOnOutermostRepeat
<1>1. Init => LockOnOutermostRepeat
  BY DEF Init, Unlocked, LockOnOutermostRepeat, DistinctUpTo
<1>2. TypeOK /\ LockOnOutermostRepeat /\ [Next]_vars => LockOnOutermostRepeat'
  BY LockInductive
<1> QED
  BY <1>1, <1>2, TypeCorrect, PTL DEF Spec

\* Nested recursion leaves the lock on the frame that took it, until that frame
\* is popped.
THEOREM LockNeverMoves == Spec => LockIsStable
<1>1. TypeOK /\ LockOnOutermostRepeat /\ [Next]_vars => [LockStable]_vars
  BY LockInductive
<1> QED
  BY <1>1, TypeCorrect, LockExact, PTL DEF Spec, LockIsStable

-----------------------------------------------------------------------------
(* The loop stack.                                                          *)

\* The conditions under which loop_entry counts, pushes or ignores a header
\* keep full counters at the top and equal loops apart.
THEOREM LoopStackSound == Spec => [](OnlyTopExceeds /\ NoAdjacentRepeat)
<1> DEFINE IInv == OnlyTopExceeds /\ NoAdjacentRepeat
<1>1. Init => IInv
  BY DEF Init, OnlyTopExceeds, NoAdjacentRepeat
<1>2. TypeOK /\ IInv /\ [Next]_vars => IInv'
  <2> SUFFICES ASSUME TypeOK, OnlyTopExceeds, NoAdjacentRepeat, [Next]_vars
               PROVE  OnlyTopExceeds' /\ NoAdjacentRepeat'
    OBVIOUS
  <2> DEFINE n == Len(loopStack)
  <2>1. loopStack \in Seq(LoopCount) /\ n \in Nat
    BY DEF TypeOK, LoopCount
  <2>2. CASE UNCHANGED loopStack
    BY <2>2 DEF OnlyTopExceeds, NoAdjacentRepeat
  <2>3. ASSUME NEW l \in Loops, PushLoop(l),
               loopStack # <<>> => LoopTop.loop # l /\ ~(LoopTop.count > LOOP_LIMIT)
        PROVE  OnlyTopExceeds' /\ NoAdjacentRepeat'
    <3> DEFINE new == [loop |-> l, count |-> 1]
    <3>1. new \in LoopCount /\ new.loop = l
      BY DEF LoopCount
    <3>2. Len(loopStack') = n + 1 /\ loopStack'[n + 1] = new
          /\ \A i \in 1..n : loopStack'[i] = loopStack[i]
      <4>1. loopStack' = Append(loopStack, new)
        BY <2>3 DEF PushLoop
      <4> HIDE DEF new
      <4> QED
        BY <2>1, <3>1, <4>1, LastOf
    <3>3. n # 0 => loopStack[n].loop # l /\ loopStack[n].count <= LOOP_LIMIT
      <4>1. n # 0 => loopStack # <<>> /\ loopStack[n] \in LoopCount
        BY <2>1
      <4>2. n # 0 => loopStack[n].count \in Nat
        BY <4>1 DEF LoopCount
      <4> QED
        BY <2>3, <4>1, <4>2, LimitAssumption DEF LoopTop
    <3> QED
      BY <2>1, <3>1, <3>2, <3>3 DEF OnlyTopExceeds, NoAdjacentRepeat
  <2>4. ASSUME NEW l \in Loops, loopStack # <<>>, CountLoop(l)
        PROVE  OnlyTopExceeds' /\ NoAdjacentRepeat'
    <3> DEFINE more == [LoopTop EXCEPT !.count = LoopTop.count + 1]
    <3>1. LoopTop \in LoopCount
      BY <2>1, <2>4, LastOf DEF LoopTop
    <3>2. more \in LoopCount /\ more.loop = loopStack[n].loop
      BY <3>1 DEF LoopCount, LoopTop
    <3>3. loopStack' = [loopStack EXCEPT ![Len(loopStack)] = more]
      BY <2>4 DEF CountLoop, LoopTop
    <3>4. Len(loopStack') = n /\ loopStack'[n].loop = loopStack[n].loop
          /\ \A i \in 1..(n - 1) : loopStack'[i] = loopStack[i]
      BY <2>1, <2>4, <3>2, <3>3, ReplaceLast
    <3>5. OnlyTopExceeds'
      BY <2>1, <3>4 DEF OnlyTopExceeds
    <3>6. \A i \in 1..n : loopStack'[i].loop = loopStack[i].loop
      BY <2>1, <3>4
    <3>7. \A i \in 1..(n - 1) : i \in 1..n /\ i + 1 \in 1..n
      BY <2>1
    <3> QED
      BY <3>4, <3>5, <3>6, <3>7 DEF NoAdjacentRepeat
  <2>5. ASSUME loopStack # <<>>, loopStack' = SubSeq(loopStack, 1, n - 1)
        PROVE  OnlyTopExceeds' /\ NoAdjacentRepeat'
    <3>1. n - 1 \in Nat /\ n - 1 <= n
      BY <2>1, <2>5
    <3>2. Len(loopStack') = n - 1 /\ \A i \in 1..(n - 1) : loopStack'[i] = loopStack[i]
      BY <2>1, <2>5, <3>1, PrefixOf
    <3>3. \A i \in 1..((n - 1) - 1) : /\ i \in 1..(n - 1) /\ i + 1 \in 1..(n - 1)
                                    /\ i \in 1..(Len(loopStack) - 1)
      BY <2>1, <3>1
    <3>4. OnlyTopExceeds'
      BY <3>2, <3>3 DEF OnlyTopExceeds
    <3>5. NoAdjacentRepeat'
      BY <3>2, <3>3 DEF NoAdjacentRepeat
    <3> QED
      BY <3>4, <3>5
  <2>6. ASSUME NEW l \in Loops, HeaderHit(l)
        PROVE  OnlyTopExceeds' /\ NoAdjacentRepeat'
    BY <2>2, <2>3, <2>4, <2>6 DEF HeaderHit, LoopEntry
  <2>7. ASSUME NEW l \in Loops, LoopExit(l)
        PROVE  OnlyTopExceeds' /\ NoAdjacentRepeat'
    BY <2>2, <2>5, <2>7 DEF LoopExit, LoopEnd
  <2>8. CASE Return \/ Record \/ ThreadRec \/ Discard \/ ThreadExit \/ UNCHANGED vars
    BY <2>2, <2>8 DEF Return, Record, ThreadRec, Discard, ThreadExit, vars
  <2>9. ASSUME NEW f \in Funcs, Start(f) \/ Call(f)
        PROVE  UNCHANGED loopStack
    BY <2>9 DEF Start, Call, Enter
  <2> QED
    BY <2>2, <2>6, <2>7, <2>8, <2>9 DEF Next
<1> QED
  BY <1>1, <1>2, TypeCorrect, PTL DEF Spec

\* The same loop is never on the loop stack twice in a row.
THEOREM LoopsApart == Spec => []NoAdjacentRepeat
<1> QED
  BY LoopStackSound, PTL

-----------------------------------------------------------------------------
(* The loop limit.                                                          *)

\* A program in which no function called from a loop comes back, through whatever
\* calls, to a loop of the function that called it: then no loop is in two
\* activations at a time.  reach[f] is what f and the functions it calls loop in.
LoopsDoNotRecur(reach) ==
  /\ reach \in [Funcs -> SUBSET Loops]
  /\ \A l \in Loops : l \in reach[LoopFunc[l]]
  /\ \A s \in CallSites :
       /\ reach[s[3]] \subseteq reach[s[1]]
       /\ s[2] # NoLoop => \A l \in Loops : LoopFunc[l] = s[1] => l \notin reach[s[3]]

\* The activation of a loop that is j deep in frame i, and the order they began in.
In(i, j) == i \in 1..Len(frames) /\ j \in 1..Len(frames[i].loops)
LoopAt(i, j) == frames[i].loops[j].loop
HitsAt(i, j) == frames[i].loops[j].hits
Before(i, j, p, q) == i < p \/ (i = p /\ j < q)

\* Loops are nested as they are in the functions.
Nested ==
  \A i, j \in Nat : In(i, j) =>
    /\ LoopFunc[LoopAt(i, j)] = frames[i].func
    /\ LoopParent[LoopAt(i, j)] = IF j = 1 THEN NoLoop ELSE LoopAt(i, j - 1)

\* A frame above one that is in a loop cannot come to a loop of that one.
Apart(reach) ==
  \A i, k \in 1..Len(frames) : i < k /\ frames[i].loops # <<>> =>
    \A l \in Loops : LoopFunc[l] = frames[i].func => l \notin reach[frames[k].func]

\* No loop is in two activations.
Once ==
  \A i, j, p, q \in Nat : In(i, j) /\ In(p, q) /\ LoopAt(i, j) = LoopAt(p, q) => i = p /\ j = q

\* The loop stack holds activations, in the order they began, with their hits.
Counted ==
  \A k \in 1..Len(loopStack) :
    \E i, j \in Nat : /\ In(i, j) /\ LoopAt(i, j) = loopStack[k].loop
                     /\ HitsAt(i, j) = loopStack[k].count

Ordered ==
  \A k, m \in 1..Len(loopStack), i, j, p, q \in Nat :
    /\ k < m
    /\ In(i, j) /\ LoopAt(i, j) = loopStack[k].loop
    /\ In(p, q) /\ LoopAt(p, q) = loopStack[m].loop
    => Before(i, j, p, q)

\* An activation that is not on it began in one that is past the limit: the last on it.
Complete ==
  \A i, j \in Nat : In(i, j) =>
    \/ \E k \in 1..Len(loopStack) : loopStack[k].loop = LoopAt(i, j)
    \/ /\ ExceedLoopLimit
       /\ \E p, q \in Nat : In(p, q) /\ LoopAt(p, q) = LoopTop.loop /\ Before(p, q, i, j)

LoopsTracked(reach) == Nested /\ Apart(reach) /\ Once /\ Counted /\ Ordered /\ Complete

-----------------------------------------------------------------------------
(* How a step changes the activations.                                      *)

\* The frames are a sequence of frames, each with a sequence of loops.
LEMMA Activations ==
  ASSUME TypeOK
  PROVE  /\ frames \in Seq(Frame) /\ Len(frames) \in Nat
         /\ \A i \in 1..Len(frames) : /\ frames[i].loops \in Seq(Hits)
                                     /\ frames[i].func \in Funcs
                                     /\ Len(frames[i].loops) \in Nat
         /\ \A i, j \in Nat : In(i, j) => LoopAt(i, j) \in Loops /\ HitsAt(i, j) \in Nat \ {0}
<1>1. frames \in Seq(Frame) /\ Len(frames) \in Nat
  BY Stacks
<1>2. ASSUME NEW i \in 1..Len(frames)
      PROVE  frames[i].loops \in Seq(Hits) /\ frames[i].func \in Funcs
  <2>1. frames[i] \in Frame
    BY <1>1
  <2> QED
    BY <2>1 DEF Frame
<1>3. ASSUME NEW i \in Nat, NEW j \in Nat, In(i, j)
      PROVE  LoopAt(i, j) \in Loops /\ HitsAt(i, j) \in Nat \ {0}
  <2>1. frames[i].loops[j] \in Hits
    BY <1>2, <1>3 DEF In
  <2> QED
    BY <2>1 DEF LoopAt, HitsAt, Hits
<1> QED
  BY <1>1, <1>2, <1>3

\* A frame without loops comes or goes.
LEMMA OuterActivations ==
  ASSUME TypeOK,
         \/ \E f \in Funcs : frames' = Append(frames, [func |-> f, loops |-> <<>>])
         \/ frames # <<>> /\ Top.loops = <<>> /\ frames' = SubSeq(frames, 1, Len(frames) - 1)
  PROVE  \A i, j \in Nat : /\ In(i, j)' <=> In(i, j)
                           /\ In(i, j) => /\ LoopAt(i, j)' = LoopAt(i, j)
                                          /\ HitsAt(i, j)' = HitsAt(i, j)
                                          /\ frames'[i] = frames[i]
<1> SUFFICES ASSUME NEW i \in Nat, NEW j \in Nat
             PROVE  /\ In(i, j)' <=> In(i, j)
                    /\ In(i, j) => frames'[i] = frames[i]
  BY DEF LoopAt, HitsAt
<1>1. frames \in Seq(Frame) /\ Len(frames) \in Nat
  BY Activations
<1>2. ASSUME NEW f \in Funcs, frames' = Append(frames, [func |-> f, loops |-> <<>>])
      PROVE  /\ In(i, j)' <=> In(i, j)
             /\ In(i, j) => frames'[i] = frames[i]
  <2>1. [func |-> f, loops |-> <<>>] \in Frame
    BY DEF Frame
  <2>2. /\ Len(frames') = Len(frames) + 1
        /\ frames'[Len(frames) + 1].loops = <<>>
        /\ \A p \in 1..Len(frames) : frames'[p] = frames[p]
    BY <1>1, <1>2, <2>1
  <2>3. i \in 1..(Len(frames) + 1) <=> i \in 1..Len(frames) \/ i = Len(frames) + 1
    BY <1>1
  <2>4. i = Len(frames) + 1 => ~(j \in 1..Len(frames'[i].loops))
    BY <2>2
  <2> QED
    BY <2>2, <2>3, <2>4 DEF In
<1>3. ASSUME frames # <<>>, Top.loops = <<>>, frames' = SubSeq(frames, 1, Len(frames) - 1)
      PROVE  /\ In(i, j)' <=> In(i, j)
             /\ In(i, j) => frames'[i] = frames[i]
  <2>1. Len(frames) - 1 \in Nat /\ Len(frames) - 1 <= Len(frames)
    BY <1>1, <1>3
  <2>2. /\ Len(frames') = Len(frames) - 1
        /\ \A p \in 1..(Len(frames) - 1) : frames'[p] = frames[p]
    BY <1>1, <1>3, <2>1, PrefixOf
  <2>3. i \in 1..Len(frames) <=> i \in 1..(Len(frames) - 1) \/ i = Len(frames)
    BY <1>1, <2>1
  <2>4. i = Len(frames) => ~(j \in 1..Len(frames[i].loops))
    BY <1>3 DEF Top
  <2> QED
    BY <2>1, <2>2, <2>3, <2>4 DEF In
<1> QED
  BY <1>2, <1>3

\* The loops of the innermost frame change.
LEMMA InnerActivations ==
  ASSUME TypeOK, frames # <<>>, NEW ls \in Seq(Hits), frames' = SetTopLoops(ls)
  PROVE  /\ Len(frames) \in Nat \ {0} /\ Len(frames') = Len(frames)
         /\ \A i \in 1..Len(frames) : frames'[i].func = frames[i].func
         /\ \A i \in 1..Len(frames) : i # Len(frames) => frames'[i] = frames[i]
         /\ frames'[Len(frames)].loops = ls
<1>1. frames \in Seq(Frame) /\ Len(frames) \in Nat \ {0}
  BY Activations
<1> DEFINE top == [frames[Len(frames)] EXCEPT !.loops = ls]
<1>2. frames[Len(frames)] \in Frame
  BY <1>1
<1>3. top \in Frame /\ top.func = frames[Len(frames)].func /\ top.loops = ls
  BY <1>2 DEF Frame
<1>4. frames' = [frames EXCEPT ![Len(frames)] = top]
  BY DEF SetTopLoops
<1> HIDE DEF top
<1>5. /\ Len(frames') = Len(frames)
      /\ frames'[Len(frames)] = top
      /\ \A i \in 1..(Len(frames) - 1) : frames'[i] = frames[i]
  BY <1>1, <1>3, <1>4, ReplaceLast
<1>6. \A i \in 1..Len(frames) : i # Len(frames) => i \in 1..(Len(frames) - 1)
  BY <1>1
<1> QED
  BY <1>1, <1>3, <1>5, <1>6

\* The innermost loop is the last activation there is.
LEMMA InnermostActivation ==
  ASSUME TypeOK, frames # <<>>, InnermostLoop # NoLoop
  PROVE  /\ Top.loops \in Seq(Hits) /\ Top.loops # <<>>
         /\ Len(frames) \in Nat \ {0} /\ Len(Top.loops) \in Nat \ {0}
         /\ In(Len(frames), Len(Top.loops))
         /\ LoopAt(Len(frames), Len(Top.loops)) = InnermostLoop
         /\ HitsAt(Len(frames), Len(Top.loops)) = Top.loops[Len(Top.loops)].hits
         /\ \A i, j \in Nat : In(i, j) =>
              \/ i = Len(frames) /\ j = Len(Top.loops)
              \/ Before(i, j, Len(frames), Len(Top.loops))
<1>1. Len(frames) \in Nat \ {0} /\ Top.loops \in Seq(Hits)
  BY Activations DEF Top
<1>2. Top.loops # <<>> /\ Len(Top.loops) \in Nat \ {0}
  BY <1>1 DEF InnermostLoop
<1>3. In(Len(frames), Len(Top.loops))
  BY <1>1, <1>2 DEF In, Top
<1>4. /\ LoopAt(Len(frames), Len(Top.loops)) = InnermostLoop
      /\ HitsAt(Len(frames), Len(Top.loops)) = Top.loops[Len(Top.loops)].hits
  BY <1>2 DEF LoopAt, HitsAt, InnermostLoop, Top
<1>5. ASSUME NEW i \in Nat, NEW j \in Nat, In(i, j)
      PROVE  \/ i = Len(frames) /\ j = Len(Top.loops)
             \/ Before(i, j, Len(frames), Len(Top.loops))
  <2>1. i < Len(frames) \/ i = Len(frames)
    BY <1>1, <1>5 DEF In
  <2>2. i = Len(frames) => j < Len(Top.loops) \/ j = Len(Top.loops)
    BY <1>2, <1>5 DEF In, Top
  <2> QED
    BY <2>1, <2>2 DEF Before
<1> QED
  BY <1>1, <1>2, <1>3, <1>4, <1>5

\* A loop that control comes to from the loop around it is in no activation.
LEMMA LoopIsFresh ==
  ASSUME TypeOK, NEW reach, LoopsDoNotRecur(reach), Nested, Apart(reach), Once,
         frames # <<>>, NEW l \in Loops,
         LoopFunc[l] = Top.func, InnermostLoop = LoopParent[l],
         NEW i \in Nat, NEW j \in Nat, In(i, j)
  PROVE  LoopAt(i, j) # l
<1> DEFINE n == Len(frames)
           m == Len(Top.loops)
<1> SUFFICES ASSUME LoopAt(i, j) = l PROVE FALSE
  OBVIOUS
<1>1. n \in Nat \ {0} /\ Top.loops \in Seq(Hits) /\ m \in Nat /\ i \in 1..n
  BY Activations DEF Top, In
<1>2. LoopFunc[l] = frames[i].func
      /\ LoopParent[l] = (IF j = 1 THEN NoLoop ELSE LoopAt(i, j - 1))
  BY DEF Nested
<1>3. i = n
  <2> SUFFICES ASSUME i # n PROVE FALSE
    OBVIOUS
  <2>1. i < n /\ n \in 1..n /\ frames[i].loops # <<>>
    BY <1>1 DEF In
  <2>2. l \notin reach[frames[n].func]
    BY <1>1, <1>2, <2>1 DEF Apart
  <2>3. l \in reach[LoopFunc[l]]
    BY DEF LoopsDoNotRecur
  <2> QED
    BY <2>2, <2>3 DEF Top
<1>4. j \in 1..m
  BY <1>3 DEF In, Top
<1>5. InnermostLoop = Top.loops[m].loop /\ m # 0
  BY <1>1, <1>4 DEF InnermostLoop
<1>6. InnermostLoop \in Loops
  <2>1. Top.loops[m] \in Hits
    BY <1>1, <1>5
  <2> QED
    BY <1>5, <2>1 DEF Hits
<1>7. j # 1
  BY <1>2, <1>6, NamesAssumption
<1>8. In(n, j - 1) /\ In(n, m) /\ j - 1 \in Nat /\ LoopAt(n, j - 1) = LoopAt(n, m)
  BY <1>1, <1>2, <1>3, <1>4, <1>5, <1>7 DEF In, LoopAt, Top
<1>9. j - 1 = m
  BY <1>1, <1>8 DEF Once
<1> QED
  BY <1>1, <1>4, <1>9

\* The innermost loop can only be the last on the loop stack.
LEMMA InnermostIsOnTop ==
  ASSUME TypeOK, Counted, Ordered, frames # <<>>, InnermostLoop # NoLoop,
         NEW k \in 1..Len(loopStack), loopStack[k].loop = InnermostLoop
  PROVE  k = Len(loopStack)
<1> DEFINE n == Len(frames)
           m == Len(Top.loops)
<1>1. Len(loopStack) \in Nat
  BY DEF TypeOK
<1> SUFFICES ASSUME k < Len(loopStack) PROVE FALSE
  BY <1>1
<1>2. Len(loopStack) \in 1..Len(loopStack)
  BY <1>1
<1>3. PICK p \in Nat, q \in Nat : In(p, q) /\ LoopAt(p, q) = loopStack[Len(loopStack)].loop
  BY <1>2 DEF Counted
<1>4. /\ n \in Nat /\ m \in Nat /\ In(n, m) /\ LoopAt(n, m) = loopStack[k].loop
      /\ (p = n /\ q = m) \/ Before(p, q, n, m)
  BY <1>3, InnermostActivation
<1>5. Before(n, m, p, q)
  BY <1>2, <1>3, <1>4 DEF Ordered
<1> QED
  BY <1>3, <1>4, <1>5 DEF Before

\* A loop begins: one activation more, after all the others.
LEMMA LoopBegins ==
  ASSUME TypeOK, frames # <<>>, NEW l \in Loops,
         NEW n, n = Len(frames), NEW m, m = Len(Top.loops) + 1,
         frames' = SetTopLoops(Append(Top.loops, [loop |-> l, hits |-> 1]))
  PROVE  /\ n \in Nat \ {0} /\ m \in Nat \ {0} /\ In(n, m)'
         /\ LoopAt(n, m)' = l /\ HitsAt(n, m)' = 1
         /\ \A i, j \in Nat :
              /\ In(i, j)' <=> In(i, j) \/ (i = n /\ j = m)
              /\ In(i, j) => /\ Before(i, j, n, m)
                             /\ LoopAt(i, j)' = LoopAt(i, j)
                             /\ HitsAt(i, j)' = HitsAt(i, j)
<1> DEFINE new == [loop |-> l, hits |-> 1]
           ls == Append(Top.loops, new)
<1>1. /\ n \in Nat \ {0} /\ n \in 1..n
      /\ Top.loops \in Seq(Hits) /\ Len(Top.loops) \in Nat
  BY Activations DEF Top
<1>2. new \in Hits /\ new.loop = l /\ new.hits = 1
  BY DEF Hits
<1> HIDE DEF new
<1>3. /\ ls \in Seq(Hits) /\ Len(ls) = m /\ ls[m] = new
      /\ \A j \in 1..Len(Top.loops) : ls[j] = Top.loops[j]
  BY <1>1, <1>2, LastOf
<1>4. frames' = SetTopLoops(ls)
  BY DEF new
<1> HIDE DEF ls
<1>5. /\ Len(frames') = n
      /\ \A i \in 1..n : i # n => frames'[i] = frames[i]
      /\ frames'[n].loops = ls
  BY <1>3, <1>4, InnerActivations
<1>6. \A j \in Nat : j \in 1..m <=> j \in 1..Len(Top.loops) \/ j = m
  BY <1>1
<1>7. m \in Nat \ {0} /\ In(n, m)' /\ LoopAt(n, m)' = l /\ HitsAt(n, m)' = 1
  BY <1>1, <1>2, <1>3, <1>5 DEF In, LoopAt, HitsAt
<1>8. ASSUME NEW i \in Nat, NEW j \in Nat
      PROVE  /\ In(i, j)' <=> In(i, j) \/ (i = n /\ j = m)
             /\ In(i, j) => /\ Before(i, j, n, m)
                            /\ LoopAt(i, j)' = LoopAt(i, j)
                            /\ HitsAt(i, j)' = HitsAt(i, j)
  <2>1. CASE i = n
    <3>1. In(i, j) <=> j \in 1..Len(Top.loops)
      BY <1>1, <2>1 DEF In, Top
    <3>2. In(i, j)' <=> j \in 1..m
      BY <1>1, <1>3, <1>5, <2>1 DEF In
    <3>3. In(i, j) => LoopAt(i, j)' = LoopAt(i, j) /\ HitsAt(i, j)' = HitsAt(i, j)
      BY <1>3, <1>5, <2>1, <3>1 DEF LoopAt, HitsAt, Top
    <3>4. In(i, j) => Before(i, j, n, m)
      BY <1>1, <2>1, <3>1 DEF Before
    <3> QED
      BY <1>6, <2>1, <3>1, <3>2, <3>3, <3>4
  <2>2. CASE i # n
    <3>1. In(i, j) => i \in 1..n /\ i < n
      BY <1>1, <2>2 DEF In
    <3>2. In(i, j)' <=> In(i, j)
      BY <1>1, <1>5, <2>2 DEF In
    <3> QED
      BY <1>5, <2>2, <3>1, <3>2 DEF LoopAt, HitsAt, Before
  <2> QED
    BY <2>1, <2>2
<1> QED
  BY <1>1, <1>7, <1>8

\* The innermost loop repeats: one hit more of the last activation.
LEMMA LoopRepeats ==
  ASSUME TypeOK, frames # <<>>, InnermostLoop # NoLoop,
         NEW n, n = Len(frames), NEW m, m = Len(Top.loops),
         frames' = SetTopLoops([Top.loops EXCEPT ![Len(Top.loops)].hits = @ + 1])
  PROVE  /\ HitsAt(n, m)' = HitsAt(n, m) + 1
         /\ \A i, j \in Nat :
              /\ In(i, j)' <=> In(i, j)
              /\ In(i, j) => /\ LoopAt(i, j)' = LoopAt(i, j)
                             /\ ~(i = n /\ j = m) => HitsAt(i, j)' = HitsAt(i, j)
<1> DEFINE last == Top.loops[m]
           more == [last EXCEPT !.hits = last.hits + 1]
           ls == [Top.loops EXCEPT ![m] = more]
<1>1. /\ n \in Nat \ {0} /\ m \in Nat \ {0} /\ Top.loops \in Seq(Hits) /\ Top.loops # <<>>
      /\ n \in 1..n
  BY InnermostActivation
<1>2. last \in Hits
  BY <1>1
<1>3. more \in Hits /\ more.loop = last.loop /\ more.hits = last.hits + 1
  BY <1>2 DEF Hits
<1>4. frames' = SetTopLoops(ls)
  OBVIOUS
<1> HIDE DEF more
<1>5. /\ ls \in Seq(Hits) /\ Len(ls) = m /\ ls[m] = more
      /\ \A j \in 1..(m - 1) : ls[j] = Top.loops[j]
  BY <1>1, <1>3, ReplaceLast
<1> HIDE DEF ls
<1>6. /\ Len(frames') = n
      /\ \A i \in 1..n : i # n => frames'[i] = frames[i]
      /\ frames'[n].loops = ls
  BY <1>4, <1>5, InnerActivations
<1>7. HitsAt(n, m)' = HitsAt(n, m) + 1
  BY <1>3, <1>5, <1>6 DEF HitsAt, Top
<1>8. ASSUME NEW i \in Nat, NEW j \in Nat
      PROVE  /\ In(i, j)' <=> In(i, j)
             /\ In(i, j) => /\ LoopAt(i, j)' = LoopAt(i, j)
                            /\ ~(i = n /\ j = m) => HitsAt(i, j)' = HitsAt(i, j)
  <2>1. CASE i = n
    <3>1. In(i, j) <=> j \in 1..m
      BY <1>1, <2>1 DEF In, Top
    <3>2. In(i, j)' <=> j \in 1..m
      BY <1>1, <1>5, <1>6, <2>1 DEF In
    <3>3. j \in 1..m => j = m \/ j \in 1..(m - 1)
      BY <1>1
    <3>4. j \in 1..(m - 1) => LoopAt(i, j)' = LoopAt(i, j) /\ HitsAt(i, j)' = HitsAt(i, j)
      BY <1>5, <1>6, <2>1 DEF LoopAt, HitsAt, Top
    <3>5. j = m => LoopAt(i, j)' = LoopAt(i, j)
      BY <1>3, <1>5, <1>6, <2>1 DEF LoopAt, Top
    <3> QED
      BY <2>1, <3>1, <3>2, <3>3, <3>4, <3>5
  <2>2. CASE i # n
    <3>1. In(i, j)' <=> In(i, j)
      BY <1>1, <1>6, <2>2 DEF In
    <3>2. In(i, j) => i \in 1..n
      BY DEF In
    <3> QED
      BY <1>6, <2>2, <3>1, <3>2 DEF LoopAt, HitsAt
  <2> QED
    BY <2>1, <2>2
<1> QED
  BY <1>7, <1>8

\* Control leaves the innermost loop: the last activation is gone.
LEMMA LoopEnds ==
  ASSUME TypeOK, frames # <<>>, InnermostLoop # NoLoop,
         frames' = SetTopLoops(SubSeq(Top.loops, 1, Len(Top.loops) - 1))
  PROVE  \A i, j \in Nat :
           /\ In(i, j)' <=> In(i, j) /\ ~(i = Len(frames) /\ j = Len(Top.loops))
           /\ In(i, j)' => LoopAt(i, j)' = LoopAt(i, j) /\ HitsAt(i, j)' = HitsAt(i, j)
<1> DEFINE n == Len(frames)
           m == Len(Top.loops)
           ls == SubSeq(Top.loops, 1, m - 1)
<1>1. /\ n \in Nat \ {0} /\ m \in Nat \ {0} /\ Top.loops \in Seq(Hits)
      /\ n \in 1..n /\ m - 1 \in Nat /\ m - 1 <= m
  BY InnermostActivation
<1>2. /\ ls \in Seq(Hits) /\ Len(ls) = m - 1
      /\ \A j \in 1..(m - 1) : ls[j] = Top.loops[j]
  BY <1>1, PrefixOf
<1>3. frames' = SetTopLoops(ls)
  OBVIOUS
<1> HIDE DEF ls
<1>4. /\ Len(frames') = n
      /\ \A i \in 1..n : i # n => frames'[i] = frames[i]
      /\ frames'[n].loops = ls
  BY <1>2, <1>3, InnerActivations
<1> SUFFICES ASSUME NEW i \in Nat, NEW j \in Nat
             PROVE  /\ In(i, j)' <=> In(i, j) /\ ~(i = n /\ j = m)
                    /\ In(i, j)' => LoopAt(i, j)' = LoopAt(i, j) /\ HitsAt(i, j)' = HitsAt(i, j)
  OBVIOUS
<1>5. CASE i = n
  <2>1. In(i, j) <=> j \in 1..m
    BY <1>1, <1>5 DEF In, Top
  <2>2. In(i, j)' <=> j \in 1..(m - 1)
    BY <1>1, <1>2, <1>4, <1>5 DEF In
  <2>3. j \in 1..(m - 1) <=> j \in 1..m /\ j # m
    BY <1>1
  <2>4. In(i, j)' => LoopAt(i, j)' = LoopAt(i, j) /\ HitsAt(i, j)' = HitsAt(i, j)
    BY <1>2, <1>4, <1>5, <2>2 DEF LoopAt, HitsAt, Top
  <2> QED
    BY <1>5, <2>1, <2>2, <2>3, <2>4
<1>6. CASE i # n
  <2>1. In(i, j)' <=> In(i, j)
    BY <1>1, <1>4, <1>6 DEF In
  <2>2. In(i, j) => i \in 1..n
    BY DEF In
  <2> QED
    BY <1>4, <1>6, <2>1, <2>2 DEF LoopAt, HitsAt
<1> QED
  BY <1>5, <1>6

-----------------------------------------------------------------------------
(* The loop stack follows the activations.                                  *)

\* A step that leaves the activations and the loop stack alone.
LEMMA TrackedOuter ==
  ASSUME Nested, Once, Counted, Ordered, Complete, UNCHANGED loopStack,
         \A i, j \in Nat : /\ In(i, j)' <=> In(i, j)
                           /\ In(i, j) => /\ LoopAt(i, j)' = LoopAt(i, j)
                                          /\ HitsAt(i, j)' = HitsAt(i, j)
                                          /\ frames'[i] = frames[i]
  PROVE  Nested' /\ Once' /\ Counted' /\ Ordered' /\ Complete'
<1>1. Nested'
  <2> SUFFICES ASSUME NEW i \in Nat, NEW j \in Nat, In(i, j)'
               PROVE  /\ LoopFunc[LoopAt(i, j)'] = frames'[i].func
                      /\ LoopParent[LoopAt(i, j)']
                           = IF j = 1 THEN NoLoop ELSE LoopAt(i, j - 1)'
    BY DEF Nested
  <2>1. In(i, j) /\ frames'[i] = frames[i] /\ LoopAt(i, j)' = LoopAt(i, j)
    OBVIOUS
  <2>2. LoopAt(i, j - 1)' = LoopAt(i, j - 1)
    BY <2>1 DEF LoopAt
  <2> QED
    BY <2>1, <2>2 DEF Nested
<1>2. Once'
  <2> SUFFICES ASSUME NEW i \in Nat, NEW j \in Nat, NEW p \in Nat, NEW q \in Nat,
                      In(i, j)', In(p, q)', LoopAt(i, j)' = LoopAt(p, q)'
               PROVE  i = p /\ j = q
    BY DEF Once
  <2> QED
    BY DEF Once
<1>3. Counted'
  <2> SUFFICES ASSUME NEW k \in 1..Len(loopStack)
               PROVE  \E i, j \in Nat : /\ In(i, j)' /\ LoopAt(i, j)' = loopStack[k].loop
                                        /\ HitsAt(i, j)' = loopStack[k].count
    BY DEF Counted
  <2>1. PICK i \in Nat, j \in Nat : /\ In(i, j) /\ LoopAt(i, j) = loopStack[k].loop
                                    /\ HitsAt(i, j) = loopStack[k].count
    BY DEF Counted
  <2> QED
    BY <2>1
<1>4. Ordered'
  <2> SUFFICES ASSUME NEW k \in 1..Len(loopStack), NEW m \in 1..Len(loopStack), k < m,
                      NEW i \in Nat, NEW j \in Nat, NEW p \in Nat, NEW q \in Nat,
                      In(i, j)', LoopAt(i, j)' = loopStack[k].loop,
                      In(p, q)', LoopAt(p, q)' = loopStack[m].loop
               PROVE  Before(i, j, p, q)
    BY SMTT(20) DEF Ordered, Before
  <2> QED
    BY DEF Ordered
<1>5. Complete'
  <2> SUFFICES ASSUME NEW i \in Nat, NEW j \in Nat, In(i, j)'
               PROVE  \/ \E k \in 1..Len(loopStack) : loopStack[k].loop = LoopAt(i, j)'
                      \/ /\ ExceedLoopLimit
                         /\ \E p, q \in Nat : /\ In(p, q)' /\ LoopAt(p, q)' = LoopTop.loop
                                              /\ Before(p, q, i, j)
    BY DEF Complete, ExceedLoopLimit, LoopTop, Before
  <2> QED
    BY DEF Complete
<1> QED
  BY <1>1, <1>2, <1>3, <1>4, <1>5

\* loop_entry for a header that is reached from the loop around it.
LEMMA TrackedBegins ==
  ASSUME TypeOK, NEW reach, LoopsDoNotRecur(reach), LoopsTracked(reach),
         frames # <<>>, NEW l \in Loops, LoopFunc[l] = Top.func,
         InnermostLoop = LoopParent[l],
         frames' = SetTopLoops(Append(Top.loops, [loop |-> l, hits |-> 1])),
         LoopEntry(l)
  PROVE  Once' /\ Counted' /\ Ordered' /\ Complete'
<1> USE DEF LoopsTracked
<1>1. PICK n, m : n = Len(frames) /\ m = Len(Top.loops) + 1
  OBVIOUS
<1>2. /\ n \in Nat \ {0} /\ m \in Nat \ {0} /\ In(n, m)'
      /\ LoopAt(n, m)' = l /\ HitsAt(n, m)' = 1
      /\ \A i, j \in Nat :
           /\ In(i, j)' <=> In(i, j) \/ (i = n /\ j = m)
           /\ In(i, j) => /\ Before(i, j, n, m)
                          /\ LoopAt(i, j)' = LoopAt(i, j)
                          /\ HitsAt(i, j)' = HitsAt(i, j)
  BY <1>1, LoopBegins
<1>3. \A i, j \in Nat : In(i, j) => LoopAt(i, j) # l
  BY LoopIsFresh
<1>4. loopStack \in Seq(LoopCount) /\ Len(loopStack) \in Nat
  BY DEF TypeOK, LoopCount
<1>5. \A k \in 1..Len(loopStack) : loopStack[k].loop # l
  BY <1>3 DEF Counted
<1>6. loopStack # <<>> => LoopTop.loop # l
  BY <1>4, <1>5 DEF LoopTop
<1>7. \A i, j, p, q \in Nat :
        In(i, j)' /\ In(p, q)' /\ LoopAt(i, j)' = LoopAt(p, q)' => i = p /\ j = q
  BY <1>2, <1>3 DEF Once
<1>8. Once'
  BY <1>7 DEF Once
<1>9. CASE PushLoop(l) /\ ~ExceedLoopLimit
  <2> DEFINE new == [loop |-> l, count |-> 1]
             N == Len(loopStack)
  <2>0. loopStack' = Append(loopStack, new)
    BY <1>9 DEF PushLoop
  <2>1. new \in LoopCount /\ new.loop = l /\ new.count = 1
    BY DEF LoopCount
  <2> HIDE DEF new
  <2>2. /\ Len(loopStack') = N + 1 /\ loopStack'[N + 1].loop = l /\ loopStack'[N + 1].count = 1
        /\ \A k \in 1..N : loopStack'[k] = loopStack[k]
    BY <1>4, <2>0, <2>1, LastOf
  <2>3. \A k \in 1..(N + 1) : k \in 1..N \/ k = N + 1
    BY <1>4
  <2>4. Counted'
    <3> SUFFICES ASSUME NEW k \in 1..(N + 1)
                 PROVE  \E i, j \in Nat : /\ In(i, j)' /\ LoopAt(i, j)' = loopStack'[k].loop
                                          /\ HitsAt(i, j)' = loopStack'[k].count
      BY <2>2 DEF Counted
    <3>1. CASE k = N + 1
      BY <1>2, <2>2, <3>1
    <3>2. CASE k \in 1..N
      <4>1. PICK i \in Nat, j \in Nat : /\ In(i, j) /\ LoopAt(i, j) = loopStack[k].loop
                                        /\ HitsAt(i, j) = loopStack[k].count
        BY <3>2 DEF Counted
      <4> QED
        BY <1>2, <2>2, <3>2, <4>1
    <3> QED
      BY <2>3, <3>1, <3>2
  <2>5. Ordered'
    <3> SUFFICES ASSUME NEW k \in 1..(N + 1), NEW x \in 1..(N + 1), k < x,
                        NEW i \in Nat, NEW j \in Nat, NEW p \in Nat, NEW q \in Nat,
                        In(i, j)', LoopAt(i, j)' = loopStack'[k].loop,
                        In(p, q)', LoopAt(p, q)' = loopStack'[x].loop
                 PROVE  Before(i, j, p, q)
      BY <2>2 DEF Ordered, Before
    <3>1. k \in 1..N /\ loopStack'[k] = loopStack[k]
      BY <1>4, <2>2, <2>3
    <3>2. In(i, j) /\ LoopAt(i, j) = loopStack[k].loop
      BY <1>2, <1>5, <3>1
    <3>3. CASE x = N + 1
      <4>1. p = n /\ q = m
        BY <1>2, <1>3, <2>2, <3>3
      <4> QED
        BY <1>2, <3>2, <4>1
    <3>4. CASE x \in 1..N
      <4>1. In(p, q) /\ LoopAt(p, q) = loopStack[x].loop
        BY <1>2, <1>5, <2>2, <3>4
      <4> QED
        BY <3>1, <3>2, <3>4, <4>1 DEF Ordered
    <3> QED
      BY <2>3, <3>3, <3>4
  <2>6. Complete'
    <3> SUFFICES ASSUME NEW i \in Nat, NEW j \in Nat, In(i, j)'
                 PROVE  \E k \in 1..(N + 1) : loopStack'[k].loop = LoopAt(i, j)'
      BY <2>2 DEF Complete
    <3>1. CASE i = n /\ j = m
      BY <1>2, <1>4, <2>2, <3>1
    <3>2. CASE In(i, j)
      <4>1. PICK k \in 1..N : loopStack[k].loop = LoopAt(i, j)
        BY <1>9, <3>2 DEF Complete
      <4>2. k \in 1..(N + 1)
        BY <1>4
      <4> QED
        BY <1>2, <2>2, <3>2, <4>1, <4>2
    <3> QED
      BY <1>2, <3>1, <3>2
  <2> QED
    BY <1>8, <2>4, <2>5, <2>6
<1>10. CASE UNCHANGED loopStack /\ loopStack # <<>> /\ ExceedLoopLimit
  <2>1. Counted'
    <3> SUFFICES ASSUME NEW k \in 1..Len(loopStack)
                 PROVE  \E i, j \in Nat : /\ In(i, j)' /\ LoopAt(i, j)' = loopStack[k].loop
                                          /\ HitsAt(i, j)' = loopStack[k].count
      BY <1>10 DEF Counted
    <3>1. PICK i \in Nat, j \in Nat : /\ In(i, j) /\ LoopAt(i, j) = loopStack[k].loop
                                      /\ HitsAt(i, j) = loopStack[k].count
      BY DEF Counted
    <3> QED
      BY <1>2, <3>1
  <2>2. Ordered'
    <3> SUFFICES ASSUME NEW k \in 1..Len(loopStack), NEW x \in 1..Len(loopStack), k < x,
                        NEW i \in Nat, NEW j \in Nat, NEW p \in Nat, NEW q \in Nat,
                        In(i, j)', LoopAt(i, j)' = loopStack[k].loop,
                        In(p, q)', LoopAt(p, q)' = loopStack[x].loop
                 PROVE  Before(i, j, p, q)
      BY <1>10, SMTT(20) DEF Ordered, Before
    <3>1. /\ In(i, j) /\ LoopAt(i, j) = loopStack[k].loop
          /\ In(p, q) /\ LoopAt(p, q) = loopStack[x].loop
      BY <1>2, <1>5
    <3> QED
      BY <3>1 DEF Ordered
  <2>3. Complete'
    <3> SUFFICES ASSUME NEW i \in Nat, NEW j \in Nat, In(i, j)'
                 PROVE  \/ \E k \in 1..Len(loopStack) : loopStack[k].loop = LoopAt(i, j)'
                        \/ /\ ExceedLoopLimit
                           /\ \E p, q \in Nat : /\ In(p, q)' /\ LoopAt(p, q)' = LoopTop.loop
                                                /\ Before(p, q, i, j)
      BY <1>10 DEF Complete, ExceedLoopLimit, LoopTop, Before
    <3>1. CASE i = n /\ j = m
      <4>1. Len(loopStack) \in 1..Len(loopStack)
        BY <1>4, <1>10
      <4>2. PICK p \in Nat, q \in Nat : In(p, q) /\ LoopAt(p, q) = LoopTop.loop
        BY <4>1 DEF Counted, LoopTop
      <4> QED
        BY <1>2, <1>10, <3>1, <4>2
    <3>2. CASE In(i, j)
      <4>1. CASE \E k \in 1..Len(loopStack) : loopStack[k].loop = LoopAt(i, j)
        BY <1>2, <3>2, <4>1
      <4>2. ASSUME NEW p \in Nat, NEW q \in Nat, In(p, q), LoopAt(p, q) = LoopTop.loop,
                   Before(p, q, i, j)
            PROVE  In(p, q)' /\ LoopAt(p, q)' = LoopTop.loop /\ Before(p, q, i, j)
        BY <1>2, <4>2
      <4> QED
        BY <1>10, <3>2, <4>1, <4>2 DEF Complete
    <3> QED
      BY <1>2, <3>1, <3>2
  <2> QED
    BY <1>8, <2>1, <2>2, <2>3
<1>11. loopStack # <<>> => (ExceedLoopLimit <=> LoopTop.count > LOOP_LIMIT)
  BY DEF ExceedLoopLimit, LoopTop
<1> QED
  BY <1>6, <1>9, <1>10, <1>11 DEF LoopEntry, ExceedLoopLimit

\* loop_entry for a header that is reached once more.
LEMMA TrackedRepeats ==
  ASSUME TypeOK, NEW reach, LoopsTracked(reach),
         frames # <<>>, NEW l \in Loops, InnermostLoop = l,
         frames' = SetTopLoops([Top.loops EXCEPT ![Len(Top.loops)].hits = @ + 1]),
         LoopEntry(l)
  PROVE  Once' /\ Counted' /\ Ordered' /\ Complete'
<1> USE DEF LoopsTracked
<1> DEFINE N == Len(loopStack)
<1>1. PICK n, m : n = Len(frames) /\ m = Len(Top.loops)
  OBVIOUS
<1>0. InnermostLoop # NoLoop
  BY NamesAssumption
<1>2. /\ n \in Nat /\ m \in Nat /\ In(n, m) /\ LoopAt(n, m) = l
      /\ \A i, j \in Nat : In(i, j) => (i = n /\ j = m) \/ Before(i, j, n, m)
  BY <1>0, <1>1, InnermostActivation
<1>3. /\ HitsAt(n, m)' = HitsAt(n, m) + 1
      /\ \A i, j \in Nat :
           /\ In(i, j)' <=> In(i, j)
           /\ In(i, j) => /\ LoopAt(i, j)' = LoopAt(i, j)
                          /\ ~(i = n /\ j = m) => HitsAt(i, j)' = HitsAt(i, j)
  BY <1>0, <1>1, LoopRepeats
<1>4. loopStack \in Seq(LoopCount) /\ N \in Nat
  BY DEF TypeOK, LoopCount
<1>5. \A k \in 1..N : loopStack[k].loop = l => k = N
  BY <1>0, InnermostIsOnTop
<1>6. loopStack # <<>> /\ (LoopTop.loop = l \/ ExceedLoopLimit)
  BY <1>2, <1>4, <1>5 DEF Complete, LoopTop, ExceedLoopLimit
<1>7. N \in 1..N
  BY <1>4, <1>6
<1>8. Once'
  <2> SUFFICES ASSUME NEW i \in Nat, NEW j \in Nat, NEW p \in Nat, NEW q \in Nat,
                      In(i, j)', In(p, q)', LoopAt(i, j)' = LoopAt(p, q)'
               PROVE  i = p /\ j = q
    BY DEF Once
  <2> QED
    BY <1>3 DEF Once
<1>9. ASSUME Len(loopStack') = N, \A k \in 1..N : loopStack'[k].loop = loopStack[k].loop
      PROVE  Ordered'
  <2> SUFFICES ASSUME NEW k \in 1..N, NEW x \in 1..N, k < x,
                      NEW i \in Nat, NEW j \in Nat, NEW p \in Nat, NEW q \in Nat,
                      In(i, j)', LoopAt(i, j)' = loopStack'[k].loop,
                      In(p, q)', LoopAt(p, q)' = loopStack'[x].loop
               PROVE  Before(i, j, p, q)
    BY <1>9 DEF Ordered, Before
  <2>1. /\ In(i, j) /\ LoopAt(i, j) = loopStack[k].loop
        /\ In(p, q) /\ LoopAt(p, q) = loopStack[x].loop
    BY <1>3, <1>9
  <2> QED
    BY <2>1 DEF Ordered
<1>10. ASSUME Len(loopStack') = N, \A k \in 1..N : loopStack'[k].loop = loopStack[k].loop,
              ExceedLoopLimit => ExceedLoopLimit'
       PROVE  Complete'
  <2>1. LoopTop'.loop = LoopTop.loop
    BY <1>7, <1>10 DEF LoopTop
  <2> SUFFICES ASSUME NEW i \in Nat, NEW j \in Nat, In(i, j)'
               PROVE  \/ \E k \in 1..N : loopStack'[k].loop = LoopAt(i, j)'
                      \/ /\ ExceedLoopLimit'
                         /\ \E p, q \in Nat : /\ In(p, q)' /\ LoopAt(p, q)' = LoopTop'.loop
                                              /\ Before(p, q, i, j)
    BY <1>10 DEF Complete, Before
  <2>2. In(i, j) /\ LoopAt(i, j)' = LoopAt(i, j)
    BY <1>3
  <2>3. CASE \E k \in 1..N : loopStack[k].loop = LoopAt(i, j)
    BY <1>10, <2>2, <2>3
  <2>4. ASSUME ExceedLoopLimit,
               NEW p \in Nat, NEW q \in Nat, In(p, q), LoopAt(p, q) = LoopTop.loop,
               Before(p, q, i, j)
        PROVE  /\ ExceedLoopLimit'
               /\ In(p, q)' /\ LoopAt(p, q)' = LoopTop'.loop /\ Before(p, q, i, j)
    BY <1>3, <1>10, <2>1, <2>4
  <2> QED
    BY <2>2, <2>3, <2>4 DEF Complete
<1>11. ASSUME NEW k \in 1..N, loopStack[k].loop # l
       PROVE  \E i, j \in Nat : /\ In(i, j)' /\ LoopAt(i, j)' = loopStack[k].loop
                                /\ HitsAt(i, j)' = loopStack[k].count
  <2>1. PICK i \in Nat, j \in Nat : /\ In(i, j) /\ LoopAt(i, j) = loopStack[k].loop
                                    /\ HitsAt(i, j) = loopStack[k].count
    BY DEF Counted
  <2> QED
    BY <1>2, <1>3, <1>11, <2>1
<1>12. CASE LoopTop.loop = l
  <2> DEFINE more == [LoopTop EXCEPT !.count = LoopTop.count + 1]
  <2>1. loopStack' = [loopStack EXCEPT ![N] = more]
    BY <1>6, <1>12 DEF LoopEntry, CountLoop, LoopTop
  <2>2. LoopTop \in LoopCount
    BY <1>4, <1>6, LastOf DEF LoopTop
  <2>3. more \in LoopCount /\ more.loop = l /\ more.count = LoopTop.count + 1
    BY <1>12, <2>2 DEF LoopCount
  <2> HIDE DEF more
  <2>4. /\ Len(loopStack') = N /\ loopStack'[N] = more
        /\ \A k \in 1..(N - 1) : loopStack'[k] = loopStack[k]
    BY <1>4, <1>6, <2>1, <2>3, ReplaceLast
  <2>5. \A k \in 1..N : k = N \/ k \in 1..(N - 1)
    BY <1>4
  <2>6. \A k \in 1..N : loopStack'[k].loop = loopStack[k].loop
    BY <1>12, <2>3, <2>4, <2>5 DEF LoopTop
  <2>7. ExceedLoopLimit => ExceedLoopLimit'
    <3>1. LoopTop.count \in Nat /\ LOOP_LIMIT \in Nat
      BY <2>2, LimitAssumption DEF LoopCount
    <3>2. ExceedLoopLimit => LoopTop.count > LOOP_LIMIT
      BY DEF ExceedLoopLimit, LoopTop
    <3>3. loopStack' # <<>> /\ loopStack'[Len(loopStack')].count = LoopTop.count + 1
      BY <1>7, <2>3, <2>4
    <3> QED
      BY <3>1, <3>2, <3>3 DEF ExceedLoopLimit
  <2>8. Counted'
    <3> SUFFICES ASSUME NEW k \in 1..N
                 PROVE  \E i, j \in Nat : /\ In(i, j)' /\ LoopAt(i, j)' = loopStack'[k].loop
                                          /\ HitsAt(i, j)' = loopStack'[k].count
      BY <2>4 DEF Counted
    <3>1. CASE k = N
      <4>1. PICK i \in Nat, j \in Nat : /\ In(i, j) /\ LoopAt(i, j) = LoopTop.loop
                                        /\ HitsAt(i, j) = LoopTop.count
        BY <1>7 DEF Counted, LoopTop
      <4>2. i = n /\ j = m
        BY <1>2, <1>12, <4>1 DEF Once
      <4> QED
        BY <1>2, <1>3, <2>3, <2>4, <3>1, <4>1, <4>2
    <3>2. CASE k \in 1..(N - 1)
      <4>1. loopStack[k].loop # l /\ loopStack'[k] = loopStack[k]
        BY <1>4, <1>5, <2>4, <3>2
      <4> QED
        BY <1>11, <4>1
    <3> QED
      BY <2>5, <3>1, <3>2
  <2> QED
    BY <1>8, <1>9, <1>10, <2>4, <2>6, <2>7, <2>8
<1>13. CASE LoopTop.loop # l
  <2>1. UNCHANGED loopStack
    <3>1. LoopTop.count > LOOP_LIMIT
      BY <1>6, <1>13 DEF ExceedLoopLimit, LoopTop
    <3> QED
      BY <1>6, <1>13, <3>1 DEF LoopEntry
  <2>2. Counted'
    <3>1. \A k \in 1..N : loopStack[k].loop # l
      BY <1>5, <1>13 DEF LoopTop
    <3> QED
      BY <1>11, <2>1, <3>1 DEF Counted
  <2> QED
    BY <1>8, <1>9, <1>10, <2>1, <2>2 DEF ExceedLoopLimit
<1> QED
  BY <1>12, <1>13

\* loop_end for the loop that control leaves.
LEMMA TrackedEnds ==
  ASSUME TypeOK, NEW reach, LoopsTracked(reach),
         frames # <<>>, NEW l \in Loops, InnermostLoop = l,
         frames' = SetTopLoops(SubSeq(Top.loops, 1, Len(Top.loops) - 1)),
         LoopEnd(l, ExitEdges[l])
  PROVE  Once' /\ Counted' /\ Ordered' /\ Complete'
<1> USE DEF LoopsTracked
<1> DEFINE N == Len(loopStack)
<1>1. PICK n, m : n = Len(frames) /\ m = Len(Top.loops)
  OBVIOUS
<1>0. InnermostLoop # NoLoop
  BY NamesAssumption
<1>2. /\ n \in Nat /\ m \in Nat /\ In(n, m) /\ LoopAt(n, m) = l
      /\ \A i, j \in Nat : In(i, j) => (i = n /\ j = m) \/ Before(i, j, n, m)
  BY <1>0, <1>1, InnermostActivation
<1>3. \A i, j \in Nat :
        /\ In(i, j)' <=> In(i, j) /\ ~(i = n /\ j = m)
        /\ In(i, j)' => LoopAt(i, j)' = LoopAt(i, j) /\ HitsAt(i, j)' = HitsAt(i, j)
  BY <1>0, <1>1, LoopEnds
<1>4. loopStack \in Seq(LoopCount) /\ N \in Nat
  BY DEF TypeOK, LoopCount
<1>5. \A k \in 1..N : loopStack[k].loop = l => k = N
  BY <1>0, InnermostIsOnTop
<1>6. \A i, j \in Nat : In(i, j) => (LoopAt(i, j) # l <=> ~(i = n /\ j = m))
  BY <1>2 DEF Once
<1>7. Once'
  <2> SUFFICES ASSUME NEW i \in Nat, NEW j \in Nat, NEW p \in Nat, NEW q \in Nat,
                      In(i, j)', In(p, q)', LoopAt(i, j)' = LoopAt(p, q)'
               PROVE  i = p /\ j = q
    BY DEF Once
  <2> QED
    BY <1>3 DEF Once
<1>8. PICK K \in Nat :
        /\ K <= N /\ Len(loopStack') = K
        /\ \A k \in 1..K : k \in 1..N /\ loopStack'[k] = loopStack[k] /\ loopStack[k].loop # l
        /\ \A k \in 1..N : k \in 1..K \/ loopStack[k].loop = l
        /\ (K = N /\ UNCHANGED loopStack) \/ (N # 0 /\ LoopTop.loop = l)
  <2>1. CASE loopStack # <<>> /\ LoopTop.loop = l
    <3>0. loopStack' = SubSeq(loopStack, 1, N - 1)
      BY <2>1 DEF LoopEnd
    <3>1. N # 0 /\ N - 1 \in Nat /\ N - 1 <= N
      BY <1>4, <2>1
    <3>2. Len(loopStack') = N - 1 /\ \A k \in 1..(N - 1) : loopStack'[k] = loopStack[k]
      BY <1>4, <3>0, <3>1, PrefixOf
    <3>3. \A k \in 1..(N - 1) : k \in 1..N /\ k # N
      BY <1>4
    <3>4. \A k \in 1..N : k \in 1..(N - 1) \/ k = N
      BY <1>4
    <3>5. \A k \in 1..N : k \in 1..(N - 1) \/ loopStack[k].loop = l
      BY <2>1, <3>4 DEF LoopTop
    <3>6. \A k \in 1..(N - 1) :
            k \in 1..N /\ loopStack'[k] = loopStack[k] /\ loopStack[k].loop # l
      BY <1>5, <3>2, <3>3
    <3>7. N # 0 /\ LoopTop.loop = l
      BY <2>1, <3>1
    <3> QED
      BY <3>1, <3>2, <3>5, <3>6, <3>7
  <2>2. CASE ~(loopStack # <<>> /\ LoopTop.loop = l)
    <3>1. UNCHANGED loopStack
      BY <2>2 DEF LoopEnd
    <3>2. \A k \in 1..N : loopStack[k].loop # l
      BY <1>4, <1>5, <2>2 DEF LoopTop
    <3> QED
      BY <1>4, <3>1, <3>2
  <2> QED
    BY <2>1, <2>2
<1>9. Counted'
  <2> SUFFICES ASSUME NEW k \in 1..K
               PROVE  \E i, j \in Nat : /\ In(i, j)' /\ LoopAt(i, j)' = loopStack'[k].loop
                                        /\ HitsAt(i, j)' = loopStack'[k].count
    BY <1>8 DEF Counted
  <2>1. PICK i \in Nat, j \in Nat : /\ In(i, j) /\ LoopAt(i, j) = loopStack[k].loop
                                    /\ HitsAt(i, j) = loopStack[k].count
    BY <1>8 DEF Counted
  <2>2. In(i, j)'
    BY <1>3, <1>6, <1>8, <2>1
  <2> QED
    BY <1>3, <1>8, <2>1, <2>2
<1>10. Ordered'
  <2> SUFFICES ASSUME NEW k \in 1..K, NEW x \in 1..K, k < x,
                      NEW i \in Nat, NEW j \in Nat, NEW p \in Nat, NEW q \in Nat,
                      In(i, j)', LoopAt(i, j)' = loopStack'[k].loop,
                      In(p, q)', LoopAt(p, q)' = loopStack'[x].loop
               PROVE  Before(i, j, p, q)
    BY <1>8, ZenonT(40) DEF Ordered, Before
  <2>1. /\ In(i, j) /\ LoopAt(i, j) = loopStack[k].loop /\ k \in 1..N
        /\ In(p, q) /\ LoopAt(p, q) = loopStack[x].loop /\ x \in 1..N
    BY <1>3, <1>8
  <2> QED
    BY <2>1 DEF Ordered
<1>11. Complete'
  <2> SUFFICES ASSUME NEW i \in Nat, NEW j \in Nat, In(i, j)'
               PROVE  \/ \E k \in 1..K : loopStack'[k].loop = LoopAt(i, j)'
                      \/ /\ ExceedLoopLimit'
                         /\ \E p, q \in Nat : /\ In(p, q)' /\ LoopAt(p, q)' = LoopTop'.loop
                                              /\ Before(p, q, i, j)
    BY <1>8 DEF Complete, Before
  <2>1. In(i, j) /\ LoopAt(i, j)' = LoopAt(i, j) /\ LoopAt(i, j) # l
    BY <1>3, <1>6
  <2>2. CASE \E k \in 1..N : loopStack[k].loop = LoopAt(i, j)
    BY <1>8, <2>1, <2>2
  <2>3. ASSUME ExceedLoopLimit,
               NEW p \in Nat, NEW q \in Nat, In(p, q), LoopAt(p, q) = LoopTop.loop,
               Before(p, q, i, j)
        PROVE  /\ ExceedLoopLimit'
               /\ In(p, q)' /\ LoopAt(p, q)' = LoopTop'.loop
    <3>1. ~(p = n /\ q = m)
      <4>1. SUFFICES ASSUME p = n, q = m PROVE FALSE
        OBVIOUS
      <4>2. (i = n /\ j = m) \/ Before(i, j, n, m)
        BY <1>2, <2>1
      <4> QED
        BY <1>2, <2>3, <4>1, <4>2 DEF Before
    <3>2. LoopTop.loop # l
      BY <1>6, <2>3, <3>1
    <3>3. UNCHANGED loopStack
      BY <1>8, <3>2
    <3> QED
      BY <1>3, <2>3, <3>1, <3>3 DEF ExceedLoopLimit, LoopTop
  <2> QED
    BY <2>1, <2>2, <2>3 DEF Complete
<1> QED
  BY <1>7, <1>9, <1>10, <1>11

\* A new list of loops in the innermost frame says nothing of the frames above
\* the others.
LEMMA ApartInner ==
  ASSUME TypeOK, NEW reach, Apart(reach), frames # <<>>,
         NEW ls \in Seq(Hits), frames' = SetTopLoops(ls)
  PROVE  Apart(reach)'
<1>1. /\ Len(frames) \in Nat \ {0} /\ Len(frames') = Len(frames)
      /\ \A i \in 1..Len(frames) : frames'[i].func = frames[i].func
      /\ \A i \in 1..Len(frames) : i # Len(frames) => frames'[i] = frames[i]
  BY InnerActivations
<1> SUFFICES ASSUME NEW i \in 1..Len(frames), NEW k \in 1..Len(frames), i < k,
                    frames'[i].loops # <<>>,
                    NEW l \in Loops, LoopFunc[l] = frames'[i].func
             PROVE  l \notin reach[frames'[k].func]
  BY <1>1 DEF Apart
<1>2. frames'[i] = frames[i]
  BY <1>1
<1> QED
  BY <1>1, <1>2 DEF Apart

\* A call keeps the frames apart: what it can come to, its caller could.
LEMMA ApartCall ==
  ASSUME TypeOK, NEW reach, LoopsDoNotRecur(reach), Apart(reach), NEW g \in Funcs,
         frames # <<>> => <<Top.func, InnermostLoop, g>> \in CallSites,
         frames' = Append(frames, [func |-> g, loops |-> <<>>])
  PROVE  Apart(reach)'
<1> DEFINE n == Len(frames)
           new == [func |-> g, loops |-> <<>>]
<1>1. frames \in Seq(Frame) /\ n \in Nat
  BY Activations
<1>2. new \in Frame /\ new.func = g
  BY DEF Frame
<1> HIDE DEF new
<1>3. /\ Len(frames') = n + 1 /\ frames'[n + 1] = new
      /\ \A i \in 1..n : frames'[i] = frames[i]
  BY <1>1, <1>2, LastOf DEF new
<1> SUFFICES ASSUME NEW i \in 1..(n + 1), NEW k \in 1..(n + 1), i < k,
                    frames'[i].loops # <<>>,
                    NEW l \in Loops, LoopFunc[l] = frames'[i].func
             PROVE  l \notin reach[frames'[k].func]
  BY <1>3 DEF Apart
<1>4. i \in 1..n /\ frames'[i] = frames[i] /\ n # 0 /\ n \in 1..n
  BY <1>1, <1>3
<1>5. CASE k \in 1..n
  BY <1>3, <1>4, <1>5 DEF Apart
<1>6. CASE k = n + 1
  <2> DEFINE s == <<Top.func, InnermostLoop, g>>
  <2>1. s \in CallSites /\ s[1] = Top.func /\ s[2] = InnermostLoop /\ s[3] = g
    BY <1>1, <1>4
  <2> HIDE DEF s
  <2>2. reach[g] \subseteq reach[Top.func]
        /\ (InnermostLoop # NoLoop => \A x \in Loops : LoopFunc[x] = Top.func => x \notin reach[g])
    BY <2>1 DEF LoopsDoNotRecur
  <2>3. CASE i < n
    <3>1. l \notin reach[Top.func]
      BY <1>4, <2>3 DEF Apart, Top
    <3> QED
      BY <1>2, <1>3, <1>6, <2>2, <3>1
  <2>4. CASE i = n
    <3>1. Top.loops \in Seq(Hits) /\ Top.loops # <<>>
      BY <1>4, <2>4, Activations DEF Top
    <3>2. InnermostLoop \in Loops
      <4>1. Top.loops[Len(Top.loops)] \in Hits
        BY <3>1
      <4> QED
        BY <3>1, <4>1 DEF InnermostLoop, Hits
    <3>3. LoopFunc[l] = Top.func
      BY <1>4, <2>4 DEF Top
    <3> QED
      BY <1>2, <1>3, <1>6, <2>2, <3>2, <3>3, NamesAssumption
  <2> QED
    BY <1>1, <1>4, <2>3, <2>4
<1>7. k \in 1..n \/ k = n + 1
  BY <1>1
<1> QED
  BY <1>5, <1>6, <1>7

\* A return keeps the frames that stay apart.
LEMMA ApartReturn ==
  ASSUME TypeOK, NEW reach, Apart(reach), frames # <<>>,
         frames' = SubSeq(frames, 1, Len(frames) - 1)
  PROVE  Apart(reach)'
<1> DEFINE n == Len(frames)
<1>1. frames \in Seq(Frame) /\ n \in Nat /\ n # 0
  BY Activations
<1>2. n - 1 \in Nat /\ n - 1 <= n
  BY <1>1
<1>3. Len(frames') = n - 1 /\ \A i \in 1..(n - 1) : frames'[i] = frames[i]
  BY <1>1, <1>2, PrefixOf
<1>4. \A i \in 1..(n - 1) : i \in 1..n
  BY <1>1
<1> SUFFICES ASSUME NEW i \in 1..(n - 1), NEW k \in 1..(n - 1), i < k,
                    frames'[i].loops # <<>>,
                    NEW l \in Loops, LoopFunc[l] = frames'[i].func
             PROVE  l \notin reach[frames'[k].func]
  BY <1>3 DEF Apart
<1> QED
  BY <1>3, <1>4 DEF Apart

\* Loops begin, repeat and end as they are nested.
LEMMA NestedInner ==
  ASSUME TypeOK, Nested, frames # <<>>, NEW ls \in Seq(Hits), frames' = SetTopLoops(ls),
         \A i, j \in Nat : In(i, j)' =>
           \/ In(i, j) /\ LoopAt(i, j)' = LoopAt(i, j)
           \/ /\ i = Len(frames) /\ j = Len(Top.loops) + 1
              /\ LoopFunc[LoopAt(i, j)'] = Top.func /\ LoopParent[LoopAt(i, j)'] = InnermostLoop,
         \A i, j \in Nat : In(i, j) /\ In(i, j)' => LoopAt(i, j)' = LoopAt(i, j)
  PROVE  Nested'
<1>1. /\ Len(frames) \in Nat \ {0} /\ Len(frames') = Len(frames)
      /\ \A i \in 1..Len(frames) : frames'[i].func = frames[i].func
  BY InnerActivations
<1>2. Top.loops \in Seq(Hits) /\ Len(Top.loops) \in Nat
  BY <1>1, Activations DEF Top
<1> SUFFICES ASSUME NEW i \in Nat, NEW j \in Nat, In(i, j)'
             PROVE  /\ LoopFunc[LoopAt(i, j)'] = frames'[i].func
                    /\ LoopParent[LoopAt(i, j)'] = IF j = 1 THEN NoLoop ELSE LoopAt(i, j - 1)'
  BY DEF Nested
<1>3. i \in 1..Len(frames) /\ j # 0
  BY <1>1 DEF In
<1>4. ASSUME j # 1
      PROVE  j - 1 \in Nat /\ In(i, j - 1)'
  <2>1. Len(frames'[i].loops) \in Nat
    <3>1. CASE i = Len(frames)
      BY <3>1, InnerActivations
    <3>2. CASE i # Len(frames)
      BY <1>3, <3>2, Activations, InnerActivations
    <3> QED
      BY <3>1, <3>2
  <2> QED
    BY <1>3, <1>4, <2>1 DEF In
<1>5. CASE In(i, j) /\ LoopAt(i, j)' = LoopAt(i, j)
  <2>1. LoopFunc[LoopAt(i, j)] = frames[i].func
        /\ LoopParent[LoopAt(i, j)] = IF j = 1 THEN NoLoop ELSE LoopAt(i, j - 1)
    BY <1>5 DEF Nested
  <2>2. j # 1 => LoopAt(i, j - 1)' = LoopAt(i, j - 1)
    <3>1. ASSUME j # 1 PROVE In(i, j - 1) /\ j - 1 \in Nat
      <4>1. Len(frames[i].loops) \in Nat
        BY <1>3, Activations
      <4> QED
        BY <1>3, <1>5, <3>1, <4>1 DEF In
    <3> QED
      BY <1>4, <3>1
  <2> QED
    BY <1>1, <1>3, <1>5, <2>1, <2>2
<1>6. CASE /\ i = Len(frames) /\ j = Len(Top.loops) + 1
           /\ LoopFunc[LoopAt(i, j)'] = Top.func /\ LoopParent[LoopAt(i, j)'] = InnermostLoop
  <2>1. Top.func = frames'[i].func
    BY <1>1, <1>6 DEF Top
  <2>2. CASE j = 1
    <3>1. InnermostLoop = NoLoop
      BY <1>2, <1>6, <2>2 DEF InnermostLoop
    <3> QED
      BY <1>6, <2>1, <2>2, <3>1
  <2>3. CASE j # 1
    <3>1. j - 1 = Len(Top.loops) /\ Top.loops # <<>>
      BY <1>2, <1>6, <2>3
    <3>0. Len(Top.loops) \in 1..Len(Top.loops)
      BY <1>2, <3>1
    <3>2. In(i, j - 1) /\ LoopAt(i, j - 1) = InnermostLoop
      <4>1. In(i, j - 1)
        BY <1>3, <1>6, <3>0, <3>1 DEF In, Top
      <4>2. LoopAt(i, j - 1) = InnermostLoop
        BY <1>6, <3>1 DEF LoopAt, InnermostLoop, Top
      <4> QED
        BY <4>1, <4>2
    <3>3. LoopAt(i, j - 1)' = LoopAt(i, j - 1)
      BY <1>4, <2>3, <3>2
    <3> QED
      BY <1>6, <2>1, <2>3, <3>2, <3>3
  <2> QED
    BY <2>2, <2>3
<1> QED
  BY <1>5, <1>6

\* Every step of a program that leaves its frames by returns keeps track.
LEMMA TrackedStep ==
  ASSUME ~Abnormal, TypeOK, NEW reach, LoopsDoNotRecur(reach), LoopsTracked(reach), [Next]_vars
  PROVE  LoopsTracked(reach)'
<1> USE DEF LoopsTracked
<1>0. ASSUME frames # <<>>
      PROVE  /\ Top.loops \in Seq(Hits)
             /\ \A l \in Loops : Append(Top.loops, [loop |-> l, hits |-> 1]) \in Seq(Hits)
             /\ Top.loops # <<>> =>
                  /\ SubSeq(Top.loops, 1, Len(Top.loops) - 1) \in Seq(Hits)
                  /\ [Top.loops EXCEPT ![Len(Top.loops)].hits = @ + 1] \in Seq(Hits)
  <2>1. Top.loops \in Seq(Hits)
    BY <1>0, Activations DEF Top
  <2>2. ASSUME NEW l \in Loops
        PROVE  Append(Top.loops, [loop |-> l, hits |-> 1]) \in Seq(Hits)
    BY <2>1 DEF Hits
  <2>3. ASSUME Top.loops # <<>>
        PROVE  /\ SubSeq(Top.loops, 1, Len(Top.loops) - 1) \in Seq(Hits)
               /\ [Top.loops EXCEPT ![Len(Top.loops)].hits = @ + 1] \in Seq(Hits)
    <3> DEFINE last == Top.loops[Len(Top.loops)]
               more == [last EXCEPT !.hits = last.hits + 1]
    <3>1. SubSeq(Top.loops, 1, Len(Top.loops) - 1) \in Seq(Hits)
      BY <2>1, <2>3
    <3>2. last \in Hits
      BY <2>1, <2>3
    <3>3. more \in Hits
      BY <3>2 DEF Hits
    <3>4. [Top.loops EXCEPT ![Len(Top.loops)].hits = @ + 1]
            = [Top.loops EXCEPT ![Len(Top.loops)] = more]
      OBVIOUS
    <3> QED
      BY <2>1, <2>3, <3>1, <3>3, <3>4, ReplaceLast
  <2> QED
    BY <2>1, <2>2, <2>3
<1>1. ASSUME NEW f \in Funcs, Enter(f),
             frames # <<>> => <<Top.func, InnermostLoop, f>> \in CallSites
      PROVE  LoopsTracked(reach)'
  <2>1. frames' = Append(frames, [func |-> f, loops |-> <<>>]) /\ UNCHANGED loopStack
    BY <1>1 DEF Enter
  <2>2. Apart(reach)'
    BY <1>1, <2>1, ApartCall
  <2>3. Nested' /\ Once' /\ Counted' /\ Ordered' /\ Complete'
    BY <2>1, OuterActivations, TrackedOuter
  <2> QED
    BY <2>2, <2>3
<1>2. CASE Return
  <2>1. /\ frames # <<>> /\ Top.loops = <<>> /\ UNCHANGED loopStack
        /\ frames' = SubSeq(frames, 1, Len(frames) - 1)
    BY <1>2 DEF Return
  <2>2. Apart(reach)'
    BY <2>1, ApartReturn
  <2>3. Nested' /\ Once' /\ Counted' /\ Ordered' /\ Complete'
    BY <2>1, OuterActivations, TrackedOuter
  <2> QED
    BY <2>2, <2>3
<1>3. ASSUME NEW l \in Loops, HeaderHit(l)
      PROVE  LoopsTracked(reach)'
  <2>0. frames # <<>> /\ LoopFunc[l] = Top.func /\ LoopEntry(l)
    BY <1>3 DEF HeaderHit
  <2>1. CASE /\ InnermostLoop = LoopParent[l]
             /\ frames' = SetTopLoops(Append(Top.loops, [loop |-> l, hits |-> 1]))
    <3>1. Once' /\ Counted' /\ Ordered' /\ Complete'
      BY <2>0, <2>1, TrackedBegins
    <3>2. PICK n, m : n = Len(frames) /\ m = Len(Top.loops) + 1
      OBVIOUS
    <3>3. /\ LoopAt(n, m)' = l
          /\ \A i, j \in Nat :
               /\ In(i, j)' <=> In(i, j) \/ (i = n /\ j = m)
               /\ In(i, j) => LoopAt(i, j)' = LoopAt(i, j)
      BY <2>0, <2>1, <3>2, LoopBegins
    <3>4. \A i, j \in Nat : In(i, j)' =>
            \/ In(i, j) /\ LoopAt(i, j)' = LoopAt(i, j)
            \/ /\ i = Len(frames) /\ j = Len(Top.loops) + 1
               /\ LoopFunc[LoopAt(i, j)'] = Top.func /\ LoopParent[LoopAt(i, j)'] = InnermostLoop
      BY <2>0, <2>1, <3>2, <3>3
    <3>5. PICK ls \in Seq(Hits) : frames' = SetTopLoops(ls)
      BY <1>0, <2>0, <2>1
    <3>6. Nested'
      BY <2>0, <3>3, <3>4, <3>5, NestedInner
    <3>7. Apart(reach)'
      BY <2>0, <3>5, ApartInner
    <3> QED
      BY <3>1, <3>6, <3>7
  <2>2. CASE /\ InnermostLoop = l
             /\ frames' = SetTopLoops([Top.loops EXCEPT ![Len(Top.loops)].hits = @ + 1])
    <3>1. Once' /\ Counted' /\ Ordered' /\ Complete'
      BY <2>0, <2>2, TrackedRepeats
    <3>2. InnermostLoop # NoLoop /\ Top.loops # <<>>
      BY <2>2, NamesAssumption DEF InnermostLoop
    <3>3. PICK n, m : n = Len(frames) /\ m = Len(Top.loops)
      OBVIOUS
    <3>4. \A i, j \in Nat : /\ In(i, j)' <=> In(i, j)
                            /\ In(i, j) => LoopAt(i, j)' = LoopAt(i, j)
      BY <2>0, <2>2, <3>2, <3>3, LoopRepeats
    <3>5. PICK ls \in Seq(Hits) : frames' = SetTopLoops(ls)
      BY <1>0, <2>0, <2>2, <3>2
    <3>6. Nested'
      BY <2>0, <3>4, <3>5, NestedInner
    <3>7. Apart(reach)'
      BY <2>0, <3>5, ApartInner
    <3> QED
      BY <3>1, <3>6, <3>7
  <2> QED
    BY <1>3, <2>1, <2>2 DEF HeaderHit
<1>4. ASSUME NEW l \in Loops, LoopExit(l)
      PROVE  LoopsTracked(reach)'
  <2>0. frames # <<>> /\ LoopFunc[l] = Top.func /\ LoopEnd(l, ExitEdges[l])
    BY <1>4 DEF LoopExit
  <2>1. CASE /\ InnermostLoop = l
             /\ frames' = SetTopLoops(SubSeq(Top.loops, 1, Len(Top.loops) - 1))
    <3>1. Once' /\ Counted' /\ Ordered' /\ Complete'
      BY <2>0, <2>1, TrackedEnds
    <3>2. InnermostLoop # NoLoop /\ Top.loops # <<>>
      BY <2>1, NamesAssumption DEF InnermostLoop
    <3>3. \A i, j \in Nat : In(i, j)' => In(i, j) /\ LoopAt(i, j)' = LoopAt(i, j)
      BY <2>0, <2>1, <3>2, LoopEnds
    <3>4. PICK ls \in Seq(Hits) : frames' = SetTopLoops(ls)
      BY <1>0, <2>0, <2>1, <3>2
    <3>5. Nested'
      BY <2>0, <3>3, <3>4, NestedInner
    <3>6. Apart(reach)'
      BY <2>0, <3>4, ApartInner
    <3> QED
      BY <3>1, <3>5, <3>6
  <2>2. CASE InnermostLoop = LoopParent[l] /\ UNCHANGED frames
    <3>1. \A i, j \in Nat : In(i, j) => LoopAt(i, j) # l
      BY <2>0, <2>2, LoopIsFresh
    <3>2. \A k \in 1..Len(loopStack) : loopStack[k].loop # l
      BY <3>1 DEF Counted
    <3>3. loopStack # <<>> => LoopTop.loop # l
      <4>1. loopStack \in Seq(LoopCount)
        BY DEF TypeOK, LoopCount
      <4> QED
        BY <3>2, <4>1 DEF LoopTop
    <3>4. UNCHANGED loopStack
      BY <2>0, <3>3 DEF LoopEnd
    <3>5. \A i, j \in Nat : /\ In(i, j)' <=> In(i, j)
                            /\ In(i, j) => /\ LoopAt(i, j)' = LoopAt(i, j)
                                           /\ HitsAt(i, j)' = HitsAt(i, j)
                                           /\ frames'[i] = frames[i]
      BY <2>2 DEF In, LoopAt, HitsAt
    <3>6. Nested' /\ Once' /\ Counted' /\ Ordered' /\ Complete'
      BY <3>4, <3>5, TrackedOuter
    <3>7. Apart(reach)'
      BY <2>2 DEF Apart
    <3> QED
      BY <3>6, <3>7
  <2> QED
    BY <1>4, <2>1, <2>2 DEF LoopExit
<1>5. CASE UNCHANGED <<frames, loopStack>>
  <2>1. \A i, j \in Nat : /\ In(i, j)' <=> In(i, j)
                          /\ In(i, j) => /\ LoopAt(i, j)' = LoopAt(i, j)
                                         /\ HitsAt(i, j)' = HitsAt(i, j)
                                         /\ frames'[i] = frames[i]
    BY <1>5 DEF In, LoopAt, HitsAt
  <2>2. Nested' /\ Once' /\ Counted' /\ Ordered' /\ Complete'
    BY <1>5, <2>1, TrackedOuter
  <2>3. Apart(reach)'
    BY <1>5 DEF Apart
  <2> QED
    BY <2>2, <2>3
<1>6. ASSUME NEW f \in Funcs, Start(f) \/ Call(f)
      PROVE  Enter(f) /\ (frames # <<>> => <<Top.func, InnermostLoop, f>> \in CallSites)
  BY <1>6 DEF Start, Call
<1>7. ASSUME Record \/ ThreadRec \/ UNCHANGED vars
      PROVE  UNCHANGED <<frames, loopStack>>
  BY <1>7 DEF Record, ThreadRec, vars
<1>8. ~Discard /\ ~ThreadExit
  BY DEF Discard, ThreadExit
<1> QED
  BY <1>1, <1>2, <1>3, <1>4, <1>5, <1>6, <1>7, <1>8 DEF Next

\* The last on the loop stack is past the limit exactly while some activation is.
LEMMA GuardFollows ==
  ASSUME TypeOK, OnlyTopExceeds, NEW reach, LoopsTracked(reach)
  PROVE  LoopGuardExact
<1> DEFINE N == Len(loopStack)
<1> USE DEF LoopsTracked
<1>1. loopStack \in Seq(LoopCount) /\ N \in Nat /\ Len(frames) \in Nat
  BY Activations DEF TypeOK, LoopCount
<1>2. ASSUME NEW i \in Nat, NEW j \in Nat, In(i, j)
      PROVE  i \in DOMAIN frames /\ j \in DOMAIN frames[i].loops
             /\ frames[i].loops[j].hits = HitsAt(i, j)
  BY <1>2, Activations DEF In, HitsAt
<1>3. ASSUME ExceedLoopLimit
      PROVE  \E i \in DOMAIN frames : \E j \in DOMAIN frames[i].loops :
               frames[i].loops[j].hits > LOOP_LIMIT
  <2>1. N \in 1..N /\ loopStack[N].count > LOOP_LIMIT
    BY <1>1, <1>3 DEF ExceedLoopLimit
  <2>2. PICK i \in Nat, j \in Nat : In(i, j) /\ HitsAt(i, j) = loopStack[N].count
    BY <2>1 DEF Counted
  <2> QED
    BY <1>2, <2>1, <2>2
<1>4. ASSUME NEW i \in DOMAIN frames, NEW j \in DOMAIN frames[i].loops,
             frames[i].loops[j].hits > LOOP_LIMIT
      PROVE  ExceedLoopLimit
  <2>1. i \in Nat /\ j \in Nat /\ In(i, j) /\ HitsAt(i, j) > LOOP_LIMIT
    BY <1>4, Activations DEF In, HitsAt
  <2>2. CASE \E k \in 1..N : loopStack[k].loop = LoopAt(i, j)
    <3>1. PICK k \in 1..N : loopStack[k].loop = LoopAt(i, j)
      BY <2>2
    <3>2. PICK p \in Nat, q \in Nat : /\ In(p, q) /\ LoopAt(p, q) = loopStack[k].loop
                                      /\ HitsAt(p, q) = loopStack[k].count
      BY DEF Counted
    <3>3. p = i /\ q = j
      BY <2>1, <3>1, <3>2 DEF Once
    <3>4. loopStack[k].count > LOOP_LIMIT
      BY <2>1, <3>2, <3>3
    <3>5. k = N
      <4>1. loopStack[k].count \in Nat
        BY <2>1, <3>2, Activations
      <4>2. k \in 1..(N - 1) => loopStack[k].count <= LOOP_LIMIT
        BY DEF OnlyTopExceeds
      <4> QED
        BY <1>1, <3>4, <4>1, <4>2, LimitAssumption
    <3> QED
      BY <1>1, <3>4, <3>5 DEF ExceedLoopLimit
  <2> QED
    BY <2>1, <2>2 DEF Complete
<1> QED
  BY <1>3, <1>4 DEF LoopGuardExact

\* Looking at the innermost counter alone silences the thread exactly while some
\* loop it is in was hit more than LOOP_LIMIT times, in every program that leaves
\* its frames by returns and in which no loop is in two activations at a time.
THEOREM LoopLimitExact ==
  ASSUME ~Abnormal, NEW reach, LoopsDoNotRecur(reach)
  PROVE  Spec => []LoopGuardExact
<1>1. Init => LoopsTracked(reach)
  BY DEF Init, LoopsTracked, Nested, Apart, Once, Counted, Ordered, Complete, In
<1>2. TypeOK /\ LoopsTracked(reach) /\ [Next]_vars => LoopsTracked(reach)'
  BY TrackedStep
<1>3. TypeOK /\ OnlyTopExceeds /\ LoopsTracked(reach) => LoopGuardExact
  BY GuardFollows
<1>4. Spec => [](OnlyTopExceeds /\ NoAdjacentRepeat)
  BY LoopStackSound
<1> QED
  BY <1>1, <1>2, <1>3, <1>4, TypeCorrect, PTL DEF Spec
=============================================================================
