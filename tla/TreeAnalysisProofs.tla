------------------------- MODULE TreeAnalysisProofs -------------------------
(***************************************************************************)
(* Theorems about the analyses of a call tree, for trees of any size and   *)
(* shape, any names and lengths, and any limit of the list of the longest. *)
(***************************************************************************)
EXTENDS TreeAnalysis, FiniteSetTheorems, FunctionTheorems, SequenceTheorems,
        NaturalsInduction, WellFoundedInduction, TLAPS

-----------------------------------------------------------------------------
(* The invariant.                                                           *)

IsTree ==
  /\ TreeAssumption
  /\ parent \in [Nodes -> 0 .. NumNodes - 1] /\ parent[Root] = 0
  /\ \A n \in Nodes \ {Root} : parent[n] \in 1 .. n - 1
  /\ \A n \in Nodes : name[n] = InitName <=> n = Root
  /\ len \in [Nodes -> Nat]

Distinct(s) == \A i, j \in 1 .. Len(s) : s[i] = s[j] => i = j
In(s) == {s[i] : i \in 1 .. Len(s)}
Lesser(m, n) == IF m < n THEN m ELSE n

\* The walk in breadth: what it has met and what it waits for are each met once,
\* and the calls of what it has met are among them, and nothing else but the root.
Walked(ord, que) ==
  /\ ord \in Seq(Nodes) /\ que \in Seq(Nodes)
  /\ Distinct(ord) /\ Distinct(que) /\ In(ord) \cap In(que) = {}
  /\ Root \in In(ord) \cup In(que)
  /\ \A n \in Nodes \ {Root} : n \in In(ord) \cup In(que) <=> parent[n] \in In(ord)

AtLeast(l, k) == Cardinality({i \in 1 .. Len(l) : l[i] >= k})
Longer(S, k) == Cardinality({n \in S : len[n] >= k})

\* The list has the longest of the nodes in S, by falling length.
Lists(l, S) ==
  /\ l \in Seq(Nat) /\ Len(l) = Lesser(Cardinality(S), LEN_LIMIT)
  /\ \A i, j \in 1 .. Len(l) : i < j => l[i] >= l[j]
  /\ \A k \in Nat : AtLeast(l, k) = Lesser(Longer(S, k), LEN_LIMIT)

\* The walk in depth: the path is that from the root to the node met last, and a
\* node that waits is called from a node on it, the next ones from the deepest.
OnPath(p, n) == \E k \in 1 .. Len(p) : p[k] = parent[n]
Deepened(p, que) ==
  /\ p \in Seq(Nodes) /\ que \in Seq(Nodes)
  /\ p = <<>> => que = <<Root>>
  /\ \A i \in 1 .. Len(p) : Above[p[i]] = SubSeq(p, 1, i - 1)
  /\ p # <<>> => \A i \in 1 .. Len(que) : que[i] # Root /\ OnPath(p, que[i])
  /\ \A i, j \in 1 .. Len(que) : i < j =>
       \A k, l \in 1 .. Len(p) : p[k] = parent[que[i]] /\ p[l] = parent[que[j]] => l <= k

\* The recursion that ends in n.
Near(n) == CHOOSE i \in DOMAIN Above[n] :
             /\ name[Above[n][i]] = name[n]
             /\ \A j \in i + 1 .. Len(Above[n]) : name[Above[n][j]] # name[n]
Entry(n) == <<NamesOf(SubSeq(Above[n], Near(n), Len(Above[n]))), name[Above[n][Near(n) - 1]]>>

\* Every recursion was found, or is at or below a node that waits.
Waits(n, que) == \E i \in 1 .. Len(que) : que[i] = n \/ que[i] \in In(Above[n])
Found(es, que) ==
  /\ \A n \in Repeats : Entry(n) \in es \/ Waits(n, que)
  /\ \A e \in es : \E n \in Repeats : e = Entry(n)

\* The i-th node above n, from below; 0 is above the root.
Up(n, i) == IF i = Len(Above[n]) THEN 0 ELSE Above[n][Len(Above[n]) - i]

\* Both chains were climbed equally far, and have not met yet.
Climbing(que, cl) ==
  /\ que \in Seq(Nodes) /\ Len(que) = 2 /\ que[1] # que[2]
  /\ \E i \in Nat :
       /\ i <= Len(Above[que[1]]) /\ i <= Len(Above[que[2]])
       /\ cl = <<Up(que[1], i), Up(que[2], i)>>
       /\ \A j \in 0 .. i - 1 : Up(que[1], j) # Up(que[2], j)

\* What the climb has when it ended, whether it found the common parent or not.
IsCommon(que, cl) ==
  LET one == Above[que[1]]
      two == Above[que[2]]
  IN /\ que[1] \in Nodes /\ que[2] \in Nodes
     /\ IF Len(one) # Len(two) THEN cl = <<>>
        ELSE cl # <<>> /\ \E i \in DOMAIN one :
               /\ cl[1] = one[i] /\ one[i] = two[i]
               /\ \A j \in i + 1 .. Len(one) : one[j] # two[j]

TInv ==
  /\ IsTree
  /\ pass \in {"lengths", "recursion", "panicked", "common", "done"}
  /\ pass = "lengths" => /\ Walked(order, queue) /\ Lists(list, In(order))
                         /\ path = <<>> /\ entries = {}
  /\ pass # "lengths" => order \in Seq(Nodes) /\ Distinct(order) /\ Lists(list, Nodes)
  /\ pass = "recursion" => Deepened(path, queue) /\ Found(entries, queue)
  /\ pass = "panicked" => \E n \in Repeats : Calls(n) # {}
  /\ pass \in {"common", "done"} => Found(entries, <<>>)
  /\ pass = "common" => Climbing(queue, climb)
  /\ pass = "done" /\ queue # <<>> => IsCommon(queue, climb)

-----------------------------------------------------------------------------
(* What is above a node.                                                    *)

\* Every set of numbers has a least one.
LEMMA LeastNumber ==
  ASSUME NEW T \in SUBSET Nat, T # {}
  PROVE  \E n \in T : \A m \in T : n <= m
<1> DEFINE R == {ss \in Nat \X Nat : ss[1] < ss[2]}
<1>1. IsWellFoundedOn(R, Nat)
  BY NatLessThanWellFounded DEF OpToRel
<1>2. \E n \in T : \A m \in T : ~(<<m, n>> \in R)
  <2> HIDE DEF R
  <2> QED
    BY <1>1, WFMin
<1>3. PICK n \in T : \A m \in T : ~(<<m, n>> \in R)
  BY <1>2
<1>4. \A m \in T : ~(m < n) /\ m \in Nat /\ n \in Nat
  BY <1>3
<1> QED
  BY <1>4

LEMMA NodeFacts ==
  ASSUME IsTree
  PROVE  /\ NumNodes \in Nat \ {0} /\ Nodes = 1 .. NumNodes /\ Root \in Nodes /\ Root = 1
         /\ Nodes \subseteq Nat /\ IsFiniteSet(Nodes) /\ Cardinality(Nodes) = NumNodes
<1>1. NumNodes \in Nat \ {0} /\ Nodes = 1 .. NumNodes /\ Root = 1
  BY DEF IsTree, TreeAssumption, Nodes, Root
<1>2. IsFiniteSet(1 .. NumNodes) /\ Cardinality(1 .. NumNodes) = NumNodes
  BY <1>1, FS_Interval
<1> QED
  BY <1>1, <1>2

LEMMA ParentIsLess ==
  ASSUME IsTree, NEW n \in Nodes, n # Root
  PROVE  parent[n] \in Nodes /\ parent[n] < n
<1>1. parent[n] \in 1 .. n - 1 /\ n \in 1 .. NumNodes /\ NumNodes \in Nat /\ Nodes = 1 .. NumNodes
  BY NodeFacts DEF IsTree
<1> QED
  BY <1>1

\* The paths of the first n nodes.
Paths(f, n) == \A i \in 1 .. n : f[i] = IF i = Root THEN <<>> ELSE Append(f[parent[i]], parent[i])

LEMMA PathsExist ==
  ASSUME IsTree
  PROVE  \E f : Paths(f, NumNodes)
<1> DEFINE T == {n \in 0 .. NumNodes : ~\E f : Paths(f, n)}
<1>a. NumNodes \in Nat
  BY NodeFacts
<1> SUFFICES ASSUME T # {} PROVE FALSE
  BY <1>a
<1>1. PICK n \in T : \A m \in T : n <= m
  <2>1. T \in SUBSET Nat
    BY NodeFacts
  <2> HIDE DEF T
  <2> QED
    BY <2>1, LeastNumber
<1>2. n \in Nat /\ n <= NumNodes /\ ~\E f : Paths(f, n)
  BY NodeFacts
<1>3. n # 0
  <2>1. Paths(<<>>, 0)
    BY DEF Paths
  <2> QED
    BY <1>2, <2>1
<1>4. n - 1 \in 0 .. NumNodes /\ n - 1 \notin T
  BY <1>1, <1>2, <1>3, NodeFacts
<1>5. PICK f : Paths(f, n - 1)
  BY <1>4
<1> DEFINE g == [i \in 1 .. n |-> IF i < n THEN f[i] ELSE IF n = Root THEN <<>> ELSE Append(f[parent[n]], parent[n])]
<1>6. ASSUME NEW i \in 1 .. n, i # Root
      PROVE  parent[i] \in 1 .. i - 1
  BY <1>2, <1>6, NodeFacts DEF IsTree
<1>7. ASSUME NEW i \in 1 .. n
      PROVE  g[i] = IF i = Root THEN <<>> ELSE Append(g[parent[i]], parent[i])
  <2>1. CASE i = Root
    BY <1>2, <1>5, <2>1, NodeFacts DEF Paths
  <2>2. CASE i # Root
    <3>1. parent[i] \in 1 .. i - 1
      BY <1>6, <2>2
    <3>2. g[parent[i]] = f[parent[i]]
      BY <1>2, <3>1
    <3>3. CASE i < n
      <4>1. i \in 1 .. n - 1 /\ g[i] = f[i]
        BY <1>2, <3>3
      <4>2. f[i] = Append(f[parent[i]], parent[i])
        BY <1>5, <2>2, <4>1 DEF Paths
      <4> HIDE DEF g
      <4> QED
        BY <2>2, <3>2, <4>1, <4>2
    <3>4. CASE ~(i < n)
      <4>1. i = n
        BY <1>2, <3>4
      <4>2. g[n] = Append(f[parent[n]], parent[n])
        BY <1>2, <1>3, <2>2, <4>1
      <4> HIDE DEF g
      <4> QED
        BY <2>2, <3>2, <4>1, <4>2
    <3> QED
      BY <3>3, <3>4
  <2> QED
    BY <2>1, <2>2
<1>8. Paths(g, n)
  <2> HIDE DEF g
  <2> QED
    BY <1>7 DEF Paths
<1> QED
  BY <1>2, <1>8

LEMMA AboveEquation ==
  ASSUME IsTree
  PROVE  /\ Above[Root] = <<>>
         /\ \A n \in Nodes \ {Root} : Above[n] = Append(Above[parent[n]], parent[n])
<1>1. PICK f : Paths(f, NumNodes)
  BY PathsExist
<1> DEFINE g == [n \in Nodes |-> f[n]]
<1>2. g = [n \in Nodes |-> IF n = Root THEN <<>> ELSE Append(g[parent[n]], parent[n])]
  <2>1. \A n \in Nodes : f[n] = IF n = Root THEN <<>> ELSE Append(f[parent[n]], parent[n])
    BY <1>1, NodeFacts DEF Paths
  <2>2. \A n \in Nodes : n # Root => parent[n] \in Nodes
    BY NodeFacts DEF IsTree
  <2>3. \A n \in Nodes : f[n] = IF n = Root THEN <<>> ELSE Append(g[parent[n]], parent[n])
    BY <2>1, <2>2
  <2> QED
    BY <2>3
<1>3. Above = [n \in Nodes |-> IF n = Root THEN <<>> ELSE Append(Above[parent[n]], parent[n])]
  <2>1. \E h : h = [n \in Nodes |-> IF n = Root THEN <<>> ELSE Append(h[parent[n]], parent[n])]
    BY <1>2
  <2> QED
    BY <2>1 DEF Above
<1> HIDE DEF g
<1> QED
  BY <1>3, NodeFacts

\* What is above a node is a path from the root, of ever greater numbers.
LEMMA AbovePath ==
  ASSUME IsTree, NEW n \in Nodes
  PROVE  /\ Above[n] \in Seq(Nodes)
         /\ \A i \in 1 .. Len(Above[n]) :
              Above[n][i] < n /\ Above[Above[n][i]] = SubSeq(Above[n], 1, i - 1)
         /\ Len(Above[n]) = 0 <=> n = Root
<1> DEFINE P(k) == /\ Above[k] \in Seq(Nodes)
                   /\ \A i \in 1 .. Len(Above[k]) :
                        Above[k][i] < k /\ Above[Above[k][i]] = SubSeq(Above[k], 1, i - 1)
                   /\ Len(Above[k]) = 0 <=> k = Root
           T == {k \in Nodes : ~P(k)}
<1> SUFFICES ASSUME T # {} PROVE FALSE
  OBVIOUS
<1>1. PICK k \in T : \A j \in T : k <= j
  <2>1. T \in SUBSET Nat
    BY NodeFacts
  <2> HIDE DEF T
  <2> QED
    BY <2>1, LeastNumber
<1>2. k \in Nodes /\ ~P(k) /\ k \in Nat
  BY NodeFacts
<1>3. k # Root
  <2>1. Above[Root] = <<>> /\ <<>> \in Seq(Nodes) /\ Len(<<>>) = 0
    BY AboveEquation
  <2>3. P(Root)
    BY <2>1
  <2> QED
    BY <1>2, <2>3
<1> DEFINE q == parent[k]
<1>4. q \in Nodes /\ q \in Nat /\ q < k
  <2>1. q \in 1 .. k - 1
    BY <1>2, <1>3 DEF IsTree
  <2>2. Nodes = 1 .. NumNodes /\ NumNodes \in Nat
    BY NodeFacts
  <2> HIDE DEF q
  <2> QED
    BY <1>2, <2>1, <2>2
<1>5. P(q)
  <2>1. q \notin T
    <3>1. ~(k <= q)
      BY <1>2, <1>4
    <3> HIDE DEF T, q
    <3> QED
      BY <1>1, <3>1
  <2> QED
    BY <1>4, <2>1
<1> HIDE DEF q
<1>6. Above[k] = Append(Above[q], q)
  BY <1>2, <1>3, AboveEquation DEF q
<1>7. /\ Above[q] \in Seq(Nodes) /\ Len(Above[k]) = Len(Above[q]) + 1
      /\ Above[k] \in Seq(Nodes) /\ Len(Above[q]) \in Nat
      /\ \A i \in 1 .. Len(Above[q]) : Above[k][i] = Above[q][i]
      /\ Above[k][Len(Above[q]) + 1] = q
  BY <1>4, <1>5, <1>6, AppendProperties
<1>8. ASSUME NEW i \in 1 .. Len(Above[k])
      PROVE  Above[k][i] < k /\ Above[Above[k][i]] = SubSeq(Above[k], 1, i - 1)
  <2>1. SubSeq(Above[k], 1, i - 1) = SubSeq(Above[q], 1, i - 1)
    <3>1. i - 1 \in 0 .. Len(Above[q])
      BY <1>7
    <3> QED
      BY <1>4, <1>6, <1>7, <3>1
  <2>2. CASE i <= Len(Above[q])
    <3>1. Above[k][i] = Above[q][i] /\ Above[q][i] < q /\ Above[q][i] \in Nodes
      BY <1>5, <1>7, <2>2
    <3>2. Above[k][i] < k
      BY <1>2, <1>4, <3>1, NodeFacts
    <3> QED
      BY <1>5, <1>7, <2>1, <2>2, <3>1, <3>2
  <2>3. CASE ~(i <= Len(Above[q]))
    <3>1. i - 1 = Len(Above[q]) /\ Above[k][i] = q
      BY <1>7, <2>3
    <3>2. SubSeq(Above[q], 1, Len(Above[q])) = Above[q]
      BY <1>7, SubSeqFull
    <3> QED
      BY <1>4, <2>1, <3>1, <3>2
  <2> QED
    BY <2>2, <2>3
<1>9. P(k)
  BY <1>3, <1>7, <1>8
<1> QED
  BY <1>2, <1>9

-----------------------------------------------------------------------------
(* Sorting.                                                                 *)

\* The numbering p of 1 .. n sorts l, by falling number.
Sorts(p, l, n) ==
  /\ p \in [1 .. n -> 1 .. n]
  /\ \A i, j \in 1 .. n : p[i] = p[j] => i = j
  /\ \A m \in 1 .. n : \E i \in 1 .. n : p[i] = m
  /\ \A i, j \in 1 .. n : i < j => l[p[i]] >= l[p[j]]

\* Every list can be sorted: the least goes last, and what it leaves is sorted.
LEMMA SortExists ==
  ASSUME NEW n \in Nat, NEW l \in [1 .. n -> Nat]
  PROVE  \E p : Sorts(p, l, n)
<1> DEFINE T == {k \in Nat : \E h \in [1 .. k -> Nat] : ~\E p : Sorts(p, h, k)}
<1> SUFFICES ASSUME T # {} PROVE FALSE
  OBVIOUS
<1>1. PICK k \in T : \A j \in T : k <= j
  <2>1. T \in SUBSET Nat
    OBVIOUS
  <2> HIDE DEF T
  <2> QED
    BY <2>1, LeastNumber
<1>2. k \in Nat
  OBVIOUS
<1>3. PICK h \in [1 .. k -> Nat] : ~\E p : Sorts(p, h, k)
  OBVIOUS
<1>4. k # 0
  <2>1. ASSUME k = 0 PROVE Sorts(<<>>, h, k)
    BY <2>1 DEF Sorts
  <2> QED
    BY <1>3, <2>1
<1>5. k - 1 \in Nat /\ k - 1 \notin T
  <2>1. k - 1 \in Nat /\ ~(k <= k - 1)
    BY <1>2, <1>4
  <2> HIDE DEF T
  <2> QED
    BY <1>1, <2>1
<1>6. PICK m \in 1 .. k : \A i \in 1 .. k : h[m] <= h[i]
  <2> DEFINE V == {h[i] : i \in 1 .. k}
  <2>1. V \in SUBSET Nat /\ V # {}
    BY <1>2, <1>3, <1>4
  <2>2. \E v \in V : \A w \in V : v <= w
    <3> HIDE DEF V
    <3> QED
      BY <2>1, LeastNumber
  <2> QED
    BY <2>2
<1> DEFINE g == [i \in 1 .. k - 1 |-> IF i = m THEN h[k] ELSE h[i]]
<1>7. g \in [1 .. k - 1 -> Nat]
  BY <1>2, <1>3, <1>4
<1>8. PICK q : Sorts(q, g, k - 1)
  <2>1. \A f \in [1 .. k - 1 -> Nat] : \E p : Sorts(p, f, k - 1)
    BY <1>5
  <2> HIDE DEF g, T
  <2> QED
    BY <1>7, <2>1
<1> HIDE DEF T
<1> DEFINE p == [i \in 1 .. k |-> IF i = k THEN m ELSE IF q[i] = m THEN k ELSE q[i]]
<1>9. /\ q \in [1 .. k - 1 -> 1 .. k - 1]
      /\ \A i, j \in 1 .. k - 1 : q[i] = q[j] => i = j
      /\ \A x \in 1 .. k - 1 : \E i \in 1 .. k - 1 : q[i] = x
      /\ \A i, j \in 1 .. k - 1 : i < j => g[q[i]] >= g[q[j]]
  <2> HIDE DEF g
  <2> QED
    BY <1>8 DEF Sorts
<1>10. p \in [1 .. k -> 1 .. k]
  <2>1. ASSUME NEW i \in 1 .. k
        PROVE  (IF i = k THEN m ELSE IF q[i] = m THEN k ELSE q[i]) \in 1 .. k
    <3> HIDE DEF g, p
    <3>1. CASE i = k
      BY <3>1
    <3>2. CASE i # k
      <4>1. i \in 1 .. k - 1
        BY <1>2, <3>2
      <4>2. q[i] \in 1 .. k - 1
        BY <1>9, <4>1
      <4>3. q[i] \in 1 .. k /\ k \in 1 .. k
        BY <1>2, <1>4, <4>2
      <4> QED
        BY <3>2, <4>3
    <3> QED
      BY <3>1, <3>2
  <2> QED
    BY <2>1
<1>11. /\ p[k] = m
       /\ \A i \in 1 .. k - 1 : /\ p[i] = IF q[i] = m THEN k ELSE q[i]
                                /\ h[p[i]] = g[q[i]] /\ p[i] # m
                                /\ q[i] \in 1 .. k - 1 /\ i \in 1 .. k /\ i # k
  <2>1. p[k] = m
    BY <1>2, <1>4
  <2>2. ASSUME NEW i \in 1 .. k - 1
        PROVE  /\ p[i] = IF q[i] = m THEN k ELSE q[i]
               /\ h[p[i]] = g[q[i]] /\ p[i] # m
               /\ q[i] \in 1 .. k - 1 /\ i \in 1 .. k /\ i # k
    <3>1. i \in 1 .. k /\ i # k /\ q[i] \in 1 .. k - 1 /\ q[i] # k
      BY <1>2, <1>9
    <3>2. p[i] = IF q[i] = m THEN k ELSE q[i]
      BY <3>1
    <3>3. g[q[i]] = IF q[i] = m THEN h[k] ELSE h[q[i]]
      BY <3>1
    <3> HIDE DEF p, g
    <3> QED
      BY <3>1, <3>2, <3>3
  <2> HIDE DEF p, g
  <2> QED
    BY <2>1, <2>2
<1>12. \A i \in 1 .. k : i = k \/ i \in 1 .. k - 1
  BY <1>2
<1> HIDE DEF p
<1>13. \A i, j \in 1 .. k : p[i] = p[j] => i = j
  <2> SUFFICES ASSUME NEW i \in 1 .. k, NEW j \in 1 .. k, p[i] = p[j]
               PROVE  i = j
    OBVIOUS
  <2>1. CASE i \in 1 .. k - 1 /\ j \in 1 .. k - 1
    <3> HIDE DEF g
    <3>1. /\ p[i] = IF q[i] = m THEN k ELSE q[i]
          /\ q[i] \in 1 .. k - 1
      BY <1>11, <2>1
    <3>2. /\ p[j] = IF q[j] = m THEN k ELSE q[j]
          /\ q[j] \in 1 .. k - 1
      BY <1>11, <2>1
    <3>3. q[i] # k /\ q[j] # k
      BY <1>2, <3>1, <3>2
    <3>4. q[i] = q[j]
      BY <3>1, <3>2, <3>3
    <3> QED
      BY <1>9, <2>1, <3>4
  <2> QED
    BY <1>11, <1>12, <2>1
<1>14. ASSUME NEW x \in 1 .. k
       PROVE  \E i \in 1 .. k : p[i] = x
  <2>1. CASE x = m
    BY <1>2, <1>4, <1>11, <2>1
  <2>2. CASE x # m /\ x = k
    <3>1. m \in 1 .. k - 1
      BY <1>12, <2>2
    <3>2. PICK i \in 1 .. k - 1 : q[i] = m
      BY <1>9, <3>1
    <3> QED
      BY <1>11, <2>2, <3>2
  <2>3. CASE x # m /\ x # k
    <3>1. x \in 1 .. k - 1
      BY <1>12, <2>3
    <3>2. PICK i \in 1 .. k - 1 : q[i] = x
      BY <1>9, <3>1
    <3> QED
      BY <1>11, <2>3, <3>2
  <2> QED
    BY <2>1, <2>2, <2>3
<1>15. ASSUME NEW i \in 1 .. k, NEW j \in 1 .. k, i < j
       PROVE  h[p[i]] >= h[p[j]]
  <2>1. i \in 1 .. k - 1
    BY <1>2, <1>15
  <2>2. CASE j = k
    BY <1>3, <1>6, <1>10, <1>11, <2>2
  <2>3. CASE j # k
    <3>1. j \in 1 .. k - 1
      BY <1>12, <2>3
    <3>2. h[p[i]] = g[q[i]] /\ h[p[j]] = g[q[j]] /\ g[q[i]] >= g[q[j]]
      <4> HIDE DEF g
      <4> QED
        BY <1>9, <1>11, <1>15, <2>1, <3>1
    <3> HIDE DEF g
    <3> QED
      BY <3>2
  <2> QED
    BY <2>2, <2>3
<1>16. Sorts(p, h, k)
  BY <1>10, <1>13, <1>14, <1>15 DEF Sorts
<1> QED
  BY <1>3, <1>16

\* Sets of places that a numbering takes to each other are equally many.
LEMMA SameNumber ==
  ASSUME NEW S, NEW T, IsFiniteSet(T), NEW f \in [S -> T],
         \A a, b \in S : f[a] = f[b] => a = b, \A t \in T : \E s \in S : f[s] = t
  PROVE  IsFiniteSet(S) /\ Cardinality(S) = Cardinality(T)
<1>1. f \in Injection(S, T)
  BY Fun_IsInj
<1>2. f \in Surjection(S, T)
  BY Fun_IsSurj
<1> QED
  BY <1>1, <1>2, FS_Injection

\* Sorted has the same numbers, by falling number.
LEMMA SortedSorts ==
  ASSUME NEW l \in Seq(Nat)
  PROVE  /\ Sorted(l) \in Seq(Nat) /\ Len(Sorted(l)) = Len(l)
         /\ \A i, j \in 1 .. Len(l) : i < j => Sorted(l)[i] >= Sorted(l)[j]
         /\ \A k \in Nat : AtLeast(Sorted(l), k) = AtLeast(l, k)
<1> DEFINE n == Len(l)
           D == DOMAIN l
           All == {[i \in D |-> l[p[i]]] : p \in Bijection(D, D)}
           Falls(s) == \A i, j \in DOMAIN s : i < j => s[i] >= s[j]
<1>1. n \in Nat /\ D = 1 .. n /\ l \in [1 .. n -> Nat]
  OBVIOUS
<1> HIDE DEF n, D
<1>2. \E s \in All : Falls(s)
  <2>1. PICK p : Sorts(p, l, n)
    BY <1>1, SortExists
  <2>2. p \in Bijection(D, D)
    BY <1>1, <2>1, Fun_IsBij DEF Sorts
  <2> DEFINE s == [i \in D |-> l[p[i]]]
  <2>3. Falls(s)
    BY <1>1, <2>1 DEF Sorts
  <2> QED
    BY <2>2, <2>3
<1>3. Sorted(l) = CHOOSE s \in All : Falls(s)
  BY DEF Sorted, D
<1>4. Sorted(l) \in All /\ Falls(Sorted(l))
  <2> HIDE DEF All, Falls
  <2> QED
    BY <1>2, <1>3
<1>5. PICK p \in Bijection(D, D) : Sorted(l) = [i \in D |-> l[p[i]]]
  BY <1>4
<1> DEFINE s == Sorted(l)
<1>6. /\ p \in [1 .. n -> 1 .. n]
      /\ \A i, j \in 1 .. n : p[i] = p[j] => i = j
      /\ \A m \in 1 .. n : \E i \in 1 .. n : p[i] = m
  <2>1. p \in Bijection(1 .. n, 1 .. n)
    BY <1>1, <1>5
  <2> QED
    BY <2>1 DEF Bijection, Injection, Surjection, IsInjective
<1>7. s \in [1 .. n -> Nat] /\ \A i \in 1 .. n : s[i] = l[p[i]]
  BY <1>1, <1>5, <1>6
<1>8. Falls(s)
  BY <1>4
<1> HIDE DEF s
<1>9. s \in Seq(Nat) /\ Len(s) = n /\ DOMAIN s = 1 .. n
  BY <1>1, <1>7
<1>10. ASSUME NEW k \in Nat
       PROVE  AtLeast(s, k) = AtLeast(l, k)
  <2> DEFINE S == {i \in 1 .. n : s[i] >= k}
             T == {i \in 1 .. n : l[i] >= k}
             f == [i \in S |-> p[i]]
  <2>1. f \in [S -> T]
    BY <1>6, <1>7
  <2>2. \A a, b \in S : f[a] = f[b] => a = b
    BY <1>6
  <2>3. ASSUME NEW t \in T PROVE \E a \in S : f[a] = t
    <3>1. PICK a \in 1 .. n : p[a] = t
      BY <1>6
    <3>2. a \in S
      BY <1>7, <3>1
    <3> QED
      BY <3>1, <3>2
  <2>4. IsFiniteSet(T)
    <3>1. IsFiniteSet(1 .. n)
      BY <1>1, FS_Interval
    <3> QED
      BY <3>1, FS_Subset
  <2>5. Cardinality(S) = Cardinality(T)
    <3> HIDE DEF S, T, f
    <3> QED
      BY <2>1, <2>2, <2>3, <2>4, SameNumber
  <2> QED
    BY <1>9, <2>5 DEF AtLeast, n
<1> QED
  BY <1>1, <1>8, <1>9, <1>10 DEF n, s

LEMMA FirstNumbers ==
  ASSUME NEW n \in Nat
  PROVE  IsFiniteSet(1 .. n) /\ Cardinality(1 .. n) = n
BY FS_Interval

\* The calls of a node, each once.
LEMMA CallsInOrder ==
  ASSUME IsTree, NEW n \in Nodes
  PROVE  SubFuncs(n) \in Seq(Nodes) /\ Distinct(SubFuncs(n)) /\ In(SubFuncs(n)) = Calls(n)
<1> DEFINE C == Calls(n)
           c == Cardinality(C)
           Rises(s) == \A i, j \in DOMAIN s : i < j => s[i] < s[j]
<1>1. IsFiniteSet(C) /\ C \subseteq Nodes /\ C \subseteq 1 .. NumNodes /\ NumNodes \in Nat
  <2>1. C \in SUBSET Nodes
    BY DEF Calls
  <2> HIDE DEF C
  <2> QED
    BY <2>1, NodeFacts, FS_Subset
<1>2. SubFuncs(n) = CHOOSE s \in [1 .. c -> C] : Rises(s)
  BY DEF SubFuncs
<1> HIDE DEF C
<1>3. c \in Nat /\ ExistsBijection(1 .. c, C)
  BY <1>1, FS_CardinalityType
<1>4. PICK b \in Bijection(1 .. c, C) : TRUE
  BY <1>3 DEF ExistsBijection
<1> HIDE DEF c
<1>5. b \in [1 .. c -> C] /\ \A i, j \in 1 .. c : b[i] = b[j] => i = j
  BY <1>4 DEF Bijection, Injection, IsInjective
<1> DEFINE h == [i \in 1 .. c |-> NumNodes - b[i]]
<1>6. h \in [1 .. c -> Nat]
  <2>1. \A i \in 1 .. c : b[i] \in 1 .. NumNodes
    BY <1>1, <1>5
  <2>2. \A i \in 1 .. c : NumNodes - b[i] \in Nat
    BY <1>1, <2>1
  <2> QED
    BY <2>2
<1>7. PICK p : Sorts(p, h, c)
  <2> HIDE DEF h
  <2> QED
    BY <1>3, <1>6, SortExists
<1> DEFINE s == [i \in 1 .. c |-> b[p[i]]]
<1>8. s \in [1 .. c -> C] /\ Rises(s)
  <2>1. p \in [1 .. c -> 1 .. c] /\ \A i, j \in 1 .. c : p[i] = p[j] => i = j
    BY <1>7 DEF Sorts
  <2>2. ASSUME NEW i \in 1 .. c, NEW j \in 1 .. c, i < j
        PROVE  s[i] < s[j]
    <3>1. h[p[i]] >= h[p[j]]
      <4> HIDE DEF h
      <4> QED
        BY <1>7, <2>2 DEF Sorts
    <3>2. h[p[i]] = NumNodes - b[p[i]] /\ h[p[j]] = NumNodes - b[p[j]]
      BY <2>1
    <3>3. b[p[i]] # b[p[j]]
      BY <1>3, <1>5, <2>1, <2>2
    <3>4. b[p[i]] \in 1 .. NumNodes /\ b[p[j]] \in 1 .. NumNodes
      BY <1>1, <1>5, <2>1
    <3> HIDE DEF h
    <3> QED
      BY <1>1, <3>1, <3>2, <3>3, <3>4
  <2> QED
    BY <1>5, <2>1, <2>2
<1>9. SubFuncs(n) \in [1 .. c -> C] /\ Rises(SubFuncs(n))
  <2> HIDE DEF s, Rises
  <2> QED
    BY <1>2, <1>8
<1> DEFINE r == SubFuncs(n)
<1>10. r \in Seq(Nodes) /\ Len(r) = c /\ DOMAIN r = 1 .. c
  <2>1. r \in [1 .. c -> C]
    BY <1>9
  <2> HIDE DEF r, s, h, Rises
  <2>2. r \in [1 .. c -> Nodes]
    BY <1>1, <2>1
  <2>3. c \in Nat
    BY <1>3
  <2> QED
    BY <2>2, <2>3
<1>11. \A i, j \in 1 .. c : r[i] = r[j] => i = j
  <2> SUFFICES ASSUME NEW i \in 1 .. c, NEW j \in 1 .. c, r[i] = r[j], i # j
               PROVE  FALSE
    OBVIOUS
  <2>1. (i < j => r[i] < r[j]) /\ (j < i => r[j] < r[i])
    BY <1>9, <1>10
  <2>2. r[i] \in 1 .. NumNodes /\ r[j] \in 1 .. NumNodes
    BY <1>1, <1>9
  <2> HIDE DEF r
  <2> QED
    BY <1>1, <1>3, <2>1, <2>2
<1> HIDE DEF r, Rises
<1>12. r \in Surjection(1 .. c, C)
  <2>1. IsFiniteSet(1 .. c) /\ Cardinality(1 .. c) = c
    BY <1>3, FirstNumbers
  <2>2. r \in Injection(1 .. c, C)
    BY <1>9, <1>11, Fun_IsInj DEF r
  <2> QED
    BY <1>1, <2>1, <2>2, FS_Injection DEF c
<1>13. In(r) = C
  BY <1>9, <1>10, <1>12 DEF In, Surjection, r
<1>14. Distinct(r)
  BY <1>10, <1>11 DEF Distinct
<1> QED
  BY <1>10, <1>13, <1>14 DEF r, C

-----------------------------------------------------------------------------
(* The list of the longest.                                                 *)

LEMMA AtLeastBounds ==
  ASSUME NEW l \in Seq(Nat), NEW k \in Nat
  PROVE  /\ AtLeast(l, k) \in 0 .. Len(l)
         /\ (\A i \in 1 .. Len(l) : l[i] >= k) => AtLeast(l, k) = Len(l)
         /\ (\E i \in 1 .. Len(l) : l[i] < k) => AtLeast(l, k) # Len(l)
<1> DEFINE S == {i \in 1 .. Len(l) : l[i] >= k}
<1>1. Len(l) \in Nat
  OBVIOUS
<1>2. IsFiniteSet(1 .. Len(l)) /\ Cardinality(1 .. Len(l)) = Len(l)
  BY <1>1, FirstNumbers
<1>3. S \in SUBSET (1 .. Len(l))
  OBVIOUS
<1>4. (\A i \in 1 .. Len(l) : l[i] >= k) => S = 1 .. Len(l)
  OBVIOUS
<1>5. (\E i \in 1 .. Len(l) : l[i] < k) => S # 1 .. Len(l)
  OBVIOUS
<1> HIDE DEF S
<1>6. IsFiniteSet(S) /\ Cardinality(S) <= Len(l) /\ (Cardinality(S) = Len(l) => S = 1 .. Len(l))
  BY <1>2, <1>3, FS_Subset
<1>7. Cardinality(S) \in Nat
  BY <1>6, FS_CardinalityType
<1>8. AtLeast(l, k) = Cardinality(S)
  BY DEF AtLeast, S
<1> QED
  BY <1>1, <1>2, <1>4, <1>5, <1>6, <1>7, <1>8

LEMMA AtLeastAppend ==
  ASSUME NEW l \in Seq(Nat), NEW k \in Nat, NEW x \in Nat
  PROVE  /\ x >= k => AtLeast(Append(l, x), k) = AtLeast(l, k) + 1
         /\ ~(x >= k) => AtLeast(Append(l, x), k) = AtLeast(l, k)
<1> DEFINE S == {i \in 1 .. Len(l) : l[i] >= k}
           T == {i \in 1 .. Len(Append(l, x)) : Append(l, x)[i] >= k}
<1>1. /\ Len(l) \in Nat /\ Len(Append(l, x)) = Len(l) + 1
      /\ \A i \in 1 .. Len(l) : Append(l, x)[i] = l[i] /\ i \in 1 .. Len(l) + 1
      /\ Append(l, x)[Len(l) + 1] = x
      /\ \A i \in 1 .. Len(l) + 1 : i \in 1 .. Len(l) \/ i = Len(l) + 1
      /\ Len(l) + 1 \notin 1 .. Len(l) /\ Len(l) + 1 \in 1 .. Len(l) + 1
  OBVIOUS
<1>2. (x >= k => T = S \cup {Len(l) + 1}) /\ (~(x >= k) => T = S)
  BY <1>1
<1>3. Len(l) + 1 \notin S
  BY <1>1
<1>4. IsFiniteSet(S)
  <2>1. IsFiniteSet(1 .. Len(l))
    BY <1>1, FirstNumbers
  <2>2. S \in SUBSET (1 .. Len(l))
    OBVIOUS
  <2> HIDE DEF S
  <2> QED
    BY <2>1, <2>2, FS_Subset
<1> HIDE DEF S, T
<1>5. Cardinality(S \cup {Len(l) + 1}) = Cardinality(S) + 1 /\ Cardinality(S) \in Nat
  BY <1>3, <1>4, FS_AddElement, FS_CardinalityType
<1>6. AtLeast(l, k) = Cardinality(S) /\ AtLeast(Append(l, x), k) = Cardinality(T)
  BY DEF AtLeast, S, T
<1>7. CASE x >= k
  BY <1>2, <1>5, <1>6, <1>7
<1>8. CASE ~(x >= k)
  BY <1>2, <1>5, <1>6, <1>8
<1> QED
  BY <1>7, <1>8

LEMMA LongerFacts ==
  ASSUME IsTree, NEW S \in SUBSET Nodes, NEW k \in Nat
  PROVE  /\ IsFiniteSet(S) /\ Cardinality(S) \in Nat
         /\ Longer(S, k) \in 0 .. Cardinality(S)
         /\ \A n \in Nodes \ S :
              /\ Cardinality(S \cup {n}) = Cardinality(S) + 1
              /\ len[n] >= k => Longer(S \cup {n}, k) = Longer(S, k) + 1
              /\ ~(len[n] >= k) => Longer(S \cup {n}, k) = Longer(S, k)
<1>1. IsFiniteSet(S)
  BY NodeFacts, FS_Subset
<1> DEFINE T == {m \in S : len[m] >= k}
<1>2. T \in SUBSET S
  OBVIOUS
<1>3. ASSUME NEW n \in Nodes \ S
      PROVE  /\ {m \in S \cup {n} : len[m] >= k} = IF len[n] >= k THEN T \cup {n} ELSE T
             /\ n \notin T
  OBVIOUS
<1> HIDE DEF T
<1>4. IsFiniteSet(T) /\ Cardinality(T) <= Cardinality(S)
  BY <1>1, <1>2, FS_Subset
<1>5. Cardinality(T) \in Nat /\ Cardinality(S) \in Nat
  BY <1>1, <1>4, FS_CardinalityType
<1>6. Longer(S, k) = Cardinality(T)
  BY DEF Longer, T
<1>7. ASSUME NEW n \in Nodes \ S
      PROVE  /\ Cardinality(S \cup {n}) = Cardinality(S) + 1
             /\ len[n] >= k => Longer(S \cup {n}, k) = Longer(S, k) + 1
             /\ ~(len[n] >= k) => Longer(S \cup {n}, k) = Longer(S, k)
  <2>1. Cardinality(S \cup {n}) = Cardinality(S) + 1
    BY <1>1, FS_AddElement
  <2>2. Cardinality(T \cup {n}) = Cardinality(T) + 1
    BY <1>3, <1>4, FS_AddElement
  <2>3. Longer(S \cup {n}, k) = Cardinality(IF len[n] >= k THEN T \cup {n} ELSE T)
    BY <1>3 DEF Longer
  <2> QED
    BY <1>5, <1>6, <2>1, <2>2, <2>3
<1> QED
  BY <1>1, <1>4, <1>5, <1>6, <1>7

LEMMA LesserIs ==
  ASSUME NEW a \in Nat, NEW b \in Nat
  PROVE  (a < b => Lesser(a, b) = a) /\ (~(a < b) => Lesser(a, b) = b) /\ Lesser(a, b) \in Nat
BY DEF Lesser

\* Push: the list has the longest of one node more.
LEMMA PushKeepsList ==
  ASSUME IsTree, NEW S \in SUBSET Nodes, NEW n \in Nodes \ S, NEW l, Lists(l, S)
  PROVE  Lists(Push(l, len[n]), S \cup {n})
<1> DEFINE x == len[n]
           kept == IF Len(l) < LEN_LIMIT THEN Append(l, x)
                   ELSE IF x > Last(l) THEN Append(Front(l), x) ELSE l
           c == Cardinality(S)
<1>1. /\ l \in Seq(Nat) /\ Len(l) = Lesser(c, LEN_LIMIT) /\ Len(l) \in Nat
      /\ \A i, j \in 1 .. Len(l) : i < j => l[i] >= l[j]
      /\ \A k \in Nat : AtLeast(l, k) = Lesser(Longer(S, k), LEN_LIMIT)
  BY DEF Lists
<1>2. x \in Nat /\ LEN_LIMIT \in Nat \ {0}
  BY DEF IsTree, TreeAssumption
<1>3. c \in Nat /\ Cardinality(S \cup {n}) = c + 1
  <2>1. 0 \in Nat
    OBVIOUS
  <2> QED
    BY <2>1, LongerFacts
<1> DEFINE Known(k) ==
             /\ Longer(S, k) \in 0 .. c /\ Longer(S \cup {n}, k) \in Nat
             /\ x >= k => Longer(S \cup {n}, k) = Longer(S, k) + 1
             /\ ~(x >= k) => Longer(S \cup {n}, k) = Longer(S, k)
             /\ AtLeast(l, k) \in 0 .. Len(l)
             /\ Longer(S, k) < LEN_LIMIT => AtLeast(l, k) = Longer(S, k)
             /\ ~(Longer(S, k) < LEN_LIMIT) => AtLeast(l, k) = LEN_LIMIT
             /\ Longer(S \cup {n}, k) < LEN_LIMIT =>
                  Lesser(Longer(S \cup {n}, k), LEN_LIMIT) = Longer(S \cup {n}, k)
             /\ ~(Longer(S \cup {n}, k) < LEN_LIMIT) =>
                  Lesser(Longer(S \cup {n}, k), LEN_LIMIT) = LEN_LIMIT
<1>4. ASSUME NEW k \in Nat
      PROVE  Known(k)
  <2>1. /\ Longer(S, k) \in 0 .. c
        /\ x >= k => Longer(S \cup {n}, k) = Longer(S, k) + 1
        /\ ~(x >= k) => Longer(S \cup {n}, k) = Longer(S, k)
    BY LongerFacts
  <2>2. AtLeast(l, k) \in 0 .. Len(l) /\ AtLeast(l, k) = Lesser(Longer(S, k), LEN_LIMIT)
    BY <1>1, AtLeastBounds
  <2> HIDE DEF x, c
  <2>3. Longer(S, k) \in Nat /\ Longer(S \cup {n}, k) \in Nat
    BY <1>3, <2>1
  <2> QED
    BY <1>2, <2>1, <2>2, <2>3, LesserIs
<1> HIDE DEF x, c, Known
<1>5. /\ kept \in Seq(Nat) /\ Len(kept) = Lesser(c + 1, LEN_LIMIT)
      /\ \A k \in Nat : AtLeast(kept, k) = Lesser(Longer(S \cup {n}, k), LEN_LIMIT)
  <2>1. CASE Len(l) < LEN_LIMIT
    <3>1. kept = Append(l, x) /\ Len(l) = c
      BY <1>1, <1>2, <1>3, <2>1 DEF Lesser
    <3>2. kept \in Seq(Nat) /\ Len(kept) = c + 1 /\ c + 1 <= LEN_LIMIT
      BY <1>1, <1>2, <1>3, <2>1, <3>1
    <3>3. ASSUME NEW k \in Nat
          PROVE  AtLeast(kept, k) = Lesser(Longer(S \cup {n}, k), LEN_LIMIT)
      <4>0. Known(k)
        BY <1>4
      <4> USE <4>0 DEF Known
      <4>1. /\ x >= k => AtLeast(kept, k) = AtLeast(l, k) + 1
            /\ ~(x >= k) => AtLeast(kept, k) = AtLeast(l, k)
        <5>1. l \in Seq(Nat) /\ x \in Nat /\ kept = Append(l, x)
          BY <1>1, <1>2, <3>1
        <5> HIDE DEF kept, Known
        <5> QED
          BY <5>1, AtLeastAppend
      <4>2. AtLeast(l, k) = Longer(S, k)
        BY <1>2, <1>3, <3>1, <3>2
      <4> HIDE DEF kept
      <4>3. CASE x >= k
        BY <1>2, <1>3, <3>2, <4>1, <4>2, <4>3
      <4>4. CASE ~(x >= k)
        BY <1>2, <1>3, <3>2, <4>1, <4>2, <4>4
      <4> QED
        BY <4>3, <4>4
    <3> HIDE DEF kept
    <3> QED
      <4>1. Lesser(c + 1, LEN_LIMIT) = c + 1
        BY <1>2, <1>3, <3>2, LesserIs
      <4> QED
        BY <3>2, <3>3, <4>1
  <2>2. CASE ~(Len(l) < LEN_LIMIT)
    <3>1. Len(l) = LEN_LIMIT /\ LEN_LIMIT <= c
      BY <1>1, <1>2, <1>3, <2>2 DEF Lesser
    <3> DEFINE last == l[Len(l)]
               front == Front(l)
    <3>2. /\ last \in Nat /\ last = Last(l) /\ l = Append(front, last)
          /\ front \in Seq(Nat) /\ Len(front) = LEN_LIMIT - 1
      <4>1. Last(l) = last /\ front = SubSeq(l, 1, Len(l) - 1) /\ Len(l) \in 1 .. Len(l)
        BY <1>1, <1>2, <3>1 DEF Last, Front
      <4>2. last \in Nat
        BY <1>1, <4>1
      <4> HIDE DEF last
      <4>3. front \in Seq(Nat) /\ Len(front) = LEN_LIMIT - 1
        BY <1>1, <1>2, <3>1, <4>1
      <4>4. l = Append(front, last)
        BY <1>1, <1>2, <3>1, <4>1, <4>2 DEF last
      <4> QED
        BY <4>1, <4>2, <4>3, <4>4
    <3>3. \A i \in 1 .. Len(l) : l[i] >= last
      <4> SUFFICES ASSUME NEW i \in 1 .. Len(l)
                   PROVE  l[i] >= last
        OBVIOUS
      <4>1. i = Len(l) \/ i < Len(l)
        BY <1>1
      <4>2. l[i] \in Nat /\ Len(l) \in 1 .. Len(l)
        BY <1>1
      <4> QED
        BY <1>1, <4>1, <4>2
    <3> HIDE DEF last, front
    <3>4. ASSUME NEW k \in Nat
          PROVE  /\ last >= k => AtLeast(l, k) = LEN_LIMIT
                 /\ ~(last >= k) => AtLeast(l, k) < LEN_LIMIT
      <4>1. last >= k => \A i \in 1 .. Len(l) : l[i] >= k
        <5>1. \A i \in 1 .. Len(l) : l[i] \in Nat
          BY <1>1
        <5> QED
          BY <3>2, <3>3, <5>1
      <4>2. ~(last >= k) => \E i \in 1 .. Len(l) : l[i] < k
        <5>1. Len(l) \in 1 .. Len(l) /\ l[Len(l)] = last
          BY <1>2, <3>1 DEF last
        <5> QED
          BY <3>2, <5>1
      <4>3. AtLeast(l, k) \in 0 .. LEN_LIMIT
        BY <1>1, <1>2, <3>1, AtLeastBounds
      <4>4. ~(last >= k) => AtLeast(l, k) # LEN_LIMIT
        BY <1>1, <3>1, <4>2, AtLeastBounds
      <4>5. last >= k => AtLeast(l, k) = LEN_LIMIT
        BY <1>1, <3>1, <4>1, AtLeastBounds
      <4> QED
        BY <1>2, <4>3, <4>4, <4>5
    <3>5. CASE x > last
      <4>1. kept = Append(front, x)
        BY <2>2, <3>2, <3>5 DEF front
      <4> HIDE DEF kept
      <4>2. kept \in Seq(Nat) /\ Len(kept) = LEN_LIMIT
        BY <1>2, <3>2, <4>1
      <4>3. ASSUME NEW k \in Nat
            PROVE  AtLeast(kept, k) = Lesser(Longer(S \cup {n}, k), LEN_LIMIT)
        <5>0. Known(k)
          BY <1>4
        <5> USE <5>0 DEF Known
        <5>1. /\ x >= k => AtLeast(kept, k) = AtLeast(front, k) + 1
              /\ ~(x >= k) => AtLeast(kept, k) = AtLeast(front, k)
          BY <1>2, <3>2, <4>1, AtLeastAppend
        <5>2. /\ last >= k => AtLeast(l, k) = AtLeast(front, k) + 1
              /\ ~(last >= k) => AtLeast(l, k) = AtLeast(front, k)
          BY <3>2, AtLeastAppend
        <5>3. AtLeast(front, k) \in 0 .. LEN_LIMIT - 1
          BY <3>2, AtLeastBounds
        <5>4. CASE last >= k
          <6>1. x >= k
            BY <1>2, <3>2, <3>5, <5>4
          <6>2. AtLeast(kept, k) = LEN_LIMIT
            BY <1>2, <3>4, <5>1, <5>2, <5>3, <5>4, <6>1
          <6>3. Longer(S, k) >= LEN_LIMIT
            BY <1>2, <1>3, <3>4, <5>4
          <6> QED
            BY <1>2, <1>3, <6>1, <6>2, <6>3
        <5>5. CASE ~(last >= k)
          <6>1. AtLeast(front, k) = AtLeast(l, k) /\ AtLeast(l, k) < LEN_LIMIT
            BY <1>2, <3>4, <5>2, <5>3, <5>5
          <6>2. Longer(S, k) = AtLeast(l, k)
            BY <1>2, <1>3, <6>1
          <6>3. CASE x >= k
            BY <1>2, <1>3, <5>1, <6>1, <6>2, <6>3
          <6>4. CASE ~(x >= k)
            BY <1>2, <1>3, <5>1, <6>1, <6>2, <6>4
          <6> QED
            BY <6>3, <6>4
        <5> QED
          BY <5>4, <5>5
      <4> QED
        <5>1. Lesser(c + 1, LEN_LIMIT) = LEN_LIMIT
          BY <1>2, <1>3, <3>1, LesserIs
        <5> QED
          BY <4>2, <4>3, <5>1
    <3>6. CASE ~(x > last)
      <4>1. kept = l
        BY <2>2, <3>2, <3>6
      <4>2. ASSUME NEW k \in Nat
            PROVE  AtLeast(l, k) = Lesser(Longer(S \cup {n}, k), LEN_LIMIT)
        <5>0. Known(k)
          BY <1>4
        <5> USE <5>0 DEF Known
        <5> HIDE DEF kept
        <5>1. CASE x >= k
          <6>1. last >= k
            BY <1>2, <3>2, <3>6, <5>1
          <6>2. AtLeast(l, k) = LEN_LIMIT
            BY <3>4, <6>1
          <6>3. Longer(S, k) >= LEN_LIMIT
            BY <1>2, <1>3, <6>2
          <6> QED
            BY <1>2, <1>3, <5>1, <6>2, <6>3
        <5>2. CASE ~(x >= k)
          <6>1. Longer(S \cup {n}, k) = Longer(S, k)
            BY <1>3, <5>2
          <6> QED
            BY <1>2, <1>3, <6>1
        <5> QED
          BY <5>1, <5>2
      <4> HIDE DEF kept
      <4> QED
        <5>1. Lesser(c + 1, LEN_LIMIT) = LEN_LIMIT
          BY <1>2, <1>3, <3>1, LesserIs
        <5> QED
          BY <1>1, <3>1, <4>1, <4>2, <5>1
    <3> QED
      BY <3>5, <3>6
  <2> QED
    BY <2>1, <2>2
<1>6. Push(l, len[n]) = Sorted(kept)
  BY DEF Push, x
<1> HIDE DEF kept
<1>7. Lists(Sorted(kept), S \cup {n})
  <2>1. /\ Sorted(kept) \in Seq(Nat) /\ Len(Sorted(kept)) = Len(kept)
        /\ \A i, j \in 1 .. Len(kept) : i < j => Sorted(kept)[i] >= Sorted(kept)[j]
        /\ \A k \in Nat : AtLeast(Sorted(kept), k) = AtLeast(kept, k)
    BY <1>5, SortedSorts
  <2> QED
    BY <1>3, <1>5, <2>1 DEF Lists
<1> QED
  BY <1>6, <1>7

-----------------------------------------------------------------------------
(* The walk in breadth.                                                     *)

LEMMA InAppend ==
  ASSUME NEW S, NEW s \in Seq(S), NEW x \in S
  PROVE  /\ Append(s, x) \in Seq(S) /\ In(Append(s, x)) = In(s) \cup {x}
         /\ Distinct(s) /\ x \notin In(s) => Distinct(Append(s, x))
<1>1. /\ Len(s) \in Nat /\ Len(Append(s, x)) = Len(s) + 1 /\ Append(s, x) \in Seq(S)
      /\ \A i \in 1 .. Len(s) : Append(s, x)[i] = s[i] /\ i \in 1 .. Len(s) + 1
      /\ Append(s, x)[Len(s) + 1] = x
      /\ \A i \in 1 .. Len(s) + 1 : i \in 1 .. Len(s) \/ i = Len(s) + 1
      /\ Len(s) + 1 \in 1 .. Len(s) + 1
  OBVIOUS
<1>2. In(Append(s, x)) = In(s) \cup {x}
  BY <1>1 DEF In
<1>3. Distinct(s) /\ x \notin In(s) => Distinct(Append(s, x))
  BY <1>1 DEF In, Distinct
<1> QED
  BY <1>1, <1>2, <1>3

LEMMA InConcat ==
  ASSUME NEW S, NEW s \in Seq(S), NEW t \in Seq(S)
  PROVE  /\ s \o t \in Seq(S) /\ In(s \o t) = In(s) \cup In(t)
         /\ Distinct(s) /\ Distinct(t) /\ In(s) \cap In(t) = {} => Distinct(s \o t)
<1>1. /\ Len(s) \in Nat /\ Len(t) \in Nat /\ Len(s \o t) = Len(s) + Len(t) /\ s \o t \in Seq(S)
      /\ \A i \in 1 .. Len(s) : (s \o t)[i] = s[i] /\ i \in 1 .. Len(s) + Len(t)
      /\ \A i \in 1 .. Len(t) : (s \o t)[Len(s) + i] = t[i] /\ Len(s) + i \in 1 .. Len(s) + Len(t)
  OBVIOUS
<1>2. \A i \in 1 .. Len(s) + Len(t) :
        \/ i \in 1 .. Len(s) /\ (s \o t)[i] = s[i]
        \/ i - Len(s) \in 1 .. Len(t) /\ (s \o t)[i] = t[i - Len(s)]
  BY <1>1
<1>3. In(s \o t) = In(s) \cup In(t)
  <2> DEFINE r == s \o t
             N == Len(s) + Len(t)
  <2>1. \A x \in In(s) : \E i \in 1 .. N : r[i] = x
    BY <1>1 DEF In
  <2>2. \A x \in In(t) : \E i \in 1 .. N : r[i] = x
    BY <1>1 DEF In
  <2>3. \A i \in 1 .. N : r[i] \in In(s) \/ r[i] \in In(t)
    BY <1>2 DEF In
  <2>4. Len(r) = N
    BY <1>1
  <2> HIDE DEF r, N
  <2>5. In(r) = In(s) \cup In(t)
    BY <2>1, <2>2, <2>3, <2>4 DEF In
  <2> QED
    BY <2>5 DEF r
<1>4. ASSUME Distinct(s), Distinct(t), In(s) \cap In(t) = {},
             NEW i \in 1 .. Len(s) + Len(t), NEW j \in 1 .. Len(s) + Len(t), (s \o t)[i] = (s \o t)[j]
      PROVE  i = j
  <2>1. \A k \in 1 .. Len(s), l \in 1 .. Len(t) : s[k] # t[l]
    BY <1>4 DEF In
  <2>2. CASE i \in 1 .. Len(s) /\ j \in 1 .. Len(s)
    BY <1>1, <1>4, <2>2 DEF Distinct
  <2>3. CASE i \notin 1 .. Len(s) /\ j \notin 1 .. Len(s)
    <3>1. i - Len(s) \in 1 .. Len(t) /\ j - Len(s) \in 1 .. Len(t) /\ t[i - Len(s)] = t[j - Len(s)]
      BY <1>2, <1>4, <2>3
    <3>2. i - Len(s) = j - Len(s)
      BY <1>4, <3>1 DEF Distinct
    <3> QED
      BY <1>1, <3>2
  <2> QED
    BY <1>2, <1>4, <2>1, <2>2, <2>3
<1> QED
  BY <1>1, <1>3, <1>4 DEF Distinct

LEMMA InTail ==
  ASSUME NEW S, NEW s \in Seq(S), s # <<>>
  PROVE  /\ Head(s) \in S /\ Tail(s) \in Seq(S) /\ In(s) = {Head(s)} \cup In(Tail(s))
         /\ Distinct(s) => Distinct(Tail(s)) /\ Head(s) \notin In(Tail(s))
<1>1. /\ Len(s) \in Nat /\ Len(s) >= 1 /\ Len(Tail(s)) = Len(s) - 1 /\ Tail(s) \in Seq(S)
      /\ \A i \in 1 .. Len(s) - 1 : Tail(s)[i] = s[i + 1] /\ i + 1 \in 1 .. Len(s) /\ i + 1 # 1
      /\ Head(s) = s[1] /\ 1 \in 1 .. Len(s) /\ s[1] \in S
  OBVIOUS
<1>2. \A i \in 1 .. Len(s) : i = 1 \/ (i - 1 \in 1 .. Len(s) - 1 /\ s[i] = Tail(s)[i - 1])
  BY <1>1
<1>3. In(s) = {Head(s)} \cup In(Tail(s))
  BY <1>1, <1>2 DEF In
<1>4. Distinct(s) => Distinct(Tail(s))
  <2> SUFFICES ASSUME Distinct(s), NEW i \in 1 .. Len(s) - 1, NEW j \in 1 .. Len(s) - 1, Tail(s)[i] = Tail(s)[j]
               PROVE  i = j
    BY <1>1 DEF Distinct
  <2>1. i + 1 = j + 1
    BY <1>1 DEF Distinct
  <2> QED
    BY <1>1, <2>1
<1>5. Distinct(s) => Head(s) \notin In(Tail(s))
  BY <1>1 DEF Distinct, In
<1> QED
  BY <1>1, <1>3, <1>4, <1>5

\* Visit: the node met is new, and so are its calls.
LEMMA VisitKeepsWalk ==
  ASSUME IsTree, NEW ord, NEW que, Walked(ord, que), que # <<>>
  PROVE  /\ Head(que) \in Nodes /\ Head(que) \notin In(ord)
         /\ In(Append(ord, Head(que))) = In(ord) \cup {Head(que)}
         /\ Walked(Append(ord, Head(que)), Tail(que) \o SubFuncs(Head(que)))
<1> DEFINE n == Head(que)
           calls == SubFuncs(n)
<1>1. /\ ord \in Seq(Nodes) /\ que \in Seq(Nodes)
      /\ Distinct(ord) /\ Distinct(que) /\ In(ord) \cap In(que) = {}
      /\ Root \in In(ord) \cup In(que)
      /\ \A m \in Nodes \ {Root} : m \in In(ord) \cup In(que) <=> parent[m] \in In(ord)
  BY DEF Walked
<1>2. /\ n \in Nodes /\ Tail(que) \in Seq(Nodes) /\ In(que) = {n} \cup In(Tail(que))
      /\ Distinct(Tail(que)) /\ n \notin In(Tail(que))
  BY <1>1, InTail
<1>3. n \notin In(ord)
  BY <1>1, <1>2
<1>4. calls \in Seq(Nodes) /\ Distinct(calls) /\ In(calls) = {m \in Nodes \ {Root} : parent[m] = n}
  BY <1>2, CallsInOrder DEF Calls
<1> HIDE DEF n, calls
<1>5. \A m \in In(calls) : m \in Nodes \ {Root} /\ m \notin In(ord) /\ m \notin In(que)
  BY <1>1, <1>3, <1>4
<1>6. /\ Append(ord, n) \in Seq(Nodes) /\ In(Append(ord, n)) = In(ord) \cup {n}
      /\ Distinct(Append(ord, n))
  BY <1>1, <1>2, <1>3, InAppend
<1>7. /\ Tail(que) \o calls \in Seq(Nodes) /\ In(Tail(que) \o calls) = In(Tail(que)) \cup In(calls)
      /\ Distinct(Tail(que) \o calls)
  <2>1. In(Tail(que)) \cap In(calls) = {}
    BY <1>2, <1>5
  <2> DEFINE rest == Tail(que)
  <2>2. rest \in Seq(Nodes) /\ Distinct(rest) /\ In(rest) \cap In(calls) = {}
    BY <1>2, <2>1
  <2> HIDE DEF rest
  <2>3. /\ rest \o calls \in Seq(Nodes) /\ In(rest \o calls) = In(rest) \cup In(calls)
        /\ Distinct(rest \o calls)
    BY <1>4, <2>2, InConcat
  <2> QED
    BY <2>3 DEF rest
<1>8. n \notin In(calls)
  BY <1>2, <1>5
<1>9. In(Append(ord, n)) \cap In(Tail(que) \o calls) = {}
  BY <1>1, <1>2, <1>5, <1>6, <1>7, <1>8
<1>10. \A m \in Nodes \ {Root} :
         m \in In(Append(ord, n)) \cup In(Tail(que) \o calls) <=> parent[m] \in In(Append(ord, n))
  BY <1>1, <1>2, <1>4, <1>6, <1>7
<1>11. Root \in In(Append(ord, n)) \cup In(Tail(que) \o calls)
  BY <1>1, <1>2, <1>6, <1>7
<1>12. Walked(Append(ord, n), Tail(que) \o calls)
  BY <1>6, <1>7, <1>9, <1>10, <1>11 DEF Walked
<1> QED
  BY <1>2, <1>3, <1>6, <1>12 DEF n, calls

\* The walk has met every node when none waits.
LEMMA WalkedAll ==
  ASSUME IsTree, NEW ord, Walked(ord, <<>>)
  PROVE  In(ord) = Nodes
<1> DEFINE T == Nodes \ In(ord)
<1>1. In(ord) \subseteq Nodes
  BY DEF Walked, In
<1> SUFFICES ASSUME T # {} PROVE FALSE
  BY <1>1
<1>2. PICK m \in T : \A j \in T : m <= j
  <2>1. T \in SUBSET Nat
    BY NodeFacts
  <2> HIDE DEF T
  <2> QED
    BY <2>1, LeastNumber
<1>3. /\ In(<<>>) = {} /\ Root \in In(ord) \cup In(<<>>)
      /\ \A n \in Nodes \ {Root} : n \in In(ord) \cup In(<<>>) <=> parent[n] \in In(ord)
  BY DEF Walked, In
<1>4. m \in Nodes /\ m # Root /\ m \notin In(ord)
  BY <1>3
<1>5. parent[m] \in 1 .. m - 1 /\ m \in 1 .. NumNodes /\ NumNodes \in Nat /\ Nodes = 1 .. NumNodes
  BY <1>4, NodeFacts DEF IsTree
<1>6. parent[m] \in Nodes /\ ~(m <= parent[m])
  BY <1>5
<1>7. parent[m] \in In(ord)
  BY <1>2, <1>6
<1> QED
  BY <1>3, <1>4, <1>7

-----------------------------------------------------------------------------
(* The walk in depth.                                                       *)

\* A path: above each of its nodes are those before it.
IsPath(p) == p \in Seq(Nodes) /\ \A i \in 1 .. Len(p) : Above[p[i]] = SubSeq(p, 1, i - 1)

LEMMA PathPlaces ==
  ASSUME NEW p, IsPath(p)
  PROVE  \A i, j \in 1 .. Len(p) : p[i] = p[j] => i = j
<1> SUFFICES ASSUME NEW i \in 1 .. Len(p), NEW j \in 1 .. Len(p), p[i] = p[j]
             PROVE  i = j
  OBVIOUS
<1>1. p \in Seq(Nodes) /\ SubSeq(p, 1, i - 1) = SubSeq(p, 1, j - 1)
  BY DEF IsPath
<1>2. Len(SubSeq(p, 1, i - 1)) = i - 1
  BY <1>1
<1>3. Len(SubSeq(p, 1, j - 1)) = j - 1
  BY <1>1
<1> QED
  BY <1>1, <1>2, <1>3

LEMMA PathTo ==
  ASSUME IsTree, NEW n \in Nodes
  PROVE  /\ IsPath(Append(Above[n], n)) /\ Len(Append(Above[n], n)) = Len(Above[n]) + 1
         /\ Append(Above[n], n)[Len(Above[n]) + 1] = n
         /\ \A i \in 1 .. Len(Above[n]) : Append(Above[n], n)[i] = Above[n][i]
<1> DEFINE a == Above[n]
           p == Append(a, n)
<1>1. a \in Seq(Nodes) /\ \A i \in 1 .. Len(a) : Above[a[i]] = SubSeq(a, 1, i - 1)
  BY AbovePath
<1> HIDE DEF a
<1>2. /\ Len(a) \in Nat /\ p \in Seq(Nodes) /\ Len(p) = Len(a) + 1 /\ p[Len(a) + 1] = n
      /\ \A i \in 1 .. Len(a) : p[i] = a[i]
  BY <1>1
<1>3. ASSUME NEW i \in 1 .. Len(a) + 1
      PROVE  Above[p[i]] = SubSeq(p, 1, i - 1)
  <2>1. SubSeq(p, 1, i - 1) = SubSeq(a, 1, i - 1)
    BY <1>1, <1>2
  <2>2. CASE i = Len(a) + 1
    <3>1. SubSeq(a, 1, Len(a)) = a
      BY <1>1, SubSeqFull
    <3> HIDE DEF p
    <3> QED
      BY <1>2, <2>1, <2>2, <3>1 DEF a
  <2>3. CASE i # Len(a) + 1
    <3>1. i \in 1 .. Len(a)
      BY <1>2, <2>3
    <3> HIDE DEF p
    <3> QED
      BY <1>1, <1>2, <2>1, <3>1
  <2> QED
    BY <2>2, <2>3
<1> QED
  BY <1>2, <1>3 DEF IsPath, a

\* The stack that CheckRecur takes from the path.
Stack(p, n) == IF n = Root THEN <<>> ELSE SubSeq(p, 1, CHOOSE i \in DOMAIN p : p[i] = parent[n])

LEMMA StackIsAbove ==
  ASSUME IsTree, NEW p, NEW que, Deepened(p, que), que # <<>>
  PROVE  /\ Head(que) \in Nodes /\ Stack(p, Head(que)) = Above[Head(que)]
         /\ p # <<>> => /\ Head(que) # Root
                        /\ \E k \in 1 .. Len(p) : p[k] = parent[Head(que)] /\ Above[Head(que)] = SubSeq(p, 1, k)
<1> DEFINE n == Head(que)
<1>1. /\ p \in Seq(Nodes) /\ que \in Seq(Nodes) /\ n = que[1] /\ 1 \in 1 .. Len(que) /\ n \in Nodes
      /\ p = <<>> => que = <<Root>>
      /\ IsPath(p)
      /\ p # <<>> => n # Root /\ OnPath(p, n)
  BY DEF Deepened, IsPath
<1> HIDE DEF n
<1>2. CASE p = <<>>
  <2>1. n = Root
    BY <1>1, <1>2
  <2> QED
    BY <1>1, <1>2, <2>1, AboveEquation DEF Stack, n
<1>3. CASE p # <<>>
  <2>1. PICK k \in 1 .. Len(p) : p[k] = parent[n]
    BY <1>1, <1>3 DEF OnPath
  <2>2. DOMAIN p = 1 .. Len(p) /\ Len(p) \in Nat
    BY <1>1
  <2>3. (CHOOSE i \in DOMAIN p : p[i] = parent[n]) = k
    BY <1>1, <2>1, <2>2, PathPlaces
  <2>4. Stack(p, n) = SubSeq(p, 1, k)
    BY <1>1, <1>3, <2>3 DEF Stack
  <2>5. Above[n] = Append(SubSeq(p, 1, k - 1), p[k])
    BY <1>1, <1>3, <2>1, AboveEquation DEF IsPath
  <2>6. Append(SubSeq(p, 1, k - 1), p[k]) = SubSeq(p, 1, k)
    BY <1>1, <2>1, <2>2
  <2> QED
    BY <1>1, <1>3, <2>1, <2>4, <2>5, <2>6 DEF n
<1> QED
  BY <1>2, <1>3

\* The place found on the stack is the nearest of the name.
LEMMA NearestFound ==
  ASSUME IsTree, NEW n \in Nodes
  PROVE  /\ LatestSame(Above[n], name[n]) > 0 <=> n \in Repeats
         /\ LatestSame(Above[n], name[n]) = 0 <=> n \notin Repeats
         /\ n \in Repeats => LatestSame(Above[n], name[n]) = Near(n)
<1> DEFINE a == Above[n]
           same == {i \in DOMAIN a : name[a[i]] = name[n]}
<1>1. a \in Seq(Nodes) /\ DOMAIN a = 1 .. Len(a) /\ Len(a) \in Nat
  BY AbovePath
<1>2. n \in Repeats <=> same # {}
  BY DEF Repeats
<1> HIDE DEF a
<1>3. CASE same = {}
  BY <1>2, <1>3 DEF LatestSame, a
<1>4. CASE same # {}
  <2>1. PICK m \in same : \A j \in same : j <= m
    <3> DEFINE T == {Len(a) - i : i \in same}
    <3>1. T \in SUBSET Nat /\ T # {}
      BY <1>1, <1>4
    <3>2. PICK t \in T : \A u \in T : t <= u
      <4> HIDE DEF T
      <4> QED
        BY <3>1, LeastNumber
    <3>3. PICK m \in same : t = Len(a) - m
      OBVIOUS
    <3>4. ASSUME NEW j \in same PROVE j <= m
      <4>1. Len(a) - m <= Len(a) - j
        BY <3>2, <3>3
      <4>2. m \in 1 .. Len(a) /\ j \in 1 .. Len(a)
        BY <1>1
      <4> QED
        BY <1>1, <4>1, <4>2
    <3> QED
      BY <3>4
  <2>2. m \in 1 .. Len(a) /\ same \subseteq 1 .. Len(a)
    BY <1>1
  <2>3. (CHOOSE i \in same : \A j \in same : j <= i) = m
    <3> HIDE DEF same
    <3>1. \A i \in same : (\A j \in same : j <= i) => i = m
      BY <1>1, <2>1, <2>2
    <3> QED
      BY <2>1, <3>1
  <2>4. Near(n) = m
    <3> DEFINE P(i) == name[a[i]] = name[n] /\ \A j \in i + 1 .. Len(a) : name[a[j]] # name[n]
    <3>1. P(m)
      <4> SUFFICES ASSUME NEW j \in m + 1 .. Len(a), name[a[j]] = name[n] PROVE FALSE
        OBVIOUS
      <4>1. j \in 1 .. Len(a) /\ ~(j <= m)
        BY <1>1, <2>2
      <4> QED
        BY <1>1, <2>1, <4>1
    <3>2. ASSUME NEW i \in DOMAIN a, P(i) PROVE i = m
      <4>1. i \in same /\ i \in 1 .. Len(a)
        BY <1>1, <3>2
      <4>2. i <= m
        BY <2>1, <4>1
      <4>3. m \notin i + 1 .. Len(a)
        BY <3>2
      <4> QED
        BY <1>1, <2>2, <4>1, <4>2, <4>3
    <3>3. Near(n) = CHOOSE i \in DOMAIN a : P(i)
      BY DEF Near, a
    <3>4. m \in DOMAIN a
      OBVIOUS
    <3> HIDE DEF P
    <3> QED
      BY <3>1, <3>2, <3>3, <3>4
  <2>5. LatestSame(a, name[n]) = m
    BY <1>4, <2>3 DEF LatestSame
  <2> QED
    BY <1>1, <1>2, <1>4, <2>2, <2>4, <2>5 DEF a
<1> QED
  BY <1>3, <1>4

\* CheckRecur: the path to the node met, and its calls before what waits.
LEMMA DescendKeepsPath ==
  ASSUME IsTree, NEW p, NEW que, Deepened(p, que), que # <<>>
  PROVE  LET n == Head(que)
         IN Deepened(Append(Above[n], n), SubFuncs(n) \o Tail(que))
<1> DEFINE n == Head(que)
           q == Append(Above[n], n)
           calls == SubFuncs(n)
           rest == Tail(que)
           L == Len(Above[n])
<1>1. /\ p \in Seq(Nodes) /\ que \in Seq(Nodes) /\ IsPath(p)
      /\ p = <<>> => que = <<Root>>
      /\ p # <<>> => \A i \in 1 .. Len(que) : que[i] # Root /\ OnPath(p, que[i])
      /\ \A i, j \in 1 .. Len(que) : i < j =>
           \A k, l \in 1 .. Len(p) : p[k] = parent[que[i]] /\ p[l] = parent[que[j]] => l <= k
  BY DEF Deepened, IsPath
<1>2. /\ n = que[1] /\ 1 \in 1 .. Len(que) /\ n \in Nodes /\ rest \in Seq(Nodes)
      /\ Len(rest) = Len(que) - 1 /\ Len(que) \in Nat
      /\ \A i \in 1 .. Len(rest) : rest[i] = que[i + 1] /\ i + 1 \in 1 .. Len(que) /\ 1 < i + 1
  BY <1>1
<1>3. p # <<>> => n # Root /\ \E k \in 1 .. Len(p) : p[k] = parent[n] /\ Above[n] = SubSeq(p, 1, k)
  BY StackIsAbove
<1>4. /\ calls \in Seq(Nodes) /\ Len(calls) \in Nat
      /\ \A i \in 1 .. Len(calls) : calls[i] \in Nodes \ {Root} /\ parent[calls[i]] = n
  <2>1. calls \in Seq(Nodes) /\ In(calls) = Calls(n)
    BY <1>2, CallsInOrder
  <2> HIDE DEF calls
  <2>2. \A i \in 1 .. Len(calls) : calls[i] \in Calls(n)
    BY <2>1 DEF In
  <2> QED
    BY <2>1, <2>2 DEF Calls
<1>5. IsPath(q) /\ Len(q) = L + 1 /\ q[L + 1] = n /\ \A i \in 1 .. L : q[i] = Above[n][i]
  BY <1>2, PathTo
<1>6. L \in Nat
  BY <1>2, AbovePath
<1> HIDE DEF n, q, calls, rest, L
<1>7. \A k, l \in 1 .. L + 1 : q[k] = q[l] => k = l
  BY <1>5, PathPlaces
<1>8. p = <<>> => Len(rest) = 0
  BY <1>1, <1>2
<1>9. ASSUME p # <<>>
      PROVE  \E k \in 1 .. Len(p) : p[k] = parent[n] /\ L = k /\ \A i \in 1 .. k : q[i] = p[i]
  <2>1. PICK k \in 1 .. Len(p) : p[k] = parent[n] /\ Above[n] = SubSeq(p, 1, k)
    BY <1>3, <1>9
  <2>2. Len(SubSeq(p, 1, k)) = k /\ \A i \in 1 .. k : SubSeq(p, 1, k)[i] = p[i]
    BY <1>1, <2>1
  <2> QED
    BY <1>5, <2>1, <2>2 DEF L
\* A node that still waits is called from a node still on the path, at its place.
<1>10. ASSUME NEW i \in 1 .. Len(rest)
       PROVE  /\ rest[i] # Root /\ p # <<>>
              /\ \E l \in 1 .. Len(p) : l <= L /\ p[l] = parent[rest[i]] /\ q[l] = parent[rest[i]]
  <2>1. p # <<>>
    BY <1>2, <1>8
  <2>2. PICK k \in 1 .. Len(p) : p[k] = parent[n] /\ L = k /\ \A m \in 1 .. k : q[m] = p[m]
    BY <1>9, <2>1
  <2>3. rest[i] = que[i + 1] /\ i + 1 \in 1 .. Len(que) /\ 1 < i + 1
    BY <1>2
  <2>4. rest[i] # Root /\ OnPath(p, rest[i])
    BY <1>1, <2>1, <2>3
  <2>5. PICK l \in 1 .. Len(p) : p[l] = parent[rest[i]]
    BY <2>4 DEF OnPath
  <2>6. l <= k
    <3>1. 1 \in 1 .. Len(que) /\ que[1] = n
      BY <1>2
    <3>2. \A k1, l1 \in 1 .. Len(p) : p[k1] = parent[que[1]] /\ p[l1] = parent[que[i + 1]] => l1 <= k1
      BY <1>1, <2>3, <3>1
    <3> QED
      BY <2>2, <2>3, <2>5, <3>1, <3>2
  <2>7. q[l] = p[l]
    BY <2>2, <2>5, <2>6
  <2> QED
    BY <2>1, <2>2, <2>4, <2>5, <2>6, <2>7
<1> DEFINE new == calls \o rest
<1>11. /\ new \in Seq(Nodes) /\ Len(new) = Len(calls) + Len(rest)
       /\ \A i \in 1 .. Len(new) :
            \/ i \in 1 .. Len(calls) /\ new[i] = calls[i]
            \/ i - Len(calls) \in 1 .. Len(rest) /\ new[i] = rest[i - Len(calls)]
  <2>1. rest \in Seq(Nodes)
    BY <1>2
  <2> QED
    BY <1>4, <2>1
<1> HIDE DEF new
<1>12. ASSUME NEW i \in 1 .. Len(new)
       PROVE  new[i] # Root /\ OnPath(q, new[i])
  <2>1. CASE i \in 1 .. Len(calls) /\ new[i] = calls[i]
    <3>1. new[i] # Root /\ q[L + 1] = parent[new[i]] /\ L + 1 \in 1 .. Len(q)
      BY <1>4, <1>5, <1>6, <2>1
    <3> QED
      BY <3>1 DEF OnPath
  <2>2. CASE i - Len(calls) \in 1 .. Len(rest) /\ new[i] = rest[i - Len(calls)]
    <3>1. new[i] # Root /\ \E l \in 1 .. Len(p) : l <= L /\ q[l] = parent[new[i]]
      BY <1>10, <2>2
    <3>2. \E l \in 1 .. Len(q) : q[l] = parent[new[i]]
      BY <1>1, <1>5, <1>6, <3>1
    <3> QED
      BY <3>1, <3>2 DEF OnPath
  <2> QED
    BY <1>11, <2>1, <2>2
<1>13. ASSUME NEW i \in 1 .. Len(new), NEW j \in 1 .. Len(new), i < j,
              NEW k \in 1 .. Len(q), NEW l \in 1 .. Len(q),
              q[k] = parent[new[i]], q[l] = parent[new[j]]
       PROVE  l <= k
  <2>1. CASE i \in 1 .. Len(calls) /\ new[i] = calls[i]
    <3>1. q[k] = q[L + 1] /\ L + 1 \in 1 .. L + 1 /\ k \in 1 .. L + 1 /\ l \in 1 .. L + 1
      BY <1>4, <1>5, <1>6, <1>13, <2>1
    <3>2. k = L + 1
      BY <1>7, <3>1
    <3> QED
      BY <1>6, <3>1, <3>2
  <2>2. CASE i - Len(calls) \in 1 .. Len(rest) /\ new[i] = rest[i - Len(calls)]
    <3> DEFINE a == i - Len(calls)
               b == j - Len(calls)
    <3>1. ~(j \in 1 .. Len(calls))
      BY <1>4, <1>13, <2>2
    <3>2. a \in 1 .. Len(rest) /\ b \in 1 .. Len(rest) /\ a < b /\ new[i] = rest[a] /\ new[j] = rest[b]
      BY <1>4, <1>11, <1>13, <2>2, <3>1
    <3> HIDE DEF a, b
    <3>3. PICK k2 \in 1 .. Len(p) : k2 <= L /\ p[k2] = parent[rest[a]] /\ q[k2] = parent[rest[a]]
      BY <1>10, <3>2
    <3>4. PICK l2 \in 1 .. Len(p) : l2 <= L /\ p[l2] = parent[rest[b]] /\ q[l2] = parent[rest[b]]
      BY <1>10, <3>2
    <3>5. k = k2 /\ l = l2
      <4>1. k \in 1 .. L + 1 /\ l \in 1 .. L + 1 /\ k2 \in 1 .. L + 1 /\ l2 \in 1 .. L + 1
        BY <1>1, <1>5, <1>6, <3>3, <3>4
      <4> QED
        BY <1>7, <1>13, <3>2, <3>3, <3>4, <4>1
    <3>6. /\ a + 1 \in 1 .. Len(que) /\ b + 1 \in 1 .. Len(que) /\ a + 1 < b + 1
          /\ rest[a] = que[a + 1] /\ rest[b] = que[b + 1]
      <4>1. a \in Nat /\ b \in Nat
        BY <3>2
      <4>2. rest[a] = que[a + 1] /\ a + 1 \in 1 .. Len(que)
        BY <1>2, <3>2
      <4>3. rest[b] = que[b + 1] /\ b + 1 \in 1 .. Len(que)
        BY <1>2, <3>2
      <4>4. a + 1 < b + 1
        BY <3>2, <4>1
      <4> QED
        BY <4>2, <4>3, <4>4
    <3>7. l2 <= k2
      BY <1>1, <3>3, <3>4, <3>6
    <3> QED
      BY <3>5, <3>7
  <2> QED
    BY <1>11, <2>1, <2>2
<1>14. q # <<>>
  BY <1>5, <1>6
<1>15. Deepened(q, new)
  BY <1>5, <1>11, <1>12, <1>13, <1>14 DEF Deepened, IsPath
<1> QED
  BY <1>15 DEF n, q, calls, rest, new

\* A recursion that waited for n waits for its calls, or is that of n.
LEMMA DescendFinds ==
  ASSUME IsTree, NEW que, que \in Seq(Nodes), que # <<>>, NEW es, Found(es, que)
  PROVE  LET n == Head(que)
         IN /\ n \notin Repeats => Found(es, SubFuncs(n) \o Tail(que))
            /\ n \in Repeats => Found(es \cup {Entry(n)}, SubFuncs(n) \o Tail(que))
<1> DEFINE n == Head(que)
           new == SubFuncs(n) \o Tail(que)
<1>1. /\ n \in Nodes /\ In(que) = {n} \cup In(Tail(que)) /\ Tail(que) \in Seq(Nodes)
  BY InTail
<1>2. SubFuncs(n) \in Seq(Nodes) /\ In(SubFuncs(n)) = Calls(n)
  BY <1>1, CallsInOrder
<1>3. In(new) = Calls(n) \cup In(Tail(que))
  <2> DEFINE calls == SubFuncs(n)
             rest == Tail(que)
  <2>1. calls \in Seq(Nodes) /\ rest \in Seq(Nodes)
    BY <1>1, <1>2
  <2> HIDE DEF calls, rest
  <2>2. In(calls \o rest) = In(calls) \cup In(rest)
    BY <2>1, InConcat
  <2> QED
    BY <1>2, <2>2 DEF calls, rest
<1> HIDE DEF n, new
<1>4. ASSUME NEW r \in Nodes, Waits(r, que), r # n
      PROVE  Waits(r, new)
  <2>1. PICK m \in In(que) : m = r \/ m \in In(Above[r])
    BY <1>4 DEF Waits, In
  <2>2. CASE m \in In(Tail(que))
    <3>1. m \in In(new)
      BY <1>3, <2>2
    <3> QED
      BY <2>1, <3>1 DEF Waits, In
  <2>3. CASE m = n
    <3>1. PICK k \in 1 .. Len(Above[r]) : Above[r][k] = n
      BY <1>4, <2>1, <2>3 DEF In
    <3>2. Above[r] \in Seq(Nodes) /\ Len(Above[r]) \in Nat
      BY AbovePath
    <3>3. \E c \in Calls(n) : c = r \/ c \in In(Above[r])
      <4>1. CASE k = Len(Above[r])
        <5>1. r # Root
          BY <3>1, AboveEquation
        <5>2. Above[r] = Append(Above[parent[r]], parent[r]) /\ parent[r] \in Nodes
          BY <5>1, AboveEquation, ParentIsLess
        <5>3. Above[parent[r]] \in Seq(Nodes)
          BY <5>2, AbovePath
        <5>4. Above[r][Len(Above[r])] = parent[r]
          BY <5>2, <5>3
        <5> QED
          BY <3>1, <4>1, <5>1, <5>4 DEF Calls
      <4>2. CASE k # Len(Above[r])
        <5> DEFINE c == Above[r][k + 1]
        <5>1. k + 1 \in 1 .. Len(Above[r]) /\ c \in Nodes /\ Above[c] = SubSeq(Above[r], 1, k)
          <6>1. k + 1 \in 1 .. Len(Above[r])
            BY <3>1, <3>2, <4>2
          <6>2. Above[c] = SubSeq(Above[r], 1, (k + 1) - 1)
            BY <6>1, AbovePath
          <6>3. (k + 1) - 1 = k
            BY <3>1, <3>2
          <6> QED
            BY <3>2, <6>1, <6>2, <6>3
        <5> HIDE DEF c
        <5>2. Len(Above[c]) = k /\ Above[c][k] = n
          BY <3>1, <3>2, <5>1
        <5>3. c # Root
          BY <3>1, <5>2, AboveEquation
        <5>4. Above[c] = Append(Above[parent[c]], parent[c]) /\ parent[c] \in Nodes
          BY <5>1, <5>3, AboveEquation, ParentIsLess
        <5>5. Above[parent[c]] \in Seq(Nodes)
          BY <5>4, AbovePath
        <5>6. Above[c][Len(Above[c])] = parent[c]
          BY <5>4, <5>5
        <5>7. c \in Calls(n)
          BY <5>1, <5>2, <5>3, <5>6 DEF Calls
        <5>8. c \in In(Above[r])
          BY <5>1 DEF In, c
        <5> QED
          BY <5>7, <5>8
      <4> QED
        BY <4>1, <4>2
    <3>4. PICK c \in In(new) : c = r \/ c \in In(Above[r])
      BY <1>3, <3>3
    <3> QED
      BY <3>4 DEF Waits, In
  <2> QED
    BY <1>1, <2>1, <2>2, <2>3
<1>5. Repeats \subseteq Nodes
  BY DEF Repeats
<1>6. n \notin Repeats => Found(es, new)
  BY <1>4, <1>5 DEF Found
<1>7. n \in Repeats => Found(es \cup {Entry(n)}, new)
  BY <1>4, <1>5 DEF Found
<1> QED
  BY <1>6, <1>7 DEF n, new

-----------------------------------------------------------------------------
(* The climb to a common parent.                                            *)

LEMMA UpFacts ==
  ASSUME IsTree, NEW n \in Nodes, NEW i \in Nat, i <= Len(Above[n])
  PROVE  /\ Up(n, i) = 0 <=> i = Len(Above[n])
         /\ i < Len(Above[n]) =>
              /\ Up(n, i) \in Nodes /\ Up(n, i) = Above[n][Len(Above[n]) - i]
              /\ Len(Above[n]) - i \in 1 .. Len(Above[n])
              /\ Len(Above[Up(n, i)]) = Len(Above[n]) - i - 1
              /\ parent[Up(n, i)] = Up(n, i + 1)
<1> DEFINE a == Above[n]
           L == Len(a)
           u == a[L - i]
<1>1. a \in Seq(Nodes) /\ L \in Nat
  BY AbovePath
<1>2. CASE i = L
  BY <1>1, <1>2 DEF Up
<1>3. CASE i < L
  <2>1. L - i \in 1 .. L /\ u \in Nodes
    <3>1. L - i \in 1 .. L
      BY <1>1, <1>3
    <3> HIDE DEF a
    <3> QED
      BY <1>1, <3>1
  <2>2. u # 0 /\ Up(n, i) = u
    <3>1. u # 0
      BY <2>1, NodeFacts
    <3> QED
      BY <1>1, <1>3, <3>1 DEF Up
  <2>3. Above[u] = SubSeq(a, 1, (L - i) - 1)
    BY <2>1, AbovePath
  <2> HIDE DEF a, u
  <2>4. Len(Above[u]) = L - i - 1
    BY <1>1, <1>3, <2>1, <2>3
  <2>5. parent[u] = Up(n, i + 1)
    <3>1. CASE i + 1 = L
      <4>1. u = Root
        BY <1>1, <2>1, <2>4, <3>1, AbovePath
      <4> QED
        BY <3>1, <4>1 DEF IsTree, Up, a
    <3>2. CASE i + 1 # L
      <4>1. L - i - 1 \in 1 .. L /\ L - i - 1 # 0 /\ L - (i + 1) = L - i - 1
        BY <1>1, <1>3, <3>2
      <4>2. u # Root
        BY <2>1, <2>4, <4>1, AbovePath
      <4>3. Above[u] = Append(Above[parent[u]], parent[u]) /\ parent[u] \in Nodes
        BY <2>1, <4>2, AboveEquation, ParentIsLess
      <4>4. Above[parent[u]] \in Seq(Nodes)
        BY <4>3, AbovePath
      <4>5. Above[u][Len(Above[u])] = parent[u]
        BY <4>3, <4>4
      <4>6. Above[u][L - i - 1] = a[L - i - 1]
        <5> DEFINE m == L - i - 1
        <5>1. m \in 1 .. m /\ m \in 0 .. L /\ (L - i) - 1 = m
          <6> HIDE DEF L
          <6> QED
            BY <1>1, <1>3, <4>1
        <5> HIDE DEF m
        <5>2. SubSeq(a, 1, m)[m] = a[m]
          BY <1>1, <5>1
        <5> QED
          BY <2>3, <5>1, <5>2 DEF m
      <4>7. Up(n, i + 1) = a[L - (i + 1)]
        BY <3>2 DEF Up, a
      <4> QED
        BY <2>4, <4>1, <4>5, <4>6, <4>7
    <3> QED
      BY <3>1, <3>2
  <2>6. i # L
    BY <1>1, <1>3
  <2> QED
    BY <2>1, <2>2, <2>4, <2>5, <2>6 DEF u, a
<1>4. i = L \/ i < L
  BY <1>1
<1> QED
  BY <1>2, <1>3, <1>4

LEMMA UpFirst ==
  ASSUME IsTree, NEW n \in Nodes
  PROVE  parent[n] = Up(n, 0)
<1>1. CASE n = Root
  <2>1. Len(Above[n]) = 0 /\ parent[n] = 0
    BY <1>1, AbovePath DEF IsTree
  <2> QED
    BY <2>1 DEF Up
<1>2. CASE n # Root
  <2>1. Above[n] = Append(Above[parent[n]], parent[n]) /\ parent[n] \in Nodes
    BY <1>2, AboveEquation, ParentIsLess
  <2>2. Above[parent[n]] \in Seq(Nodes)
    BY <2>1, AbovePath
  <2>3. Above[n][Len(Above[n])] = parent[n] /\ Len(Above[n]) \in Nat /\ Len(Above[n]) # 0
    BY <2>1, <2>2
  <2>4. Up(n, 0) = Above[n][Len(Above[n]) - 0] /\ Len(Above[n]) - 0 = Len(Above[n])
    BY <2>3 DEF Up
  <2> QED
    BY <2>3, <2>4
<1> QED
  BY <1>1, <1>2

\* Both chains end in the root: nodes that are equally deep have a common parent.
LEMMA MeetAtRoot ==
  ASSUME IsTree, NEW n \in Nodes, Len(Above[n]) > 0
  PROVE  Up(n, Len(Above[n]) - 1) = Root
<1>1. Above[n] \in Seq(Nodes) /\ Len(Above[n]) \in Nat /\ 1 \in 1 .. Len(Above[n])
  BY AbovePath
<1>2. Above[n][1] \in Nodes /\ Above[Above[n][1]] = SubSeq(Above[n], 1, 1 - 1)
  BY <1>1, AbovePath
<1>3. Len(Above[Above[n][1]]) = 0
  BY <1>1, <1>2
<1>4. Above[n][1] = Root
  BY <1>2, <1>3, AbovePath
<1>5. Len(Above[n]) - 1 # Len(Above[n]) /\ Len(Above[n]) - (Len(Above[n]) - 1) = 1
  BY <1>1
<1> QED
  BY <1>4, <1>5 DEF Up

LEMMA ClimbEnds ==
  ASSUME IsTree, NEW que, NEW cl, Climbing(que, cl)
  PROVE  /\ cl[1] = 0 \/ cl[2] = 0 => IsCommon(que, <<>>)
         /\ cl[1] # 0 /\ cl[1] = cl[2] => IsCommon(que, cl)
         /\ cl[1] # 0 /\ cl[2] # 0 /\ cl[1] # cl[2] => Climbing(que, <<parent[cl[1]], parent[cl[2]]>>)
<1> DEFINE a == que[1]
           b == que[2]
           one == Above[a]
           two == Above[b]
<1>1. que \in Seq(Nodes) /\ Len(que) = 2 /\ a # b /\ a \in Nodes /\ b \in Nodes
  <2>1. que \in Seq(Nodes) /\ Len(que) = 2 /\ a # b
    BY DEF Climbing
  <2> QED
    BY <2>1
<1>2. PICK i \in Nat : /\ i <= Len(one) /\ i <= Len(two)
                       /\ cl = <<Up(a, i), Up(b, i)>>
                       /\ \A j \in 0 .. i - 1 : Up(a, j) # Up(b, j)
  BY DEF Climbing
<1>3. one \in Seq(Nodes) /\ two \in Seq(Nodes) /\ Len(one) \in Nat /\ Len(two) \in Nat /\ DOMAIN one = 1 .. Len(one)
  BY <1>1, AbovePath
<1> HIDE DEF a, b
<1>4. /\ Up(a, i) = 0 <=> i = Len(one)
      /\ i < Len(one) =>
           /\ Up(a, i) \in Nodes /\ Up(a, i) = one[Len(one) - i] /\ Len(one) - i \in 1 .. Len(one)
           /\ Len(Above[Up(a, i)]) = Len(one) - i - 1
           /\ parent[Up(a, i)] = Up(a, i + 1)
  BY <1>1, <1>2, UpFacts
<1>5. /\ Up(b, i) = 0 <=> i = Len(two)
      /\ i < Len(two) =>
           /\ Up(b, i) \in Nodes /\ Up(b, i) = two[Len(two) - i] /\ Len(two) - i \in 1 .. Len(two)
           /\ Len(Above[Up(b, i)]) = Len(two) - i - 1
           /\ parent[Up(b, i)] = Up(b, i + 1)
  BY <1>1, <1>2, UpFacts
<1>6. cl[1] = Up(a, i) /\ cl[2] = Up(b, i) /\ cl # <<>>
  BY <1>2
<1>7. ASSUME cl[1] = 0 \/ cl[2] = 0
      PROVE  IsCommon(que, <<>>)
  <2>1. ASSUME Len(one) = Len(two)
        PROVE  FALSE
    <3>1. i = Len(one) /\ i = Len(two)
      BY <1>4, <1>5, <1>6, <1>7, <2>1
    <3>2. CASE i = 0
      BY <1>1, <3>1, <3>2, AbovePath
    <3>3. CASE i > 0
      <4>1. Up(a, i - 1) = Root /\ Up(b, i - 1) = Root
        BY <1>1, <3>1, <3>3, MeetAtRoot
      <4>2. i - 1 \in 0 .. i - 1
        BY <1>2, <3>3
      <4> QED
        BY <1>2, <4>1, <4>2
    <3> QED
      BY <1>2, <3>2, <3>3
  <2> QED
    BY <1>1, <2>1 DEF IsCommon, a, b
<1>8. ASSUME cl[1] # 0, cl[1] = cl[2]
      PROVE  IsCommon(que, cl)
  <2>1. i < Len(one) /\ i < Len(two)
    BY <1>2, <1>3, <1>4, <1>5, <1>6, <1>8
  <2>2. Len(one) = Len(two)
    BY <1>2, <1>3, <1>4, <1>5, <1>6, <1>8, <2>1
  <2> DEFINE k == Len(one) - i
  <2>3. k \in DOMAIN one /\ cl[1] = one[k] /\ one[k] = two[k]
    BY <1>3, <1>4, <1>5, <1>6, <1>8, <2>1, <2>2
  <2>4. ASSUME NEW j \in k + 1 .. Len(one)
        PROVE  one[j] # two[j]
    <3> DEFINE m == Len(one) - j
    <3>1. m \in Nat /\ m \in 0 .. i - 1 /\ m < Len(one) /\ Len(one) - m = j
      BY <1>2, <1>3, <2>1, <2>4
    <3> HIDE DEF m
    <3>2. Up(a, m) = one[j]
      <4>1. m <= Len(one)
        BY <1>3, <3>1
      <4>2. m < Len(Above[a]) => Up(a, m) = Above[a][Len(Above[a]) - m]
        BY <1>1, <1>3, <3>1, <4>1, UpFacts
      <4> QED
        BY <1>3, <3>1, <4>2
    <3>3. Up(b, m) = two[j]
      <4>1. m < Len(two) /\ m <= Len(two) /\ Len(two) - m = j
        BY <1>3, <2>2, <3>1
      <4> QED
        BY <1>1, <1>3, <3>1, <4>1, UpFacts
    <3> QED
      BY <1>2, <3>1, <3>2, <3>3
  <2> HIDE DEF k
  <2>5. IsCommon(que, cl) <=> \E m \in DOMAIN one :
              /\ cl[1] = one[m] /\ one[m] = two[m]
              /\ \A j \in m + 1 .. Len(one) : one[j] # two[j]
    BY <1>1, <1>6, <2>2 DEF IsCommon, a, b
  <2> QED
    BY <2>3, <2>4, <2>5
<1>9. ASSUME cl[1] # 0, cl[2] # 0, cl[1] # cl[2]
      PROVE  Climbing(que, <<parent[cl[1]], parent[cl[2]]>>)
  <2>1. i < Len(one) /\ i < Len(two) /\ i + 1 \in Nat /\ i + 1 <= Len(one) /\ i + 1 <= Len(two)
    BY <1>2, <1>3, <1>4, <1>5, <1>6, <1>9
  <2>2. <<parent[cl[1]], parent[cl[2]]>> = <<Up(a, i + 1), Up(b, i + 1)>>
    BY <1>4, <1>5, <1>6, <2>1
  <2>3. \A j \in 0 .. (i + 1) - 1 : Up(a, j) # Up(b, j)
    <3>1. \A j \in 0 .. (i + 1) - 1 : j = i \/ j \in 0 .. i - 1
      BY <1>2
    <3> QED
      BY <1>2, <1>6, <1>9, <3>1
  <2>4. \E k \in Nat : /\ k <= Len(one) /\ k <= Len(two)
                       /\ <<parent[cl[1]], parent[cl[2]]>> = <<Up(a, k), Up(b, k)>>
                       /\ \A j \in 0 .. k - 1 : Up(a, j) # Up(b, j)
    BY <2>1, <2>2, <2>3
  <2> QED
    BY <1>1, <2>4 DEF Climbing, a, b
<1> QED
  BY <1>7, <1>8, <1>9

-----------------------------------------------------------------------------
(* The steps.                                                               *)

\* The tree never changes, and so what is said of it does not.
LEMMA SameTree ==
  ASSUME UNCHANGED tree
  PROVE  /\ IsTree => IsTree'
         /\ Above' = Above /\ Repeats' = Repeats
         /\ Walked(order', queue') => Walked(order, queue)'
         /\ Lists(list', In(order')) => Lists(list, In(order))'
         /\ Lists(list', Nodes) => Lists(list, Nodes)'
         /\ (\E n \in Repeats : Calls(n) # {}) => (\E n \in Repeats : Calls(n) # {})'
<1>1. parent' = parent /\ name' = name /\ len' = len
  BY DEF tree
<1>2. IsTree => IsTree'
  BY <1>1 DEF IsTree
<1>3. Above' = Above
  BY <1>1 DEF Above
<1>4. Repeats' = Repeats
  BY <1>1, <1>3 DEF Repeats
<1>5. Walked(order', queue') => Walked(order, queue)'
  BY <1>1 DEF Walked, Distinct, In
<1>6. /\ Lists(list', In(order')) => Lists(list, In(order))'
      /\ Lists(list', Nodes) => Lists(list, Nodes)'
  BY <1>1 DEF Lists, AtLeast, Longer, Lesser, In
<1>7. (\E n \in Repeats : Calls(n) # {}) => (\E n \in Repeats : Calls(n) # {})'
  BY <1>1, <1>4 DEF Calls
<1> QED
  BY <1>2, <1>3, <1>4, <1>5, <1>6, <1>7

LEMMA SameTreeWalks ==
  ASSUME UNCHANGED tree
  PROVE  /\ Deepened(path', queue') => Deepened(path, queue)'
         /\ Found(entries', queue') => Found(entries, queue)'
         /\ Found(entries', <<>>) => Found(entries, <<>>)'
         /\ Climbing(queue', climb') => Climbing(queue, climb)'
         /\ IsCommon(queue', climb') => IsCommon(queue, climb)'
<1>1. parent' = parent /\ name' = name /\ Above' = Above /\ Repeats' = Repeats
  BY SameTree DEF tree
<1>2. Deepened(path', queue') => Deepened(path, queue)'
  BY <1>1 DEF Deepened, OnPath
<1>3. ASSUME NEW n
      PROVE  Entry(n)' = Entry(n)
  BY <1>1 DEF Entry, Near, NamesOf
<1>4. ASSUME NEW n
      PROVE  /\ Waits(n, queue') => Waits(n, queue)'
             /\ Waits(n, <<>>) => Waits(n, <<>>)'
  BY <1>1 DEF Waits, In
<1>5. Found(entries', queue') => Found(entries, queue)'
  BY <1>1, <1>3, <1>4 DEF Found
<1>6. Found(entries', <<>>) => Found(entries, <<>>)'
  BY <1>1, <1>3, <1>4 DEF Found
<1>7. Climbing(queue', climb') => Climbing(queue, climb)'
  BY <1>1 DEF Climbing, Up
<1>8. IsCommon(queue', climb') => IsCommon(queue, climb)'
  BY <1>1 DEF IsCommon
<1> QED
  BY <1>2, <1>5, <1>6, <1>7, <1>8

LEMMA TInitially ==
  ASSUME TreeAssumption, Init
  PROVE  TInv
<1>1. NumNodes \in Nat \ {0} /\ Nodes = 1 .. NumNodes /\ Root \in Nodes
  BY DEF TreeAssumption, Nodes, Root
<1>2. IsTree
  <2>1. parent \in [Nodes -> 0 .. NumNodes - 1] /\ parent[Root] = 0
    BY DEF Init
  <2>2. \A n \in Nodes \ {Root} : parent[n] \in 1 .. n - 1
    BY DEF Init
  <2>3. (\A n \in Nodes : name[n] = InitName <=> n = Root) /\ len \in [Nodes -> Nat]
    BY DEF Init, TreeAssumption
  <2> QED
    BY <2>1, <2>2, <2>3 DEF IsTree
<1>3. In(<<>>) = {} /\ In(<<Root>>) = {Root} /\ Distinct(<<>>) /\ Distinct(<<Root>>)
  BY DEF In, Distinct
<1>4. Walked(<<>>, <<Root>>)
  <2>1. ASSUME NEW n \in Nodes \ {Root}
        PROVE  n \notin In(<<>>) \cup In(<<Root>>) /\ parent[n] \notin In(<<>>)
    BY <1>3
  <2> QED
    BY <1>1, <1>3, <2>1 DEF Walked
<1>5. Lists(<<>>, {})
  <2>1. Cardinality({}) = 0
    BY FS_EmptySet
  <2>2. ASSUME NEW k \in Nat
        PROVE  AtLeast(<<>>, k) = 0 /\ Longer({}, k) = 0
    <3>1. {i \in 1 .. Len(<<>>) : <<>>[i] >= k} = {} /\ {n \in {} : len[n] >= k} = {}
      OBVIOUS
    <3> QED
      BY <2>1, <3>1 DEF AtLeast, Longer
  <2>3. Lesser(0, LEN_LIMIT) = 0
    BY DEF Lesser, TreeAssumption
  <2> QED
    BY <2>1, <2>2, <2>3 DEF Lists
<1> QED
  BY <1>2, <1>3, <1>4, <1>5 DEF Init, TInv

\* Visit: the node is listed.
LEMMA VisitStep ==
  ASSUME TInv, Visit
  PROVE  TInv'
<1>1. /\ IsTree /\ Walked(order, queue) /\ Lists(list, In(order)) /\ path = <<>> /\ entries = {}
      /\ queue # <<>> /\ UNCHANGED <<tree, pass, path, entries, climb>> /\ pass = "lengths"
  BY DEF TInv, Visit
<1> DEFINE n == Head(queue)
<1>2. /\ queue' = Tail(queue) \o SubFuncs(n) /\ order' = Append(order, n)
      /\ list' = Push(list, len[n])
  BY DEF Visit
<1>3. /\ n \in Nodes /\ n \notin In(order) /\ In(order') = In(order) \cup {n}
      /\ Walked(order', queue')
  BY <1>1, <1>2, VisitKeepsWalk
<1> HIDE DEF n
<1>4. Lists(list', In(order'))
  <2>1. In(order) \in SUBSET Nodes
    BY <1>1 DEF Walked, In
  <2> QED
    BY <1>1, <1>2, <1>3, <2>1, PushKeepsList
<1> QED
  BY <1>1, <1>3, <1>4, SameTree DEF TInv

\* Visited: every node is listed, and the walk in depth starts at the root.
LEMMA VisitedStep ==
  ASSUME TInv, Visited
  PROVE  TInv'
<1>1. /\ IsTree /\ Walked(order, <<>>) /\ Lists(list, In(order)) /\ path = <<>> /\ entries = {}
      /\ UNCHANGED <<tree, list, order, path, entries, climb>>
      /\ pass' = "recursion" /\ queue' = <<Root>>
  BY DEF TInv, Visited
<1>2. In(order) = Nodes /\ order \in Seq(Nodes) /\ Distinct(order)
  BY <1>1, WalkedAll DEF Walked
<1>3. Root \in Nodes
  BY <1>1, NodeFacts
<1>4. Deepened(path', queue')
  BY <1>1, <1>3 DEF Deepened
<1>5. Found(entries', queue')
  <2>1. ASSUME NEW n \in Repeats
        PROVE  Waits(n, queue')
    <3>1. n \in Nodes /\ Len(Above[n]) # 0
      BY DEF Repeats
    <3>2. Above[n] \in Seq(Nodes) /\ 1 \in 1 .. Len(Above[n])
      BY <1>1, <3>1, AbovePath
    <3>3. Above[n][1] \in Nodes /\ Above[Above[n][1]] = SubSeq(Above[n], 1, 1 - 1)
      BY <1>1, <3>1, <3>2, AbovePath
    <3>4. Len(Above[Above[n][1]]) = 0
      BY <3>2, <3>3
    <3>5. Above[n][1] = Root
      BY <1>1, <3>3, <3>4, AbovePath
    <3>6. queue'[1] = Root /\ 1 \in 1 .. Len(queue')
      BY <1>1
    <3> QED
      BY <3>2, <3>5, <3>6 DEF Waits, In
  <2> QED
    BY <1>1, <2>1 DEF Found
<1>6. Lists(list', Nodes) /\ order' \in Seq(Nodes) /\ Distinct(order')
  BY <1>1, <1>2
<1>7. (order \in Seq(Nodes) /\ Distinct(order))'
  BY <1>6 DEF Distinct
<1> QED
  BY <1>1, <1>4, <1>5, <1>6, <1>7, SameTree, SameTreeWalks DEF TInv

\* CheckRecur: the recursion that ends in the node met is found, and no other.
LEMMA CheckRecurStep ==
  ASSUME TInv, CheckRecur
  PROVE  TInv'
<1>1. /\ IsTree /\ pass = "recursion" /\ queue # <<>> /\ Deepened(path, queue) /\ Found(entries, queue)
      /\ order \in Seq(Nodes) /\ Distinct(order) /\ Lists(list, Nodes)
      /\ UNCHANGED <<tree, list, order, climb>>
  BY DEF TInv, CheckRecur
<1> DEFINE n == Head(queue)
           stack == Stack(path, n)
           start == LatestSame(stack, name[n])
<1>2. IF start > 0 /\ Calls(n) # {}
      THEN pass' = "panicked" /\ UNCHANGED <<queue, path, entries>>
      ELSE /\ queue' = SubFuncs(n) \o Tail(queue)
           /\ path' = Append(stack, n)
           /\ entries' = IF start = 0 THEN entries
                         ELSE entries \cup {<<NamesOf(SubSeq(stack, start, Len(stack))),
                                              name[stack[start - 1]]>>}
           /\ UNCHANGED pass
  BY DEF CheckRecur, Stack
<1>3. n \in Nodes /\ stack = Above[n]
  BY <1>1, StackIsAbove
<1>4. /\ start > 0 <=> n \in Repeats
      /\ start = 0 <=> n \notin Repeats
      /\ n \in Repeats => start = Near(n)
  BY <1>1, <1>3, NearestFound
<1>5. (order \in Seq(Nodes) /\ Distinct(order) /\ Lists(list, Nodes))'
  BY <1>1, SameTree DEF Distinct
<1>6. queue \in Seq(Nodes)
  BY <1>1 DEF Deepened
<1> HIDE DEF start
<1>7. CASE start > 0 /\ Calls(n) # {}
  <2>1. \E m \in Repeats : Calls(m) # {}
    BY <1>4, <1>7
  <2>2. pass' = "panicked"
    BY <1>2, <1>7
  <2> QED
    BY <1>1, <1>5, <2>1, <2>2, SameTree DEF TInv
<1>8. CASE ~(start > 0 /\ Calls(n) # {})
  <2>1. /\ queue' = SubFuncs(n) \o Tail(queue) /\ path' = Append(Above[n], n) /\ pass' = "recursion"
        /\ start = 0 => entries' = entries
        /\ start # 0 => entries' = entries \cup {<<NamesOf(SubSeq(stack, start, Len(stack))),
                                                   name[stack[start - 1]]>>}
    BY <1>1, <1>2, <1>3, <1>8
  <2>2. Deepened(path', queue')
    BY <1>1, <2>1, DescendKeepsPath
  <2>3. n \notin Repeats => Found(entries', queue')
    BY <1>1, <1>4, <1>6, <2>1, DescendFinds
  <2>4. n \in Repeats => Found(entries', queue')
    <3>1. n \in Repeats => entries' = entries \cup {Entry(n)}
      BY <1>3, <1>4, <2>1 DEF Entry
    <3>2. n \in Repeats => Found(entries \cup {Entry(n)}, SubFuncs(n) \o Tail(queue))
      BY <1>1, <1>6, DescendFinds
    <3> QED
      BY <2>1, <3>1, <3>2
  <2> QED
    BY <1>1, <1>5, <2>1, <2>2, <2>3, <2>4, SameTree, SameTreeWalks DEF TInv
<1> QED
  BY <1>7, <1>8

\* MostCalled: two nodes are chosen, and the climb starts at their parents.
LEMMA MostCalledStep ==
  ASSUME TInv, MostCalled
  PROVE  TInv'
<1>1. /\ IsTree /\ pass = "recursion" /\ queue = <<>> /\ Found(entries, <<>>)
      /\ order \in Seq(Nodes) /\ Distinct(order) /\ Lists(list, Nodes)
      /\ UNCHANGED <<tree, list, order, path, entries>>
  BY DEF TInv, MostCalled
<1>2. (order \in Seq(Nodes) /\ Distinct(order) /\ Lists(list, Nodes))'
  BY <1>1, SameTree DEF Distinct
<1>3. Found(entries, <<>>)'
  BY <1>1, SameTreeWalks
<1>4. PICK f : LET calls == {i \in DOMAIN order : name[order[i]] = f}
               IN IF Cardinality(calls) < 2 THEN pass' = "done" /\ UNCHANGED <<queue, climb>>
                  ELSE \E i, j \in calls :
                         /\ i < j
                         /\ pass' = "common" /\ queue' = <<order[i], order[j]>>
                         /\ climb' = <<parent[order[i]], parent[order[j]]>>
  BY DEF MostCalled
<1>5. CASE pass' = "done" /\ queue' = <<>>
  BY <1>1, <1>2, <1>3, <1>5, SameTree DEF TInv
<1>6. ASSUME NEW i \in DOMAIN order, NEW j \in DOMAIN order, i < j, pass' = "common",
             queue' = <<order[i], order[j]>>, climb' = <<parent[order[i]], parent[order[j]]>>
      PROVE  TInv'
  <2>1. i \in 1 .. Len(order) /\ j \in 1 .. Len(order) /\ i # j /\ order[i] \in Nodes /\ order[j] \in Nodes
    BY <1>1, <1>6
  <2>2. order[i] # order[j]
    BY <1>1, <2>1 DEF Distinct
  <2> DEFINE a == order[i]
             b == order[j]
  <2>3. parent[a] = Up(a, 0) /\ parent[b] = Up(b, 0)
    BY <1>1, <2>1, UpFirst
  <2>4. Len(Above[a]) \in Nat /\ Len(Above[b]) \in Nat
    BY <1>1, <2>1, AbovePath
  <2>5. a \in Nodes /\ b \in Nodes /\ a # b /\ queue' = <<a, b>> /\ climb' = <<parent[a], parent[b]>>
    BY <1>6, <2>1, <2>2
  <2> HIDE DEF a, b
  <2>6. Climbing(queue', climb')
    <3>1. queue' \in Seq(Nodes) /\ Len(queue') = 2 /\ queue'[1] = a /\ queue'[2] = b
      BY <2>5
    <3>2. /\ 0 \in Nat /\ 0 <= Len(Above[a]) /\ 0 <= Len(Above[b])
          /\ climb' = <<Up(a, 0), Up(b, 0)>>
          /\ \A k \in 0 .. 0 - 1 : Up(a, k) # Up(b, k)
      BY <2>3, <2>4, <2>5
    <3> QED
      BY <2>5, <3>1, <3>2 DEF Climbing
  <2> QED
    BY <1>1, <1>2, <1>3, <1>6, <2>6, SameTree, SameTreeWalks DEF TInv
<1> QED
  BY <1>1, <1>4, <1>5, <1>6

LEMMA ClimbStep ==
  ASSUME TInv, Climb
  PROVE  TInv'
<1>1. /\ IsTree /\ pass = "common" /\ Climbing(queue, climb) /\ Found(entries, <<>>)
      /\ order \in Seq(Nodes) /\ Distinct(order) /\ Lists(list, Nodes)
      /\ UNCHANGED <<tree, queue, list, order, path, entries>>
  BY DEF TInv, Climb
<1>2. (order \in Seq(Nodes) /\ Distinct(order) /\ Lists(list, Nodes))'
  BY <1>1, SameTree DEF Distinct
<1>3. Found(entries, <<>>)'
  BY <1>1, SameTreeWalks
<1>4. IF climb[1] = 0 \/ climb[2] = 0 THEN pass' = "done" /\ climb' = <<>>
      ELSE IF climb[1] = climb[2] THEN pass' = "done" /\ UNCHANGED climb
      ELSE climb' = <<parent[climb[1]], parent[climb[2]]>> /\ UNCHANGED pass
  BY DEF Climb
<1>5. CASE climb[1] = 0 \/ climb[2] = 0
  <2>1. IsCommon(queue', climb') /\ pass' = "done"
    BY <1>1, <1>4, <1>5, ClimbEnds
  <2> QED
    BY <1>1, <1>2, <1>3, <2>1, SameTree, SameTreeWalks DEF TInv
<1>6. CASE climb[1] # 0 /\ climb[2] # 0 /\ climb[1] = climb[2]
  <2>1. IsCommon(queue', climb') /\ pass' = "done"
    BY <1>1, <1>4, <1>6, ClimbEnds
  <2> QED
    BY <1>1, <1>2, <1>3, <2>1, SameTree, SameTreeWalks DEF TInv
<1>7. CASE climb[1] # 0 /\ climb[2] # 0 /\ climb[1] # climb[2]
  <2>1. Climbing(queue', climb') /\ pass' = "common"
    BY <1>1, <1>4, <1>7, ClimbEnds
  <2> QED
    BY <1>1, <1>2, <1>3, <2>1, SameTree, SameTreeWalks DEF TInv
<1> QED
  BY <1>5, <1>6, <1>7

LEMMA TStutter ==
  ASSUME TInv, UNCHANGED vars
  PROVE  TInv'
<1>1. /\ UNCHANGED tree
      /\ UNCHANGED <<pass, queue, list, order, path, entries, climb>>
  BY DEF vars, tree
<1>2. (order \in Seq(Nodes) /\ Distinct(order)) => (order \in Seq(Nodes) /\ Distinct(order))'
  BY <1>1 DEF Distinct
<1> QED
  BY <1>1, <1>2, SameTree, SameTreeWalks DEF TInv

LEMMA TStep ==
  ASSUME TInv, [Next]_vars
  PROVE  TInv'
<1>1. CASE Visit
  BY <1>1, VisitStep
<1>2. CASE Visited
  BY <1>2, VisitedStep
<1>3. CASE CheckRecur
  BY <1>3, CheckRecurStep
<1>4. CASE MostCalled
  BY <1>4, MostCalledStep
<1>5. CASE Climb
  BY <1>5, ClimbStep
<1>6. CASE UNCHANGED vars
  BY <1>6, TStutter
<1> QED
  BY <1>1, <1>2, <1>3, <1>4, <1>5, <1>6 DEF Next

-----------------------------------------------------------------------------
(* What the analyses report.                                                *)

LEMMA ListsTheLongest ==
  ASSUME TInv
  PROVE  LongestAreListed
<1> SUFFICES ASSUME pass # "lengths"
             PROVE  /\ Len(list) = IF NumNodes < LEN_LIMIT THEN NumNodes ELSE LEN_LIMIT
                    /\ \A k \in {len[n] : n \in Nodes} :
                         Cardinality({i \in DOMAIN list : list[i] >= k})
                           = IF Longer(Nodes, k) < LEN_LIMIT THEN Longer(Nodes, k) ELSE LEN_LIMIT
  BY DEF LongestAreListed, Longer
<1>1. IsTree /\ Lists(list, Nodes)
  BY DEF TInv
<1>2. Len(list) = Lesser(NumNodes, LEN_LIMIT)
  BY <1>1, NodeFacts DEF Lists
<1>3. ASSUME NEW k \in {len[n] : n \in Nodes}
      PROVE  Cardinality({i \in DOMAIN list : list[i] >= k}) = Lesser(Longer(Nodes, k), LEN_LIMIT)
  <2>1. k \in Nat /\ DOMAIN list = 1 .. Len(list)
    BY <1>1 DEF IsTree, Lists
  <2> QED
    BY <1>1, <2>1 DEF Lists, AtLeast
<1> QED
  BY <1>2, <1>3 DEF Lesser

LEMMA FindsRecursions ==
  ASSUME TInv
  PROVE  RecursionsAreFound
<1>1. pass \in {"common", "done"} => entries = {Entry(n) : n \in Repeats}
  <2> SUFFICES ASSUME pass \in {"common", "done"}
               PROVE  entries = {Entry(n) : n \in Repeats}
    OBVIOUS
  <2>1. Found(entries, <<>>)
    BY DEF TInv
  <2>2. \A n \in Repeats : Entry(n) \in entries
    BY <2>1 DEF Found, Waits
  <2> QED
    BY <2>1, <2>2 DEF Found
<1>2. pass = "panicked" => \E n \in Repeats : Calls(n) # {}
  BY DEF TInv
<1> QED
  BY <1>1, <1>2 DEF RecursionsAreFound, Entry, Near

LEMMA FindsCommonParent ==
  ASSUME TInv
  PROVE  CommonParentIsNearest
<1> SUFFICES ASSUME pass = "done", queue # <<>>
             PROVE  /\ climb # <<>> => IsCommonParent(climb[1], queue[1], queue[2])
                    /\ Len(Above[queue[1]]) = Len(Above[queue[2]]) => climb # <<>>
  BY DEF CommonParentIsNearest
<1> DEFINE one == Above[queue[1]]
           two == Above[queue[2]]
<1>1. IF Len(one) # Len(two) THEN climb = <<>>
      ELSE climb # <<>> /\ \E i \in DOMAIN one :
             /\ climb[1] = one[i] /\ one[i] = two[i]
             /\ \A j \in i + 1 .. Len(one) : one[j] # two[j]
  BY DEF TInv, IsCommon
<1>2. ASSUME climb # <<>>
      PROVE  IsCommonParent(climb[1], queue[1], queue[2])
  <2>1. IsTree /\ queue[1] \in Nodes /\ queue[2] \in Nodes
    BY DEF TInv, IsCommon
  <2>2. one \in Seq(Nodes) /\ two \in Seq(Nodes)
    BY <2>1, AbovePath
  <2>3. Len(one) = Len(two)
    BY <1>1, <1>2
  <2>4. DOMAIN one = 1 .. Len(one) /\ DOMAIN two = 1 .. Len(one) /\ Len(one) \in Nat
    BY <2>2, <2>3
  <2>5. PICK i \in DOMAIN one : /\ climb[1] = one[i] /\ one[i] = two[i]
                                /\ \A j \in i + 1 .. Len(one) : one[j] # two[j]
    BY <1>1, <2>3
  <2>6. \A j \in DOMAIN one : i < j => j \in i + 1 .. Len(one)
    BY <2>4
  <2> QED
    BY <2>4, <2>5, <2>6 DEF IsCommonParent
<1> QED
  BY <1>1, <1>2

\* The invariant holds, whatever the tree.
THEOREM TreeAnalysed ==
  ASSUME TreeAssumption
  PROVE  Spec => []TInv
<1>1. Init => TInv
  BY TInitially
<1>2. TInv /\ [Next]_vars => TInv'
  BY TStep
<1> QED
  BY <1>1, <1>2, PTL DEF Spec

\* FuncNodeLenList: at the end of the walk in breadth the list is as long as the
\* tree allows, and has as many nodes of at least each length as the tree has.
THEOREM LongestListed ==
  ASSUME TreeAssumption
  PROVE  Spec => []LongestAreListed
BY TreeAnalysed, ListsTheLongest, PTL

\* check_recur_impl: every recursion of the tree is found, with the calls since
\* the nearest node of its name, and nothing else is.
THEOREM RecursionsFound ==
  ASSUME TreeAssumption
  PROVE  Spec => []RecursionsAreFound
BY TreeAnalysed, FindsRecursions, PTL

\* get_common_parent_ptr: what is reported is the nearest node above both calls,
\* and it is reported if they are equally deep.
THEOREM CommonParentFound ==
  ASSUME TreeAssumption
  PROVE  Spec => []CommonParentIsNearest
BY TreeAnalysed, FindsCommonParent, PTL

\* What the analyses report is what the tree says; the common parent of calls that
\* are not equally deep they may not report.
THEOREM AnalysisRight ==
  ASSUME TreeAssumption
  PROVE  Spec => []AnalysisIsRight
<1>1. TInv => AnalysisIsRight
  BY ListsTheLongest, FindsRecursions, FindsCommonParent DEF AnalysisIsRight
<1> QED
  BY <1>1, TreeAnalysed, PTL
=============================================================================
