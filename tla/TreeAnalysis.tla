---------------------------- MODULE TreeAnalysis ----------------------------
(***************************************************************************)
(* The analyses of a finished call tree, exec_tree/analyze.rs, in the      *)
(* order in which they are run on each tree: the longest nodes and the     *)
(* calls of each function, both by walking the tree in breadth, the search *)
(* for recursion in depth, and the common parent of two calls of the       *)
(* function called most.                                                   *)
(*                                                                         *)
(* A node is a number, its parent a smaller one, its calls in the order of *)
(* their numbers.  Of its records there is only how many they are.         *)
(***************************************************************************)
EXTENDS Naturals, Sequences, FiniteSets, SequencesExt

CONSTANTS
  NumNodes,
  InitName,   (* "_init", the name of the root                          *)
  Namings,    (* names of the functions called: functions of the nodes  *)
  Lengths,    (* numbers of records: functions of the nodes             *)
  LEN_LIMIT   (* how many nodes are listed as the longest               *)

Root == 1
Nodes == 1 .. NumNodes

TreeAssumption ==
  /\ NumNodes \in Nat \ {0}
  /\ \A f \in Namings : \A n \in Nodes : f[n] = InitName <=> n = Root
  /\ Lengths \subseteq [Nodes -> Nat] /\ LEN_LIMIT \in Nat \ {0}

VARIABLES
  parent, name, len,   (* the tree                                          *)
  pass,                (* the analysis, "done", or "panicked"               *)
  queue,               (* ThreadTreeIter::queue                             *)
  list,                (* FuncNodeLenList::data: the lengths                *)
  order,               (* the nodes in the order the walk met them          *)
  path,                (* the nodes whose names are func_stack              *)
  entries,             (* recur_entries: a cycle of names and its parent    *)
  climb                (* parent_ptr_a, parent_ptr_b; <<>> when none is left *)

vars == <<parent, name, len, pass, queue, list, order, path, entries, climb>>
tree == <<parent, name, len>>

Calls(n) == {c \in Nodes \ {Root} : parent[c] = n}
SubFuncs(n) == CHOOSE s \in [1 .. Cardinality(Calls(n)) -> Calls(n)] :
                 \A i, j \in DOMAIN s : i < j => s[i] < s[j]
NamesOf(s) == [i \in DOMAIN s |-> name[s[i]]]

Init ==
  /\ parent \in {p \in [Nodes -> 0 .. NumNodes - 1] :
                   p[Root] = 0 /\ \A n \in Nodes \ {Root} : p[n] \in 1 .. n - 1}
  /\ name \in Namings /\ len \in Lengths
  /\ pass = "lengths" /\ queue = <<Root>> /\ list = <<>> /\ order = <<>>
  /\ path = <<>> /\ entries = {} /\ climb = <<>>

-----------------------------------------------------------------------------
\* data.sort(), by falling length.
Sorted(l) ==
  CHOOSE s \in {[i \in DOMAIN l |-> l[p[i]]] : p \in Bijection(DOMAIN l, DOMAIN l)} :
    \A i, j \in DOMAIN s : i < j => s[i] >= s[j]

\* Mutant: a full list never changes again.
PushUntilFull(l, n) == IF Len(l) < LEN_LIMIT THEN Sorted(Append(l, n)) ELSE l

\* FuncNodeLenList::push: the least is replaced by what is longer.
Push(l, n) ==
  LET kept == IF Len(l) < LEN_LIMIT THEN Append(l, n)
              ELSE IF n > Last(l) THEN Append(Front(l), n) ELSE l
  IN Sorted(kept)

\* ThreadTreeIter::next, and the entry of the node.
Visit ==
  /\ pass = "lengths" /\ queue # <<>>
  /\ LET n == Head(queue)
     IN /\ queue' = Tail(queue) \o SubFuncs(n)
        /\ order' = Append(order, n)
        /\ list' = Push(list, len[n])
  /\ UNCHANGED <<tree, pass, path, entries, climb>>

Visited ==
  /\ pass = "lengths" /\ queue = <<>>
  /\ pass' = "recursion" /\ queue' = <<Root>>
  /\ UNCHANGED <<tree, list, order, path, entries, climb>>

\* get_latest_same_func: its place on the stack, 0 if there is none.
LatestSame(stack, f) ==
  LET same == {i \in DOMAIN stack : name[stack[i]] = f}
  IN IF same = {} THEN 0 ELSE CHOOSE i \in same : \A j \in same : j <= i

\* check_recur_impl on the next node in depth, after the calls that have returned.
\* The root is below every cycle, so the place before a cycle exists.
CheckRecur ==
  /\ pass = "recursion" /\ queue # <<>>
  /\ LET n == Head(queue)
         stack == IF n = Root THEN <<>>
                  ELSE SubSeq(path, 1, CHOOSE i \in DOMAIN path : path[i] = parent[n])
         start == LatestSame(stack, name[n])
     IN IF start > 0 /\ Calls(n) # {}
        THEN pass' = "panicked" /\ UNCHANGED <<queue, path, entries>>
        ELSE /\ queue' = SubFuncs(n) \o Tail(queue)
             /\ path' = Append(stack, n)
             /\ entries' = IF start = 0 THEN entries
                           ELSE entries \cup {<<NamesOf(SubSeq(stack, start, Len(stack))),
                                                name[stack[start - 1]]>>}
             /\ UNCHANGED pass
  /\ UNCHANGED <<tree, list, order, climb>>

\* show_most_called_funcs counts the nodes of each name ...
CallCount(f) == Cardinality({n \in Nodes : name[n] = f})

\* ... sorts the counts, of a hash map, and takes two calls of the first: the
\* walk meets them in the order it has already met them.
MostCalled ==
  /\ pass = "recursion" /\ queue = <<>>
  /\ \E f \in {name[n] : n \in Nodes} :
       /\ \A n \in Nodes : CallCount(name[n]) <= CallCount(f)
       /\ LET calls == {i \in DOMAIN order : name[order[i]] = f}
          IN IF Cardinality(calls) < 2 THEN pass' = "done" /\ UNCHANGED <<queue, climb>>
             ELSE \E i, j \in calls :
                    /\ i < j /\ \A k \in calls \ {i} : j <= k
                    /\ pass' = "common" /\ queue' = <<order[i], order[j]>>
                    /\ climb' = <<parent[order[i]], parent[order[j]]>>
  /\ UNCHANGED <<tree, list, order, path, entries>>

\* One turn of the loop of get_common_parent_ptr, which climbs both chains at
\* the same time and gives up when one of them is at its end.
Climb ==
  /\ pass = "common"
  /\ IF climb[1] = 0 \/ climb[2] = 0 THEN pass' = "done" /\ climb' = <<>>
     ELSE IF climb[1] = climb[2] THEN pass' = "done" /\ UNCHANGED climb
     ELSE climb' = <<parent[climb[1]], parent[climb[2]]>> /\ UNCHANGED pass
  /\ UNCHANGED <<tree, queue, list, order, path, entries>>

Next == Visit \/ Visited \/ CheckRecur \/ MostCalled \/ Climb
Spec == Init /\ [][Next]_vars

-----------------------------------------------------------------------------
\* The nodes above a node, from the root to its parent.
Above[n \in Nodes] == IF n = Root THEN <<>> ELSE Append(Above[parent[n]], parent[n])

\* The list has the longest nodes: no node left out is longer than one listed.
LongestAreListed ==
  pass # "lengths" =>
    /\ Len(list) = IF NumNodes < LEN_LIMIT THEN NumNodes ELSE LEN_LIMIT
    /\ \A k \in {len[n] : n \in Nodes} :
         LET longer == Cardinality({n \in Nodes : len[n] >= k})
         IN Cardinality({i \in DOMAIN list : list[i] >= k})
              = IF longer < LEN_LIMIT THEN longer ELSE LEN_LIMIT

\* A node is a recursion if its name is also above it.
Repeats == {n \in Nodes : \E i \in DOMAIN Above[n] : name[Above[n][i]] = name[n]}

\* Every recursion is found once, as the calls since the nearest node of its
\* name; the assertion of analyze.rs fails only if a recursion calls on, which
\* the runtime does not record (RecursionIsLeaf of TraceTree).
RecursionsAreFound ==
  /\ pass = "panicked" => \E n \in Repeats : Calls(n) # {}
  /\ pass \in {"common", "done"} =>
       entries = {LET above == Above[n]
                      near == CHOOSE i \in DOMAIN above :
                                /\ name[above[i]] = name[n]
                                /\ \A j \in i + 1 .. Len(above) : name[above[j]] # name[n]
                  IN <<NamesOf(SubSeq(above, near, Len(above))), name[above[near - 1]]>>
                  : n \in Repeats}

\* The common parent of two calls, however deep each of them is: the last node
\* that is on both paths from the root to their callers.
IsCommonParent(c, m, n) ==
  \E i \in DOMAIN Above[m] \cap DOMAIN Above[n] :
    /\ c = Above[m][i] /\ c = Above[n][i]
    /\ \A j \in DOMAIN Above[m] \cap DOMAIN Above[n] : i < j => Above[m][j] # Above[n][j]

\* What get_common_parent_ptr reports is the common parent, and it reports one if
\* the calls are equally deep.  If they are not, it gives up although there is one.
CommonParentIsNearest ==
  pass = "done" /\ queue # <<>> =>
    /\ climb # <<>> => IsCommonParent(climb[1], queue[1], queue[2])
    /\ Len(Above[queue[1]]) = Len(Above[queue[2]]) => climb # <<>>

\* The lists and the recursions reported are exactly those of the tree, and so is
\* the common parent of two calls that are equally deep.
AnalysisIsRight == LongestAreListed /\ RecursionsAreFound /\ CommonParentIsNearest
=============================================================================
