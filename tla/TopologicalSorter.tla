------------------------- MODULE TopologicalSorter -------------------------
(***************************************************************************)
(* deps/topologicalsorter.cc: nodes are handed out one GetNext at a time,  *)
(* the least one with no edge left into it first; when none is left that   *)
(* way a depth-first search reports the nodes of a cycle.                  *)
(***************************************************************************)
EXTENDS Integers, Sequences, FiniteSets, SequencesExt, Relation

CONSTANTS NumNodes,
          MaxSuccessors \* bound on the edges added from one node
SortNodes == 0..NumNodes - 1

VARIABLES edges,        \* the edges that were added, as a set of pairs
          adjacency,    \* node -> its successors, sorted, emptied when handed out
          indegree,     \* node -> edges into it that are left
          handedOut,    \* the nodes GetNext returned, in order
          cycleNodes,   \* what FindCycle reports
          dfsStack,     \* FindCycle: <<node, children looked at>>, root first
          noCycleFrom,  \* FindCycle: nodes that were left without a cycle
          sorting       \* "adding", "sorting", "searching", "sorted", "cyclic"

sorterVars == <<edges, adjacency, indegree, handedOut, cycleNodes, dfsStack,
                noCycleFrom, sorting>>

SorterInit ==
    /\ edges = {}
    /\ adjacency = [n \in SortNodes |-> <<>>]
    /\ indegree = [n \in SortNodes |-> 0]
    /\ handedOut = <<>> /\ cycleNodes = <<>> /\ dfsStack = <<>>
    /\ noCycleFrom = {}
    /\ sorting = "adding"

\* AddEdge appends, so the same edge may be added twice.
AddEdge(from, to) ==
    /\ sorting = "adding"
    /\ Len(adjacency[from]) < MaxSuccessors
    /\ adjacency' = [adjacency EXCEPT ![from] = Append(@, to)]
    /\ edges' = edges \union {<<from, to>>}
    /\ UNCHANGED <<indegree, handedOut, cycleNodes, dfsStack, noCycleFrom, sorting>>

WithoutDuplicates(adj) == [n \in SortNodes |-> SetToSortSeq(Range(adj[n]), LAMBDA i, j : i < j)]

\* The first call of GetNext.
StartTraversal ==
    /\ sorting = "adding"
    /\ LET adj == WithoutDuplicates(adjacency)
       IN /\ adjacency' = adj
          /\ indegree' = [n \in SortNodes |->
               Cardinality({<<m, i>> \in SortNodes \X (1..MaxSuccessors) :
                              i <= Len(adj[m]) /\ adj[m][i] = n})]
    /\ sorting' = "sorting"
    /\ UNCHANGED <<edges, handedOut, cycleNodes, dfsStack, noCycleFrom>>

\* nodes_with_zero_indegree_: reached zero and not handed out.
ZeroIndegree == {n \in SortNodes : indegree[n] = 0} \ Range(handedOut)

\* A priority queue ordered with std::greater: the least node is on top.
LeastOf(S) == CHOOSE n \in S : \A m \in S : n <= m

GetNext ==
    /\ sorting = "sorting" /\ ZeroIndegree # {}
    /\ LET n == LeastOf(ZeroIndegree)
           uses(m) == Len(SelectSeq(adjacency[n], LAMBDA c : c = m))
       IN /\ handedOut' = Append(handedOut, n)
          /\ indegree' = [m \in SortNodes |-> indegree[m] - uses(m)]
          /\ adjacency' = [adjacency EXCEPT ![n] = <<>>]
    /\ UNCHANGED <<edges, cycleNodes, dfsStack, noCycleFrom, sorting>>

GetNextEnds ==
    /\ sorting = "sorting" /\ ZeroIndegree = {}
    /\ sorting' = IF Len(handedOut) = NumNodes THEN "sorted" ELSE "searching"
    /\ UNCHANGED <<edges, adjacency, indegree, handedOut, cycleNodes, dfsStack, noCycleFrom>>

\* The depth-first search, one turn of its loop at a time: start at the least
\* unvisited node, look at the next child of the node on top, or leave it.
FindCycle ==
    /\ sorting = "searching"
    /\ \/ /\ dfsStack = <<>>
          /\ LET fresh == SortNodes \ noCycleFrom
             IN dfsStack' = <<<<CHOOSE n \in fresh : \A m \in fresh : n <= m, 0>>>>
          /\ UNCHANGED <<noCycleFrom, cycleNodes, sorting>>
       \/ /\ dfsStack # <<>>
          /\ LET top == Last(dfsStack)
                 node == top[1]
                 onStack == {dfsStack[i][1] : i \in DOMAIN dfsStack}
             IN IF top[2] >= Len(adjacency[node])
                THEN /\ noCycleFrom' = noCycleFrom \union {node}
                     /\ dfsStack' = Front(dfsStack)
                     /\ UNCHANGED <<cycleNodes, sorting>>
                ELSE LET child == adjacency[node][top[2] + 1]
                         looked == Append(Front(dfsStack), <<node, top[2] + 1>>)
                     IN /\ UNCHANGED noCycleFrom
                        /\ CASE child \in noCycleFrom ->
                                  dfsStack' = looked /\ UNCHANGED <<cycleNodes, sorting>>
                             [] child \notin noCycleFrom /\ child \in onStack ->
                                  LET first == CHOOSE i \in DOMAIN dfsStack : dfsStack[i][1] = child
                                  IN /\ cycleNodes' = [i \in 1..Len(dfsStack) - first + 1 |->
                                                         dfsStack[first + i - 1][1]]
                                     /\ dfsStack' = <<>>
                                     /\ sorting' = "cyclic"
                             [] OTHER -> /\ dfsStack' = Append(looked, <<child, 0>>)
                                         /\ UNCHANGED <<cycleNodes, sorting>>
    /\ UNCHANGED <<edges, adjacency, indegree, handedOut>>

SorterNext == \/ \E from, to \in SortNodes : AddEdge(from, to)
              \/ StartTraversal \/ GetNext \/ GetNextEnds \/ FindCycle

-----------------------------------------------------------------------------
OnCycle(n) == TransitiveClosure([p \in SortNodes \X SortNodes |-> p \in edges], SortNodes)[n, n]

\* The traversal ends sorted exactly when the edges have no cycle, with every
\* node after its predecessors and the least available node first; otherwise
\* what FindCycle reports is a closed walk along edges that were added, of
\* nodes GetNext had not returned, which the caller's error message relies on
\* (validated_graph_config.cc:838).
SortedOrCycleReported ==
    /\ sorting = "sorted" =>
         /\ Range(handedOut) = SortNodes /\ Len(handedOut) = NumNodes
         /\ \A i, j \in DOMAIN handedOut : <<handedOut[i], handedOut[j]>> \in edges => i < j
         /\ \A i, j \in DOMAIN handedOut :
              i < j /\ handedOut[j] < handedOut[i] =>
                \E k \in i..j - 1 : <<handedOut[k], handedOut[j]>> \in edges
    /\ sorting \in {"searching", "cyclic"} => \E n \in SortNodes : OnCycle(n)
    /\ sorting = "cyclic" =>
         /\ cycleNodes # <<>> /\ Range(cycleNodes) \cap Range(handedOut) = {}
         /\ \A i \in DOMAIN cycleNodes :
              <<cycleNodes[i], cycleNodes[(i % Len(cycleNodes)) + 1]>> \in edges
=============================================================================
