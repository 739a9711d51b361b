----------------------------- MODULE CausalGraph -----------------------------
(***************************************************************************)
(* The class CausalGraph of pipeline/src/graph/causal-graph.ts.  A graph is *)
(* its adjacency matrix, the set g of pairs <<i, j>> with adj[i][j] = 1;    *)
(* node names are their indices, in matrix order.                          *)
(***************************************************************************)
EXTENDS CausalSemantics, SequencesExt

\* Nodes, pairs of different nodes, and triples of nodes, in the order for-loops
\* visit them.
NodeSeq == [i \in 1..N |-> i - 1]
PairSeq == [i \in 1..(N * (N - 1)) |->
               LET a == (i - 1) \div (N - 1)
                   b == (i - 1) % (N - 1)
               IN  <<a, IF b < a THEN b ELSE b + 1>>]
TripleSeq == [i \in 1..(N * N * N) |->
                 <<(i - 1) \div (N * N), ((i - 1) \div N) % N, (i - 1) % N>>]
InOrder(S) == SelectSeq(NodeSeq, LAMBDA v : v \in S)

Parents(g, v) == {u \in Nodes : u # v /\ <<u, v>> \in g}
Children(g, v) == {w \in Nodes : w # v /\ <<v, w>> \in g}
Neighbors(g, v) == Parents(g, v) \cap Children(g, v)

RemoveEdges(g, es) == g \ (es \cup {<<e[2], e[1]>> : e \in es})
OrientEdge(g, a, b) == (g \ {<<b, a>>}) \cup {<<a, b>>}

\* Depth-first search, upwards and downwards; both include where they start.
Ancestors(g, S) ==
    FoldLeft(LAMBDA seen, i : seen \cup {u \in Nodes : \E v \in seen : <<u, v>> \in g},
             S, NodeSeq)
Descendants(g, v) ==
    FoldLeft(LAMBDA seen, i : seen \cup {w \in Nodes : \E u \in seen : <<u, w>> \in g},
             {v}, NodeSeq)

HasDirectedPath(g, a, b) == b \in Descendants(g, a)

\* hasCycle: depth-first search with the nodes being visited on a path.  A step
\* finds an edge back into the path, goes down to an unvisited child, goes back
\* up, or starts at the next unvisited node.
Visit(g, st) ==
    LET top   == Last(st.path)
        fresh == {w \in Nodes \ st.seen : st.path = <<>> \/ <<top, w>> \in g}
    IN  IF st.path # <<>> /\ \E w \in ToSet(st.path) : <<top, w>> \in g
        THEN [st EXCEPT !.cycle = TRUE]
        ELSE IF fresh # {}
        THEN [st EXCEPT !.path = Append(@, Min(fresh)), !.seen = @ \cup {Min(fresh)}]
        ELSE IF st.path = <<>> THEN st ELSE [st EXCEPT !.path = Front(@)]
HasCycle(g) ==
    FoldLeft(LAMBDA st, i : Visit(g, st), [path |-> <<>>, seen |-> {}, cycle |-> FALSE],
             NodeSeq \o NodeSeq).cycle

\* dSeparated: a depth-first search over the simple trails from x.  A trail is
\* followed through its inner node v, entered from u and left to w, if v is a
\* collider that Z activates, or no collider and not in Z.  visitedTrails, whose
\* keys are whole trails, skips none: a search meets each simple trail once.
IsCollider(g, u, v, w) == <<u, v>> \in g /\ <<w, v>> \in g
\* Mutant: a collider counts as activated only if it is itself in Z.
PassesThroughConditioned(g, Z, u, v, w) ==
    IF IsCollider(g, u, v, w) THEN v \in Z ELSE v \notin Z
PassesThrough(g, Z, u, v, w) ==
    IF IsCollider(g, u, v, w) THEN v \in Ancestors(g, Z) ELSE v \notin Z

OpenSteps(g, Z, t) ==
    LET v == t[Len(t)]
    IN  {w \in Nodes : /\ Adjacent(g, v, w)
                       /\ w \notin ToSet(t)
                       /\ Len(t) = 1 \/ PassesThrough(g, Z, t[Len(t) - 1], v, w)}
LongerTrails(g, Z, trails, i) ==
    trails \cup UNION {{Append(t, w) : w \in OpenSteps(g, Z, t)} :
                          t \in {u \in trails : Len(u) = i + 1}}
OpenTrails(g, Z, x) ==
    FoldLeft(LAMBDA trails, i : LongerTrails(g, Z, trails, i), {<<x>>}, NodeSeq)
DSeparated(g, x, y, Z) == x # y /\ \A t \in OpenTrails(g, Z, x) : t[Len(t)] # y

\* topologicalSort (Kahn): the queue holds the nodes whose parents are out.
\* Counting self-loops and two-way edges as the code does, nodes on a cycle
\* and below it never enter the queue and are missing from the result.
InDegree(g, v) == Cardinality({u \in Nodes : <<u, v>> \in g})
KahnStep(g, st) ==
    IF st.queue = <<>> THEN st
    ELSE LET v     == Head(st.queue)
             left  == [w \in Nodes |-> st.left[w] - (IF <<v, w>> \in g THEN 1 ELSE 0)]
             ready == {w \in Nodes : <<v, w>> \in g /\ left[w] = 0}
         IN  [queue  |-> Tail(st.queue) \o InOrder(ready),
              left   |-> left,
              result |-> Append(st.result, v)]
TopologicalSort(g) ==
    LET left == [v \in Nodes |-> InDegree(g, v)]
        start == [queue  |-> InOrder({v \in Nodes : left[v] = 0}),
                  left   |-> left,
                  result |-> <<>>]
    IN  FoldLeft(LAMBDA st, i : KahnStep(g, st), start, NodeSeq).result

\* One round of pdag2dag: the first node that has an undirected edge left and
\* no outgoing directed edge takes all its undirected edges as incoming ones.
OpenPairs(g) == {p \in Pairs : p \in g /\ <<p[2], p[1]>> \in g}
Sinks(g, open) ==
    {i \in Nodes : /\ \E p \in open : i \in {p[1], p[2]}
                   /\ \A j \in Nodes : <<i, j>> \in g => <<j, i>> \in g}
OrientInto(g, open, i) == g \ {<<i, j>> : j \in {k \in Nodes : {<<i, k>>, <<k, i>>} \cap open # {}}}
ClosedAt(open, i) == {p \in open : i \notin {p[1], p[2]}}

\* applyDomainKnowledge: forbids, requires, rootNodes, leafNodes, in this order.
RequireEdge(g, e) == (g \cup {e}) \ {<<e[2], e[1]>>}
ApplyKnowledge(g, dk) ==
    LET kept     == RemoveEdges(g, dk.forbids)
        required == FoldLeft(RequireEdge, kept, dk.requires)
        rooted   == {e \in required : e[2] \notin dk.roots}
    IN  {e \in rooted : e[1] \notin dk.leaves}
=============================================================================
