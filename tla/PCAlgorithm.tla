----------------------------- MODULE PCAlgorithm -----------------------------
(***************************************************************************)
(* pcAlgorithm of pipeline/src/graph/pc.ts, run on data whose conditional  *)
(* independence test is right: a test says "independent" exactly when the  *)
(* true graph d-separates.  What statistics adds is left out; what the     *)
(* algorithm makes of right answers is what is checked.                    *)
(*                                                                         *)
(* A step is one level of the skeleton search, the collider phase, one     *)
(* round of Meek's rules, one round of pdag2dag, or the domain knowledge.  *)
(***************************************************************************)
EXTENDS CausalGraph

CONSTANTS Truths,       \* the DAGs the data may come from
          MaxDegree,    \* config.maxDegree, -1 for no limit
          Knowledge     \* the domain knowledge a caller may pass

ASSUME TruthsAssumption == \A d \in Truths : d \subseteq Nodes \X Nodes /\ Acyclic(d)
ASSUME MaxDegreeAssumption == MaxDegree \in Nat \cup {-1}
ASSUME KnowledgeAssumption ==
    \A k \in Knowledge : k.forbids \subseteq Nodes \X Nodes /\ k.requires \in Seq(Nodes \X Nodes)

VARIABLES truth,     \* the DAG the data comes from
          phase,     \* which loop of the algorithm runs
          depth,     \* size of the conditioning sets
          graph,     \* adjacency of the result so far
          sepSet,    \* separating set of each removed pair
          open,      \* pdag2dag: undirected pairs still to orient
          dk,        \* the domain knowledge applied to the result
          shielded   \* history: phase 2 oriented a triple with adjacent ends

vars == <<truth, phase, depth, graph, sepSet, open, dk, shielded>>

NoSets == [p \in {} |-> {}]
NoKnowledge == [forbids |-> {}, requires |-> <<>>, roots |-> {}, leaves |-> {}]
MaxDepth == IF MaxDegree = -1 THEN N ELSE MaxDegree

Independent(i, j, S) == DSeparated(truth, i, j, S)

Init ==
    /\ truth \in Truths
    /\ dk = NoKnowledge
    /\ phase = "skeleton"
    /\ depth = 0
    /\ graph = CompleteGraph
    /\ sepSet = NoSets
    /\ open = {}
    /\ shielded = FALSE

\* data.rows = 0: the empty graph is returned.
NoData ==
    /\ phase = "skeleton" /\ depth = 0
    /\ graph' = {}
    /\ phase' = "empty"
    /\ UNCHANGED <<truth, depth, sepSet, open, dk, shielded>>

\* The first of the sets in the order combinations() lists them.
FirstSet(sets) ==
    CHOOSE S \in sets : \A T \in sets \ {S} : Min(SymDiff(S, T)) \in S

\* Mutant: the test is made with another neighbour than the pair's second node.
SeparatorsOfAnother(p) ==
    LET near == Neighbors(graph, p[1])
    IN  {S \in kSubset(depth, near \ {p[2]}) : \E q \in near : Independent(p[1], q, S \ {q})}

\* Conditioning sets tried for the pair i < j: subsets of the neighbours of i.
Separators(p) ==
    LET near == Neighbors(graph, p[1])
    IN  {S \in kSubset(depth, near \ {p[2]}) : Independent(p[1], p[2], S)}

\* One level: pairs are tested on the graph as the level found it and removed
\* together at its end.  A level that removes nothing is the last one.
SkeletonLevel ==
    /\ phase = "skeleton"
    /\ LET tested  == {<<p, Separators(p)>> : p \in
                          {q \in Pairs : /\ q[2] \in Neighbors(graph, q[1])
                                         /\ Cardinality(Neighbors(graph, q[1])) - 1 >= depth}}
           found   == {t \in tested : t[2] # {}}
           removed == {t[1] : t \in found}
           first(p) == FirstSet((CHOOSE t \in found : t[1] = p)[2])
       IN  /\ graph' = RemoveEdges(graph, removed)
           /\ sepSet' = [p \in DOMAIN sepSet \cup removed |->
                            IF p \in removed THEN first(p) ELSE sepSet[p]]
           /\ phase' = IF removed = {} \/ depth + 1 > MaxDepth
                       THEN "colliders" ELSE "skeleton"
    /\ depth' = depth + 1
    /\ UNCHANGED <<truth, open, dk, shielded>>

\* Phase 2 visits the triples i < j, k in order and orients as it goes, so a
\* pair whose edge was turned towards its first node counts as not adjacent.
InSepSet(p, k) == p \in DOMAIN sepSet /\ k \in sepSet[p]
IsTriple(g, t) == /\ t[1] < t[2] /\ t[3] \notin {t[1], t[2]}
                  /\ <<t[1], t[2]>> \notin g
                  /\ <<t[1], t[3]>> \in g /\ <<t[2], t[3]>> \in g
                  /\ ~InSepSet(<<t[1], t[2]>>, t[3])
OrientTriple(g, t) ==
    IF IsTriple(g, t)
    THEN OrientEdge(OrientEdge(g, t[1], t[3]), t[2], t[3])
    ELSE g

\* The triples in the order the loops visit them.
Triples ==
    LET all == {t \in Nodes \X Nodes \X Nodes : t[1] < t[2]}
        before(t) == {u \in all : (u[1] * N + u[2]) * N + u[3] < (t[1] * N + t[2]) * N + t[3]}
    IN  [i \in 1..Cardinality(all) |-> CHOOSE t \in all : Cardinality(before(t)) = i - 1]

VisitTriple(st, t) ==
    [bad |-> st.bad \/ (IsTriple(st.g, t) /\ Adjacent(graph, t[1], t[2])),
     g   |-> OrientTriple(st.g, t)]

OrientColliders ==
    /\ phase = "colliders"
    /\ LET end == FoldLeft(VisitTriple, [bad |-> FALSE, g |-> graph], Triples)
       IN  graph' = end.g /\ shielded' = end.bad
    /\ phase' = "meek"
    /\ UNCHANGED <<truth, depth, sepSet, open, dk>>

TwoWay(g, a, b) == <<a, b>> \in g /\ <<b, a>> \in g
OneWay(g, a, b) == <<a, b>> \in g /\ <<b, a>> \notin g

\* Mutants: R1 turns the edge towards j; it asks not whether i and k are adjacent.
MeekR1Shielded(g, e) ==
    IF OneWay(g, e[1], e[2])
    THEN g \ {<<k, e[2]>> : k \in {l \in Nodes : TwoWay(g, e[2], l)}}
    ELSE g
MeekR1Inwards(g, e) ==
    IF OneWay(g, e[1], e[2])
    THEN g \ {<<e[2], k>> : k \in {l \in Nodes : TwoWay(g, e[2], l) /\ ~Adjacent(g, e[1], l)}}
    ELSE g
\* R1: i -> j - k, i and k not adjacent: j -> k.
MeekR1(g, e) ==
    IF OneWay(g, e[1], e[2])
    THEN g \ {<<k, e[2]>> : k \in {l \in Nodes : TwoWay(g, e[2], l) /\ ~Adjacent(g, e[1], l)}}
    ELSE g
\* R2: i -> j -> k and i - k: i -> k.
MeekR2(g, e) ==
    IF TwoWay(g, e[1], e[2]) /\ \E j \in Nodes : OneWay(g, e[1], j) /\ OneWay(g, j, e[2])
    THEN OrientEdge(g, e[1], e[2])
    ELSE g
\* R3: i - k -> j, i - l -> j, i - j, k and l not adjacent: i -> j.
MeekR3(g, e) ==
    IF /\ TwoWay(g, e[1], e[2])
       /\ \E k, l \in Nodes : /\ k # l /\ ~Adjacent(g, k, l)
                              /\ TwoWay(g, e[1], k) /\ OneWay(g, k, e[2])
                              /\ TwoWay(g, e[1], l) /\ OneWay(g, l, e[2])
    THEN OrientEdge(g, e[1], e[2])
    ELSE g

MeekRound ==
    /\ phase = "meek"
    /\ \E one \in {FoldLeft(MeekR1, graph, PairSeq)} :
          \E two \in {FoldLeft(MeekR2, one, PairSeq)} : graph' = FoldLeft(MeekR3, two, PairSeq)
    /\ phase' = IF graph' = graph THEN "extend" ELSE "meek"
    /\ open' = IF graph' = graph THEN OpenPairs(graph) ELSE {}
    /\ UNCHANGED <<truth, depth, sepSet, dk, shielded>>

\* pdag2dag: orient the edges of the first sink, until there is none.
ExtendRound ==
    /\ phase = "extend"
    /\ IF Sinks(graph, open) = {}
       THEN phase' = "extended" /\ UNCHANGED <<graph, open>>
       ELSE LET i == Min(Sinks(graph, open))
            IN  /\ graph' = OrientInto(graph, open, i)
                /\ open' = ClosedAt(open, i)
                /\ UNCHANGED phase
    /\ UNCHANGED <<truth, depth, sepSet, dk, shielded>>

UseKnowledge(knowledge) ==
    /\ phase = "extended"
    /\ dk' = knowledge
    /\ graph' = ApplyKnowledge(graph, dk')
    /\ phase' = "done"
    /\ UNCHANGED <<truth, depth, sepSet, open, shielded>>

Next == \/ NoData
        \/ SkeletonLevel
        \/ OrientColliders
        \/ MeekRound
        \/ ExtendRound
        \/ \E knowledge \in Knowledge : UseKnowledge(knowledge)

Spec == Init /\ [][Next]_vars /\ WF_vars(Next)

-----------------------------------------------------------------------------
(* Properties *)

\* The type invariant: the result is a graph over the variables without
\* self-loops, and a separating set never holds one of its pair.
TypeOK ==
    /\ truth \subseteq Nodes \X Nodes
    /\ phase \in {"skeleton", "colliders", "meek", "extend", "extended", "done", "empty"}
    /\ depth \in 0..(MaxDepth + 1)
    /\ graph \subseteq {e \in Nodes \X Nodes : e[1] # e[2]}
    /\ DOMAIN sepSet \subseteq Pairs
    /\ \A p \in DOMAIN sepSet : sepSet[p] \subseteq Nodes \ {p[1], p[2]}
    /\ open \subseteq Pairs
    /\ shielded \in BOOLEAN

\* The result honours the caller's knowledge where it does not contradict
\* itself: forbidden pairs stay apart unless required, roots and leaves stay
\* roots and leaves, required edges have their direction unless the reverse is
\* required after them.
KnowledgeHolds ==
    phase = "done" =>
        /\ \A e \in dk.forbids :
              {e, <<e[2], e[1]>>} \cap ToSet(dk.requires) = {} => ~Adjacent(graph, e[1], e[2])
        /\ \A r \in dk.roots : Parents(graph, r) = {}
        /\ \A l \in dk.leaves : Children(graph, l) = {}
        /\ \A k \in DOMAIN dk.requires :
              LET e == dk.requires[k]
              IN  e[2] \notin dk.roots /\ e[1] \notin dk.leaves
                  /\ (\A l \in k..Len(dk.requires) : dk.requires[l] # <<e[2], e[1]>>)
                  => OneWay(graph, e[1], e[2])

\* The graph operations compute what the textbooks define.  For every DAG the
\* trail search of dSeparated agrees with the moral-graph criterion for each
\* pair and conditioning set, and Kahn's order lists every node after its
\* parents.  On every graph the algorithm passes through, two-way edges and
\* all, the depth-first searches decide reachability and cycles, the recorded
\* sets separate their pairs by the moral-graph criterion, and domain knowledge
\* is applied as KnowledgeHolds says.
GraphOperationsAreRight ==
    LET order == TopologicalSort(truth)
        r     == Reach(graph)
    IN  /\ phase = "skeleton" /\ depth = 0 =>
               /\ \A p \in Pairs : \A Z \in SUBSET (Nodes \ {p[1], p[2]}) :
                      DSeparated(truth, p[1], p[2], Z) <=> MoralSeparated(truth, p[1], p[2], Z)
               /\ Len(order) = N /\ ToSet(order) = Nodes
               /\ \A a, b \in DOMAIN order : <<order[a], order[b]>> \in truth => a < b
        /\ \A a, b \in Nodes : HasDirectedPath(graph, a, b) <=> a = b \/ <<a, b>> \in r
        /\ HasCycle(graph) <=> \E v \in Nodes : <<v, v>> \in r
        /\ \A p \in DOMAIN sepSet : MoralSeparated(truth, p[1], p[2], sepSet[p])
        /\ KnowledgeHolds

\* With right tests no true adjacency is lost, in any phase, and every removed
\* pair is recorded with a set that separates it in the truth.
SkeletonIsRight ==
    /\ TypeOK
    /\ phase \notin {"empty", "done"} =>
           /\ Skeleton(truth) \subseteq Skeleton(graph)
           /\ DOMAIN sepSet = {p \in Pairs : ~Adjacent(graph, p[1], p[2])}
    /\ \A p \in DOMAIN sepSet : Independent(p[1], p[2], sepSet[p])

\* Whenever the skeleton search found the true skeleton and phase 2 oriented no
\* triple with adjacent ends, Meek's rounds end in the CPDAG of the truth.
\* pdag2dag keeps every adjacency and every direction it was given; neither it
\* nor knowledge that requires no edge closes a directed cycle.
ExactSkeleton == Skeleton(graph) = Skeleton(truth)
ExtensionKeepsEdges ==
    phase = "extend" =>
        Skeleton(graph') = Skeleton(graph) /\ Directed(graph) \subseteq Directed(graph')
StaysAcyclic ==
    phase \in {"extend", "extended"} /\ dk'.requires = <<>> /\ Acyclic(Directed(graph))
        => Acyclic(Directed(graph'))
OrientationsAreRight ==
    [][/\ phase = "meek" /\ phase' = "extend" /\ ExactSkeleton /\ ~shielded
              => graph' = CPDAG(truth)
       /\ ExtensionKeepsEdges
       /\ StaysAcyclic]_vars

\* "i-k-j is an unshielded triple" (the comment of phase 2).
CollidersAreUnshielded == ~shielded

\* Unless phase 2 oriented a triple with adjacent ends, the directed edges never
\* form a cycle, neither while Meek's rules run and while the PDAG is extended nor
\* after domain knowledge cut edges out of it; only required edges can close one.
NoDirectedCycle ==
    phase \in {"meek", "extend", "extended", "done"} /\ ~shielded /\ dk.requires = <<>>
        => Acyclic(Directed(graph))

=============================================================================
