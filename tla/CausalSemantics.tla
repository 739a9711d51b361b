--------------------------- MODULE CausalSemantics ---------------------------
(***************************************************************************)
(* Reference definitions for the graph algorithms of pipeline/src/graph,   *)
(* written from the textbooks the code cites (Pearl 2009; Spirtes, Glymour *)
(* and Scheines 2000; Meek 1995) and independent of how the code computes. *)
(* A graph over Nodes is a set of ordered pairs; a pair and its converse   *)
(* together are an undirected edge.                                        *)
(***************************************************************************)
EXTENDS Integers, FiniteSets, FiniteSetsExt, Sequences

CONSTANT N                       \* number of nodes
ASSUME NAssumption == N \in Nat
Nodes == 0..(N - 1)

Adjacent(g, a, b) == <<a, b>> \in g \/ <<b, a>> \in g
Skeleton(g) == {e \in Nodes \X Nodes : Adjacent(g, e[1], e[2])}
Directed(g) == {e \in g : <<e[2], e[1]>> \notin g}
Undirected(g) == g \ Directed(g)

\* The pairs <<a, b>> with a path of at least one edge from a to b (Warshall).
Reach(g) ==
    LET through[k \in 0..N] ==
            IF k = 0 THEN g
            ELSE LET r == through[k - 1]
                 IN  r \cup {e \in Nodes \X Nodes : <<e[1], k - 1>> \in r /\ <<k - 1, e[2]>> \in r}
    IN  through[N]

\* Every non-empty set of nodes has one that no edge of the set enters.
Acyclic(g) ==
    \A S \in (SUBSET Nodes) \ {{}} : \E v \in S : \A u \in S : <<u, v>> \notin g

\* Acyclic orientations of a skeleton, built skeleton by skeleton.
Pairs == {e \in Nodes \X Nodes : e[1] < e[2]}
\* Both ways round, listed element by element: TLC then keeps graphs as lists.
CompleteGraph == {<<p[1], p[2]>> : p \in Pairs} \cup {<<p[2], p[1]>> : p \in Pairs}
Orientations(pairs) ==
    {g \in {{IF up[e] THEN e ELSE <<e[2], e[1]>> : e \in pairs} :
              up \in [pairs -> BOOLEAN]} : Acyclic(g)}
DagsOver(pairs) == UNION {Orientations(p) : p \in SUBSET pairs}
Dags == DagsOver(Pairs)

\* Unshielded colliders a -> c <- b.
VStructures(g) ==
    {t \in Nodes \X Nodes \X Nodes :
        /\ t[1] < t[3]
        /\ <<t[1], t[2]>> \in g /\ <<t[3], t[2]>> \in g
        /\ ~Adjacent(g, t[1], t[3])}

MarkovEquivalent(g, h) ==
    Skeleton(g) = Skeleton(h) /\ VStructures(g) = VStructures(h)

\* The CPDAG of a DAG: an edge is directed iff every DAG of the Markov
\* equivalence class directs it the same way.
CPDAG(dag) == UNION {d \in Orientations({e \in Pairs : Adjacent(dag, e[1], e[2])}) :
                        MarkovEquivalent(d, dag)}

\* d-separation by moralization (Lauritzen): a and b are separated by Z in the
\* moral graph of the ancestors of {a, b} and Z.
AncestorsOf(g, S) == LET r == Reach(g) IN S \cup {v \in Nodes : \E s \in S : <<v, s>> \in r}
MoralSeparated(g, a, b, Z) ==
    LET anc   == AncestorsOf(g, Z \cup {a, b})
        sub   == {e \in g : e[1] \in anc /\ e[2] \in anc}
        wed   == {e \in anc \X anc : e[1] # e[2] /\ \E c \in anc :
                     <<e[1], c>> \in sub /\ <<e[2], c>> \in sub}
        moral == {e \in anc \X anc : Adjacent(sub, e[1], e[2]) \/ e \in wed}
        free  == {e \in moral : e[1] \notin Z /\ e[2] \notin Z}
    IN  a # b /\ <<a, b>> \notin Reach(free)
=============================================================================
