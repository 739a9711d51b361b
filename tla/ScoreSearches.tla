----------------------------- MODULE ScoreSearches -----------------------------
(***************************************************************************)
(* The score-based searches of pipeline/src/graph: GES (ges.ts), IMaGES    *)
(* (images.ts), BOSS (boss.ts), GRaSP (grasp.ts) and the exhaustive search *)
(* (exact-search.ts).                                                      *)
(*                                                                         *)
(* The score is BIC with as much data as it takes: a parent improves the   *)
(* score of a node iff the two are dependent given the node's parents, and *)
(* of two graphs that explain the data the one with fewer parameters wins. *)
(* The answers are those of a DAG, the truth; which of several             *)
(* improvements is the largest is left open.                               *)
(***************************************************************************)
EXTENDS CausalGraph

VARIABLES method,    \* the search
          truth,     \* the DAG the data come from
          tests,     \* the <<i, j, S>> for which i and j are independent given S
          phase,     \* "insert", "delete", "prune", "order", "done"
          g,         \* the graph
          order,     \* the permutation of BOSS and GRaSP
          at,        \* the node they move next
          improved   \* has a node moved in this pass
vars == <<method, truth, tests, phase, g, order, at, improved>>

Independent(i, j, S) == <<i, j, S>> \in tests

-----------------------------------------------------------------------------
(* GES and IMaGES *)

\* GES starts without edges, and no operation makes one without a direction:
\* the search goes through DAGs, and the sets T and H of its operators and the
\* rules of pdagToCpdag find nothing to work on.
Improves(h, x, y) == ~Adjacent(h, x, y) /\ ~Independent(x, y, Parents(h, y))
Valid(h, x, y) == method = "ges" => ~HasDirectedPath(h, y, x)
Insertions == {e \in CompleteGraph : Improves(g, e[1], e[2]) /\ Valid(g, e[1], e[2])}
Insert ==
    /\ phase = "insert"
    /\ \E e \in Insertions : g' = g \cup {e}
    /\ UNCHANGED <<method, truth, tests, phase, order, at, improved>>
InsertEnds ==
    /\ phase = "insert" /\ Insertions = {}
    /\ phase' = IF method = "ges" THEN "delete" ELSE "done"
    /\ UNCHANGED <<method, truth, tests, g, order, at, improved>>

Deletions == {e \in g : Independent(e[1], e[2], Parents(g, e[2]) \ {e[1]})}
Delete ==
    /\ phase = "delete"
    /\ \E e \in Deletions : g' = g \ {e}
    /\ UNCHANGED <<method, truth, tests, phase, order, at, improved>>
DeleteEnds ==
    /\ phase = "delete" /\ Deletions = {}
    /\ phase' = "prune"
    /\ UNCHANGED <<method, truth, tests, g, order, at, improved>>

\* An edge goes if at most three of the other parents separate its ends; all
\* tests are made before an edge goes.  A turn is never valid (the parent it
\* would turn away from is itself an ancestor), and a DAG needs no pdag2dag.
Prune ==
    /\ phase = "prune"
    /\ g' = {e \in g : \A S \in SUBSET (Parents(g, e[2]) \ {e[1]}) :
                           Cardinality(S) <= 3 => ~Independent(e[1], e[2], S)}
    /\ phase' = "done"
    /\ UNCHANGED <<method, truth, tests, order, at, improved>>

-----------------------------------------------------------------------------
(* BOSS and GRaSP *)

\* The parents of v among those before it: grown while one more improves the
\* score, then shrunk while one less does not worsen it.  In which order they
\* come and go makes no difference to the result.
\* Mutant: nothing is taken out again.
GrownParents(v, before) ==
    LET grown[k \in 0..N] ==
            IF k = 0 THEN {}
            ELSE LET B == grown[k - 1]
                     more == {c \in before \ B : ~Independent(v, c, B)}
                 IN  IF more = {} THEN B ELSE B \cup {Min(more)}
    IN  grown[N]
OptimalParents(v, before) ==
    LET grown[k \in 0..N] ==
            IF k = 0 THEN {}
            ELSE LET B == grown[k - 1]
                     more == {c \in before \ B : ~Independent(v, c, B)}
                 IN  IF more = {} THEN B ELSE B \cup {Min(more)}
        shrunk[k \in 0..N] ==
            IF k = 0 THEN grown[N]
            ELSE LET B == shrunk[k - 1]
                     less == {c \in B : Independent(v, c, B \ {c})}
                 IN  IF less = {} THEN B ELSE B \ {Min(less)}
    IN  shrunk[N]
OrderGraph(perm) ==
    UNION {{<<u, perm[p]>> : u \in OptimalParents(perm[p], {perm[q] : q \in 1..(p - 1)})} :
               p \in 1..N}
\* BOSS counts an intercept for the nodes with parents only.
CostOf(h) ==
    Cardinality(h) + (IF method = "boss" THEN Cardinality({v \in Nodes : Parents(h, v) # {}}) ELSE 0)

\* v comes to stand before the node at newPos, or last.  GRaSP does not try the
\* last place.
Position(v) == CHOOSE p \in 1..N : order[p] = v
MoveTo(v, newPos) ==
    LET rest == SelectSeq(order, LAMBDA w : w # v)
        place == IF newPos > Position(v) THEN newPos - 1 ELSE newPos
    IN  InsertAt(rest, place, v)
Places(v) == 1..(IF method = "boss" THEN N + 1 ELSE N) \ {Position(v), Position(v) + 1}
\* The first of the best places, if it beats the one it has.
MoveNode ==
    LET cost == [p \in Places(at) |-> CostOf(OrderGraph(MoveTo(at, p)))]
        best == {p \in Places(at) : \A q \in Places(at) : cost[p] <= cost[q]}
        moves == best # {} /\ cost[Min(best)] < CostOf(g)
    IN  /\ phase = "order" /\ at \in Nodes
        /\ order' = IF moves THEN MoveTo(at, Min(best)) ELSE order
        /\ g' = OrderGraph(order')
        /\ improved' = (improved \/ moves)
        /\ at' = at + 1
        /\ UNCHANGED <<method, truth, tests, phase>>
PassEnds ==
    /\ phase = "order" /\ at = N
    /\ phase' = IF improved THEN "order" ELSE "done"
    /\ at' = 0 /\ improved' = FALSE
    /\ UNCHANGED <<method, truth, tests, g, order>>

-----------------------------------------------------------------------------
(* The exhaustive search *)

\* Every set of edges is tried that topological sorting shows to be acyclic.
Explains(h) ==
    \A v \in Nodes : \A u \in (Nodes \ {v}) \ (Parents(h, v) \cup Descendants(h, v)) :
        Independent(u, v, Parents(h, v))
Candidates == {h \in SUBSET CompleteGraph : Explains(h) /\ Len(TopologicalSort(h)) = N}
ExactSearch ==
    /\ phase = "exact"
    /\ \E size \in {Min({Cardinality(h) : h \in Candidates})} :
           g' \in {h \in Candidates : Cardinality(h) = size}
    /\ phase' = "done"
    /\ UNCHANGED <<method, truth, tests, order, at, improved>>

-----------------------------------------------------------------------------
Start ==
    /\ method \in {"ges", "images", "boss", "grasp", "exact"}
    /\ at = 0 /\ improved = FALSE
    /\ \/ method \in {"ges", "images"} /\ phase = "insert" /\ g = {} /\ order = NodeSeq
       \/ method = "exact" /\ phase = "exact" /\ g = {} /\ order = NodeSeq
       \/ /\ method \in {"boss", "grasp"} /\ phase = "order"
          /\ order \in {p \in [1..N -> Nodes] : IsInjective(p)}
          /\ g = OrderGraph(order)
Next == Insert \/ InsertEnds \/ Delete \/ DeleteEnds \/ Prune \/ MoveNode \/ PassEnds \/ ExactSearch
=============================================================================
