--------------------------- MODULE CpdagOrientation ---------------------------
(***************************************************************************)
(* orientCPDAG of pipeline/src/graph/cpdag.ts: colliders, then Meek's      *)
(* rules, over the edges of a skeleton.  Nodes are their indices, in the   *)
(* order of their names.  Each pair of neighbours a < b is stored one way  *)
(* round; `marks` holds for it "open", "along" (an arrow where the stored  *)
(* edge ends) or "against" (an arrow where it begins).                     *)
(***************************************************************************)
EXTENDS CausalGraph, TLC

KeyOf(a, b) == IF a < b THEN <<a, b>> ELSE <<b, a>>
Joined(m, a, b) == a # b /\ KeyOf(a, b) \in DOMAIN m
\* isEdgeDirected
IsEdgeDirected(m, a, b) == Joined(m, a, b) /\ m[KeyOf(a, b)] # "open"
\* hasEdgeDirected: both of its cases ask for an arrow where the stored edge
\* ends, whichever way round a and b are.
HasEdgeDirected(m, a, b) == Joined(m, a, b) /\ m[KeyOf(a, b)] = "along"
\* orientEdge; `stored` are the edges as they were given.
MarkEdge(stored, m, a, b) ==
    [m EXCEPT ![KeyOf(a, b)] = IF <<a, b>> \in stored THEN "along" ELSE "against"]

\* The loop names the middle second and one wing first; it skips triples whose
\* first node comes after the middle.
ColliderTriples(m, sepSets) ==
    SelectSeq(TripleSeq, LAMBDA t :
        /\ t[1] < t[2] /\ t[3] \notin {t[1], t[2]}
        /\ Joined(m, t[1], t[2]) /\ Joined(m, t[2], t[3]) /\ ~Joined(m, t[1], t[3])
        /\ t[2] \notin sepSets[KeyOf(t[1], t[3])])
CollidersMarked(stored, m, sepSets) ==
    FoldLeft(LAMBDA n, t : MarkEdge(stored, MarkEdge(stored, n, t[1], t[2]), t[3], t[2]),
             m, ColliderTriples(m, sepSets))

R1Fires(m, i, j, k) ==
    /\ k \notin {i, j} /\ HasEdgeDirected(m, i, j) /\ Joined(m, j, k)
    /\ ~IsEdgeDirected(m, j, k) /\ ~Joined(m, i, k)
ApplyMeekR1(stored, m) ==
    LET out(n, i, j) ==
            FoldLeft(LAMBDA h, k : IF R1Fires(h, i, j, k) THEN MarkEdge(stored, h, j, k) ELSE h,
                     n, InOrder({k \in Nodes : R1Fires(n, i, j, k)}))
    IN  FoldLeft(LAMBDA a, i : FoldLeft(LAMBDA n, j : out(n, i, j), a, NodeSeq), m, NodeSeq)

R2Fires(m, i, j) ==
    /\ Joined(m, i, j) /\ ~IsEdgeDirected(m, i, j)
    /\ \E k \in Nodes \ {i, j} : HasEdgeDirected(m, i, k) /\ HasEdgeDirected(m, k, j)
ApplyMeekR2(stored, m) ==
    LET row(a, i) == FoldLeft(LAMBDA n, j : IF R2Fires(n, i, j) THEN MarkEdge(stored, n, i, j) ELSE n,
                              a, NodeSeq)
    IN  FoldLeft(row, m, NodeSeq)

\* k and l of the third rule, from i to j.  The test that i - j is open is made
\* before they are looked for.
Spoke(m, i, j, k) ==
    /\ k \notin {i, j} /\ Joined(m, i, k)
    /\ ~IsEdgeDirected(m, i, k) /\ HasEdgeDirected(m, k, j)
HasSpokes(m, i, j, ks) ==
    \E k \in ks, l \in Nodes : k # l /\ Spoke(m, i, j, l) /\ ~Joined(m, k, l)
\* Once an edge has been oriented, the loop over j ends and only the first
\* open edge of every later i, with the first k, is looked at.
ApplyMeekR3(stored, m) ==
    LET row(st, i) ==
            FoldLeft(LAMBDA s, j :
                         LET spokes == {k \in Nodes : Spoke(s.m, i, j, k)}
                             tried == IF s.changed /\ spokes # {} THEN {Min(spokes)} ELSE spokes
                             found == HasSpokes(s.m, i, j, tried)
                         IN  IF s.over \/ ~Joined(s.m, i, j) \/ IsEdgeDirected(s.m, i, j) THEN s
                             ELSE [m       |-> IF found THEN MarkEdge(stored, s.m, i, j) ELSE s.m,
                                   changed |-> s.changed \/ found,
                                   over    |-> s.changed \/ found],
                     [st EXCEPT !.over = FALSE], NodeSeq)
    IN  FoldLeft(row, [m |-> m, changed |-> FALSE, over |-> FALSE], NodeSeq).m

Rule(r, stored, m) ==
    CASE r = 1 -> ApplyMeekR1(stored, m) [] r = 2 -> ApplyMeekR2(stored, m)
      [] r = 3 -> ApplyMeekR3(stored, m)

\* A run: `rule` is the next one, 0 for the colliders, 4 when a round of the
\* three has changed nothing.
Unoriented(stored) ==
    [stored |-> stored, marks |-> [k \in {KeyOf(e[1], e[2]) : e \in stored} |-> "open"],
     rule |-> 0, before |-> <<>>]
StepOf(run, sepSets) ==
    IF run.rule = 0
    THEN LET m == CollidersMarked(run.stored, run.marks, sepSets)
         IN  [run EXCEPT !.marks = m, !.before = m, !.rule = 1]
    ELSE LET m == Rule(run.rule, run.stored, run.marks)
         IN  [run EXCEPT !.marks = m,
                         !.before = IF run.rule = 3 THEN m ELSE @,
                         !.rule = IF @ < 3 THEN @ + 1 ELSE IF m = run.before THEN 4 ELSE 1]
\* The edges that have a direction, by the stored direction and the mark.
Arrows(stored, m) ==
    {e \in stored : m[KeyOf(e[1], e[2])] = "along"}
        \cup {<<e[2], e[1]>> : e \in {f \in stored : m[KeyOf(f[1], f[2])] = "against"}}
===============================================================================
