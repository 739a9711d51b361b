---------------------------- MODULE Identification ----------------------------
(***************************************************************************)
(* Which effects of a treatment x on an outcome y the graph identifies:    *)
(* adjustment sets (pipeline/src/infer/backdoor.ts), the collider warnings *)
(* of collider-bias.ts, and the strategy and the recursive algorithm of    *)
(* do-calculus.ts.  A latent common cause of a and b is the edge a <-> b,   *)
(* that is both <<a, b>> and <<b, a>>, as in do-calculus.ts.               *)
(***************************************************************************)
EXTENDS CausalGraph

-----------------------------------------------------------------------------
(* Adjustment sets *)

Admissible(g, x, y) == (Ancestors(g, {x}) \ Descendants(g, x)) \ {x, y}
WithoutEffectsOf(g, x) == {e \in g : e[1] # x}
\* Mutant: the edges out of x stay.
BlocksBackdoorOfAll(g, x, y, Z) == DSeparated(g, x, y, Z)
BlocksBackdoor(g, x, y, Z) == DSeparated(WithoutEffectsOf(g, x), x, y, Z)

MinimalSet(g, x, y) == Parents(g, x) \cap Admissible(g, x, y)
MaximalSet(g, x, y) == Admissible(g, x, y)
EfficientSet(g, x, y) ==
    FoldLeft(LAMBDA Z, v : IF v \in Z /\ BlocksBackdoor(g, x, y, Z \ {v}) THEN Z \ {v} ELSE Z,
             Admissible(g, x, y), NodeSeq)

\* The subsets of the candidates as the bitmask counts them: never the empty one.
Mask(Z) == FoldLeft(LAMBDA m, v : IF v \in Z THEN m + 2^v ELSE m, 0, NodeSeq)
Blocking(g, x, y) ==
    {Z \in SUBSET Admissible(g, x, y) \ {{}} : BlocksBackdoor(g, x, y, Z)}
ExhaustiveSet(g, x, y) ==
    LET valid == Blocking(g, x, y)
        minimal == {Z \in valid : \A W \in valid : W \subseteq Z => W = Z}
        before(Z, W) == \/ Cardinality(Z) < Cardinality(W)
                        \/ Cardinality(Z) = Cardinality(W) /\ Mask(Z) <= Mask(W)
    IN  IF valid = {} THEN MinimalSet(g, x, y)
        ELSE CHOOSE Z \in minimal : \A W \in minimal : before(Z, W)
\* cost is the squared correlation of each candidate with the treatment.
CostOf(cost, Z) == FoldLeft(LAMBDA s, v : IF v \in Z THEN s + cost[v] ELSE s, 0, NodeSeq)
MinCostSet(g, x, y, cost) ==
    LET first == EfficientSet(g, x, y)
        cheaper == {Z \in Blocking(g, x, y) : CostOf(cost, Z) < CostOf(cost, first)}
        before(Z, W) == \/ CostOf(cost, Z) < CostOf(cost, W)
                        \/ CostOf(cost, Z) = CostOf(cost, W) /\ Mask(Z) <= Mask(W)
    IN  IF cheaper = {} THEN first
        ELSE CHOOSE Z \in cheaper : \A W \in cheaper : before(Z, W)
AdjustmentSet(g, x, y, method, cost) ==
    CASE method = "minimal"    -> MinimalSet(g, x, y)
      [] method = "maximal"    -> MaximalSet(g, x, y)
      [] method = "efficient"  -> EfficientSet(g, x, y)
      [] method = "exhaustive" -> ExhaustiveSet(g, x, y)
      [] method = "mincost"    -> MinCostSet(g, x, y, cost)

Mediators(g, x, y) ==
    {v \in Nodes \ {x, y} : HasDirectedPath(g, x, v) /\ HasDirectedPath(g, v, y)}

-----------------------------------------------------------------------------
(* Collider bias: one warning per collider, naming it or one descendant *)

Colliders(g) == {v \in Nodes : Cardinality(Parents(g, v)) >= 2}
Warnings(g, Z) ==
    {[collider |-> c, via |-> IF c \in Z THEN {c} ELSE Descendants(g, c) \cap Z] :
        c \in {v \in Colliders(g) : Descendants(g, v) \cap Z # {}}}
\* What removeColliderBiasedAdjustments can leave, by the descendant each
\* warning happens to name.
RemoveBiased(g, Z) ==
    LET ws == Warnings(g, Z)
    IN  {Z \ UNION {{w.collider, pick[w]} : w \in ws} :
            pick \in {f \in [ws -> Z] : \A w \in ws : f[w] \in w.via}}

-----------------------------------------------------------------------------
(* The ID algorithm, over the subgraph of the nodes vs *)

Within(g, vs) == {e \in g : e[1] \in vs /\ e[2] \in vs}
\* c-components: nodes connected by latent common causes among vs.
ComponentsOf(g, vs) ==
    LET two  == {e \in Within(g, vs) : <<e[2], e[1]>> \in g}
        with(v) == {v} \cup {w \in vs : <<v, w>> \in Reach(two)}
    IN  {with(v) : v \in vs}
\* A hedge: the components of the whole graph, seen within S, of which one is
\* a proper part of another.
Hedge(g, vs, S) ==
    LET parts == {C \cap S : C \in ComponentsOf(g, vs)} \ {{}}
    IN  \E A, B \in parts : A # B /\ A \subseteq B

NoLongerAbove(h, vs, x, y) == (vs \ x) \ Ancestors({e \in h : e[2] \notin x}, y)

RECURSIVE FullID(_, _, _, _, _)
FullID(g, vs, x, y, seen) ==
    LET h     == Within(g, vs)
        above == Ancestors(h, y)
        moot  == NoLongerAbove(h, vs, x, y)
        parts == ComponentsOf(h, vs \ x)
        order == SetToSortSeq(parts, LAMBDA A, B : Min(A) < Min(B))
        now   == seen \cup {<<y, x, vs>>}
    IN  IF <<y, x, vs>> \in seen THEN [ok |-> FALSE, seen |-> seen]
        ELSE IF x = {} THEN [ok |-> TRUE, seen |-> now]
        ELSE IF above # vs THEN FullID(g, above, x \cap above, y, now)
        ELSE IF moot # {} THEN FullID(g, vs, x \cup moot, y, now)
        ELSE IF Len(order) > 1
        THEN FoldLeft(LAMBDA st, C : IF st.ok THEN FullID(g, vs, vs \ C, C, st.seen) ELSE st,
                      [ok |-> TRUE, seen |-> now], order)
        ELSE [ok |-> ~Hedge(h, vs, vs \ x), seen |-> now]

\* identifyByDoCalculus: adjustment, then mediators, then the bow graph, then
\* the recursion.
Bow(g, x, y) ==
    /\ {<<x, y>>, <<y, x>>} \subseteq g
    /\ ~HasDirectedPath(RemoveEdges(g, {<<x, y>>}), x, y)
Identify(g, x, y) ==
    LET adjust == MinimalSet(g, x, y)
        front  == {m \in Mediators(g, x, y) : MinimalSet(g, x, m) = {}}
    IN  IF adjust # {} THEN [by |-> "backdoor", set |-> adjust]
        ELSE IF front # {} THEN [by |-> "frontdoor", set |-> front]
        ELSE IF Bow(g, x, y) THEN [by |-> "not_identifiable", set |-> {}]
        ELSE IF FullID(g, Nodes, {x}, {y}, {}).ok THEN [by |-> "id_algorithm", set |-> {}]
        ELSE [by |-> "not_identifiable", set |-> {}]

-----------------------------------------------------------------------------
(* Pearl's criterion, from the textbook definition *)

Backdoor(g, x, y, Z) ==
    /\ \A v \in Z : v # x /\ <<x, v>> \notin Reach(g)
    /\ MoralSeparated(WithoutEffectsOf(g, x), x, y, Z)
=============================================================================
