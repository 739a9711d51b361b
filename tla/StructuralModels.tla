--------------------------- MODULE StructuralModels ---------------------------
(* Linear structural causal models (pipeline/src/gcm/structural-causal-        *)
(* model.ts) and the strength of arrows (infer/mediation.ts).  A row is a       *)
(* function of the nodes; a value that is not a number is Undefined.  Standard  *)
(* deviations and scores are kept as their squares.                             *)
EXTENDS CausalGraph, Estimators, TLC

Mechanism(coef, intercept, variance) == [coef |-> coef, intercept |-> intercept, variance |-> variance]
Forward(mech, values) == Plus(mech.intercept, Dot(mech.coef, values))
Invert(mech, x, values) == Less(x, Forward(mech, values))
ValueIn(row, v) == IF v \in DOMAIN row THEN row[v] ELSE Zero
ParentValues(dag, row, v) == LET ps == InOrder(Parents(dag, v)) IN [k \in DOMAIN ps |-> ValueIn(row, ps[k])]

\* Rows that lack the node or a parent do not count.  A root has a mean and no
\* coefficients; the coefficients of another node are fitted through the
\* origin, and the intercept is found afterwards.  Where the deviation is zero
\* or not a number it is 1.
TrainMechanism(dag, rows, v) ==
    LET ps   == InOrder(Parents(dag, v))
        used == SelectSeq(rows, LAMBDA row : \A u \in {v} \cup ToSet(ps) : IsDefined(row[u]))
        coef == IF used = <<>> THEN [k \in DOMAIN ps |-> Undefined]
                ELSE SolveOLS(Picked(used, ps), Column(used, v))
        intercept == Less(Average(Column(used, v)), Dot(coef, [k \in DOMAIN ps |-> Average(Column(used, ps[k]))]))
        off  == [r \in DOMAIN used |->
                    Less(used[r][v], Plus(intercept, Dot(coef, [k \in DOMAIN ps |-> used[r][ps[k]]])))]
        variance == Over(Dot(off, off), Whole(Max({1, Len(used) - Len(ps) - 1})))
    IN  Mechanism(coef, intercept, IF variance = Zero \/ ~IsDefined(variance) THEN Unity ELSE variance)

\* nodeOrder is the topological order; the mechanisms are those trained.
TrainModel(dag, rows) ==
    LET order == TopologicalSort(dag)
    IN  [graph |-> dag, nodeOrder |-> order,
         mechanisms |-> FoldLeft(LAMBDA f, v : f @@ (v :> TrainMechanism(dag, rows, v)), <<>>, order)]

Abduct(model, observation) ==
    [v \in DOMAIN model.mechanisms |->
        Invert(model.mechanisms[v], ValueIn(observation, v), ParentValues(model.graph, observation, v))]
Counterfactual(model, noise, intervention) ==
    FoldLeft(LAMBDA row, v :
                 IF v \in DOMAIN intervention THEN row
                 ELSE row @@ (v :> Plus(Forward(model.mechanisms[v], ParentValues(model.graph, row, v)),
                                        ValueIn(noise, v))),
             intervention, model.nodeOrder)

AnomalyScores(model, observation) ==
    LET noise == Abduct(model, observation)
    IN  [v \in DOMAIN noise |-> Over(Times(noise[v], noise[v]), model.mechanisms[v].variance)]
\* The score is min(1, z / 5): nodes beyond it are equal, and stay in node order.
RankBy(names, score) ==
    LET before(i, j) == \/ IsBelow(score[names[j]], score[names[i]])
                        \/ ~IsBelow(score[names[i]], score[names[j]]) /\ i < j
        places == SetToSortSeq(DOMAIN names, before)
    IN  [k \in DOMAIN names |-> [name |-> names[places[k]], score |-> score[names[places[k]]], rank |-> k]]
AttributeAnomalies(model, observation, topK) ==
    LET squares == AnomalyScores(model, observation)
        ranked  == RankBy(model.nodeOrder, [v \in DOMAIN squares |-> Lesser(Unity, Over(squares[v], Whole(25)))])
    IN  SubSeq(ranked, 1, Min({topK, Len(ranked)}))

ComputeMeanNoise(model, rows) ==
    [v \in ToSet(model.nodeOrder) |->
        IF rows = <<>> THEN Zero ELSE Average([r \in DOMAIN rows |-> Abduct(model, rows[r])[v]])]
\* The test asks whether the shifts of the nodes have a common mean, at 1.96.
DetectDistributionChange(model, earlier, later) ==
    LET was   == ComputeMeanNoise(model, earlier)
        is    == ComputeMeanNoise(model, later)
        diffs == [k \in DOMAIN model.nodeOrder |-> Less(is[model.nodeOrder[k]], was[model.nodeOrder[k]])]
        mean  == Average(diffs)
        m     == Len(diffs)
        off   == [k \in DOMAIN diffs |-> Less(diffs[k], mean)]
        se2   == Over(Dot(off, off), Whole((m - 1) * m))
    IN  [meanShift |-> Size(mean),
         changed   |-> IF m < 2 THEN IsBelow(Unity, Size(mean))
                       ELSE IF se2 = Zero THEN IsBelow(<<1, 100>>, Size(mean))
                       ELSE IsBelow(Times(<<2401, 625>>, se2), Times(mean, mean))]

\* The mechanisms are written in the order in which they were trained.
ModelToJSON(model) ==
    [graph |-> model.graph, nodeOrder |-> model.nodeOrder,
     mechanisms |-> [k \in DOMAIN model.nodeOrder |->
                        [nodeName |-> model.nodeOrder[k], mech |-> model.mechanisms[model.nodeOrder[k]]]]]
ModelFromJSON(json) ==
    [graph |-> json.graph, nodeOrder |-> json.nodeOrder,
     mechanisms |-> FoldLeft(LAMBDA f, r : (r.nodeName :> r.mech) @@ f, <<>>, json.mechanisms)]

\* The effects come from a map, in the order they were put in.
CateToRCA(names, effect) ==
    LET ranked == RankBy(names, [v \in DOMAIN effect |-> Size(effect[v])])
    IN  [k \in DOMAIN ranked |-> [ranked[k] EXCEPT !.score = Lesser(Unity, Over(@, Whole(10)))]]

\* The share of each edge among the slopes of the edges into its target.
ArrowStrength(dag, rows) ==
    LET slope == [e \in dag |-> Size(Slope(Column(rows, e[1]), Column(rows, e[2])))]
        total(v) == LET ps == InOrder(Parents(dag, v)) IN SumOf([k \in DOMAIN ps |-> slope[<<ps[k], v>>]])
    IN  [e \in dag |-> IF total(e[2]) = Zero THEN Zero ELSE Over(slope[e], total(e[2]))]
===============================================================================
