------------------------------ MODULE CausalTrees ------------------------------
(* The trees of causal-forest.ts and policy-learning.ts, grown over exact       *)
(* fractions.  What the random numbers decide is a parameter: the sample of a   *)
(* tree, and the order in which features are tried at each node.                *)
EXTENDS Estimators

-----------------------------------------------------------------------------
(* causal-forest.ts *)

\* The residual of the outcome over that of the treatment, 0 where the
\* treatment is nearly explained, and never beyond 50.
PseudoOutcomes(X, d, y) ==
    LET design == WithIntercept(X)
        rd  == ResidualsOf(design, d)
        ry  == ResidualsOf(design, y)
        off == [i \in DOMAIN d |-> Less(d[i], Average(d))]
        least == Over(Dot(off, off), Whole(10000 * Len(d)))
    IN  [i \in DOMAIN X |->
            IF IsBelow(least, Times(rd[i], rd[i]))
            THEN Clipped(Over(ry[i], rd[i]), Whole(-50), Whole(50)) ELSE Zero]

\* A sample is a sequence of rows, which may repeat; sorting keeps the order of
\* rows that are equal in the feature.
SortedBy(X, sample, f) ==
    LET places == SetToSortSeq(DOMAIN sample,
                      LAMBDA p, q : \/ IsBelow(X[sample[p]][f], X[sample[q]][f])
                                    \/ X[sample[p]][f] = X[sample[q]][f] /\ p < q)
    IN  Along(sample, places)
Spread(rho, rows) ==
    LET off == [k \in DOMAIN rows |-> Less(rho[rows[k]], Average(Along(rho, rows)))]
    IN  Dot(off, off)
\* Splits leave more than minSize rows on the right; the first best one wins.
SplitsOn(X, rho, sample, f, minSize) ==
    LET sorted == SortedBy(X, sample, f)
        places == {s \in minSize..(Len(sample) - minSize - 1) : X[sorted[s + 1]][f] # X[sorted[s]][f]}
        split(s) == [feature   |-> f,
                     threshold |-> Over(Plus(X[sorted[s]][f], X[sorted[s + 1]][f]), Whole(2)),
                     impurity  |-> Plus(Spread(rho, SubSeq(sorted, 1, s)),
                                        Spread(rho, SubSeq(sorted, s + 1, Len(sorted))))]
        inOrder == SetToSortSeq(places, <)
    IN  [k \in DOMAIN inOrder |-> split(inOrder[k])]
BestSplit(X, rho, sample, pool, minSize) ==
    FoldLeft(LAMBDA best, s : IF best = <<>> \/ IsBelow(s.impurity, best[1].impurity) THEN <<s>> ELSE best,
             <<>>, FlattenSeq([k \in DOMAIN pool |-> SplitsOn(X, rho, sample, pool[k], minSize)]))
GoesLeft(x, node) == ~IsBelow(node.threshold, x[node.feature])
Side(X, sample, node, left) == SelectSeq(sample, LAMBDA i : GoesLeft(X[i], node) = left)
Leaf(rho, sample) ==
    [left |-> 0, right |-> 0, feature |-> 0, threshold |-> Zero,
     tau |-> Average(Along(rho, sample)), nSamples |-> Len(sample)]

\* Nodes are appended before their children, which are then entered into them.
RECURSIVE BuildNode(_, _, _, _, _, _)
BuildNode(X, rho, config, nodes, sample, depth) ==
    LET leaf == Append(nodes, Leaf(rho, sample))
        best == BestSplit(X, rho, sample, config.pools[Len(nodes) + 1], config.minNodeSize)
        node == best[1]
        ls   == Side(X, sample, node, TRUE)
        rs   == Side(X, sample, node, FALSE)
        at   == Len(nodes) + 1
        here == [left |-> 0, right |-> 0, feature |-> node.feature, threshold |-> node.threshold,
                 tau |-> Zero, nSamples |-> Len(sample)]
        afterLeft  == BuildNode(X, rho, config, Append(nodes, here), ls, depth + 1)
        afterRight == BuildNode(X, rho, config, afterLeft, rs, depth + 1)
    IN  IF \/ Len(sample) < 2 * config.minNodeSize \/ depth >= config.maxDepth
           \/ best = <<>>
           \/ Len(ls) < config.minNodeSize \/ Len(rs) < config.minNodeSize
        THEN leaf
        ELSE [afterRight EXCEPT ![at].left = at + 1, ![at].right = Len(afterLeft) + 1]
\* The second part of the sample is routed through the tree and never used:
\* the leaves keep the averages of the part the splits were chosen on.
BuildTree(X, rho, config, sample) ==
    LET half == (Len(sample) * config.honesty) \div 2
    IN  IF half < config.minNodeSize \/ Len(sample) - half < 2 THEN <<>>
        ELSE <<BuildNode(X, rho, config, <<>>, SubSeq(sample, 1, half), 0)>>
RECURSIVE LeafOf(_, _, _)
LeafOf(tree, x, at) ==
    IF tree[at].left = 0 THEN at
    ELSE LeafOf(tree, x, IF GoesLeft(x, tree[at]) THEN tree[at].left ELSE tree[at].right)
PredictTree(tree, x) == tree[LeafOf(tree, x, 1)].tau
ForestEffect(trees, x) ==
    IF trees = <<>> THEN Zero ELSE Average([k \in DOMAIN trees |-> PredictTree(trees[k], x)])
ForestATE(trees, X) == Average([i \in DOMAIN X |-> ForestEffect(trees, X[i])])
Forest(X, d, y, config, samples) ==
    LET rho == PseudoOutcomes(X, d, y)
    IN  FlattenSeq([k \in DOMAIN samples |-> BuildTree(X, rho, config, samples[k])])

-----------------------------------------------------------------------------
(* policy-learning.ts *)

DecisionOf(cate, rows) == IF IsBelow(Zero, Average(Along(cate, rows))) THEN 1 ELSE 0
\* The outcomes of those who happened to be treated as decided, over all rows.
ValueOf(cate, y, t, rows) ==
    LET followed == SelectSeq(rows, LAMBDA i : IsTreated(t[i]) <=> DecisionOf(cate, rows) = 1)
    IN  Over(SumOf(Along(y, followed)), Whole(Len(rows)))
\* At most ten of the values are thresholds to be tried, smallest first.
PolicySplits(X, rows, v, minLeaf) ==
    LET sorted == SortSeq([k \in DOMAIN rows |-> X[rows[k]][v]], IsBelow)
        n      == Len(rows)
        tried  == [k \in 1..Min({10, n - 1}) |->
                      [feature |-> v, threshold |-> sorted[((k * n) \div 11) + 1]]]
    IN  SelectSeq(tried, LAMBDA s : /\ Len(Side(X, rows, s, TRUE)) >= minLeaf
                                    /\ Len(Side(X, rows, s, FALSE)) >= minLeaf)
\* A split may lose value, but less than 1.
BestPolicySplit(X, cate, y, t, rows, vars, minLeaf) ==
    LET n == Whole(Len(rows))
        worth(side) == Times(ValueOf(cate, y, t, side), Whole(Len(side)))
        gain(s) == Less(Over(Plus(worth(Side(X, rows, s, TRUE)), worth(Side(X, rows, s, FALSE))), n),
                        ValueOf(cate, y, t, rows))
    IN  FoldLeft(LAMBDA best, s : IF IsBelow(best.gain, gain(s)) THEN [gain |-> gain(s), split |-> <<s>>]
                                  ELSE best,
                 [gain |-> Whole(-1), split |-> <<>>],
                 FlattenSeq([k \in DOMAIN vars |-> PolicySplits(X, rows, vars[k], minLeaf)])).split
RECURSIVE BuildPolicy(_, _, _, _, _, _, _)
BuildPolicy(X, cate, y, t, config, rows, depth) ==
    LET split == BestPolicySplit(X, cate, y, t, rows, config.vars[depth + 1], config.minLeafSize)
        leaf  == [isLeaf |-> TRUE, decision |-> DecisionOf(cate, rows), value |-> ValueOf(cate, y, t, rows)]
        child(left) == BuildPolicy(X, cate, y, t, config, Side(X, rows, split[1], left), depth + 1)
    IN  IF depth >= config.maxDepth \/ Len(rows) < 2 * config.minLeafSize \/ split = <<>> THEN leaf
        ELSE [isLeaf |-> FALSE, decision |-> leaf.decision, value |-> leaf.value, split |-> split[1],
              left |-> child(TRUE), right |-> child(FALSE)]
RECURSIVE TraverseTree(_, _)
TraverseTree(x, node) ==
    IF node.isLeaf THEN node.decision
    ELSE TraverseTree(x, IF GoesLeft(x, node.split) THEN node.left ELSE node.right)
RECURSIVE CountLeaves(_)
CountLeaves(node) == IF node.isLeaf THEN 1 ELSE CountLeaves(node.left) + CountLeaves(node.right)
\* Whatever is decided, the observed outcome is counted.
EvaluatePolicy(decisions, y, t) ==
    LET outcome(i) == IF decisions[i] = 1 THEN IF IsTreated(t[i]) THEN y[i] ELSE Plus(y[i], Zero)
                      ELSE IF IsTreated(t[i]) THEN Plus(y[i], Zero) ELSE y[i]
        policy == Average([i \in DOMAIN y |-> outcome(i)])
    IN  [policyValue |-> policy, baselineValue |-> Average(y), improvement |-> Less(policy, Average(y)),
         treated |-> Cardinality({i \in DOMAIN y : decisions[i] = 1})]
PolicyVote(trees, x) ==
    IF 2 * Cardinality({k \in DOMAIN trees : TraverseTree(x, trees[k]) = 1}) > Len(trees) THEN 1 ELSE 0
===============================================================================
