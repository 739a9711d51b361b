------------------------------ MODULE ModelChecks ------------------------------
(* What structural models, effect estimates, refuters and evaluations answer    *)
(* about small inputs, and what the answers must agree with.                    *)
EXTENDS StructuralModels, TreatmentEvaluation, Refutations, CausalTrees, TLC

-----------------------------------------------------------------------------
(* Small tables for the estimators and the trees.  A row is <<covariate,       *)
(* treatment, outcome>>; with a noiseless outcome any estimator must find its   *)
(* slope.                                                                       *)

Bits == {Zero, Unity}
Bit(k) == IF k = 1 THEN Zero ELSE Unity
Rows(outcomes) == {<<x, t, y>> : x \in Bits, t \in Bits, y \in outcomes}
RowOrder(u, v) ==
    \E k \in 1..3 : IsBelow(u[k], v[k]) /\ \A j \in 1..(k - 1) : u[j] = v[j]
\* Tables of n rows in order, which are all of them up to the order of rows.
RECURSIVE OrderedTables(_, _)
OrderedTables(n, outcomes) ==
    IF n = 0 THEN {<<>>}
    ELSE {Append(u[1], u[2]) :
             u \in {v \in OrderedTables(n - 1, outcomes) \X Rows(outcomes) :
                       v[1] = <<>> \/ ~RowOrder(v[2], Last(v[1]))}}
Covariates(data) == Picked(data, <<1>>)
Treatments(data) == Column(data, 2)
Outcomes(data) == Column(data, 3)
Cell(data, x, t) == Along(Outcomes(data), SelectSeq(Upto(Len(data)), LAMBDA i : data[i][1] = x /\ data[i][2] = t))
Varies(seq) == \E i, j \in DOMAIN seq : seq[i] # seq[j]
\* Some row of each covariate and arm.
Overlaps(data) == \A x, t \in Bits : Cell(data, x, t) # <<>>
EffectsOf(data) ==
    [about |-> "effects", data |-> data,
     crude    |-> AdjustBackdoor(data, 2, 3, <<>>),
     adjusted |-> AdjustBackdoor(data, 2, 3, <<1>>),
     matched  |-> EstimatePSMatching(data, 2, 3, <<1>>),
     robust   |-> EstimateDoublyRobust(data, 2, 3, <<1>>),
     marginal |-> EstimateDoublyRobust(data, 2, 3, <<>>),
     s |-> CateS(Covariates(data), Outcomes(data), Treatments(data)),
     r |-> CateR(Covariates(data), Outcomes(data), Treatments(data)),
     t |-> [x \in Bits |-> CateT(Covariates(data), Outcomes(data), Treatments(data), <<x>>)],
     x |-> [x \in Bits |-> CateX(Covariates(data), Outcomes(data), Treatments(data), <<x>>)],
     metaT |-> MetaT([i \in DOMAIN data |-> <<>>], Outcomes(data), Treatments(data), <<>>),
     metaX |-> MetaX([i \in DOMAIN data |-> <<>>], Outcomes(data), Treatments(data), <<>>, <<1, 3>>),
     linearDR |-> LinearDR([i \in DOMAIN data |-> <<>>], Outcomes(data), Treatments(data),
                           EstimatePropensityScore(data, 2, <<>>)),
     whole |-> DoubleMLPLR(Covariates(data), Treatments(data), Outcomes(data), Upto(Len(data)), 3),
     wald  |-> DoubleML([i \in DOMAIN data |-> <<>>], Column(data, 1), Treatments(data), Outcomes(data), Upto(Len(data)), 3),
     front |-> EstimateFrontdoor(data, 1, 3, <<2>>)]

Difference(data) ==
    Less(Average(Column(Arm(data, 2, TRUE), 3)), Average(Column(Arm(data, 2, FALSE), 3)))
InStratum(data, x) == Less(Average(Cell(data, x, Unity)), Average(Cell(data, x, Zero)))
Standardised(data) == Average([i \in DOMAIN data |-> InStratum(data, data[i][1])])
\* The outcome as slope * treatment + shift * covariate.
Noiseless(data, slope, shift) ==
    \A i \in DOMAIN data : data[i][3] = Plus(Times(slope, data[i][2]), Times(shift, data[i][1]))

\* What the estimators of one table must agree on.  Where every covariate
\* occurs in both arms: the doubly robust score is the standardised difference
\* whatever its outcome model says, since the propensities are right; the
\* T-learner predicts the difference within the stratum and the X-learner the
\* same.  The coefficient of the S-learner of cate-meta-learners.ts is the
\* residual-on-residual estimate of the R-learner, and of double machine
\* learning without folds.  Without covariates the T-learner, the X-learner
\* and the doubly robust learner of meta-learners.ts and dr-estimators.ts give
\* the difference of the means.  With the covariate for an instrument, double
\* machine learning divides covariances.  Along a noiseless outcome adjustment
\* finds the slope without an error, and the front door its product with the
\* slope of the mediator.  Matching fails exactly without a control, and finds
\* no effect where there is none and propensities tell the strata apart.
EstimatesAgree(a) ==
    LET data == a.data
        armsOf(n) == \A t \in {TRUE, FALSE} : Len(Arm(data, 2, t)) >= n
        full == NormalMatrix(WithIntercept(Picked(data, <<1, 2>>)))
        score == EstimatePropensityScore(data, 2, <<1>>)
    IN  /\ Overlaps(data) =>
               /\ a.robust = Standardised(data)
               /\ \A x \in Bits : a.t[x] = InStratum(data, x) /\ a.x[x] = a.t[x]
        /\ ~IsMatrixSingular(full) => a.s = a.r /\ a.whole.theta = a.r
        /\ armsOf(1) =>
               /\ a.crude.ate = Difference(data)
               /\ a.metaT = Difference(data) /\ a.metaX = Difference(data)
               /\ a.linearDR = Difference(data)
        /\ armsOf(2) => a.marginal = Difference(data)
        /\ \A slope \in {Zero, Unity, Whole(2)}, shift \in {Zero, Unity, Whole(-1)} :
               Noiseless(data, slope, shift) =>
                   /\ Overlaps(data) => a.adjusted = [ate |-> slope, variance |-> Zero]
                   /\ shift = Zero /\ Varies(Treatments(data)) =>
                          a.front = Times(slope, Slope(Column(data, 1), Treatments(data)))
        /\ a.wald.theta = IF Scatter(data, 1, 2) = Zero THEN Zero
                          ELSE Over(Scatter(data, 1, 3), Scatter(data, 1, 2))
        /\ a.matched.throws <=> armsOf(0) /\ Arm(data, 2, FALSE) = <<>> /\ data # <<>>
        /\ (\A x \in Bits, t \in Bits : ~Varies(Cell(data, x, t))) /\ Overlaps(data)
           /\ Varies(score) /\ InStratum(data, Zero) = Zero /\ InStratum(data, Unity) = Zero =>
               a.matched.ate = Zero

-----------------------------------------------------------------------------
(* Folds *)

FoldsOf(pairs, slope, shift, shuffled, k) ==
    LET data == [i \in DOMAIN pairs |->
                    Append(pairs[i], Plus(Times(slope, pairs[i][2]), Times(shift, pairs[i][1])))]
        dml  == DoubleMLPLR(Covariates(data), Treatments(data), Outcomes(data), shuffled, k)
    IN  [about |-> "folds", data |-> data, slope |-> slope, shift |-> shift,
         folds |-> Listed(KFoldIndices(shuffled, k)), dml |-> dml,
         varied |-> TestHeterogeneity([i \in DOMAIN data |-> dml.theta]),
         kernel |-> KernelEffect([i \in DOMAIN data |-> dml.theta], Column(data, 1), dml.theta)]
\* Every row is in one fold, no fold is larger by two than another, and what
\* the folds estimate of a noiseless outcome is its slope, in each and so with
\* no variance, unless the covariate matters and is constant where a fold's
\* model was trained.  The same effect for everyone is never called varied.
FoldsAgree(a) ==
    LET rows  == DOMAIN a.data
        folds == DOMAIN a.folds
        training(f) == {i \in rows : i \notin ToSet(a.folds[f])}
    IN  /\ \A i \in rows : Cardinality({f \in folds : i \in ToSet(a.folds[f])}) = 1
        /\ \A f, h \in folds : Len(a.folds[f]) <= Len(a.folds[h]) + 1
        /\ \/ a.shift = Zero
           \/ Len(a.data) < 3 * Len(a.folds)
           \/ \A f \in folds : \E i, j \in training(f) : a.data[i][1] # a.data[j][1]
           => a.dml.theta \in {a.slope, Zero} /\ (a.dml.theta # Zero /\ Len(a.data) >= 3 * Len(a.folds)
                                                    => a.dml.variance = Zero)
        /\ ~a.varied.significant /\ a.kernel = a.dml.theta

-----------------------------------------------------------------------------
(* Trees *)

SomePoints == Listed([i \in 1..6 |-> Wholes(<<<<0, 1>>, <<1, 0>>, <<1, 2>>, <<2, 0>>, <<2, 2>>, <<0, 2>>>>[i])])
TreesOf(t, y, samples, config) ==
    LET trees == Forest(SomePoints, t, y, config, samples)
    IN  [about |-> "trees", samples |-> samples, config |-> config, trees |-> trees,
         rho |-> Listed(PseudoOutcomes(SomePoints, t, y)),
         effects |-> [i \in DOMAIN SomePoints |-> ForestEffect(trees, SomePoints[i])],
         ate |-> ForestATE(trees, SomePoints)]
\* A tree is grown exactly from samples that are large enough.  Its leaves
\* share out the rows it was grown from, none with fewer than minNodeSize of
\* them, and each predicts their average; a node comes before its children;
\* and what is spread within the leaves is no more than the spread at the
\* root.  The effects are within the range of the pseudo-outcomes.
TreesGrowRight(a) ==
    LET half(k)  == (Len(a.samples[k]) * a.config.honesty) \div 2
        large(k) == half(k) >= a.config.minNodeSize /\ Len(a.samples[k]) - half(k) >= 2
        grown    == SelectSeq(Upto(Len(a.samples)), large)
        grew(k)  == SubSeq(a.samples[k], 1, half(k))
        within(v) == a.trees = <<>> \/ \E i, j \in DOMAIN a.rho : ~IsBelow(v, a.rho[i]) /\ ~IsBelow(a.rho[j], v)
    IN  /\ Len(a.trees) = Len(grown)
        /\ \A k \in DOMAIN a.trees :
               LET tree == a.trees[k]
                   rows == grew(grown[k])
                   members(at) == SelectSeq(rows, LAMBDA i : LeafOf(tree, SomePoints[i], 1) = at)
                   leaves == {at \in DOMAIN tree : tree[at].left = 0}
               IN  /\ \A at \in leaves :
                          LET inLeaf == members(at)
                          IN  /\ Len(inLeaf) = tree[at].nSamples
                              /\ Len(inLeaf) >= a.config.minNodeSize
                              /\ tree[at].tau = Average(Along(a.rho, inLeaf))
                   /\ \A at \in DOMAIN tree \ leaves :
                          /\ at < tree[at].left /\ tree[at].left < tree[at].right
                          /\ tree[at].nSamples = tree[tree[at].left].nSamples + tree[tree[at].right].nSamples
                   /\ Cardinality(leaves) <= 2^(a.config.maxDepth)
                   /\ ~IsBelow(Spread(a.rho, rows),
                               SumOf([at \in DOMAIN tree |->
                                         IF at \in leaves THEN Spread(a.rho, members(at)) ELSE Zero]))
        /\ within(a.ate) /\ \A i \in DOMAIN a.effects : within(a.effects[i])

PolicyOf(cate, t, y, config) ==
    LET tree == BuildPolicy(SomePoints, cate, y, t, config, Upto(6), 0)
        bare == BuildPolicy(SomePoints, cate, y, t, [config EXCEPT !.maxDepth = 0], Upto(6), 0)
        decisions == [i \in DOMAIN SomePoints |-> TraverseTree(SomePoints[i], tree)]
    IN  [about |-> "policy", cate |-> cate, config |-> config,
         decisions |-> decisions, uniform |-> bare.decision,
         leaves |-> CountLeaves(tree), worth |-> EvaluatePolicy(decisions, y, t),
         majority |-> [i \in DOMAIN SomePoints |-> PolicyVote(<<tree, bare, tree>>, SomePoints[i])],
         tie |-> [i \in DOMAIN SomePoints |-> PolicyVote(<<tree, bare>>, SomePoints[i])]]
\* However the tree splits, treating as it says gains at least what the better
\* of treating all and treating none does.  No leaf is too small, the majority
\* of the trees decides and a tie does not treat.
PolicyDecidesRight(a) ==
    LET gain(treated) == SumOf([i \in 1..6 |-> IF i \in treated THEN a.cate[i] ELSE Zero])
        chosen == {i \in 1..6 : a.decisions[i] = 1}
    IN  /\ ~IsBelow(gain(chosen), Zero) /\ ~IsBelow(gain(chosen), gain(1..6))
        /\ a.worth.treated = Cardinality(chosen)
        /\ a.leaves <= 2^(a.config.maxDepth) /\ a.leaves * a.config.minLeafSize <= 6
        /\ a.majority = a.decisions
        /\ \A i \in 1..6 : a.tie[i] = 1 <=> a.decisions[i] = 1 /\ a.uniform = 1

-----------------------------------------------------------------------------
(* Matrices *)

RECURSIVE Determinant(_)
Determinant(m) ==
    IF m = <<>> THEN Unity
    ELSE SumOf([c \in DOMAIN m |->
                  LET minor == [r \in 1..(Len(m) - 1) |-> RemoveAt(m[r + 1], c)]
                      term  == Times(m[1][c], Determinant(minor))
                  IN  IF c % 2 = 1 THEN term ELSE Minus(term)])
Leading(m, k) == [r \in 1..k |-> SubSeq(m[r], 1, k)]
MatrixOf(m, b) ==
    [about |-> "matrix", m |-> m, b |-> b, singular |-> IsMatrixSingular(m), inverse |-> InvertMatrix(m),
     plain |-> SolveLinear(m, b), safe |-> SolveLinearSafe(m, b), cholesky |-> SolveLinearCholesky(m, b)]
\* The two tests for a singular matrix and the determinant agree, and the
\* solvers and the inverse are right where it is not; where it is, solveLinear
\* leaves what is not a number.  Cholesky solves exactly the symmetric systems
\* whose matrix is positive definite.
SolversAgree(a) ==
    LET rows == DOMAIN a.m
        solves(x) == \A r \in rows : Dot(a.m[r], x) = a.b[r]
        symmetric == \A r, c \in rows : a.m[r][c] = a.m[c][r]
        definite  == \A k \in rows : IsBelow(Zero, Determinant(Leading(a.m, k)))
    IN  /\ a.singular <=> Determinant(a.m) = Zero
        /\ a.safe.singular <=> a.singular
        /\ a.singular => \E r \in rows : ~IsDefined(a.plain[r])
        /\ ~a.singular =>
               /\ solves(a.plain) /\ a.safe.solution = a.plain
               /\ \A r, c \in rows :
                      Dot(a.inverse[r], Column(a.m, c)) = IF r = c THEN Unity ELSE Zero
        /\ symmetric => (a.cholesky # <<>> <=> definite)
        /\ symmetric /\ definite => a.cholesky = a.plain

SamplesOf(data) ==
    [about |-> "sample", data |-> data,
     rho |-> [pair \in {<<1, 2>>, <<2, 1>>} |->
                 PartialCorrelationFromCov(CovarianceOf(data, pair \o <<3>>), 1, 2)],
     seen |-> [pair \in {<<1, 2>>, <<2, 1>>} |->
                 FisherSeesDependence(data, pair[1], pair[2], <<3>>, <<1, 2>>)],
     raw  |-> PartialCorrelationRaw(data, 1, 2, <<3>>),
     fit  |-> SolveOLS(Picked(data, <<1, 2>>), Column(data, 3)),
     chi  |-> ChiSquare([x \in 1..2 |-> [y \in 1..2 |->
                  Whole(Len(SelectSeq(data, LAMBDA row : row[1] = Bit(x) /\ row[2] = Bit(y))))]])]
\* The inverse of the covariances gives the textbook's partial correlation and
\* the test is symmetric, but for too few rows never dependent; residuals
\* without an intercept give it where all columns are centred, and least
\* squares leave residuals that are orthogonal to the regressors.  The
\* statistic of a two-by-two table is that of its cross product.
CorrelationsAgree(a) ==
    LET c(i, j) == Scatter(a.data, i, j)
        schur(i, j) == Less(Times(c(i, j), c(3, 3)), Times(c(i, 3), c(j, 3)))
        partial == Over(SignedSquare(schur(1, 2)), Times(schur(1, 1), schur(2, 2)))
        off == [r \in DOMAIN a.data |-> Less(a.data[r][3], Dot(a.fit, SubSeq(a.data[r], 1, 2)))]
        count(x, y) == Whole(Len(SelectSeq(a.data, LAMBDA row : row[1] = Bit(x) /\ row[2] = Bit(y))))
        margin(i, v) == Whole(Len(SelectSeq(a.data, LAMBDA row : row[i] = Bit(v))))
        cross == Less(Times(count(1, 1), count(2, 2)), Times(count(1, 2), count(2, 1)))
        margins == Times(Times(margin(1, 1), margin(1, 2)), Times(margin(2, 1), margin(2, 2)))
    IN  /\ a.rho[<<1, 2>>] = a.rho[<<2, 1>>] /\ a.seen[<<1, 2>>] = a.seen[<<2, 1>>]
        /\ Len(a.data) <= 4 => ~a.seen[<<1, 2>>]
        /\ ~IsMatrixSingular(CovarianceOf(a.data, <<1, 2, 3>>)) =>
               /\ a.rho[<<1, 2>>] = partial
               /\ (\A i \in 1..3 : SumOf(Column(a.data, i)) = Zero) => a.raw = partial
        /\ ~IsMatrixSingular(NormalMatrix(Picked(a.data, <<1, 2>>))) =>
               \A i \in 1..2 : Dot(off, Column(a.data, i)) = Zero
        /\ margins # Zero =>
               a.chi = Over(Times(Whole(Len(a.data)), Times(cross, cross)), margins)

SubsetsOf(n, k) == [about |-> "subsets", n |-> n, k |-> k, found |-> Combinations(Upto(n), k)]
\* The combinations are all subsets of the size, in the order of their places.
CombinationsAgree(a) ==
    LET earlier(u, v) == \E k \in DOMAIN u : u[k] < v[k] /\ \A j \in 1..(k - 1) : u[j] = v[j]
    IN  /\ {ToSet(c) : c \in ToSet(a.found)} = kSubset(a.k, 1..a.n)
        /\ \A i, j \in DOMAIN a.found : i < j => earlier(a.found[i], a.found[j])

\* What the numerical parts say about small tables, trees and matrices.
EstimatesRight(a) ==
    CASE a.about = "effects" -> EstimatesAgree(a)
      [] a.about = "folds"   -> FoldsAgree(a)
      [] a.about = "trees"   -> TreesGrowRight(a)
      [] a.about = "policy"  -> PolicyDecidesRight(a)
      [] a.about = "matrix"  -> SolversAgree(a)
      [] a.about = "sample"  -> CorrelationsAgree(a)
      [] a.about = "subsets" -> CombinationsAgree(a)
      [] OTHER -> TRUE

-----------------------------------------------------------------------------
(* Structural models.  A linear model over a DAG whose edges go to higher nodes *)
(* and have weights; its data are one row for each unit of noise at each node,  *)
(* up and down, so that noises are uncorrelated and all columns centred.        *)

WeightOf(e, pattern) == Whole(<<1, -1, 2>>[((e[1] + 2 * e[2] + pattern) % 3) + 1])
RowFrom(dag, pattern, noise) ==
    LET value[v \in Nodes] ==
            LET ps == InOrder(Parents(dag, v))
            IN  Plus(noise[v], SumOf([k \in DOMAIN ps |-> Times(WeightOf(<<ps[k], v>>, pattern), value[ps[k]])]))
    IN  [v \in Nodes |-> value[v]]
NoiseAt(v, size) == [u \in Nodes |-> IF u = v THEN Whole(size) ELSE Zero]
DataOf(dag, pattern) ==
    Listed([k \in 1..(2 * N) |-> RowFrom(dag, pattern, NoiseAt((k - 1) \div 2, IF k % 2 = 1 THEN 1 ELSE -1))])
\* The sum over the directed paths of the products of their weights; a path is
\* the set of nodes between its ends.
TotalEffect(dag, pattern, x, y) ==
    LET path(S) == SetToSortSeq(S \cup {x, y}, <)
        goes(p) == \A k \in 1..(Len(p) - 1) : <<p[k], p[k + 1]>> \in dag
        product(p) == FoldLeft(LAMBDA w, k : Times(w, WeightOf(<<p[k], p[k + 1]>>, pattern)), Unity, Upto(Len(p) - 1))
        paths == {S \in SUBSET {v \in Nodes : x < v /\ v < y} : goes(path(S))}
        listed == SetToSeq(paths)
    IN  IF x = y THEN Unity ELSE IF y < x THEN Zero
        ELSE SumOf([k \in DOMAIN listed |-> product(path(listed[k]))])
Observed == [v \in Nodes |-> Whole((v * v + 1) % 4)]
StructureOf(dag, pattern) ==
    LET data  == DataOf(dag, pattern)
        model == TrainModel(dag, data)
        noise == Abduct(model, Observed)
        holed(u) == Append(data, [RowFrom(dag, pattern, NoiseAt(N - 1, 1)) EXCEPT ![u] = Undefined])
        rest  == RowFrom(dag, pattern, NoiseAt(0, 0))
        ups   == {p \in Nodes \X Nodes : p[1] < p[2]}
        draws == <<[r \in 1..(2 * N) |-> r], [r \in 1..(2 * N) |-> 2 * N + 1 - r]>>
    IN  [about |-> "structure", dag |-> dag, pattern |-> pattern, data |-> data, model |-> model,
         again   |-> ModelFromJSON(ModelToJSON(model)),
         holed   |-> [u \in Nodes |-> TrainModel(dag, holed(u))],
         factual |-> [S \in SUBSET Nodes |-> Counterfactual(model, noise, [v \in S |-> Observed[v]])],
         forced  |-> [x \in Nodes |-> Counterfactual(model, noise, (x :> Whole(5)))],
         blamed  |-> [v \in Nodes |-> AttributeAnomalies(model, RowFrom(dag, pattern, NoiseAt(v, 3)), 3)],
         moved   |-> DetectDistributionChange(model, <<rest>>, <<RowFrom(dag, pattern, [v \in Nodes |-> Unity])>>),
         arrows  |-> ArrowStrength(dag, data),
         bridge  |-> CateToRCA(NodeSeq, [v \in Nodes |-> TotalEffect(dag, pattern, 0, v)]),
         analysis |-> [p \in ups |-> AnalyzeEffect(dag, data, p[1], p[2], draws, draws, draws)],
         done    |-> [p \in ups |-> [d \in 0..1 |-> DoTreatment(dag, data, p[1], p[2], Whole(d))]],
         front   |-> [p \in ups |-> IdentifyFrontdoor(dag, p[1], p[2])],
         nde     |-> [p \in ups |-> [m \in Nodes \ {p[1], p[2]} |-> NaturalDirectEffect(data, p[1], p[2], m)]]]
\* Training finds the weights, with rows that lack a value as without them.  What
\* is abducted reproduces what was observed, whichever nodes are held at it, and
\* forcing a node moves every other by the effect along the paths to it.  That
\* same effect is what adjusting for the back-door set of the DAG estimates, and
\* what do() adds for a unit of treatment.  Direct and indirect effect add up to
\* the slope, and are those of the edge and of the path through the mediator
\* where nothing else acts on the outcome.  A node that is off is blamed alone.
\* A shift of all mechanisms alike is a distribution change.
StructureAgrees(a) ==
    LET effect(x, y) == TotalEffect(a.dag, a.pattern, x, y)
        direct(x, y) == IF <<x, y>> \in a.dag THEN WeightOf(<<x, y>>, a.pattern) ELSE Zero
        isTrained(model) == \A v \in Nodes :
            LET ps == InOrder(Parents(a.dag, v))
            IN  \A k \in DOMAIN ps : model.mechanisms[v].coef[k] = WeightOf(<<ps[k], v>>, a.pattern)
    IN  /\ isTrained(a.model) /\ a.again = a.model
        /\ \A v \in Nodes : a.model.mechanisms[v].intercept = Zero
        /\ \A u \in Nodes : isTrained(a.holed[u])
        /\ \A S \in SUBSET Nodes : a.factual[S] = Observed
        /\ \A x, v \in Nodes :
               a.forced[x][v] = Plus(Observed[v], Times(Less(Whole(5), Observed[x]), effect(x, v)))
        /\ \A p \in DOMAIN a.analysis :
               /\ a.analysis[p].estimate.ate = effect(p[1], p[2])
               /\ Less(a.done[p][1], a.done[p][0]) = effect(p[1], p[2])
               /\ effect(p[1], p[2]) # direct(p[1], p[2]) => a.front[p] # <<>>
               /\ \A m \in DOMAIN a.nde[p] :
                      LET found == a.nde[p][m]
                      IN  /\ IsDefined(found.totalEffect) =>
                                 found.totalEffect = Slope(Column(a.data, p[1]), Column(a.data, p[2]))
                          /\ AncestorsOf(a.dag, {p[2]}) \subseteq {p[1], m, p[2]} /\ p[1] < m /\ m < p[2] =>
                                 /\ found.nde = direct(p[1], p[2])
                                 /\ found.nie = Times(direct(p[1], m), direct(m, p[2]))
        /\ \A v \in Nodes :
               /\ a.blamed[v][1].name = v /\ IsBelow(Zero, a.blamed[v][1].score)
               /\ \A k \in 2..3 : a.blamed[v][k].score = Zero
               /\ LET ps == InOrder(Parents(a.dag, v))
                  IN  SumOf([k \in DOMAIN ps |-> a.arrows[<<ps[k], v>>]]) \in {Zero, Unity}
        /\ a.moved.changed
        /\ \A k \in 1..(N - 1) :
               LET size(i) == Size(effect(0, a.bridge[i].name))
               IN  /\ ~IsBelow(size(k), size(k + 1))
                   /\ size(k) = size(k + 1) => a.bridge[k].name < a.bridge[k + 1].name

-----------------------------------------------------------------------------
(* Evaluations of one table *)

\* The observations in the order of the table, scored by covariate or by place.
ObservationsOf(data, scoring) ==
    Listed([i \in DOMAIN data |->
        [score |-> IF scoring = "covariate" THEN data[i][1] ELSE Whole((3 * i) % 5),
         treatment |-> data[i][2], outcome |-> data[i][3]]])
Scorings == {"covariate", "place"}
EvaluationOf(data) ==
    LET obs == [s \in Scorings |-> ObservationsOf(data, s)]
    IN  [about |-> "evaluation", data |-> data,
         uplift |-> [s \in Scorings |-> EvaluateUplift(obs[s], TRUE)],
         top    |-> [s \in Scorings |-> [k \in DOMAIN data |-> UpliftAtK(obs[s], Fraction(k, Len(data)))]],
         versus |-> [p \in Scorings \X Scorings |-> CompareUpliftModels(obs[p[1]], obs[p[2]])],
         ipw    |-> EstimateIPW(data, 2, 3, <<1>>),
         crude  |-> EstimateIPW(data, 2, 3, <<>>),
         cate   |-> [x \in Bits |-> EstimateCATE(data, 2, 3, <<1>>, <<x>>)],
         most   |-> ComputeATESensitivity(Whole(2), Len(Arm(data, 2, TRUE)), Len(Arm(data, 2, FALSE)))]
\* The curve of everyone ends at the difference of the means; models compare
\* inversely, and equal to themselves.  Weighting by the inverse propensity
\* gives the standardised difference.  The predictions of estimateCATE differ
\* between strata as the effects do.  No single outcome moves the difference by
\* more than the sensitivity, and some can.
EvaluationAgrees(a) ==
    LET n == Len(a.data)
        both == \A t \in {TRUE, FALSE} : Arm(a.data, 2, t) # <<>>
        changed(i) == {[a.data EXCEPT ![i][3] = y] : y \in {Zero, Whole(2)}}
        moves == {Size(Less(Difference(d), Difference(a.data))) : d \in UNION {changed(i) : i \in 1..n}}
    IN  /\ ~both => \A s \in Scorings : a.uplift[s].auuc = Zero /\ a.top[s][n] = Zero
        /\ both =>
             /\ \A s \in Scorings :
                    LET u == a.uplift[s]
                    IN  /\ u.curve[n].cumulativeUplift = Difference(a.data) /\ u.curve[n].incrementalGain = Zero
                        /\ a.top[s][n] = Difference(a.data)
                        /\ a.versus[<<s, s>>] = IF u.auuc = Zero THEN Zero ELSE Unity
             /\ (\A s \in Scorings : a.uplift[s].auuc # Zero) =>
                    Times(a.versus[<<"covariate", "place">>], a.versus[<<"place", "covariate">>]) = Unity
             /\ a.crude.ate = Difference(a.data)
             /\ \A move \in moves : ~IsBelow(a.most, move)
             /\ a.most \in moves
        /\ Overlaps(a.data) =>
             /\ a.ipw.ate = Standardised(a.data)
             /\ Less(a.cate[Unity], a.cate[Zero]) = Less(InStratum(a.data, Unity), InStratum(a.data, Zero))

\* Causes are named 1, 2, ... in the order of their scores.
FairnessOf(scores, groups) ==
    LET causes(factor) == [i \in DOMAIN scores |-> [name |-> i, score |-> Whole(factor * scores[i])]]
    IN  [about |-> "fairness", scores |-> scores, groups |-> groups, verdict |-> CheckFairness(causes(1), groups),
         scaled |-> CheckFairness(causes(3), groups), reversed |-> CheckFairness(causes(1), Reverse(groups))]
\* The verdict depends neither on the order of the groups nor on the unit of the
\* scores, unless some group has all of them; a group that is named is at the
\* greatest disparity.
FairnessAgrees(a) ==
    LET total(S) == Cardinality({i \in DOMAIN a.scores : i \in S /\ a.scores[i] > 0})
    IN  /\ a.verdict.fair = a.reversed.fair /\ a.verdict.disparity = a.reversed.disparity
        /\ a.verdict.group = 0 => a.verdict.fair
        /\ (\A k \in DOMAIN a.groups : total(DOMAIN a.scores \ a.groups[k]) > 0) => a.scaled = a.verdict
        /\ (\A i \in DOMAIN a.scores : a.scores[i] = a.scores[1]) => a.verdict.fair

FederationOf(nodes, epsilon, draw, least) ==
    LET config(eps) == [epsilon |-> eps, minNodes |-> least]
    IN  [about |-> "federation", nodes |-> nodes, draw |-> draw, least |-> least,
         run |-> FederatedDMLWithDP(nodes, config(epsilon), draw),
         half |-> FederatedDMLWithDP(nodes, config(Over(epsilon, Whole(2))), draw),
         bare |-> FederatedDMLWithDP(nodes, config(epsilon), Zero)]
\* Halving the budget doubles what the noise adds to the result, which stays
\* among the values that the nodes sent.
FederationAgrees(a) ==
    /\ a.run.throws <=> Len(a.nodes) < a.least
    /\ ~a.run.throws =>
           /\ Less(a.half.aggregateValue, a.bare.aggregateValue)
                  = Times(Whole(2), Less(a.run.aggregateValue, a.bare.aggregateValue))
           /\ \E i, j \in DOMAIN a.nodes :
                  /\ ~IsBelow(a.run.aggregateValue, a.run.nodes[i].privatizedValue)
                  /\ ~IsBelow(a.run.nodes[j].privatizedValue, a.run.aggregateValue)

\* R2 for ascending effects with one standard error.
SensitivityOf(n, variance, threshold) ==
    [about |-> "sensitivity", threshold |-> threshold,
     r2 |-> [ate \in -3..3 |-> PartialRSensitivity(Whole(ate), variance, n, Whole(threshold))]]
\* It is a share, is the same for an effect and its opposite, grows with the
\* effect, and is 0 where the effect is below the threshold.
SensitivityAgrees(a) ==
    \A ate \in 0..3 :
        /\ a.r2[ate] = a.r2[-ate] /\ ~IsBelow(a.r2[ate], Zero) /\ IsBelow(a.r2[ate], Unity)
        /\ ate < 3 => ~IsBelow(a.r2[ate + 1], a.r2[ate])
        /\ ate <= a.threshold => a.r2[ate] = Zero

-----------------------------------------------------------------------------
(* Refuters *)

\* Rows <<dose, outcome>>, where the dose is never 0.
RefutersOf(data, draws, orders) ==
    LET scaled(c) == [r \in DOMAIN data |-> <<data[r][1], Times(Whole(c), data[r][2])>>]
    IN  [about |-> "refuters", data |-> data, draws |-> draws,
         placebo   |-> [c \in {1, -2} |-> RefutePlaceboTreatment(scaled(c), 1, 2, draws)],
         subset    |-> [c \in {1, -2} |-> RefuteDataSubset(scaled(c), 1, 2, <<4, 5>>, orders)],
         bootstrap |-> [c \in {1, -2} |-> RefuteBootstrap(scaled(c), 1, 2, draws)],
         interval  |-> [alpha \in {<<1, 20>>, <<1, 1>>} |-> BootstrapATE(data, 1, 2, draws, alpha)],
         estimates |-> [s \in DOMAIN draws |-> AteOf(Along(data, draws[s]), 1, 2)]]
\* The verdicts depend on neither the unit nor the sign of the outcome, as long
\* as the bootstrap interval does not end at 0.  An effect without noise
\* survives every subset and sample.  An interval's ends are estimates, in
\* order, and no more than its share of them lies outside on either side.
RefutersAgree(a) ==
    LET b == a.bootstrap[1]
        n == Len(a.estimates)
        below(v) == Cardinality({s \in 1..n : IsBelow(a.estimates[s], v)})
        above(v) == Cardinality({s \in 1..n : IsBelow(v, a.estimates[s])})
    IN  /\ a.placebo[1].pValue = a.placebo[-2].pValue /\ a.placebo[1].isRobust = a.placebo[-2].isRobust
        /\ a.subset[1].isRobust = a.subset[-2].isRobust
        /\ a.bootstrap[-2].low = Times(Whole(-2), b.high) /\ a.bootstrap[-2].high = Times(Whole(-2), b.low)
        /\ b.low # Zero /\ b.high # Zero => b.isRobust = a.bootstrap[-2].isRobust
        /\ b.pValue = <<1, 100>> => b.isRobust
        /\ \A slope \in {Whole(-1), Zero, Unity, Whole(2)} :
               (\A r \in DOMAIN a.data : a.data[r][2] = Times(slope, a.data[r][1])) =>
                   /\ a.subset[1].isRobust /\ a.subset[1].newEstimate = slope
                   /\ b.low = slope /\ b.high = slope
        /\ \A alpha \in DOMAIN a.interval :
               LET ci == a.interval[alpha]
               IN  /\ ~IsBelow(ci.high, ci.low)
                   /\ 2 * alpha[2] * below(ci.low) <= n * alpha[1]
                   /\ 2 * alpha[2] * above(ci.high) <= n * alpha[1]

\* `changed` of n simulated estimates are far from the original, the others are
\* as the data leave them.
SimulationsOf(n, changed, original) ==
    LET kept(v) == [s \in 1..n |-> IF s <= changed THEN Plus(v, Whole(100)) ELSE v]
    IN  [about |-> "simulations", n |-> n, changed |-> changed,
         dummy  |-> RefuteDummyOutcome(original, kept(Zero)),
         simulated |-> RefuteSimulatedOutcome(kept(Zero))]
\* At 20 simulations an estimator passes the dummy outcome exactly if it found
\* an effect in none; a simulated outcome is judged by all or none of its
\* simulations.
SimulationsAgree(a) ==
    /\ a.n = 20 => (a.dummy.isRobust <=> a.changed = 0)
    /\ a.changed \in {0, a.n} => (a.simulated.isRobust <=> a.changed = 0 \/ a.n = 0)

TasksOf(nTasks, seed, concurrency) ==
    [about |-> "tasks", n |-> nTasks, seed |-> seed,
     parallel |-> ParallelBootstrap(nTasks, seed, concurrency),
     sequential |-> SequentialBootstrap(nTasks, seed),
     used |-> ParallelEstimates(nTasks, seed, concurrency)]
\* However many chunks run at once, the results come in the order and with the
\* seeds of a sequential run, each seed once; but a single task gets the data
\* themselves, and none is one.
TasksAgree(a) ==
    /\ a.n >= 2 => a.parallel = a.sequential /\ Cardinality({a.parallel[k].seed : k \in 1..a.n}) = a.n
    /\ a.n < 2  => a.parallel = <<[resampled |-> FALSE, seed |-> a.seed]>>
    /\ Len(a.used) = a.n

\* Turning one refuter's outcome to robust never makes the verdict worse, and a
\* refuter that throws counts as one that does not find the estimate robust.
VerdictRank(verdict) == CHOOSE k \in 1..3 : <<"sensitive", "inconclusive", "robust">>[k] = verdict
PortalOf(outcomes) ==
    [about |-> "portal", outcomes |-> outcomes, verdict |-> RunAllRefutations(outcomes),
     better |-> [k \in DOMAIN outcomes |-> RunAllRefutations([outcomes EXCEPT ![k] = "robust"])],
     thrown |-> RunAllRefutations([k \in DOMAIN outcomes |-> IF outcomes[k] = "robust" THEN "robust" ELSE "throws"])]
PortalAgrees(a) ==
    /\ \A k \in DOMAIN a.outcomes : VerdictRank(a.better[k]) >= VerdictRank(a.verdict)
    /\ a.thrown = a.verdict

\* What models, evaluations and refuters say about small inputs.
ModelsRight(a) ==
    CASE a.about = "structure"   -> StructureAgrees(a)
      [] a.about = "evaluation"  -> EvaluationAgrees(a)
      [] a.about = "fairness"    -> FairnessAgrees(a)
      [] a.about = "federation"  -> FederationAgrees(a)
      [] a.about = "sensitivity" -> SensitivityAgrees(a)
      [] a.about = "refuters"    -> RefutersAgree(a)
      [] a.about = "simulations" -> SimulationsAgree(a)
      [] a.about = "tasks"       -> TasksAgree(a)
      [] a.about = "portal"      -> PortalAgrees(a)
      [] OTHER -> TRUE

-----------------------------------------------------------------------------
(* Where the code and its documents part.  Each clause below states what the   *)
(* code does in a place where its own comments or types say something else,    *)
(* about the same inputs as the questions above.                               *)

\* ate() of the T-learner is its intercept, the effect at covariate 0, where a
\* comment has the effect at the means.  The S-learner of meta-learners.ts fits
\* normal equations without the squares of its features: without covariates it
\* gives the difference of the means with the wrong sign, times the odds of no
\* treatment.  estimateIV documents intercepts and divides products that are
\* not centred.
EffectsDiverge(data) ==
    LET X == Covariates(data)
        y == Outcomes(data)
        t == Treatments(data)
        control == Len(Arm(data, 2, FALSE))
        treated == Len(Arm(data, 2, TRUE))
        z == Column(data, 1)
    IN  /\ Overlaps(data) => CateTAte(X, y, t) = CateT(X, y, t, <<Zero>>)
        /\ control > 0 /\ treated > 0 =>
               MetaS([i \in DOMAIN data |-> <<>>], y, t, <<>>)
                   = Minus(Times(Difference(data), Fraction(control, treated)))
        /\ Dot(z, t) # Zero => EstimateIV(data, 2, 3, 1, <<>>) = Over(Dot(z, y), Dot(z, t))
\* The policy of a tree is worth what was observed, whatever it decides.
PolicyDiverges(cate, t, y) ==
    LET decisions == [i \in DOMAIN cate |-> IF cate[i] = Unity THEN 1 ELSE 0]
    IN  EvaluatePolicy(decisions, y, t).improvement = Zero
\* A shift of exactly one mechanism is never a distribution change.
StructureDiverges(dag, pattern) ==
    LET model == TrainModel(dag, DataOf(dag, pattern))
        rest  == RowFrom(dag, pattern, NoiseAt(0, 0))
    IN  \A v \in Nodes :
            ~DetectDistributionChange(model, <<rest>>, <<RowFrom(dag, pattern, NoiseAt(v, 3))>>).changed
\* The uplift that is reported at a share is that of the observations up to and
\* with the one after it, times their share.  The regression without covariates
\* has no intercept in its fit and gives the mean of the treated.  The effects
\* that estimateCATE predicts average to the effect at covariate 0.
EvaluationDiverges(data) ==
    LET n == Len(data)
    IN  /\ (\A t \in {TRUE, FALSE} : Arm(data, 2, t) # <<>>) =>
               /\ LinearRegression(data, 2, 3, <<>>).ate = Average(Column(Arm(data, 2, TRUE), 3))
               /\ \A s \in Scorings :
                      LET obs == ObservationsOf(data, s)
                          at  == EvaluateUplift(obs, TRUE).at
                      IN  \A tenths \in {1, 2, 5} :
                              LET k   == (n * tenths) \div 10 + 1
                                  top == UpliftAtK(obs, Fraction(k, n))
                              IN  top # Zero => at[tenths] = Times(Fraction(k, n), top)
        /\ Overlaps(data) =>
               LET cate == [x \in Bits |-> EstimateCATE(data, 2, 3, <<1>>, <<x>>)]
               IN  /\ BaselineATE(data, 2, 3, <<1>>) = InStratum(data, Zero)
                   /\ Average([i \in 1..n |-> cate[data[i][1]]]) = InStratum(data, Zero)
\* With a seed all nodes draw alike: nodes of the same sensitivity add the same
\* noise, which does not average out.  The result is off by all of it, and its
\* standard error does not see it.
FederationDiverges(nodes, epsilon, draw) ==
    LET run(d)   == FederatedDMLWithDP(nodes, [epsilon |-> epsilon, minNodes |-> Len(nodes)], d)
        noise(k) == run(draw).nodes[k].noiseAdded
    IN  (\A k \in DOMAIN nodes : noise(k) = noise(1)) =>
            /\ Less(run(draw).aggregateValue, run(Zero).aggregateValue) = noise(1)
            /\ run(draw).variance = run(Zero).variance
\* An effect whose bootstrap interval begins at 0 is called sensitive, and the
\* same effect in a unit of the other sign, whose interval ends there, robust.
\* With 20 placebos that are one scrambled treatment, an effect that disappears
\* is not robust, and one that it leaves as large is.
RefutersDiverge(data, draws) ==
    LET flipped == [r \in DOMAIN data |-> <<data[r][1], Minus(data[r][2])>>]
        b == RefuteBootstrap(data, 1, 2, draws)
        placebo == [r \in DOMAIN data |-> <<data[draws[1][r]][1], data[r][2]>>]
        stays == ~IsBelow(Size(AteOf(placebo, 1, 2)), Size(AteOf(data, 1, 2)))
    IN  /\ b.low = Zero /\ b.high # Zero =>
               ~b.isRobust /\ RefuteBootstrap(flipped, 1, 2, draws).isRobust
        /\ RefutePlaceboTreatment(data, 1, 2, [s \in 1..20 |-> draws[1]]).isRobust <=> stays
\* Below 19 simulations a common cause never refutes an effect, and at 20 it
\* refutes exactly those that it never changed.  Below 20 a dummy outcome always
\* finds the estimator at fault.
SimulationsDiverge(n, changed, original) ==
    LET kept(v) == [s \in 1..n |-> IF s <= changed THEN Plus(v, Whole(100)) ELSE v]
        common == RefuteCommonCause(original, kept(original)).isRobust
        dummy  == RefuteDummyOutcome(original, kept(Zero)).isRobust
    IN  /\ n < 19 => common
        /\ n = 20 => (common <=> changed > 0)
        /\ n < 20 => ~dummy
===============================================================================
