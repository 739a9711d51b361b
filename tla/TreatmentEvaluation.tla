-------------------------- MODULE TreatmentEvaluation --------------------------
(* Who to treat, and how far an estimate can be trusted: uplift curves          *)
(* (infer/uplift.ts), conditional effects, weighting and fairness               *)
(* (cate-fairness.ts), mediation (mediation.ts), partial R2 (sensitivity.ts)    *)
(* and aggregation over nodes that add noise (federated-dp.ts).                 *)
EXTENDS Estimators

-----------------------------------------------------------------------------
(* uplift.ts: an observation is [score, treatment, outcome] *)

\* By descending score; equal scores stay in the order of the observations.
ByScore(observations) ==
    LET before(i, j) == \/ IsBelow(observations[j].score, observations[i].score)
                        \/ observations[i].score = observations[j].score /\ i < j
    IN  Along(observations, SetToSortSeq(DOMAIN observations, before))
OutcomesOf(observations, treated) ==
    LET inArm == SelectSeq(observations, LAMBDA o : IsTreated(o.treatment) = treated)
    IN  [i \in DOMAIN inArm |-> inArm[i].outcome]
MeanGap(observations) ==
    Less(AverageOrZero(OutcomesOf(observations, TRUE)), AverageOrZero(OutcomesOf(observations, FALSE)))
HasBothArms(observations) == \A treated \in {TRUE, FALSE} : OutcomesOf(observations, treated) # <<>>

UpliftCurve(sorted) ==
    Listed([k \in DOMAIN sorted |->
        LET share  == Fraction(k, Len(sorted))
            uplift == Times(MeanGap(SubSeq(sorted, 1, k)), share)
        IN  [proportion |-> share, cumulativeUplift |-> uplift,
             incrementalGain |-> Less(uplift, Times(MeanGap(sorted), share))]])
NoUplift == [auuc |-> Zero, qini |-> Zero, at |-> [tenths \in {1, 2, 5} |-> Zero], curve |-> <<>>]
\* Areas are sums of trapezoids for the model, of rectangles for chance; the
\* first observation adds to neither.  Index n * tenths / 10 from 0 is the
\* place after the observations asked for.
EvaluateUplift(observations, normalize) ==
    LET sorted == ByScore(observations)
        n      == Len(sorted)
        curve  == UpliftCurve(sorted)
        ate    == MeanGap(sorted)
        area   == SumOf([k \in 1..(n - 1) |->
                      Over(Plus(curve[k].cumulativeUplift, curve[k + 1].cumulativeUplift), Whole(2 * n))])
        chance == SumOf([k \in 1..(n - 1) |-> Over(Times(ate, curve[k + 1].proportion), Whole(n))])
        share  == Fraction(Len(OutcomesOf(sorted, TRUE)), n)
        ideal  == Times(Times(ate, share), Less(Unity, Over(share, Whole(2))))
    IN  IF ~HasBothArms(observations) THEN NoUplift
        ELSE [auuc  |-> IF normalize /\ chance # Zero THEN Over(area, chance) ELSE area,
              qini  |-> IF ideal = Zero THEN Zero ELSE Over(Less(area, chance), Less(ideal, chance)),
              at    |-> [tenths \in {1, 2, 5} |->
                            curve[Min({n, (n * tenths) \div 10 + 1})].cumulativeUplift],
              curve |-> curve]
\* k is a fraction of the observations; at least one is looked at.
UpliftAtK(observations, k) ==
    LET cutoff == Max({1, (Len(observations) * k[1]) \div k[2]})
        top    == SubSeq(ByScore(observations), 1, Min({cutoff, Len(observations)}))
    IN  IF HasBothArms(top) THEN MeanGap(top) ELSE Zero
\* Undefined stands for Infinity.
CompareUpliftModels(first, second) ==
    LET a == EvaluateUplift(first, TRUE).auuc
        b == EvaluateUplift(second, TRUE).auuc
    IN  IF b = Zero THEN (IF IsBelow(Zero, a) THEN Undefined ELSE Zero) ELSE Over(a, b)

-----------------------------------------------------------------------------
(* cate-fairness.ts *)

\* With one binary covariate the logistic regression is saturated: where it
\* converges, the probability of a row is the frequency among rows like it,
\* and where the treatment is certain it diverges to what the clamps make of
\* it.  A constant covariate makes the normal equations singular.
PropensityScores(data, t, covariates) ==
    LET scores == EstimatePropensityScore(data, t, covariates)
    IN  [r \in DOMAIN data |-> IF IsDefined(scores[r]) THEN Clipped(scores[r], Floor05, Ceil95) ELSE Undefined]
\* Y ~ 1 + T + X + TX with the features as they are.
InteractionFit(data, t, y, features) ==
    LET design(row) == <<Unity, row[t]>> \o [k \in DOMAIN features |-> row[features[k]]]
                           \o [k \in DOMAIN features |-> Times(row[t], row[features[k]])]
    IN  SolveOLS(Listed([r \in DOMAIN data |-> design(data[r])]), Column(data, y))
\* The prediction subtracts means that the fit did not subtract.
EstimateCATE(data, t, y, features, x) ==
    LET coef == InteractionFit(data, t, y, features)
        p    == Len(features)
        away == [k \in DOMAIN features |-> Less(x[k], Average(Column(data, features[k])))]
    IN  Plus(coef[2], Dot(SubSeq(coef, 3 + p, 2 + 2 * p), away))
BaselineATE(data, t, y, features) == InteractionFit(data, t, y, features)[2]
WeightedOutcome(isTreated, y, p) == IF isTreated THEN Over(y, p) ELSE Minus(Over(y, Less(Unity, p)))
EstimateIPW(data, t, y, covariates) ==
    LET pi  == PropensityScores(data, t, covariates)
        psi == Listed([r \in DOMAIN data |-> WeightedOutcome(IsTreated(data[r][t]), data[r][y], pi[r])])
        ate == Average(psi)
        off == [r \in DOMAIN data |-> Less(psi[r], ate)]
    IN  [ate |-> ate, variance |-> Over(Dot(off, off), Whole(Len(data) * Len(data)))]

\* A cause is [name, score]; the groups, sets of names, come in an order.  The
\* mean of a group leaves out members without a score above 0, that of the
\* others does not.
Disparity(causes, group) ==
    LET within  == SelectSeq(causes, LAMBDA c : c.name \in group /\ IsBelow(Zero, c.score))
        outside == SelectSeq(causes, LAMBDA c : c.name \notin group)
        mean(cs) == Average([i \in DOMAIN cs |-> cs[i].score])
    IN  IF within = <<>> \/ outside = <<>> THEN Zero
        ELSE Over(Size(Less(mean(within), mean(outside))), Greater(<<1, 100>>, mean(outside)))
CheckFairness(causes, groups) ==
    LET worst[k \in 0..Len(groups)] ==
            IF k = 0 THEN [group |-> 0, disparity |-> Zero]
            ELSE LET d == Disparity(causes, groups[k])
                 IN  IF IsBelow(worst[k - 1].disparity, d) THEN [group |-> k, disparity |-> d] ELSE worst[k - 1]
        found == worst[Len(groups)]
    IN  [fair |-> IsBelow(found.disparity, <<1, 5>>), disparity |-> found.disparity, group |-> found.group]

-----------------------------------------------------------------------------
(* mediation.ts and sensitivity.ts *)

\* Baron and Kenny, but the third regression has no intercept.
NaturalDirectEffect(data, t, y, mediator) ==
    LET coefs == SolveOLS(Picked(data, <<t, mediator>>), Column(data, y))
        nie   == Times(Slope(Column(data, t), Column(data, mediator)), coefs[2])
        total == Plus(coefs[1], nie)
    IN  IF Len(data) < 3 THEN [nde |-> Zero, nie |-> Zero, totalEffect |-> Zero, proportion |-> Zero]
        ELSE [nde |-> coefs[1], nie |-> nie, totalEffect |-> total,
              proportion |-> IF total = Zero \/ ~IsDefined(total) THEN Zero ELSE Over(nie, total)]

\* The standard error is given as its square, above 0; the R2 is the same for the
\* treatment and for the outcome.
PartialRSensitivity(ate, variance, n, threshold) ==
    LET squared   == Over(Times(ate, ate), variance)
        observed  == Over(squared, Plus(squared, Whole(n - 2)))
        reduction == Greater(Zero, Less(Size(ate), Size(threshold)))
    IN  IF n < 3 \/ ate = Zero THEN Zero ELSE Times(Over(reduction, Size(ate)), observed)

-----------------------------------------------------------------------------
(* federated-dp.ts: a node is [localATE, nTreated, nControl, outcomeMax] *)

ComputeATESensitivity(yMax, nTreated, nControl) ==
    LET least == Min({nTreated, nControl})
    IN  IF least > 0 THEN Over(yMax, Whole(least)) ELSE yMax
\* Where the configuration has a seed, the generator starts from it for every
\* node, so that `draw`, what it and the mechanism make of a scale of 1, is the
\* same.
Privatized(node, epsilon, draw) ==
    LET scale == Over(ComputeATESensitivity(node.outcomeMax, node.nTreated, node.nControl), epsilon)
    IN  [rawValue |-> node.localATE, noiseAdded |-> Times(scale, draw),
         privatizedValue |-> Plus(node.localATE, Times(scale, draw)),
         sampleCount |-> node.nTreated + node.nControl]
SecureAggregate(values, weights) ==
    LET total == SumOf(weights)
    IN  IF IsBelow(Zero, total) THEN Over(Dot(weights, values), total) ELSE Zero
\* The weights are sample counts; the square of the standard error is kept.
FederatedDMLWithDP(nodes, config, draw) ==
    LET results == Listed([k \in DOMAIN nodes |-> Privatized(nodes[k], config.epsilon, draw)])
        values  == [k \in DOMAIN nodes |-> results[k].privatizedValue]
        weights == [k \in DOMAIN nodes |-> Whole(results[k].sampleCount)]
        mean    == SecureAggregate(values, weights)
        off     == [k \in DOMAIN nodes |-> Times(weights[k], Times(Less(values[k], mean), Less(values[k], mean)))]
    IN  IF Len(nodes) < config.minNodes THEN [throws |-> TRUE]
        ELSE [throws |-> FALSE, nodes |-> results, aggregateValue |-> mean,
              variance |-> IF SumOf(weights) = Zero THEN Zero
                           ELSE Over(SumOf(off), Times(SumOf(weights), Whole(Len(nodes)))),
              effectiveEpsilon |-> config.epsilon, totalSamples |-> SumOf(weights)]
===============================================================================
