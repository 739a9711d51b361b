------------------------------ MODULE Estimators ------------------------------
(* The estimators of treatment effects, over exact fractions: regression        *)
(* adjustment, front door, instruments, matching, doubly robust scores,         *)
(* meta-learners and double machine learning.  A row is a sequence of columns;  *)
(* standard errors are kept as variances where they are fractions.              *)
EXTENDS LinearAlgebra

IsTreated(v) == IsBelow(<<1, 2>>, v)
Arm(data, t, treated) == SelectSeq(data, LAMBDA row : IsTreated(row[t]) = treated)
Picked(data, cols) == Listed([r \in DOMAIN data |-> Listed([k \in DOMAIN cols |-> data[r][cols[k]]])])
AverageOrZero(seq) == IF seq = <<>> THEN Zero ELSE Average(seq)
Clipped(v, low, high) == Greater(low, Lesser(high, v))
\* Regressions that scale the pivot row and skip a column without a pivot
\* leave numbers, whichever they are, where solveLinear leaves NaN.
JordanSolve(A, b) == Column(FoldLeft(JordanStep, Augmented(A, b), Upto(Len(A))), Len(A) + 1)

-----------------------------------------------------------------------------
(* effect-estimation.ts *)

PooledVar(data, y, t, treated) ==
    LET ys == Column(Arm(data, t, treated), y)
        off == [i \in DOMAIN ys |-> Less(ys[i], Average(ys))]
    IN  IF Len(ys) < 2 THEN Zero ELSE Over(Dot(off, off), Whole(Len(ys) - 1))
\* Without adjustors the means are compared; with them the regression goes
\* through the origin, and the intercept is only made up for the residuals.
AdjustBackdoor(data, t, y, adjustors) ==
    LET ofArm(treated) == Column(Arm(data, t, treated), y)
        share(treated) == IF ofArm(treated) = <<>> THEN Zero
                          ELSE Over(PooledVar(data, y, t, treated), Whole(Len(ofArm(treated))))
        X    == Picked(data, <<t>> \o adjustors)
        n    == Len(data)
        coef == SolveOLS(X, Column(data, y))
        intercept == Less(Average(Column(data, y)), Dot(coef, [i \in DOMAIN coef |-> Average(Column(X, i))]))
        off  == [r \in DOMAIN data |-> Less(data[r][y], Plus(intercept, Dot(coef, X[r])))]
    IN  IF adjustors = <<>>
        THEN [ate |-> Less(AverageOrZero(ofArm(TRUE)), AverageOrZero(ofArm(FALSE))),
              variance |-> Plus(share(TRUE), share(FALSE))]
        ELSE [ate |-> coef[1],
              variance |-> Over(Dot(off, off), Whole(Max({1, n - Len(coef)}) * n))]

\* The slope of v on u; that of the outcome on the mediator does not control
\* for the treatment.
Slope(u, v) ==
    LET n == Whole(Len(u))
        spread == Less(Times(n, Dot(u, u)), Times(SumOf(u), SumOf(u)))
    IN  IF spread = Zero THEN Zero
        ELSE Over(Less(Times(n, Dot(u, v)), Times(SumOf(u), SumOf(v))), spread)
EstimateFrontdoor(data, t, y, mediators) ==
    SumOf([k \in DOMAIN mediators |->
              LET m == Column(data, mediators[k])
              IN  Times(Slope(Column(data, t), m), Slope(m, Column(data, y)))])

\* Neither stage has an intercept.
Instrumented(data, t, iv, covariates) ==
    LET X     == Picked(data, <<iv>> \o covariates)
        gamma == SolveOLS(X, Column(data, t))
    IN  [r \in DOMAIN data |-> Dot(gamma, X[r])]
EstimateIV(data, t, y, iv, covariates) ==
    LET fitted == Instrumented(data, t, iv, covariates)
        X == [r \in DOMAIN data |-> <<fitted[r]>> \o Picked(data, covariates)[r]]
    IN  SolveOLS(X, Column(data, y))[1]

\* With one binary covariate the logistic model is saturated and its fit is the
\* frequency; a covariate that is constant makes the weighted normal equations
\* singular.
EstimatePropensityScore(data, t, covariates) ==
    LET frequency(rows) == Over(Whole(Len(Arm(rows, t, TRUE))), Whole(Len(rows)))
        constant == \A r \in DOMAIN data : Picked(data, covariates)[r] = Picked(data, covariates)[1]
        alike(r) == SelectSeq(data, LAMBDA row : \A k \in DOMAIN covariates :
                                                    row[covariates[k]] = data[r][covariates[k]])
    IN  IF covariates = <<>> THEN [r \in DOMAIN data |-> frequency(data)]
        ELSE [r \in DOMAIN data |-> IF constant THEN Undefined ELSE frequency(alike(r))]

\* The first of the nearest controls; none is nearer than infinity when scores
\* are not numbers, and the outcome is 0 then.
NearestOutcome(data, y, scores, controls, r) ==
    LET distance(c) == Size(Less(scores[r], scores[c]))
        near == {c \in controls : IsDefined(distance(c))}
    IN  IF near = {} THEN Zero
        ELSE data[CHOOSE c \in near :
                      \A d \in near : /\ ~IsBelow(distance(d), distance(c))
                                      /\ d < c => IsBelow(distance(c), distance(d))][y]
\* The bootstrap draws from the controls, and throws when there is none.
EstimatePSMatching(data, t, y, covariates) ==
    LET scores   == EstimatePropensityScore(data, t, covariates)
        treated  == {r \in DOMAIN data : IsTreated(data[r][t])}
        controls == DOMAIN data \ treated
        gains == [i \in 1..Cardinality(treated) |->
                     LET r == SetToSortSeq(treated, <)[i]
                     IN  Less(data[r][y], NearestOutcome(data, y, scores, controls, r))]
    IN  [throws |-> treated # {} /\ controls = {}, ate |-> AverageOrZero(gains)]

\* fitOLS of effect-estimation.ts: no intercept, zeros for too few rows.
FitThroughOrigin(rows, y, covariates) ==
    IF Len(rows) < Len(covariates) + 1 THEN [k \in DOMAIN covariates |-> Zero]
    ELSE SolveOLS(Picked(rows, covariates), Column(rows, y))
DRScore(isTreated, y, m1, m0, propensity) ==
    Plus(Less(m1, m0),
         IF isTreated THEN Over(Less(y, m1), propensity)
         ELSE Minus(Over(Less(y, m0), Less(Unity, propensity))))
Floor05 == <<1, 20>>
Ceil95  == <<19, 20>>
EstimateDoublyRobust(data, t, y, covariates) ==
    LET scores == EstimatePropensityScore(data, t, covariates)
        Z == Picked(data, covariates)
        fit(rows) == IF Len(rows) < 2 THEN [k \in DOMAIN covariates |-> Zero]
                     ELSE FitThroughOrigin(rows, y, covariates)
        beta1 == fit(Arm(data, t, TRUE))
        beta0 == fit(Arm(data, t, FALSE))
        pi(r) == IF IsDefined(scores[r]) THEN Clipped(scores[r], Floor05, Ceil95) ELSE Undefined
    IN  Average([r \in DOMAIN data |->
                    DRScore(IsTreated(data[r][t]), data[r][y], Dot(beta1, Z[r]), Dot(beta0, Z[r]), pi(r))])

-----------------------------------------------------------------------------
(* meta-learners.ts and dr-estimators.ts, with at most one regressor.  The sums *)
(* of products of regressors are never added up: but for its first row and      *)
(* column the matrix holds only a ridge, here 0.                                *)

ArrowFit(X, y) ==
    LET p == IF X = <<>> THEN 0 ELSE Len(X[1])
        A == [a \in 1..(p + 1) |-> [b \in 1..(p + 1) |->
                 IF a = 1 /\ b = 1 THEN Whole(Len(X))
                 ELSE IF a = 1 THEN SumOf(Column(X, b - 1))
                 ELSE IF b = 1 THEN SumOf(Column(X, a - 1)) ELSE Zero]]
    IN  JordanSolve(A, [a \in 1..(p + 1) |-> IF a = 1 THEN SumOf(y) ELSE Dot(Column(X, a - 1), y)])
PredictLinear(beta, x) ==
    Plus(beta[1], SumOf([j \in DOMAIN x |-> IF j < Len(beta) THEN Times(beta[j + 1], x[j]) ELSE Zero]))
MetaS(X, y, t, x) ==
    LET beta == ArrowFit([i \in DOMAIN X |-> Append(X[i], t[i])], y)
    IN  Less(PredictLinear(beta, Append(x, Unity)), PredictLinear(beta, Append(x, Zero)))
Indices(t, treated) == SelectSeq(Upto(Len(t)), LAMBDA i : IsTreated(t[i]) = treated)
Along(seq, indices) == Listed([k \in DOMAIN indices |-> seq[indices[k]]])
MetaModel(X, y, t, treated) ==
    ArrowFit(Along(X, Indices(t, treated)), Along(y, Indices(t, treated)))
MetaT(X, y, t, x) ==
    Less(PredictLinear(MetaModel(X, y, t, TRUE), x), PredictLinear(MetaModel(X, y, t, FALSE), x))
\* Each arm is imputed with the other's model; the mean propensity mixes the two.
MetaX(X, y, t, x, propensity) ==
    LET model1 == MetaModel(X, y, t, TRUE)
        model0 == MetaModel(X, y, t, FALSE)
        imputed == [i \in DOMAIN X |-> IF IsTreated(t[i]) THEN Less(y[i], PredictLinear(model0, X[i]))
                                       ELSE Less(PredictLinear(model1, X[i]), y[i])]
        g(treated) == PredictLinear(MetaModel(X, imputed, t, treated), x)
    IN  Plus(Times(Less(Unity, propensity), g(TRUE)), Times(propensity, g(FALSE)))
\* The scores of the linear learner for the propensities its logistic fit gave.
LinearDR(X, y, t, propensities) ==
    LET model1 == MetaModel(X, y, t, TRUE)
        model0 == MetaModel(X, y, t, FALSE)
    IN  Average([i \in DOMAIN X |->
                    DRScore(IsTreated(t[i]), y[i], PredictLinear(model1, X[i]), PredictLinear(model0, X[i]),
                            Clipped(propensities[i], Floor05, Ceil95))])

-----------------------------------------------------------------------------
(* cate-meta-learners.ts *)

WithIntercept(X) == Listed([i \in DOMAIN X |-> Append(X[i], Unity)])
CateOLS(X, y) == JordanSolve(NormalMatrix(X), NormalVector(X, y))
CateSBeta(X, y, t) == CateOLS(WithIntercept([i \in DOMAIN X |-> Append(X[i], t[i])]), y)
CateS(X, y, t) == CateSBeta(X, y, t)[Len(X[1]) + 1]
CateModel(X, y, indices) ==
    IF Len(indices) < 2 THEN [j \in 1..(Len(X[1]) + 1) |-> Zero]
    ELSE CateOLS(Along(WithIntercept(X), indices), Along(y, indices))
CateT(X, y, t, x) ==
    Less(Dot(CateModel(X, y, Indices(t, TRUE)), Append(x, Unity)),
         Dot(CateModel(X, y, Indices(t, FALSE)), Append(x, Unity)))
\* Mutant: the first coefficients, which are those of a covariate.
CateTAteFirst(X, y, t) ==
    Less(Head(CateModel(X, y, Indices(t, TRUE))), Head(CateModel(X, y, Indices(t, FALSE))))
\* ate() is the difference of the intercepts, wherever the covariates lie.
CateTAte(X, y, t) ==
    Less(Last(CateModel(X, y, Indices(t, TRUE))), Last(CateModel(X, y, Indices(t, FALSE))))
CateX(X, y, t, x) ==
    LET beta1 == CateModel(X, y, Indices(t, TRUE))
        beta0 == CateModel(X, y, Indices(t, FALSE))
        imputed == [i \in DOMAIN X |-> IF IsTreated(t[i]) THEN Less(y[i], Dot(beta0, Append(X[i], Unity)))
                                       ELSE Less(Dot(beta1, Append(X[i], Unity)), y[i])]
        tau(treated) == Dot(CateModel(X, imputed, Indices(t, treated)), Append(x, Unity))
        p == Over(Whole(Len(Indices(t, TRUE))), Whole(Len(t)))
    IN  Plus(Times(p, tau(FALSE)), Times(Less(Unity, p), tau(TRUE)))
ResidualsOf(X, y) ==
    LET beta == CateOLS(X, y)
    IN  Listed([i \in DOMAIN X |-> Less(y[i], Dot(beta, X[i]))])
\* Residual on residual: <<>> when the treatment is explained by the covariates.
ThetaOf(num, den) == IF den = Zero THEN <<>> ELSE <<Over(num, den)>>
CateR(X, y, t) ==
    LET design == WithIntercept(X)
        ty == ResidualsOf(design, y)
        tt == ResidualsOf(design, t)
        theta == ThetaOf(Dot(tt, ty), Dot(tt, tt))
    IN  IF theta = <<>> THEN Zero ELSE theta[1]

-----------------------------------------------------------------------------
(* double-ml.ts and dml-estimators.ts *)

\* Too few rows for the columns give zero coefficients.
DmlOLS(X, y) == IF Len(X) < Len(X[1]) + 1 THEN [j \in DOMAIN X[1] |-> Zero] ELSE CateOLS(X, y)
\* The rows in a shuffled order are dealt to the folds in turn.
KFoldIndices(shuffled, k) ==
    [f \in 1..k |-> SelectSeq(shuffled, LAMBDA i :
                        \E p \in DOMAIN shuffled : shuffled[p] = i /\ (p - 1) % k = f - 1)]
FoldResiduals(design, v, train, test) ==
    LET beta == DmlOLS(Along(design, train), Along(v, train))
    IN  Listed([k \in DOMAIN test |-> Less(v[test[k]], Dot(beta, design[test[k]]))])
\* One estimate per fold; the instrument of DoubleMLPLR is the treatment.
FoldTheta(X, z, d, y, train, test) ==
    LET design == WithIntercept(X)
        rz == FoldResiduals(design, z, train, test)
        ry == FoldResiduals(design, y, train, test)
        rd == FoldResiduals(design, d, train, test)
    IN  ThetaOf(Dot(rz, ry), Dot(rz, rd))
DoubleML(X, z, d, y, shuffled, nFolds) ==
    LET n     == Len(X)
        all   == Upto(n)
        folds == Listed(KFoldIndices(shuffled, nFolds))
        others(f) == FlattenSeq([g \in 1..nFolds |-> IF g = f THEN <<>> ELSE folds[g]])
        one(f) == IF Len(folds[f]) < 2 \/ Len(others(f)) < Len(X[1]) + 1 THEN <<>>
                  ELSE FoldTheta(X, z, d, y, others(f), folds[f])
        thetas == FlattenSeq([f \in 1..nFolds |-> one(f)])
        single == FoldTheta(X, z, d, y, all, all)
        spread == [f \in DOMAIN thetas |-> Less(thetas[f], Average(thetas))]
    IN  IF n < nFolds * 3
        THEN [theta |-> IF single = <<>> THEN Zero ELSE single[1], variance |-> Over(Unity, Whole(Max({1, n})))]
        ELSE IF thetas = <<>> THEN [theta |-> Zero, variance |-> Zero]
        ELSE [theta |-> Average(thetas),
              variance |-> IF Len(thetas) = 1 THEN Zero
                           ELSE Over(Dot(spread, spread), Whole((Len(thetas) - 1) * Len(thetas)))]
DoubleMLPLR(X, d, y, shuffled, nFolds) == DoubleML(X, d, d, y, shuffled, nFolds)
\* doubleMLCATE predicts the same effect everywhere, so that no one is above
\* the median and the test of heterogeneity ends at once; the kernel of
\* NonParamDML averages copies of one number.
TestHeterogeneity(cates) ==
    LET sorted == SortSeq(cates, IsBelow)
        median == sorted[(Len(cates) \div 2) + 1]
        high   == SelectSeq(cates, LAMBDA c : IsBelow(median, c))
        low    == SelectSeq(cates, LAMBDA c : ~IsBelow(median, c))
        off(s) == [i \in DOMAIN s |-> Less(s[i], Average(s))]
        spread == Plus(Over(Dot(off(high), off(high)), Whole(Len(high) * Len(high))),
                       Over(Dot(off(low), off(low)), Whole(Len(low) * Len(low))))
        gap    == Less(Average(high), Average(low))
    IN  IF Len(high) < 3 \/ Len(low) < 3 \/ spread = Zero THEN [significant |-> FALSE, squared |-> Zero]
        ELSE [significant |-> IsBelow(Times(<<2401, 625>>, spread), Times(gap, gap)),
              squared |-> Over(Times(gap, gap), spread)]
KernelEffect(scores, weights, baseline) ==
    IF SumOf(weights) = Zero THEN baseline ELSE Over(Dot(weights, scores), SumOf(weights))
===============================================================================
