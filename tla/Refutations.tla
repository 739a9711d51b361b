------------------------------ MODULE Refutations ------------------------------
(* The five steps of CausalAnalysis (infer/causal-inference.ts), the refuters   *)
(* of refutation-extensions.ts, refutation-advanced.ts and refutation-          *)
(* portal.ts, and bootstrap-ci.ts.  What a generator draws is a parameter:      *)
(* rows by their numbers, or the estimates a caller's estimator makes of data   *)
(* that a refuter simulated.  Standard errors are kept as their squares.        *)
EXTENDS Identification, Estimators

-----------------------------------------------------------------------------
(* Estimates and refuters of causal-inference.ts *)

\* The treatment is the last regressor; there is no intercept in the fit.
LinearRegression(data, t, y, covariates) ==
    LET cols == covariates \o <<t>>
        X    == Picked(data, cols)
        coef == SolveOLS(X, Column(data, y))
        intercept == Less(Average(Column(data, y)), Dot(coef, [i \in DOMAIN cols |-> Average(Column(X, i))]))
        off  == [r \in DOMAIN data |-> Less(data[r][y], Plus(intercept, Dot(coef, X[r])))]
    IN  [ate |-> Last(coef), intercept |-> intercept,
         variance |-> Over(Dot(off, off), Whole(Max({1, Len(data) - Len(cols)})))]
AteOf(data, t, y) == LinearRegression(data, t, y, <<>>).ate
EmpiricalP(extreme, n) == Fraction(extreme + 1, n + 1)
Level05 == <<1, 20>>
Tally(seq, holds) == Cardinality({i \in DOMAIN seq : holds[i]})

\* draw[s][r] is the row whose treatment row r gets in simulation s.
RefutePlaceboTreatment(data, t, y, draws) ==
    LET original == AteOf(data, t, y)
        scrambled(draw) == Listed([r \in DOMAIN data |-> [data[r] EXCEPT ![t] = data[draw[r]][t]]])
        nulls == Listed([s \in DOMAIN draws |-> AteOf(scrambled(draws[s]), t, y)])
        p == EmpiricalP(Tally(nulls, [s \in DOMAIN nulls |->
                 IsDefined(nulls[s]) /\ IsDefined(original) /\ ~IsBelow(Size(nulls[s]), Size(original))]),
                 Len(nulls))
    IN  [newEstimate |-> Average(nulls), pValue |-> p, isRobust |-> IsBelow(Level05, p)]
\* draw[s] are the rows in a shuffled order; z is compared at 1.96.
RefuteDataSubset(data, t, y, share, draws) ==
    LET full == AteOf(data, t, y)
        size == (Len(data) * share[1]) \div share[2]
        estimates == Listed([s \in DOMAIN draws |-> AteOf(Along(data, SubSeq(draws[s], 1, size)), t, y)])
        mean == Average(estimates)
        off  == [s \in DOMAIN estimates |-> Less(estimates[s], mean)]
        se2  == Over(Dot(off, off), Whole(Len(estimates) * Len(estimates)))
        gap  == Less(full, mean)
    IN  [newEstimate |-> mean,
         isRobust |-> gap = Zero \/ IsBelow(Times(gap, gap), Times(<<2401, 625>>, se2))]
\* The 2.5 and 97.5 per cent places of the sorted estimates, and 0 for a place
\* that is not there.
RefuteBootstrap(data, t, y, draws) ==
    LET estimates == SortSeq([s \in DOMAIN draws |-> AteOf(Along(data, draws[s]), t, y)], IsBelow)
        n == Len(estimates)
        place(thousandths) == IF n = 0 THEN Zero ELSE estimates[(n * thousandths) \div 1000 + 1]
        low  == place(25)
        high == place(975)
        atMostZero(v) == IsDefined(v) /\ ~IsBelow(Zero, v)
    IN  [newEstimate |-> Over(Plus(low, high), Whole(2)), low |-> low, high |-> high,
         pValue   |-> IF IsBelow(Zero, Times(low, high)) THEN <<1, 100>> ELSE <<1, 2>>,
         isRobust |-> atMostZero(low) = atMostZero(high)]

-----------------------------------------------------------------------------
(* CausalAnalysis.  The columns of the data are the nodes; <<>> is null. *)

IdentifyBackdoor(dag, x, y) == [backdoor |-> AdjustmentSet(dag, x, y, "minimal", [v \in Nodes |-> 0]), frontdoor |-> {}]
IdentifyFrontdoor(dag, x, y) ==
    IF Mediators(dag, x, y) = {} THEN <<>> ELSE [backdoor |-> {}, frontdoor |-> Mediators(dag, x, y)]
EstimateByAdjustment(data, x, y, estimand) ==
    LET fit == LinearRegression(data, x, y, InOrder(estimand.backdoor))
    IN  [ate |-> fit.ate, variance |-> fit.variance]
\* Untreated rows are those at or below a half.
DoTreatment(dag, data, x, y, value) ==
    LET fit == EstimateByAdjustment(data, x, y, IdentifyBackdoor(dag, x, y))
    IN  Plus(AverageOrZero(Column(Arm(data, x, FALSE), y)), Times(fit.ate, value))
AnalyzeEffect(dag, data, x, y, draws, shuffles, samples) ==
    LET estimand == IdentifyBackdoor(dag, x, y)
    IN  [estimand |-> estimand, estimate |-> EstimateByAdjustment(data, x, y, estimand),
         refutations |-> <<RefutePlaceboTreatment(data, x, y, draws).isRobust,
                           RefuteDataSubset(data, x, y, <<4, 5>>, shuffles).isRobust,
                           RefuteBootstrap(data, x, y, samples).isRobust>>]

-----------------------------------------------------------------------------
(* Refuters that call the caller's estimator; `simulated` are its estimates *)

Differs(original, v) == IsBelow(Over(Size(original), Whole(10)), Size(Less(v, original)))
\* refuteRandomCommonCause and refuteAddUnobservedCommonCause, which differ in
\* the column that they add.
RefuteCommonCause(original, simulated) ==
    LET p == EmpiricalP(Tally(simulated, [s \in DOMAIN simulated |-> Differs(original, simulated[s])]),
                        Len(simulated))
    IN  [newEstimate |-> Average(simulated), pValue |-> p, isRobust |-> IsBelow(Level05, p)]
Millionth == Fraction(1, 1000000)
RefuteDummyOutcome(original, simulated) ==
    LET least == Greater(Over(Size(original), Whole(10)), Millionth)
        p == EmpiricalP(Tally(simulated, [s \in DOMAIN simulated |-> ~IsBelow(Size(simulated[s]), least)]),
                        Len(simulated))
    IN  [newEstimate |-> Average(simulated), pValue |-> p, isRobust |-> IsBelow(p, Level05)]
RefuteSimulatedOutcome(simulated) ==
    LET mean == Average(simulated)
        off  == [s \in DOMAIN simulated |-> Less(simulated[s], mean)]
        var  == Over(Dot(off, off), Whole(Len(simulated)))
    IN  [newEstimate |-> mean, pValue |-> IF IsBelow(Size(mean), <<1, 100>>) THEN Zero ELSE <<1, 2>>,
         isRobust |-> ~IsBelow(Times(Whole(4), var), Times(mean, mean))]
\* A refuter that throws is one that does not find the estimate robust.
RunAllRefutations(outcomes) ==
    LET robust == Cardinality({k \in DOMAIN outcomes : outcomes[k] = "robust"})
    IN  IF robust >= 5 THEN "robust" ELSE IF robust >= 3 THEN "inconclusive" ELSE "sensitive"

-----------------------------------------------------------------------------
(* bootstrap-ci.ts *)

\* alpha is a fraction; places are rounded down.
ComputeCI(estimates, alpha) ==
    LET sorted == SortSeq(estimates, IsBelow)
        n      == Len(sorted)
        mean   == Average(sorted)
        off    == [i \in DOMAIN sorted |-> Less(sorted[i], mean)]
        low    == (n * alpha[1]) \div (2 * alpha[2])
        high   == (n * (2 * alpha[2] - alpha[1])) \div (2 * alpha[2])
        at(i)  == IF i < n THEN sorted[i + 1] ELSE mean
    IN  [ate |-> mean, low |-> at(low), high |-> at(high), variance |-> Over(Dot(off, off), Whole(n))]
\* Fewer than two rows are not resampled.
BootstrapATE(data, t, y, draws, alpha) ==
    IF Len(data) < 2 THEN [ate |-> AteOf(data, t, y), low |-> Zero, high |-> Zero, variance |-> Zero]
    ELSE ComputeCI([b \in DOMAIN draws |-> AteOf(Along(data, draws[b]), t, y)], alpha)
\* A task is what its function is given: whether the data are resampled, and
\* the seed, of which the sample is a function.
TaskAt(seed, i) == [resampled |-> TRUE, seed |-> seed + i * 101]
SequentialBootstrap(nTasks, seed) == [k \in 1..nTasks |-> TaskAt(seed, k - 1)]
RunBootstrapChunk(first, end, seed) == [k \in 1..(end - first) |-> TaskAt(seed, first + k - 1)]
ParallelBootstrap(nTasks, seed, concurrency) ==
    LET size == (nTasks + concurrency - 1) \div concurrency
        chunk(c) == LET first == c * size
                        end   == Min({first + size, nTasks})
                    IN  IF first < end THEN RunBootstrapChunk(first, end, seed) ELSE <<>>
    IN  IF nTasks <= 1 THEN <<[resampled |-> FALSE, seed |-> seed]>>
        ELSE IF concurrency <= 1 THEN SequentialBootstrap(nTasks, seed)
        ELSE FlattenSeq([c \in 1..concurrency |-> chunk(c - 1)])
\* What is left to average when more results came back than were asked for.
ParallelEstimates(nBootstraps, seed, concurrency) ==
    LET all == ParallelBootstrap(nBootstraps, seed, concurrency)
    IN  SubSeq(all, 1, Min({nBootstraps, Len(all)}))
===============================================================================
