--------------------------- MODULE GraphComparison ---------------------------
(* What the program says about several graphs, or about a graph and data:     *)
(* drift between windows, structural fingerprints, edges that are stable      *)
(* under resampling, latent clusters, falsification, the choice among         *)
(* algorithms and among restarts (pipeline/src/graph/drift-detection.ts,      *)
(* core/src/graph-similarity.ts, graph/stability-selection.ts,                *)
(* graph/latent-clusters.ts, gcm/graph-falsification.ts,                      *)
(* graph/meta-learner.ts, parallel/restart-runner.ts).  Fractions are pairs   *)
(* <<numerator, denominator>>.                                                *)
EXTENDS CausalGraph, TLC

Below(p, q) == p[1] * q[2] < q[1] * p[2]
GreatestOf(ps) == CHOOSE p \in ToSet(ps) : \A q \in ToSet(ps) : ~Below(p, q)
Turned(e) == <<e[2], e[1]>>

-----------------------------------------------------------------------------
(* Drift *)

\* Every edge of g1 is looked for in g2, then in the other direction; of g2
\* those count that g1 has in no direction.
SHD(g1, g2) ==
    [reversed |-> Cardinality({e \in g1 \ g2 : Turned(e) \in g2}),
     missing  |-> Cardinality({e \in g1 \ g2 : Turned(e) \notin g2}),
     extra    |-> Cardinality({e \in g2 : e \notin g1 /\ Turned(e) \notin g1})]
HammingDistance(g1, g2) == LET d == SHD(g1, g2) IN d.extra + d.missing + d.reversed
NormalizedSHD(g1, g2) ==
    <<HammingDistance(g1, g2), 2 * Max({Cardinality(g1), Cardinality(g2), 1})>>

\* A threshold is in tenths.
SeverityOf(most, threshold) ==
    IF Below(most, <<threshold, 10>>) THEN "none"
    ELSE IF Below(most, <<threshold * 2, 10>>) THEN "mild"
    ELSE IF Below(most, <<threshold * 4, 10>>) THEN "moderate"
    ELSE "severe"
\* driftPoint needs more than the threshold, drifted the threshold itself; the
\* point is the first window pair with the greatest jump.
Verdict(scores, threshold) ==
    LET most  == GreatestOf(scores)
        first == Min({i \in DOMAIN scores : ~Below(scores[i], most)})
    IN  [drifted  |-> ~Below(most, <<threshold, 10>>),
         max      |-> most,
         point    |-> IF Below(<<threshold, 10>>, most) THEN first ELSE 0,
         severity |-> SeverityOf(most, threshold)]
NoDrift == [drifted |-> FALSE, max |-> <<0, 1>>, point |-> 0, severity |-> "none"]
Jumps(graphs) == [i \in 1..(Len(graphs) - 1) |-> NormalizedSHD(graphs[i], graphs[i + 1])]

\* The windows of n rows: one every stepSize rows while a whole one fits.
WindowStarts(n, config) ==
    [k \in 1..((n - config.windowSize) \div config.stepSize + 1) |-> (k - 1) * config.stepSize]
\* graphAt is what discovery returns for the window that starts there.
DetectCausalDrift(n, graphAt, config) ==
    LET starts == WindowStarts(n, config)
    IN  IF n < 2 * config.windowSize \/ config.windowSize < config.minWindowSize \/ Len(starts) < 2
        THEN NoDrift
        ELSE Verdict(Jumps([k \in DOMAIN starts |-> graphAt[starts[k]]]), config.threshold)
DetectDriftFromGraphs(graphs, config) ==
    IF Len(graphs) < 2 THEN NoDrift ELSE Verdict(Jumps(graphs), config.threshold)

-----------------------------------------------------------------------------
(* Fingerprints *)

\* Nodes reached from the start nodes level by level; without a root the walk
\* starts at the first node.
WalkStarts(g) == LET roots == {v \in Nodes : Parents(g, v) = {}} IN IF roots = {} THEN {0} ELSE roots
Level(g) ==
    LET level[k \in 0..N] ==
            IF k = 0 THEN WalkStarts(g)
            ELSE UNION {Children(g, v) : v \in level[k - 1]} \ UNION {level[j] : j \in 0..(k - 1)}
    IN  level
\* Counts instead of ratios: all of them are divided by numbers that depend on
\* the number of nodes alone.
Fingerprint(g) ==
    LET level == Level(g)
    IN  [edges      |-> Cardinality(g),
         roots      |-> Cardinality({v \in Nodes : Parents(g, v) = {}}),
         leaves     |-> Cardinality({v \in Nodes : Children(g, v) = {}}),
         vstructs   |-> Cardinality(VStructures(g)),
         outDeg     |-> [k \in 0..4 |-> Cardinality({v \in Nodes : Min({Cardinality(Children(g, v)), 4}) = k})],
         maxDepth   |-> Max({k \in 0..N : k = 0 \/ level[k] # {}}),
         totalDepth |-> FoldLeft(LAMBDA s, k : s + k * Cardinality(level[k]), 0, [k \in 1..N |-> k]),
         reachable  |-> Cardinality(UNION {level[k] : k \in 0..N})]

-----------------------------------------------------------------------------
(* Stability under resampling *)

\* A subsample is {g}, or {} where discovery threw; it stays in the denominator.
Counted(samples, e) == Cardinality({s \in DOMAIN samples : \E g \in samples[s] : e \in g})
SeenEdges(samples) == UNION {UNION samples[s] : s \in DOMAIN samples}
StableEdges(samples, tenths) ==
    {e \in SeenEdges(samples) : 10 * Counted(samples, e) >= tenths * Len(samples)}

\* Twice the mean of p * (1 - p) over the edges seen.
Instability(samples) ==
    LET seen == SeenEdges(samples)
        n    == Len(samples)
    IN  IF seen = {} THEN <<0, 1>>
        ELSE <<2 * FoldSet(LAMBDA e, s : s + Counted(samples, e) * (n - Counted(samples, e)), 0, seen),
               n * n * Cardinality(seen)>>
\* The first parameter whose instability is within the target and least; the
\* last parameter when none is.
StarsSelection(runs, target) ==
    LET fits(i) == SeenEdges(runs[i]) # {} /\ ~Below(target, Instability(runs[i]))
        best    == {i \in DOMAIN runs : fits(i) /\
                        \A j \in DOMAIN runs : fits(j) =>
                            \/ Below(Instability(runs[i]), Instability(runs[j]))
                            \/ ~Below(Instability(runs[j]), Instability(runs[i])) /\ i <= j}
        param   == IF best = {} THEN Len(runs) ELSE Min(best)
    IN  [param |-> param, graph |-> StableEdges(runs[param], 6)]

-----------------------------------------------------------------------------
(* Latent clusters *)

\* Which tetrads of a pair vanish is a matter of the data; the pair is joined
\* when there are three and more than six in ten vanish.  With fewer than four
\* variables nothing is joined.
TetradsOf(i, j) == {t \in Pairs : {t[1], t[2]} \cap {i, j} = {}}
SharesLatent(vanishing, i, j) ==
    LET all == Cardinality(TetradsOf(i, j))
    IN  N >= 4 /\ all >= 3 /\ 10 * Cardinality(TetradsOf(i, j) \cap vanishing[<<i, j>>]) > 6 * all
LatentLinks(vanishing) == {p \in Pairs : SharesLatent(vanishing, p[1], p[2])}
\* Components are found from the least variable on, and numbered if they have
\* three variables.
LatentClusters(links) ==
    LET both == links \cup {Turned(e) : e \in links}
        comp == [v \in Nodes |-> {v} \cup {w \in Nodes : <<v, w>> \in Reach(both)}]
        big  == {v \in Nodes : Cardinality(comp[v]) >= 3 /\ v = Min(comp[v])}
    IN  [id |-> [v \in {w \in Nodes : Cardinality(comp[w]) >= 3} |->
                    Cardinality({b \in big : b < Min(comp[v])})],
         n  |-> Cardinality(big)]

-----------------------------------------------------------------------------
(* Falsification; independent(i, j, S) is the set of independences the tests  *)
(* report, with p-values far from the corrected level on either side *)

\* A pair counts as adjacent if the edge goes from the lower index to the
\* higher; neighbors are those with an undirected edge.
SpuriousEdges(g, independent) ==
    {p \in Pairs : p \in g /\
        \E S \in SUBSET (Neighbors(g, p[1]) \ {p[2]}) :
            Cardinality(S) <= 3 /\ <<p[1], p[2], S>> \in independent}
MissingEdges(g, independent) ==
    {p \in Pairs : p \notin g /\ <<p[1], p[2], {}>> \notin independent}
\* The verdict is the smallest p-value of an issue, so only missing edges,
\* whose p-values are small, can falsify.
FalsifyGraph(g, independent) ==
    [spurious  |-> SpuriousEdges(g, independent),
     missing   |-> MissingEdges(g, independent),
     falsified |-> MissingEdges(g, independent) # {}]

\* Mutant: only children count as descendants.
LmcPartnersNear(g, v) == Nodes \ ({v} \cup Parents(g, v) \cup Children(g, v))
LmcPartners(g, v) == {w \in Nodes \ ({v} \cup Parents(g, v)) : ~HasDirectedPath(g, v, w)}
\* Of the nodes to test only the first is.
LmcViolated(g, independent) ==
    {v \in Nodes : Parents(g, v) # {} /\ LmcPartners(g, v) # {} /\
        <<v, Min(LmcPartners(g, v)), Parents(g, v)>> \notin independent}

-----------------------------------------------------------------------------
(* Restarts: the index of the run that is returned, 0 for null *)

Infinity == 99
NaN == -99
Lower(a, b) == a # NaN /\ b # NaN /\ a < b
\* Both keep the first of equal scores; one starts from the first result, the
\* other from Infinity.
ParallelRestart(scores) ==
    FoldLeft(LAMBDA best, i : IF Lower(scores[i], scores[best]) THEN i ELSE best,
             1, [i \in DOMAIN scores |-> i])
SequentialRestart(scores) ==
    FoldLeft(LAMBDA st, i : IF Lower(scores[i], st.score) THEN [score |-> scores[i], run |-> i] ELSE st,
             [score |-> Infinity, run |-> 0], [i \in DOMAIN scores |-> i]).run

-----------------------------------------------------------------------------
(* The choice of an algorithm *)

\* Ranks of a column from 1, ties in row order (the sort is stable).
RankArray(col) ==
    [i \in DOMAIN col |->
        1 + Cardinality({k \in DOMAIN col : col[k] < col[i] \/ (col[k] = col[i] /\ k < i)})]
KendallTau(a, b) ==
    LET pairs == {p \in (DOMAIN a) \X (DOMAIN a) : p[1] < p[2]}
        with  == Cardinality({p \in pairs : (a[p[1]] - a[p[2]]) * (b[p[1]] - b[p[2]]) > 0})
        anti  == Cardinality({p \in pairs : (a[p[1]] - a[p[2]]) * (b[p[1]] - b[p[2]]) < 0})
    IN  IF with + anti > 0 THEN <<with - anti, with + anti>> ELSE <<0, 1>>

Algorithms == <<"pc", "fci", "ges", "boss", "grasp", "notears", "dagma", "golem",
                "lingam", "cam-uv", "kci", "cdnod">>
\* Scores in thousandths of data whose characteristics are in tenths: d
\* variables, n rows, linearity, non-Gaussianity, sparsity, nonlinearity.
AlgorithmScores(c) ==
    LET perRow(most, share) == Min({most, (share * c.d) \div c.n})
        pc      == 700 + 30 * c.linear - 20 * c.nonGaussian + 20 * c.sparse - perRow(300, 500)
        notears == 500 + 40 * c.nonLinear + 10 * c.nonGaussian - 10 * c.linear - perRow(300, 300)
    IN  [pc      |-> pc,
         fci     |-> pc - 100 + 10 * c.nonGaussian,
         ges     |-> 600 + 20 * c.linear - 10 * c.nonGaussian + 15 * c.sparse - perRow(300, 300),
         boss    |-> 550 + 20 * c.sparse - Min({300, 10 * c.d}),
         grasp   |-> 550 + 30 * c.sparse + 15 * c.linear,
         notears |-> notears,
         dagma   |-> notears + 50 + 10 * c.nonLinear,
         golem   |-> 500 + 20 * c.linear + 10 * c.nonGaussian,
         lingam  |-> 550 + 50 * c.nonGaussian - 10 * c.linear - perRow(200, 200)]
        @@ "cam-uv" :> 550 + 30 * c.nonLinear + 20 * c.nonGaussian - (200 * c.d) \div c.n
        @@ "kci"    :> 450 + 50 * c.nonLinear + 20 * c.nonGaussian - Min({300, (300 * c.n) \div 1000})
        @@ "cdnod"  :> 400 + 20 * c.nonGaussian + 10 * c.nonLinear
\* The three best, algorithms with equal scores as they were entered, and
\* their scores cut to 0..1.
RecommendAlgorithm(c) ==
    LET scores == AlgorithmScores(c)
        rank(i) == Cardinality({j \in DOMAIN Algorithms :
                       \/ scores[Algorithms[j]] > scores[Algorithms[i]]
                       \/ scores[Algorithms[j]] = scores[Algorithms[i]] /\ j < i})
        at(r)  == CHOOSE i \in DOMAIN Algorithms : rank(i) = r - 1
    IN  [r \in 1..3 |->
            [algorithm  |-> Algorithms[at(r)],
             confidence |-> Min({1000, Max({0, scores[Algorithms[at(r)]]})})]]
=============================================================================
