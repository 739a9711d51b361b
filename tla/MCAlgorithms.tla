----------------------------- MODULE MCAlgorithms -----------------------------
(* The searches besides PC, and the algorithms that answer a question about a *)
(* graph in one step: identification, inference and learning in Bayesian      *)
(* networks, root cause analysis.  A behaviour runs one search or answers one *)
(* question about `truth`.                                                    *)
EXTENDS ConstraintSearches, Identification, BayesianNetwork, RCAgent, CpdagOrientation,
        GraphComparison, ModelChecks

VARIABLES order, improved,   \* of ScoreSearches
          answer             \* to the question, with what it was about

Score == INSTANCE ScoreSearches
Compare(nodes) == INSTANCE GraphComparison WITH N <- nodes
Series(tauMax, most) ==
    INSTANCE LaggedSearches WITH D <- 2, TauMax <- tauMax, MaxCondVars <- most, Slices <- tauMax + 3

allVars == <<vars, order, improved, answer>>

-----------------------------------------------------------------------------
(* Inputs *)

\* Forward DAGs; with every order of the nodes to start from, these are all
\* DAGs up to a renaming.
ForwardDags == SUBSET Pairs

\* Chains, forks, colliders, a diamond, a triangle with a tail and no edges.
SomeNetworks ==
    {{}, {<<0, 1>>, <<1, 2>>, <<1, 3>>}, {<<2, 1>>, <<0, 1>>, <<1, 3>>},
     {<<3, 0>>, <<0, 1>>, <<3, 2>>}, {<<3, 2>>, <<3, 1>>, <<2, 0>>, <<1, 0>>},
     {<<0, 1>>, <<0, 2>>, <<1, 2>>, <<2, 3>>}}
Polytree(dag) ==
    \A S \in SUBSET Nodes \ {{}} :
        Cardinality({e \in dag : {e[1], e[2]} \subseteq S}) < Cardinality(S)
SomeCPT(dag) ==
    [v \in Nodes |-> [up \in SUBSET Parents(dag, v) |->
        1 + ((v + 2 * Cardinality(up) + (IF 0 \in up THEN 1 ELSE 0)) % 3)]]
SomeEvidence == UNION {[S -> BOOLEAN] : S \in {T \in SUBSET Nodes : Cardinality(T) <= 2}}
SomeRows == UNION {[1..n -> {{}, {0}, {0, 1}, {1, 2, 3}}] : n \in 1..3}
\* Data for the rows, after enough quiet ones that an anomaly is one: a node is
\* at 1 and an anomalous one at 9, in units of its own.
Quiet == [i \in 1..22 |-> {}]
DataFor(rows, unit) ==
    [i \in 1..(22 + Len(rows)) |->
        [v \in Nodes |-> unit[v] * (IF v \in (Quiet \o rows)[i] THEN 9 ELSE 1)]]
SameUnit == [v \in Nodes |-> 1]
FirstInTenths == [v \in Nodes |-> IF v = 0 THEN 10 ELSE 1]
SomeCosts == [v \in Nodes |-> (v * v) % 3]
SomeTraces == UNION {[1..n -> SUBSET Nodes \ {{}}] : n \in 1..3}
SomeCalls == <<<<0, 1>>, <<0, 2>>, <<2, 1>>>>
SomeSignals == [Nodes -> 0..1] \X [{0, 1, 2} -> 0..2]
HistoryRows == <<{}, {0}, {0, 1, 2}, {1, 3}>>
SomeColumns == {<<3, 3, 3, 3, 3, 3, 3, 3, 3, 3>>, <<2, 4, 2, 4, 3, 9, 9, 8, 9, 9>>,
                <<2, 3, 4, 2, 3, 3, 4, 2, 4, 3>>}
Adjustments == {"minimal", "maximal", "efficient", "exhaustive", "mincost"}

\* Two variables: every way they can act on each other one step later, without
\* and with an effect at once; two processes that take two steps.
Lagged1 == {p \cup now : p \in SUBSET ((0..1) \X (0..1) \X {1}), now \in {{}, {<<0, 1, 0>>}, {<<1, 0, 0>>}}}
Lagged2 == {{<<0, 1, 2>>, <<0, 0, 1>>}, {<<0, 1, 1>>, <<1, 0, 2>>, <<1, 1, 1>>}}
SeriesOrders(tauMax) ==
    LET cols == [k \in 1..(2 * tauMax) |-> <<(k - 1) \div tauMax, ((k - 1) % tauMax) + 1>>]
    IN  {cols, Reverse(cols)}
\* The columns of tsFCI: both variables now, and both `lag` steps ago.
ColumnOf(v, lag) == IF v < 2 THEN <<v, 0>> ELSE <<v - 2, lag>>
SeriesTests(process, lag) ==
    LET found == Series(lag, 0)!IndependentColumns(process)
    IN  {t \in Nodes \X Nodes \X SUBSET Nodes :
            <<ColumnOf(t[1], lag), ColumnOf(t[2], lag), {ColumnOf(v, lag) : v \in t[3]}>> \in found}
SeriesEdges(process, lag) ==
    {e \in Nodes \X Nodes :
        LET from == ColumnOf(e[1], lag)
            to   == ColumnOf(e[2], lag)
        IN  from[2] >= to[2] /\ <<from[1], to[1], from[2] - to[2]>> \in process}
SomeSepSets(dag) ==
    [p \in Pairs |->
        IF Adjacent(dag, p[1], p[2]) THEN {}
        ELSE CHOOSE S \in SUBSET (Nodes \ {p[1], p[2]}) : MoralSeparated(dag, p[1], p[2], S)]

\* Two DAGs that agree on an edge, one that turns it, one over other nodes; a
\* subsample that failed is {}.
SomeSamples == {{}} \cup {{h} : h \in {{<<0, 1>>}, {<<1, 0>>}, {<<0, 1>>, <<1, 2>>}, {<<1, 2>>, <<2, 0>>}}}
Characteristics ==
    {[d |-> d, n |-> n, linear |-> l, sparse |-> 10 - l, nonGaussian |-> ng, nonLinear |-> nl] :
        d \in {2, 20}, n \in {40, 400}, l \in {0, 3, 7, 10}, ng \in {0, 3, 7, 10}, nl \in {0, 3, 7, 10}}
SomeTables == OrderedTables(5, {Zero, Whole(2)})
SomePairs == {[i \in 1..6 |-> SubSeq(d[i], 1, 2)] : d \in OrderedTables(6, {Zero})}
SomeShuffles == {<<1, 2, 3, 4, 5, 6>>, <<6, 2, 4, 1, 5, 3>>}
SomeArms == {Wholes(<<1, 0, 1, 0, 1, 0>>), Wholes(<<1, 1, 0, 1, 0, 0>>)}
SomeForestSamples == {<<s, SubSeq(s, 1, 3)>> : s \in {<<1, 2, 3, 4, 5, 6>>, <<3, 1, 4, 1, 5, 2>>}}
SomeOutcomes == {Wholes(o) : o \in {<<0, 1, 2, 0, 1, 1>>, <<2, 0, 0, 2, 0, 2>>, <<2, 2, 0, 0, 2, 0>>, <<1, 1, 1, 1, 1, 1>>}}
TreeConfigs ==
    {[minNodeSize |-> m, maxDepth |-> d, honesty |-> h, pools |-> [k \in 1..7 |-> p]] :
        m \in 1..2, d \in 0..2, h \in 1..2, p \in {<<1, 2>>, <<2, 1>>}}
PolicyConfigs ==
    {[minLeafSize |-> m, maxDepth |-> d, vars |-> v] :
        m \in 1..2, d \in 1..2, v \in {<<<<1>>, <<2>>>>}}
Symmetric ==
    {<<<<a, b, c>>, <<b, d, e>>, <<c, e, f>>>> : a, b, c, d, e, f \in {Whole(-1), Zero, Whole(2)}}
SomeMatrices == Symmetric \cup [1..3 -> [1..3 -> Bits]]
\* Doses and outcomes, and which row each row takes its treatment from; rows in
\* shuffled orders.
SomeDoses == {<<<<1, -1>>, <<1, 0>>, <<1, 2>>, <<2, -1>>>>, <<<<1, 1>>, <<2, 2>>, <<1, 1>>, <<2, 2>>>>,
              <<<<1, -1>>, <<2, -2>>, <<1, -1>>, <<1, 0>>>>, <<<<1, 2>>, <<2, -1>>, <<2, 0>>, <<2, 2>>>>,
              <<<<1, 0>>, <<1, 0>>, <<2, 0>>, <<2, 0>>>>, <<<<1, 2>>, <<1, 2>>, <<1, 0>>, <<2, -1>>>>}
SomeIndexMaps == {<<1, 2, 3, 4>>, <<4, 3, 2, 1>>, <<1, 1, 2, 3>>, <<2, 2, 4, 4>>}
SomeShuffledRows == <<<<1, 2, 3, 4>>, <<4, 1, 3, 2>>, <<2, 3, 4, 1>>>>
SomeFederates ==
    {[localATE |-> Whole(v), nTreated |-> t, nControl |-> c, outcomeMax |-> Whole(m)] :
        v \in {-1, 2}, t \in {2, 4}, c \in 2..3, m \in {1, 4}}
SomeGroups == {<<{1}, {2, 3}>>, <<{1, 2}, {3, 4}, {1, 4}>>, <<{1, 2, 3}>>}
DriftConfigs == {[windowSize |-> 2, stepSize |-> 1, minWindowSize |-> 1, threshold |-> t] : t \in {1, 2, 5}}

-----------------------------------------------------------------------------
(* Questions *)

Asked(m) == phase = "ask" /\ method = m
Answered(a) ==
    /\ answer' = a
    /\ phase' = "done"
    /\ UNCHANGED <<method, truth, tests, g, sep, at, round, before, order, improved>>

AskAdjustment ==
    /\ Asked("question")
    /\ \E x, y \in Nodes :
           /\ x # y
           /\ Answered([about |-> "adjustment", x |-> x, y |-> y,
                        sets |-> [m \in Adjustments |-> AdjustmentSet(truth, x, y, m, SomeCosts)],
                        identified |-> Identify(truth, x, y),
                        byID |-> FullID(truth, Nodes, {x}, {y}, {}).ok])
AskBias ==
    /\ Asked("question")
    /\ \E Z \in SUBSET Nodes :
           Answered([about |-> "bias", Z |-> Z, left |-> RemoveBiased(truth, Z)])
AskCauses ==
    /\ Asked("causes")
    /\ \E anomalous \in SUBSET Nodes \ {{}} :
           Answered([about |-> "causes", anomalous |-> anomalous,
                     cpts |-> Train(truth, anomalous, HistoryRows),
                     path |-> HeuristicPathRCA(truth, anomalous, HistoryRows),
                     walk |-> RandomWalkRCA(truth, anomalous, 2 * N),
                     circa |-> CIRCA(truth, <<[v \in Nodes |-> IF v \in anomalous THEN 4 ELSE 1]>>,
                                     anomalous, [aggregator |-> "max", enabled |-> TRUE, threshold |-> 3]),
                     multi |-> DiagnoseMulti(truth, anomalous, HistoryRows, N + 1)])
AskPosterior ==
    /\ Asked("network")
    /\ \E q \in Nodes, evidence \in SomeEvidence :
           LET cpt == SomeCPT(truth)
               fs  == Factors(truth, cpt)
           IN  Answered([about |-> "posterior", q |-> q, evidence |-> evidence,
                         exact |-> Oracle(truth, cpt, q, evidence),
                         elimination |-> VariableElimination(fs, q, evidence),
                         junction |-> JunctionTree(fs, q, evidence),
                         propagation |-> IF Polytree(truth) THEN BeliefPropagation(fs, q, evidence, 5)
                                        ELSE <<>>,
                         weighting |-> LikelihoodWeighting(truth, cpt, TopologicalSort(truth), q, evidence),
                         gibbs |-> [S \in SUBSET Nodes |-> GibbsWeights(truth, cpt, q, S)]])
AskTables ==
    /\ Asked("network")
    /\ \E rows \in SomeRows :
           Answered([about |-> "tables", rows |-> rows,
                     cells |-> Learn(truth, Quiet \o rows, 1),
                     estimates |-> EstimateCPTs(truth, DataFor(rows, SameUnit), 1, Default),
                     given |-> EstimateCPTs(truth, DataFor(rows, SameUnit), 1, 5),
                     mixed |-> EstimateCPTs(truth, DataFor(rows, FirstInTenths), 1, Default)])
AskPatterns ==
    /\ Asked("rows")
    /\ \E traces \in SomeTraces, least \in 1..2 :
           Answered([about |-> "patterns", traces |-> traces, least |-> least,
                     found |-> FPGrowthRCA(traces, SomeCalls, least)])
AskFusion ==
    /\ Asked("rows")
    /\ \E signals \in SomeSignals, weights \in {<<1, 2>>, <<3, 1>>} :
           Answered([about |-> "fusion", signals |-> signals,
                     ranked |-> RankSignals(signals, weights)])
AskAnomalies ==
    /\ Asked("rows")
    /\ \E table \in [Nodes -> SomeColumns], detector \in {"mad", "zscore"} :
           LET config == [detector |-> detector, tail |-> 2, threshold |-> IF detector = "mad" THEN 35000 ELSE 20]
           IN  Answered([about |-> "anomalies", table |-> table,
                         found |-> DetectAnomalies(config, table)])
AskSeries ==
    /\ Asked("series")
    /\ \E process \in Lagged1 \cup Lagged2, most \in 1..2 :
           \E tauMax \in {IF process \in Lagged2 THEN 2 ELSE 1} :
               \E found \in {Series(tauMax, most)!IndependentColumns(process)},
                  first, second \in SeriesOrders(tauMax), lost \in {{}, {<<0, 1, 1>>}} :
                   Answered([about |-> "series", process |-> process, most |-> most, tauMax |-> tauMax,
                             pcmci |-> Series(tauMax, most)!PCMCI(found, (0 :> first @@ 1 :> second), lost),
                             plus |-> Series(tauMax, most)!PlusParents(found, 1, <<<<0, 0>>>> \o first),
                             icd |-> Series(tauMax, most)!TsIcd(found, {<<0, 1>>})])
AskDrift ==
    /\ Asked("question")
    /\ \E h, k \in SomeNetworks :
           LET graphs == <<truth, h, k>>
               at0    == [s \in 0..2 |-> graphs[s + 1]]
           IN  Answered([about |-> "drift", graphs |-> graphs,
                         distance |-> [p \in (1..3) \X (1..3) |-> HammingDistance(graphs[p[1]], graphs[p[2]])],
                         jumps |-> Jumps(graphs),
                         offline |-> [c \in DriftConfigs |-> DetectDriftFromGraphs(graphs, c)],
                         online |-> [c \in DriftConfigs |-> DetectCausalDrift(4, at0, c)],
                         short |-> [c \in DriftConfigs |-> DetectCausalDrift(3, at0, c)]])
AskFingerprint ==
    /\ Asked("question")
    /\ \E v \in 0..(N - 2) :
           LET swap(u) == IF u = v THEN v + 1 ELSE IF u = v + 1 THEN v ELSE u
           IN  Answered([about |-> "fingerprint", print |-> Fingerprint(truth),
                         renamed |-> Fingerprint({<<swap(e[1]), swap(e[2])>> : e \in truth})])
AskFalsification ==
    /\ Asked("question")
    /\ \E found \in {IndependenciesOf(truth)}, model \in SomeNetworks \cup {truth} :
           Answered([about |-> "falsification", found |-> found, model |-> model,
                     verdict |-> FalsifyGraph(model, found),
                     lmc |-> LmcViolated(model, found)])
AskStability ==
    /\ Asked("samples")
    /\ \E samples \in [1..3 -> SomeSamples], others \in {<<s, s, r>> : s, r \in SomeSamples} :
           Answered([about |-> "stability", samples |-> samples, others |-> others,
                     stable |-> StableEdges(samples, 6),
                     stars |-> StarsSelection(<<samples, others>>, <<1, 20>>)])
AskClusters ==
    /\ Asked("rows")
    /\ \E vanishing \in SUBSET {t \in (0..4) \X (0..4) : t[1] < t[2]} :
           \E links \in {Compare(5)!LatentLinks([p \in (0..4) \X (0..4) |-> vanishing])} :
               Answered([about |-> "clusters", links |-> links, found |-> Compare(5)!LatentClusters(links)])
AskRestarts ==
    /\ Asked("rows")
    /\ \E scores \in [1..3 -> {1, 2, Infinity, NaN}] :
           Answered([about |-> "restarts", scores |-> scores,
                     parallel |-> ParallelRestart(scores),
                     sequential |-> SequentialRestart(scores)])
AskAlgorithm ==
    /\ Asked("rows")
    /\ \/ \E c \in Characteristics :
              Answered([about |-> "choice", c |-> c, top |-> RecommendAlgorithm(c)])
       \/ \E a, b \in [1..3 -> 1..3] :
              Answered([about |-> "ranks", a |-> a, b |-> b,
                        tau |-> KendallTau(RankArray(a), RankArray(b))])
\* Questions about numbers are kept as they are, with their input: AnswerTo is
\* what the program answers.
AskOf(m, about, inputs) ==
    /\ Asked(m)
    /\ \E i \in inputs : Answered([about |-> about, input |-> i])
AskEstimates ==
    \/ AskOf("effects", "effects", SomeTables)
    \/ AskOf("effects", "folds", SomePairs \X {Whole(-1), Zero, Unity} \X SomeShuffles \X (2..3))
AskTrees ==
    \/ AskOf("trees", "trees", SomeArms \X SomeOutcomes \X SomeForestSamples \X TreeConfigs)
    \/ AskOf("trees", "policy", [1..6 -> {Whole(-1), Unity}] \X SomeArms \X {Wholes(<<0, 1, 2, 0, 1, 1>>)} \X PolicyConfigs)
AskNumbers ==
    \/ AskOf("numbers", "matrix", SomeMatrices)
    \/ AskOf("numbers", "sample", OrderedTables(5, Bits))
    \/ AskOf("numbers", "subsets", (0..5) \X (0..5))
AskModels == AskOf("models", "structure", {truth})
AskEvaluations ==
    \/ AskOf("evaluations", "evaluation", SomeTables)
    \/ AskOf("evaluations", "fairness", [1..4 -> 0..2] \X SomeGroups)
    \/ AskOf("evaluations", "sensitivity", (3..8) \X {<<1, 4>>, Unity, Whole(4)} \X (0..2))
AskRefuters ==
    \/ AskOf("refuters", "refuters", SomeDoses \X [1..3 -> SomeIndexMaps])
    \/ AskOf("refuters", "simulations",
             {i \in {1, 2, 18, 19, 20} \X {0, 1, 2, 20} \X {-10, 0, 10} : i[2] <= i[1]})
    \/ AskOf("refuters", "portal", [1..7 -> {"robust", "sensitive", "throws"}])
AskFederations ==
    \/ AskOf("federations", "federation",
             SomeFederates \X SomeFederates \X {Unity, <<1, 2>>} \X {-1, 0, 2} \X {2, 3})
    \/ AskOf("federations", "tasks", (0..9) \X {0, 42} \X (0..5))
AnswerTo(question) ==
    LET i == question.input
    IN  CASE question.about = "effects"     -> EffectsOf(i)
          [] question.about = "folds"       -> FoldsOf(i[1], Whole(2), i[2], i[3], i[4])
          [] question.about = "trees"       -> TreesOf(i[1], i[2], i[3], i[4])
          [] question.about = "policy"      -> PolicyOf(i[1], i[2], i[3], i[4])
          [] question.about = "matrix"      -> MatrixOf(i, Wholes(<<1, 2, -1>>))
          [] question.about = "sample"      -> SamplesOf(i)
          [] question.about = "subsets"     -> SubsetsOf(i[1], i[2])
          [] question.about = "structure"   -> StructureOf(i, Cardinality(i))
          [] question.about = "evaluation"  -> EvaluationOf(i)
          [] question.about = "fairness"    -> FairnessOf(i[1], i[2])
          [] question.about = "sensitivity" -> SensitivityOf(i[1], i[2], i[3])
          [] question.about = "refuters"    ->
                 RefutersOf([r \in 1..4 |-> Wholes(i[1][r])], i[2], SomeShuffledRows)
          [] question.about = "simulations" -> SimulationsOf(i[1], i[2], Whole(i[3]))
          [] question.about = "portal"      -> PortalOf(i)
          [] question.about = "federation"  -> FederationOf(<<i[1], i[2]>>, i[3], Whole(i[4]), i[5])
          [] question.about = "tasks"       -> TasksOf(i[1], i[2], i[3])
          [] OTHER -> question
\* The orientation of a skeleton takes a step for the colliders and one for
\* each application of a rule.
AskOrientation ==
    /\ Asked("question")
    /\ answer' = [about |-> "cpdag", run |-> Unoriented({KeyOf(e[1], e[2]) : e \in truth})]
    /\ phase' = "turning"
    /\ UNCHANGED <<method, truth, tests, g, sep, at, round, before, order, improved>>
TurnOn ==
    /\ phase = "turning" /\ answer.run.rule < 4
    /\ answer' = [answer EXCEPT !.run = StepOf(answer.run, SomeSepSets(truth))]
    /\ UNCHANGED <<vars, order, improved>>

-----------------------------------------------------------------------------
(* Composition *)

None == [about |-> "nothing"]
Questions ==
    /\ \/ method \in {"rows", "series", "samples", "effects", "trees", "numbers", "evaluations", "refuters", "federations"}
          /\ truth = {}
       \/ method = "models" /\ truth \in ForwardDags
       \/ method = "question" /\ truth \in Dags
       \/ method = "causes" /\ truth \in ForwardDags \cup {{<<e[2], e[1]>> : e \in dag} : dag \in ForwardDags}
       \/ method = "network" /\ truth \in SomeNetworks
    /\ phase = "ask"
    /\ tests = {} /\ g = {} /\ at = 0
    /\ order = <<>> /\ improved = FALSE
    /\ sep = <<>> /\ round = 0 /\ before = {}
SeriesSearch ==
    /\ \E process \in Lagged1 \cup Lagged2 :
           LET lag == IF process \in Lagged2 THEN 2 ELSE 1
           IN  TsFciInit(SeriesEdges(process, lag), SeriesTests(process, lag))
    /\ order = <<>> /\ improved = FALSE
Search == Init /\ order = <<>> /\ improved = FALSE
ScoreSearch ==
    /\ truth \in ForwardDags /\ tests = IndependenciesOf(truth)
    /\ Score!Start
    /\ method = "exact" => Cardinality(truth) = 3
    /\ sep = <<>> /\ round = 0 /\ before = {}
MCInit == answer = None /\ (Questions \/ Search \/ SeriesSearch \/ ScoreSearch)
MCNext ==
    \/ Next /\ UNCHANGED <<order, improved, answer>>
    \/ Score!Next /\ UNCHANGED <<sep, round, before, answer>>
    \/ AskAdjustment \/ AskBias \/ AskCauses \/ AskPosterior
    \/ AskTables \/ AskPatterns \/ AskFusion \/ AskAnomalies
    \/ AskSeries \/ AskOrientation \/ TurnOn
    \/ AskDrift \/ AskFingerprint \/ AskFalsification \/ AskStability
    \/ AskClusters \/ AskRestarts \/ AskAlgorithm
    \/ AskEstimates \/ AskTrees \/ AskNumbers
    \/ AskModels \/ AskEvaluations \/ AskRefuters \/ AskFederations
MCSpec == MCInit /\ [][MCNext]_allVars
-----------------------------------------------------------------------------
(* Properties *)

Finds(m) == method = m /\ phase = "done"
Blanket(t) ==
    (Parents(truth, t) \cup Children(truth, t)
        \cup UNION {Parents(truth, c) : c \in Children(truth, t)}) \ {t}
ConstraintBased == {"fci", "tsfci", "gfci", "rfci", "cdnod", "fask", "ccd", "mvpc", "pcmax"}
\* The parents of j in the lagged columns, and the keys of TS-ICD whose two
\* columns act on each other.
LaggedParents(process, j) == {<<e[1], e[3]>> : e \in {f \in process : f[2] = j /\ f[3] > 0}}
DirectKeys(process, tauMax) ==
    {key \in Series(tauMax, 0)!AllKeys :
        LET from == Series(tauMax, 0)!ColumnAt(key[1])
            to   == Series(tauMax, 0)!ColumnAt(key[2])
        IN  \/ <<from[1], to[1], from[2] - to[2]>> \in process
            \/ <<to[1], from[1], to[2] - from[2]>> \in process}
\* The constraint-based searches never lose a dependence: no level, retest,
\* collider loop, rule or final extension of any of them takes away the last
\* edge between nodes that are adjacent in the truth, whatever was removed
\* before; only FASK's cycle breaking does.  FCI's two skeleton phases leave
\* nothing else, and what GES hands to GFCI is not made worse.  A Markov
\* blanket is complete when the shrinking starts, which no order of adding
\* and removing can undo, and exact at the end.  What PC-Max and CCD direct is
\* acyclic, and FASK leaves a cycle only among edges with an undirected one
\* (fciAlgorithm, growShrink, gfciAlgorithm, pcMaxAlgorithm, ccdAlgorithm,
\* faskAlgorithm).
DependencesSurvive ==
    /\ method \in ConstraintBased /\ ~Finds("fask") => Skeleton(truth) \subseteq Skeleton(g)
    /\ method = "fci" /\ phase = "orient" => Skeleton(g) = Skeleton(truth)
    /\ method = "gfci" => MarkovEquivalent(g, truth)
    /\ method = "blanket" /\ phase = "shrink" => Blanket(at) \subseteq Members(g)
    /\ method = "blanket" /\ phase \in {"target", "done"} => Members(g) = Blanket(at)
    /\ Finds("pcmax") \/ Finds("ccd") => Acyclic(Directed(g))
    /\ Finds("fask") => Acyclic(Directed(g)) \/ Undirected(g) # {}

\* Over time, too, what acts on what is found: an effect with a lag is between
\* the two variables in tsFCI's graph for that lag; PCMCI's first phase keeps
\* every lagged parent, in whatever order the candidates come, unless it has
\* accepted more than it may condition on; its second phase keeps only true
\* effects where nothing acts at once and all parents are conditioned on;
\* TS-ICD keeps the columns that act on each other joined, so that what acts
\* on the first variable is reported.  The rules of orientCPDAG make no cycle and never turn an
\* edge of a collider, which the collider loop finds when an end of it comes
\* before its middle (tsFciAlgorithm, pcmciAlgorithm, tsIcdAlgorithm,
\* orientCPDAG).
LaggedEffectsAreFound ==
    /\ Finds("tsfci") =>
           \A e \in truth : e[1] >= 2 /\ e[2] < 2 =>
               {<<e[1] - 2, e[2]>>, <<e[2], e[1] - 2>>} \cap LagGraph(g) # {}
    /\ answer.about = "series" =>
           /\ \A j \in 0..1 :
                  \/ LaggedParents(answer.process, j) \subseteq ToSet(answer.pcmci.parents[j])
                  \/ Len(answer.pcmci.parents[j]) > answer.most
           /\ \/ answer.pcmci.edges \subseteq answer.process
              \/ \E e \in answer.process : e[3] = 0
              \/ \E j \in 0..1 : Len(answer.pcmci.parents[j]) > answer.most
           /\ DirectKeys(answer.process, answer.tauMax) \subseteq answer.icd.adj
           /\ \A e \in answer.process : e[2] = 0 /\ e[3] > 0 => e \in answer.icd.lagged
    /\ answer.about = "cpdag" /\ answer.run.rule > 0 =>
           LET arrows == Arrows(answer.run.stored, answer.run.marks)
           IN  /\ Acyclic(arrows)
               /\ \A t \in VStructures(truth) :
                      t[1] < t[2] => {<<t[1], t[2]>>, <<t[3], t[2]>>} \subseteq arrows

\* The score-based searches explain the data: the DAG GES holds after its
\* insertions and after its deletions, and each DAG that BOSS and GRaSP make
\* of an order, has no independence that the truth lacks, and those of the two
\* orders need every edge they have.  GES never makes a cycle, no search loses
\* an adjacency of the truth, and the exhaustive search ends in a DAG
\* equivalent to the truth (gesAlgorithm, bossAlgorithm, graspAlgorithm,
\* imagesAlgorithm, exactSearch).
DataAreExplained ==
    /\ method = "ges" => Acyclic(g)
    /\ method = "ges" /\ phase \in {"delete", "prune"} => Score!Explains(g)
    /\ method \in {"boss", "grasp"} =>
           Score!Explains(g) /\ \A e \in g : ~Score!Explains(g \ {e})
    /\ Finds("ges") \/ Finds("images") => Skeleton(truth) \subseteq Skeleton(g)
    /\ Finds("exact") => MarkovEquivalent(g, truth)

\* Every strategy returns a set of nodes that meets Pearl's back-door
\* criterion, the efficient one a set without a node too many; the claims of
\* identifyByDoCalculus are sound: the recursion never gives up on a DAG, what
\* "backdoor" reports is an adjustment set, and front-door mediators are not
\* confounded with the treatment and stand on every path it has to the
\* outcome but a direct edge.  Dropping what the collider warnings name leaves
\* no warning but where several descendants of a collider were conditioned
\* on, and without a warning conditioning makes no independent pair dependent
\* (computeBackdoorAdjustmentSet, identifyByDoCalculus,
\* removeColliderBiasedAdjustments).
IdentificationIsSound ==
    /\ answer.about = "adjustment" /\ <<answer.y, answer.x>> \notin truth =>
           LET id == answer.identified
           IN  /\ \A m \in Adjustments : Backdoor(truth, answer.x, answer.y, answer.sets[m])
               /\ \A v \in answer.sets["efficient"] :
                      ~Backdoor(truth, answer.x, answer.y, answer.sets["efficient"] \ {v})
               /\ answer.byID /\ id.by # "not_identifiable"
               /\ id.by = "backdoor" => Backdoor(truth, answer.x, answer.y, id.set)
               /\ id.by = "frontdoor" =>
                      /\ \A m \in id.set :
                             MoralSeparated(WithoutEffectsOf(truth, answer.x), answer.x, m, {})
                      /\ \/ <<answer.x, answer.y>> \in truth
                         \/ <<answer.x, answer.y>> \notin
                                Reach({e \in truth : e[1] \notin id.set})
    /\ answer.about = "bias" =>
           LET ws == Warnings(truth, answer.Z)
           IN  /\ \A R \in answer.left : \A w \in Warnings(truth, R) : \E v \in ws :
                      /\ v.collider = w.collider
                      /\ Cardinality(Descendants(truth, v.collider) \cap answer.Z) > 1
               /\ ws = {} =>
                      \A a, b \in Nodes \ answer.Z :
                          MoralSeparated(truth, a, b, {}) => MoralSeparated(truth, a, b, answer.Z)

Proportional(p, q) == p[1] * q[2] = p[2] * q[1]
\* All engines compute the posterior that the sum over all assignments gives:
\* variable elimination and the junction tree for a variable that is not
\* observed, belief propagation on a polytree, likelihood weighting in the
\* mean over its samples, and a Gibbs step from every state draws from the
\* distribution given the others.  Where all columns have the same unit, one
\* pass over all rows finds the counts that updates with each row's anomalies
\* leave, with the thresholds of the columns and with a given one; where they
\* do not, it finds those of the nodes without parents.  Pseudocounts count as
\* no observation (BayesianNetworkEngine, estimateCPTs, DirichletLearner).
InferenceIsExact ==
    /\ answer.about = "posterior" =>
           /\ answer.q \notin DOMAIN answer.evidence =>
                  /\ Proportional(answer.exact, answer.elimination)
                  /\ Proportional(answer.exact, answer.junction)
           /\ Polytree(truth) => Proportional(answer.exact, answer.propagation)
           /\ Proportional(answer.exact, answer.weighting)
           /\ \A S \in SUBSET Nodes :
                  LET cpt == SomeCPT(truth)
                  IN  Proportional(<<JointWeight(truth, cpt, S \ {answer.q}),
                                     JointWeight(truth, cpt, S \cup {answer.q})>>,
                                   answer.gibbs[S])
    /\ answer.about = "tables" =>
           /\ \A k \in DOMAIN answer.cells :
                  /\ answer.cells[k] = answer.estimates[k[1]][k[2]]
                  /\ answer.cells[k] = answer.given[k[1]][k[2]]
                  /\ Parents(truth, k[1]) = {} => answer.cells[k] = answer.mixed[k[1]][k[2]]
           /\ \A r \in ToSet(answer.rows), v \in Nodes :
                  <<v, r \cap Parents(truth, v)>> \in DOMAIN answer.cells
           /\ TotalObservations(answer.cells, 1) = N * (22 + Len(answer.rows))

Support(items) == Cardinality({t \in DOMAIN answer.traces : items \subseteq answer.traces[t]})
IsPath(p) == \A i \in 1..(Len(p) - 1) : <<p[i], p[i + 1]>> \in truth
\* What the analyses report is there: a path goes along edges, has no shortcut
\* over two of them and leads from a reported cause to an anomaly, a root weighs
\* by the anomalies it reaches, and each root above an anomaly can be walked to.
\* Several diagnoses of one set of anomalies never take up an anomaly again,
\* and one that changes nothing is repeated to the end.  FP-growth mines
\* exactly the sets with enough support, with their support.  A service that
\* no signal puts below another is ranked above it, and a column that never
\* moves is no anomaly where another is (HeuristicPathRCA, RandomWalkRCA,
\* CIRCAPipeline, diagnoseMulti, mineFrequentItemsets, MultiSourceRanker,
\* madAnomalyDetection).
DiagnosesAreGrounded ==
    /\ answer.about = "causes" =>
           /\ \A p \in answer.path.paths \cup answer.circa.paths :
                  /\ IsPath(p) /\ Last(p) \in answer.anomalous
                  /\ Head(p) \in ToSet(answer.path.ranked) \cup ToSet(answer.circa.ranked)
                  /\ \A i \in 1..(Len(p) - 2) : <<p[i], p[i + 2]>> \notin truth
           /\ \A r \in GraphRoots(truth) :
                  LET above == {v \in answer.anomalous : v = r \/ <<r, v>> \in Reach(truth)}
                  IN  /\ answer.path.scores[r] =
                             answer.cpts[r][{}]
                                 * (8^Cardinality(above \ {r}))
                                 * (5^Cardinality(answer.anomalous \ above))
                                 * (IF r \in above THEN 10 ELSE 1)
                      /\ above \ {r} # {} => r \in answer.walk
           /\ \A i, j \in DOMAIN answer.multi : i < j =>
                  /\ answer.multi[j].anomalous \subseteq answer.multi[i].anomalous
                  /\ answer.multi[j] # answer.multi[i] =>
                         LET top == answer.multi[i].ranking[1]
                         IN  answer.multi[j].anomalous \cap ({top} \cup Children(truth, top)) = {}
                  /\ answer.multi[j] = answer.multi[i]
                         => Len(answer.multi) = N + 1 /\ answer.multi[i] = Last(answer.multi)
    /\ answer.about = "patterns" =>
           answer.found.mined = {[items |-> S, count |-> Support(S)] :
                                     S \in {T \in SUBSET Nodes \ {{}} : Support(T) >= answer.least}}
    /\ answer.about = "fusion" =>
           \A i, j \in DOMAIN answer.ranked :
               LET u == answer.ranked[i]
                   v == answer.ranked[j]
                   beats(s) == /\ {u, v} \subseteq DOMAIN answer.signals[s]
                               /\ answer.signals[s][v] > answer.signals[s][u]
               IN  beats(1) /\ beats(2) => j < i
    /\ answer.about = "anomalies" =>
           LET still == {v \in Nodes : \A i \in DOMAIN answer.table[v] :
                                           answer.table[v][i] = answer.table[v][1]}
           IN  still \cap answer.found # {} => answer.found = FirstThree

\* The distance between DAGs is a metric, so that the jumps of a drift add up;
\* both ways of asking for drift agree on the same windows, there is a severity
\* exactly if there is a drift, and the drift point is the first of the
\* greatest jumps.  The fingerprint of a DAG does not depend on the names of
\* the nodes and reaches all of them.
ComparisonsAgree ==
    /\ answer.about = "drift" =>
           /\ \A i, j, k \in 1..3 :
                  /\ answer.distance[<<i, k>>] <= answer.distance[<<i, j>>] + answer.distance[<<j, k>>]
                  /\ answer.distance[<<i, j>>] = answer.distance[<<j, i>>]
                  /\ answer.distance[<<i, j>>] = 0 <=> answer.graphs[i] = answer.graphs[j]
           /\ answer.online = answer.offline
           /\ \A c \in DriftConfigs : ~answer.short[c].drifted
           /\ \A v \in {answer.online[c] : c \in DriftConfigs} :
                  /\ v.drifted <=> v.severity # "none"
                  /\ v.point > 0 => /\ v.drifted
                                    /\ \A i \in 1..2 :
                                           LET jump == answer.jumps[i]
                                           IN  IF i < v.point
                                               THEN Below(jump, answer.jumps[v.point])
                                               ELSE ~Below(answer.jumps[v.point], jump)
    /\ answer.about = "fingerprint" =>
           /\ answer.print = answer.renamed
           /\ answer.print.reachable = N /\ answer.print.maxDepth < N

\* Judgements about a model or a family of graphs: a local Markov test fails
\* only for a node and a node its model separates from it, never for the
\* true DAG, a model that makes dependent nodes independent is falsified, and
\* no edge of the true DAG is called spurious.  What is stable is in more than
\* half of all subsamples, so never both ways, and StARS prefers a parameter
\* whose subsamples agree.  Joined variables are in one cluster and clusters
\* are numbered without a gap.  Restarts agree on the first best score unless
\* one is NaN.  FCI, BOSS and NOTEARS are never the algorithm that is advised.
JudgementsAreSound ==
    /\ answer.about = "falsification" =>
           /\ \A v \in answer.lmc : \E w \in Nodes \ {v} :
                  /\ MoralSeparated(answer.model, v, w, Parents(answer.model, v))
                  /\ <<v, w, Parents(answer.model, v)>> \notin answer.found
           /\ answer.model = truth => answer.lmc = {} /\ answer.verdict.spurious = {}
           /\ (\E p \in Pairs : /\ MoralSeparated(answer.model, p[1], p[2], {})
                               /\ <<p[1], p[2], {}>> \notin answer.found) => answer.verdict.falsified
    /\ answer.about = "stability" =>
           /\ \A e \in answer.stable :
                  /\ 2 * Counted(answer.samples, e) > Len(answer.samples)
                  /\ <<e[2], e[1]>> \notin answer.stable
           /\ answer.samples[1] # {} /\ answer.samples = [s \in 1..3 |-> answer.samples[1]] =>
                  answer.stars.param = 1 /\ {answer.stars.graph} = answer.samples[1]
    /\ answer.about = "clusters" =>
           LET id == answer.found.id
           IN  /\ \A p \in answer.links : p[1] \in DOMAIN id <=> p[2] \in DOMAIN id
               /\ \A p \in answer.links : p[1] \in DOMAIN id => id[p[1]] = id[p[2]]
               /\ {id[v] : v \in DOMAIN id} = 0..(answer.found.n - 1)
               /\ \A c \in 0..(answer.found.n - 1) : Cardinality({v \in DOMAIN id : id[v] = c}) >= 3
    /\ answer.about = "restarts" =>
           LET nan  == NaN
               real == {i \in 1..3 : answer.scores[i] \notin {nan, Infinity}}
               best == {i \in real : \A j \in real : answer.scores[i] <= answer.scores[j]}
           IN  /\ answer.sequential = IF real = {} THEN 0 ELSE Min(best)
               /\ answer.scores[1] # nan =>
                      answer.parallel = IF real = {} THEN 1 ELSE Min(best)
    /\ answer.about = "choice" =>
           /\ answer.top[1].algorithm \notin {"fci", "boss", "notears"}
           /\ \A r \in 1..2 : answer.top[r].confidence >= answer.top[r + 1].confidence
    /\ answer.about = "ranks" =>
           LET alike(sign) == \A i, j \in 1..3 :
                   answer.a[i] < answer.a[j] <=> sign * answer.b[i] < sign * answer.b[j]
           IN  /\ alike(1) => answer.tau = <<3, 3>>
               /\ alike(-1) /\ Cardinality(ToSet(answer.a)) = 3 => answer.tau = <<-3, 3>>

\* What the program says about several graphs, or about a graph and data.
ComparisonsAreSound == ComparisonsAgree /\ JudgementsAreSound


\* The threshold of a child's column decides about its parents' columns too: of
\* a parent whose values are all ten times those of the child nothing is learned
\* but under "anomalous", and of a parent whose values are a tenth nothing but
\* under "normal".
TablesDiverge(a) ==
    \A v \in Nodes : \A up \in SUBSET Parents(truth, v) :
        \/ 0 \in Parents(truth, v) \ up
        \/ v = 0 /\ up # {}
        => a.mixed[v][up] = <<1, 2>>
\* What the code does where its own documentation says something else: each
\* clause is one disagreement, and holds of what the code computes for every
\* small input.  The clauses of ModelChecks, the tables of estimateCPTs whose
\* columns have different units, and the first phase of PCMCI+, which accepts
\* nothing at all (cate-meta-learners.ts, meta-learners.ts, effect-
\* estimation.ts, policy-learning.ts, structural-causal-model.ts, uplift.ts,
\* cate-fairness.ts, causal-inference.ts, federated-dp.ts, refutation-
\* extensions.ts, bayesian-network.ts, pcmci-plus.ts).
DivergesAsFound(a) ==
    CASE a.about = "effects"     -> EffectsDiverge(a.input)
      [] a.about = "policy"      -> PolicyDiverges(a.input[1], a.input[2], a.input[3])
      [] a.about = "structure"   -> StructureDiverges(a.input, Cardinality(a.input))
      [] a.about = "evaluation"  -> EvaluationDiverges(a.input)
      [] a.about = "federation"  -> FederationDiverges(<<a.input[1], a.input[2]>>, a.input[3], Whole(a.input[4]))
      [] a.about = "refuters"    -> RefutersDiverge([r \in 1..4 |-> Wholes(a.input[1][r])], a.input[2])
      [] a.about = "simulations" -> SimulationsDiverge(a.input[1], a.input[2], Whole(a.input[3]))
      [] a.about = "tables"      -> TablesDiverge(a)
      [] a.about = "series"      -> a.plus = {}
      [] OTHER -> TRUE
DivergencesAreAsFound == [][DivergesAsFound(answer')]_answer
===============================================================================
