-------------------------- MODULE RootCauseAnalysis --------------------------
(***************************************************************************)
(* Root cause analysis of pipeline/src/analyze: the heuristic path,        *)
(* random walk, hypothesis testing and frequent pattern analyses (rca.ts), *)
(* CIRCA's regression scores with descendant adjustment (circa.ts) and the *)
(* fusion of signals (multi-source-ranker.ts).                             *)
(*                                                                         *)
(* Observations are sets: a row is the set of the nodes above their        *)
(* threshold in it.  A score is a whole number, the code's value times the *)
(* scale named beside it, so that scores compare as the code's do.         *)
(***************************************************************************)
EXTENDS CausalGraph

\* A sort by descending score keeps equal scores in the order of the nodes.
Ranked(S, score) ==
    SetToSortSeq(S, LAMBDA a, b : score[a] > score[b] \/ (score[a] = score[b] /\ a < b))
UpTo(n, seq) == SubSeq(seq, 1, IF Len(seq) < n THEN Len(seq) ELSE n)
GraphRoots(g) == {v \in Nodes : Parents(g, v) = {}}
LeastOf(a, b) == IF a < b THEN a ELSE b
Largest(S) == IF S = {} THEN 0 ELSE Max(S)

-----------------------------------------------------------------------------
(* HeuristicPathRCA: probabilities in thousandths *)

Clamped(p) == IF p < 10 THEN 10 ELSE IF p > 990 THEN 990 ELSE p
RowsWith(rows, v) == Cardinality({r \in DOMAIN rows : v \in rows[r]})

\* The table of a root is its prior, raised by half if it is known to be
\* anomalous; that of another node has one entry for each combination of
\* anomalous parents in the rows.
Train(g, anomalies, rows) ==
    [v \in Nodes |->
        LET seen == {rows[r] \cap Parents(g, v) : r \in DOMAIN rows}
            like(k) == SelectSeq(rows, LAMBDA r : r \cap Parents(g, v) = k)
            base(k) == Clamped((1000 * RowsWith(like(k), v)) \div Len(like(k)))
        IN  [k \in seen |-> IF Parents(g, v) = {} /\ v \in anomalies
                            THEN LeastOf(990, (base(k) * 3) \div 2)
                            ELSE base(k)]]

\* shortestPath: breadth first; a node keeps the first parent that reached it.
BreadthFirst(g, from) ==
    FoldLeft(LAMBDA st, i :
                 IF i > Len(st.queue) THEN st
                 ELSE LET u   == st.queue[i]
                          new == InOrder(Children(g, u) \ ToSet(st.queue))
                      IN  [queue |-> st.queue \o new,
                           prev  |-> [v \in Nodes |-> IF v \in ToSet(new) THEN u ELSE st.prev[v]]],
             [queue |-> <<from>>, prev |-> [v \in Nodes |-> v]],
             [i \in 1..N |-> i])
ShortestPath(g, from, to) ==
    LET bfs == BreadthFirst(g, from)
    IN  IF to \notin ToSet(bfs.queue) THEN <<>>
        ELSE FoldLeft(LAMBDA path, i : IF Head(path) = from THEN path
                                       ELSE <<bfs.prev[Head(path)]>> \o path,
                      <<to>>, NodeSeq)

\* The score of a root: its prior times 0.8 for each other anomalous node a
\* path leads to and 0.5 for each without one (times 10 per anomalous node).
PathScore(g, cpts, anomalous, root) ==
    FoldLeft(LAMBDA s, v : s * (IF v = root THEN 10
                                ELSE IF ShortestPath(g, root, v) # <<>> THEN 8 ELSE 5),
             cpts[root][{}], InOrder(anomalous))
HeuristicPathRCA(g, anomalous, rows) ==
    LET cpts   == Train(g, anomalous, rows)
        score  == [r \in GraphRoots(g) |-> PathScore(g, cpts, anomalous, r)]
        ranked == Ranked(GraphRoots(g), score)
    IN  [ranked |-> ranked,
         scores |-> score,
         paths  |-> {ShortestPath(g, r, v) : r \in ToSet(UpTo(3, ranked)), v \in anomalous}
                        \ {<<>>}]

-----------------------------------------------------------------------------
(* RandomWalkRCA, HTRCA *)

\* A walk goes to a parent if there is one and to a child otherwise; the roots
\* its steps come to from the anomalous nodes, on some draw, are counted.
WalkCandidates(g, v) == IF Parents(g, v) # {} THEN Parents(g, v) ELSE Children(g, v)
Walked(g, start, steps) ==
    FoldLeft(LAMBDA st, i : LET next == UNION {WalkCandidates(g, v) : v \in st.at}
                            IN  [at |-> next, visited |-> st.visited \cup next],
             [at |-> {start}, visited |-> {}], [i \in 1..steps |-> i]).visited
RandomWalkRCA(g, anomalous, steps) ==
    GraphRoots(g) \cap UNION {Walked(g, v, steps) : v \in anomalous}

\* The regressions of roots have no deviation, so roots are never scored; z is
\* the largest deviation of a node from what its parents predict.
HTRCA(g, z) ==
    UpTo(5, Ranked(Nodes \ GraphRoots(g), [v \in Nodes |-> LeastOf(5, z[v])]))

-----------------------------------------------------------------------------
(* RHTScorer and DAScorer: scores times 10 *)

Aggregate(aggregator, zs) ==
    CASE zs = <<>>            -> 0
      [] aggregator = "max"  -> Max(ToSet(zs))
      [] aggregator = "sum"  -> FoldLeft(+, 0, zs)
      [] aggregator = "mean" -> FoldLeft(+, 0, zs) \div Len(zs)
RHTScores(zRows, aggregator) ==
    [v \in Nodes |-> Aggregate(aggregator, [r \in DOMAIN zRows |-> zRows[r][v]])]

\* topologicalLayers: a layer holds the nodes whose last parent was in the one
\* before; nodes on a cycle and below are in none and sort with layer 0.
Layers(g) ==
    FoldLeft(LAMBDA ls, i :
                 LET placed == UNION ToSet(ls)
                     next   == {v \in Nodes \ placed : Parents(g, v) \subseteq placed}
                 IN  IF next = {} THEN ls ELSE Append(ls, next),
             <<>>, NodeSeq)
LayerOf(g, v) ==
    LET at == {l \in DOMAIN Layers(g) : v \in Layers(g)[l]}
    IN  IF at = {} THEN 0 ELSE Min(at) - 1

\* Half of each anomalous parent's score is taken away, three tenths of the
\* largest score of an anomalous child added.
Adjust(g, z, threshold) ==
    [v \in Nodes |->
        LET loss == FoldLeft(LAMBDA s, p : s + 5 * z[p], 0,
                             InOrder({p \in Parents(g, v) : z[p] >= threshold}))
            gain == 3 * Largest({z[c] : c \in {w \in Children(g, v) : z[w] >= threshold}})
        IN  Largest({10 * z[v] - loss + gain} \cap Nat)]
DAScorer(g, z, config) ==
    LET raw   == IF config.enabled THEN Adjust(g, z, config.threshold)
                 ELSE [v \in Nodes |-> 10 * z[v]]
        score == [v \in Nodes |-> LeastOf(100, raw[v])]
    IN  SetToSortSeq(Nodes, LAMBDA a, b :
            \/ score[a] > score[b]
            \/ /\ score[a] = score[b]
               /\ \/ LayerOf(g, a) < LayerOf(g, b)
                  \/ LayerOf(g, a) = LayerOf(g, b) /\ a < b)

\* CIRCAPipeline: unlike HeuristicPathRCA, a cause has no path to itself.
CIRCA(g, zRows, anomalous, config) ==
    LET top == UpTo(5, DAScorer(g, RHTScores(zRows, config.aggregator), config))
    IN  [ranked |-> top,
         paths  |-> {ShortestPath(g, c, v) : c \in ToSet(top), v \in anomalous}
                        \ ({<<>>} \cup {<<v>> : v \in Nodes})]

-----------------------------------------------------------------------------
(* FPGrowthRCA: a transaction is the set of services of an abnormal trace *)

Weight(patterns, test(_)) ==
    FoldLeft(LAMBDA s, p : IF test(p.items) THEN s + p.count ELSE s, 0, patterns)
CountOf(patterns, i) == Weight(patterns, LAMBDA s : i \in s)
FrequentItems(patterns, items, minCount) ==
    LET counts == [i \in items |-> CountOf(patterns, i)]
    IN  Ranked({i \in items : counts[i] >= minCount /\ counts[i] > 0}, counts)

\* mineFPTree: every frequent item of the patterns extends the prefix, and the
\* patterns that hold it, without it, are mined in turn.  What is mined after some
\* items were taken is the patterns that hold them all, without them: a pattern
\* that lost its last item, or counts nothing, makes no item frequent.
MineFPTree(patterns, prefix, minCount) ==
    LET within(taken) == [p \in DOMAIN patterns |->
                             [items |-> patterns[p].items \ taken,
                              count |-> IF taken \subseteq patterns[p].items
                                        THEN patterns[p].count ELSE 0]]
        mined[taken \in SUBSET Nodes] ==
            UNION {{[items |-> prefix \cup taken \cup {i}, count |-> CountOf(within(taken), i)]}
                      \cup mined[taken \cup {i}] :
                   i \in ToSet(FrequentItems(within(taken), Nodes, minCount))}
    IN  mined[{}]

\* The nodes of the tree are the distinct prefixes of the sorted transactions;
\* the header chain of an item visits those that end in it.
\* Mutant: a new node of the tree starts without the transaction that makes it.
ConditionalPatternsLate(sorted, item) ==
    LET tree == {p \in UNION {Prefixes(t) : t \in ToSet(sorted)} : Len(p) > 1 /\ Last(p) = item}
    IN  SetToSeq({[path |-> p, items |-> ToSet(Front(p)),
                   count |-> Len(SelectSeq(sorted, LAMBDA t : IsPrefix(p, t))) - 1] : p \in tree})
ConditionalPatterns(sorted, item) ==
    LET tree == {p \in UNION {Prefixes(t) : t \in ToSet(sorted)} : Len(p) > 1 /\ Last(p) = item}
    IN  SetToSeq({[path |-> p, items |-> ToSet(Front(p)),
                   count |-> Len(SelectSeq(sorted, LAMBDA t : IsPrefix(p, t)))] : p \in tree})
MineFrequentItemsets(transactions, minCount) ==
    LET single   == [t \in DOMAIN transactions |-> [items |-> transactions[t], count |-> 1]]
        frequent == FrequentItems(single, Nodes, minCount)
        sorted   == [t \in DOMAIN transactions |->
                        SelectSeq(frequent, LAMBDA i : i \in transactions[t])]
    IN  UNION {{[items |-> {i}, count |-> CountOf(single, i)]}
                  \cup MineFPTree(ConditionalPatterns(sorted, i), {i}, minCount) :
               i \in ToSet(frequent)}

\* Scores times 10 * Len(transactions) * (calls of the service): four tenths
\* for the imbalance of its calls, six for its most frequent pattern.
FPGrowthRCA(transactions, calls, minCount) ==
    LET mined == MineFrequentItemsets(transactions, minCount)
        into(v) == Len(SelectSeq(calls, LAMBDA c : c[2] = v))
        out(v)  == Len(SelectSeq(calls, LAMBDA c : c[1] = v))
        pattern(v) == Largest({m.count : m \in {p \in mined : v \in p.items}})
    IN  [mined |-> mined,
         score |-> [v \in Nodes |->
            [imbalance |-> Largest({into(v) - out(v), out(v) - into(v)}),
             calls     |-> Max({1, into(v) + out(v)}),
             pattern   |-> pattern(v)]]]

-----------------------------------------------------------------------------
(* MultiSourceRanker: a signal is a partial function from services to whole *)
(* numbers; the scaled value of a service is a pair <<numerator, range>>.   *)

ScaleTo01(raw) ==
    LET vals  == {raw[v] : v \in DOMAIN raw}
        range == IF vals = {} THEN 1 ELSE Max({1, Max(vals) - Min(vals)})
    IN  [v \in Nodes |-> IF v \in DOMAIN raw THEN <<raw[v] - Min(vals), range>> ELSE <<0, 1>>]
\* The fused score, times the product of the ranges and of the weights' scale.
Fused(signals, weights) ==
    LET scaled == [s \in DOMAIN signals |-> ScaleTo01(signals[s])]
        range(s) == Max({scaled[s][v][2] : v \in Nodes})
        others(s) == FoldLeft(LAMBDA p, t : IF t = s THEN p ELSE p * range(t), 1,
                              [t \in DOMAIN signals |-> t])
    IN  [v \in Nodes |->
            FoldLeft(LAMBDA sum, s : sum + weights[s] * others(s) * scaled[s][v][1], 0,
                     [s \in DOMAIN signals |-> s])]
RankSignals(signals, weights) == Ranked(Nodes, Fused(signals, weights))
=============================================================================
