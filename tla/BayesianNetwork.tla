--------------------------- MODULE BayesianNetwork ---------------------------
(***************************************************************************)
(* Inference in binary Bayesian networks (pipeline/src/infer/              *)
(* bayesian-network.ts).  A table gives, for a node and the set of its     *)
(* anomalous parents, the probability in quarters that the node is           *)
(* anomalous.  A factor has a scope and a value for each set of anomalous  *)
(* variables of the scope; values stay unnormalised whole numbers, and a   *)
(* posterior is the pair of weights <<normal, anomalous>>.                 *)
(***************************************************************************)
EXTENDS CausalGraph

One == 4                                            \* probability one
Entry(cpt, v, up) == IF up \in DOMAIN cpt[v] THEN cpt[v][up] ELSE One \div 2
Chance(cpt, v, up, anomalous) ==
    IF anomalous THEN Entry(cpt, v, up) ELSE One - Entry(cpt, v, up)

\* Evidence is a partial function from nodes to BOOLEAN.
Agrees(S, evidence) == \A v \in DOMAIN evidence : (v \in S) = evidence[v]
Assignments == [i \in 1..(2^N) |-> {v \in Nodes : ((i - 1) \div 2^v) % 2 = 1}]
\* The weights of the assignments that agree, by the state of the query.
Totals(query, evidence, weight(_)) ==
    FoldLeft(LAMBDA t, S : IF ~Agrees(S, evidence) THEN t
                           ELSE IF query \in S THEN <<t[1], t[2] + weight(S)>>
                           ELSE <<t[1] + weight(S), t[2]>>,
             <<0, 0>>, Assignments)

-----------------------------------------------------------------------------
(* Factors *)

CptToFactor(g, cpt, v) ==
    LET scope == Parents(g, v) \cup {v}
    IN  [scope |-> scope,
         value |-> [S \in SUBSET scope |-> Chance(cpt, v, S \ {v}, v \in S)]]
FactorMultiply(a, b) ==
    LET scope == a.scope \cup b.scope
    IN  [scope |-> scope,
         value |-> [S \in SUBSET scope |-> a.value[S \cap a.scope] * b.value[S \cap b.scope]]]
FactorMarginalize(f, v) ==
    IF v \notin f.scope THEN f
    ELSE [scope |-> f.scope \ {v},
          value |-> [S \in SUBSET (f.scope \ {v}) |-> f.value[S] + f.value[S \cup {v}]]]
\* Mutant: the entries of the other state are kept.
FactorReduceFlipped(f, v, anomalous) ==
    IF v \notin f.scope THEN f
    ELSE [scope |-> f.scope \ {v},
          value |-> [S \in SUBSET (f.scope \ {v}) |->
                        f.value[IF anomalous THEN S ELSE S \cup {v}]]]
FactorReduce(f, v, anomalous) ==
    IF v \notin f.scope THEN f
    ELSE [scope |-> f.scope \ {v},
          value |-> [S \in SUBSET (f.scope \ {v}) |->
                        f.value[IF anomalous THEN S \cup {v} ELSE S]]]
Factors(g, cpt) == [i \in 1..N |-> CptToFactor(g, cpt, i - 1)]
ReduceAll(f, evidence) ==
    FoldLeft(LAMBDA h, v : IF v \in DOMAIN evidence THEN FactorReduce(h, v, evidence[v]) ELSE h,
             f, NodeSeq)
Product(fs) == FoldLeft(FactorMultiply, [scope |-> {}, value |-> [S \in {{}} |-> 1]], fs)
MarginalOf(f, v) ==
    FoldLeft(LAMBDA h, w : IF w = v THEN h ELSE FactorMarginalize(h, w), f, NodeSeq)
PosteriorOf(f, v) == IF v \in f.scope THEN <<f.value[{}], f.value[{v}]>> ELSE <<f.value[{}]>>

-----------------------------------------------------------------------------
(* Exact inference *)

\* variableElimination, over the variables in the order the factors name them.
VariableElimination(fs, query, evidence) ==
    LET active == [i \in DOMAIN fs |-> ReduceAll(fs[i], evidence)]
        order  == SelectSeq(NodeSeq, LAMBDA v : v # query /\ v \notin DOMAIN evidence)
        eliminate(gs, v) ==
            LET related == SelectSeq(gs, LAMBDA f : v \in f.scope)
            IN  SelectSeq(gs, LAMBDA f : v \notin f.scope)
                    \o <<FactorMarginalize(Product(related), v)>>
    IN  PosteriorOf(Product(FoldLeft(eliminate, active, order)), query)

\* junctionTreeInference: the cliques that the order makes of the factors are
\* multiplied into one; a variable that is observed is in none of them.
JunctionTree(fs, query, evidence) ==
    LET active == [i \in DOMAIN fs |-> ReduceAll(fs[i], evidence)]
        degree == [v \in Nodes |-> Len(SelectSeq(active, LAMBDA f : v \in f.scope))]
        order  == SetToSortSeq({v \in Nodes : degree[v] > 0},
                               LAMBDA a, b : degree[a] < degree[b]
                                             \/ (degree[a] = degree[b] /\ a < b))
        clique(st, v) ==
            LET group == SelectSeq(st.left, LAMBDA f : v \in f.scope)
            IN  IF group = <<>> THEN st
                ELSE [left    |-> SelectSeq(st.left, LAMBDA f : v \notin f.scope),
                      cliques |-> Append(st.cliques, Product(group))]
        joint  == Product(FoldLeft(clique, [left |-> active, cliques |-> <<>>], order).cliques)
    IN  IF query \in joint.scope THEN PosteriorOf(MarginalOf(joint, query), query) ELSE <<1, 1>>

\* bruteForceOracle
JointWeight(g, cpt, S) ==
    FoldLeft(LAMBDA p, v : p * Chance(cpt, v, Parents(g, v) \cap S, v \in S), 1, NodeSeq)
Oracle(g, cpt, query, evidence) ==
    Totals(query, evidence, LAMBDA S : JointWeight(g, cpt, S))

-----------------------------------------------------------------------------
(* Loopy belief propagation without damping.  Messages are factors over one *)
(* variable; a round sends all of factor to variable, then all the others.  *)

Flat(v) == [scope |-> {v}, value |-> [S \in SUBSET {v} |-> 1]]
ToVariables(fs, evidence, fromVars) ==
    [i \in DOMAIN fs |->
        LET f == ReduceAll(fs[i], evidence)
            others(v) == InOrder(f.scope \ {v})
            into(v) == FoldLeft(LAMBDA p, w : FactorMultiply(p, fromVars[w][i]), f, others(v))
        IN  [v \in f.scope |-> MarginalOf(into(v), v)]]
Incoming(fs, toVars, v, but) ==
    SelectSeq([i \in DOMAIN fs |-> IF v \in DOMAIN toVars[i] /\ i # but
                                   THEN toVars[i][v] ELSE [scope |-> {}, value |-> <<>>]],
              LAMBDA m : m.scope # {})
ToFactors(fs, evidence, toVars, fromVars) ==
    [v \in Nodes |-> [i \in DOMAIN fs |->
        IF v \in DOMAIN evidence \/ v \notin fs[i].scope \/ Incoming(fs, toVars, v, i) = <<>>
        THEN fromVars[v][i] ELSE Product(Incoming(fs, toVars, v, i))]]
BeliefPropagation(fs, query, evidence, rounds) ==
    LET round(st, i) ==
            LET toVars == ToVariables(fs, evidence, st.fromVars)
            IN  [toVars |-> toVars, fromVars |-> ToFactors(fs, evidence, toVars, st.fromVars)]
        start == [toVars   |-> <<>>,
                  fromVars |-> [v \in Nodes |-> [i \in DOMAIN fs |-> Flat(v)]]]
        final == FoldLeft(round, start, [i \in 1..rounds |-> i])
    IN  IF query \in DOMAIN evidence
        THEN (IF evidence[query] THEN <<0, 1>> ELSE <<1, 0>>)
        ELSE PosteriorOf(Product(Incoming(fs, final.toVars, query, 0)), query)

-----------------------------------------------------------------------------
(* Sampling *)

\* The weight of a sample of likelihoodWeighting times the chance to draw it,
\* for the nodes in the order given; a parent that has no value yet makes the
\* table's key one that is not in the table.
SampleWeight(g, cpt, order, S, evidence) ==
    FoldLeft(LAMBDA st, v :
                 [set    |-> st.set \cup {v},
                  weight |-> st.weight * (IF Parents(g, v) \subseteq st.set
                                          THEN Chance(cpt, v, Parents(g, v) \cap S, v \in S)
                                          ELSE One \div 2)],
             [set |-> {}, weight |-> 1], order).weight
LikelihoodWeighting(g, cpt, order, query, evidence) ==
    Totals(query, evidence, LAMBDA S : SampleWeight(g, cpt, order, S, evidence))

\* gibbsSampleNode: the weights of the two states of v, the others as in S.
GibbsWeights(g, cpt, v, S) ==
    LET under(T) == FoldLeft(LAMBDA p, c : p * Chance(cpt, c, Parents(g, c) \cap T, c \in S), 1,
                             InOrder(Children(g, v)))
        of(T, anomalous) == Chance(cpt, v, Parents(g, v) \cap S, anomalous) * under(T)
    IN  <<of(S \ {v}, FALSE), of(S \cup {v}, TRUE)>>

-----------------------------------------------------------------------------
(* Learning tables.  Estimates are pairs <<anomalous, total>> with the       *)
(* pseudocounts added.                                                       *)

\* A row of data gives every node a whole number.  A value is above a column's
\* threshold, its mean and 2.5 standard deviations, if it exceeds the mean m
\* and (x - m)^2 > 6.25 * var; `given` is options.threshold, or Default.
Default == -1
Exceeds(x, column, given) ==
    LET n    == Len(column)
        sum  == FoldLeft(LAMBDA s, u : s + u, 0, column)
        sq   == FoldLeft(LAMBDA s, u : s + u * u, 0, column)
        away == n * x - sum
    IN  IF given # Default THEN x > given
        ELSE away > 0 /\ 4 * away * away > 25 * (n * sq - sum * sum)
\* A node's table is made with the threshold of its own column, for the columns
\* of its parents too.
EstimateCPTs(g, data, alpha, given) ==
    [v \in Nodes |->
        LET column  == [i \in DOMAIN data |-> data[i][v]]
            reached == {x \in {data[i][u] : i \in DOMAIN data, u \in Nodes} : Exceeds(x, column, given)}
            above(i) == {u \in Parents(g, v) \cup {v} : data[i][u] \in reached}
            seen    == [i \in DOMAIN data |-> above(i)]
        IN  [up \in SUBSET Parents(g, v) |->
                LET like == SelectSeq(seen, LAMBDA S : S \ {v} = up)
                IN  <<Len(SelectSeq(like, LAMBDA S : v \in S)) + alpha, Len(like) + 2 * alpha>>]]

\* DirichletLearner: one update for each node and row, which its caller gives as
\* the set of the anomalous nodes.
Update(cells, alpha, v, up, anomalous) ==
    LET old == IF <<v, up>> \in DOMAIN cells THEN cells[<<v, up>>] ELSE <<alpha, 2 * alpha>>
    IN  (<<v, up>> :> <<old[1] + (IF anomalous THEN 1 ELSE 0), old[2] + 1>>) @@ cells
Learn(g, rows, alpha) ==
    FoldLeft(LAMBDA cells, r :
                 FoldLeft(LAMBDA c, v : Update(c, alpha, v, r \cap Parents(g, v), v \in r),
                          cells, NodeSeq),
             <<>>, rows)
GetCPT(cells, v, up) == IF <<v, up>> \in DOMAIN cells THEN cells[<<v, up>>] ELSE <<1, 2>>
TotalObservations(cells, alpha) ==
    Max({0, FoldSet(LAMBDA k, s : s + cells[k][2] - 2 * alpha, 0, DOMAIN cells)})
=============================================================================
