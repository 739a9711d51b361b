-------------------------- MODULE ConstraintSearches --------------------------
(***************************************************************************)
(* The constraint-based searches of pipeline/src/graph beside PC: FCI,     *)
(* Markov blankets and targeted discovery (advanced-discovery.ts), the     *)
(* refinement of GFCI (gfci.ts), RFCI (rfci.ts), CD-NOD (cdnod.ts), FASK   *)
(* (fask.ts), CCD (ccd.ts), MVPC (mvpc.ts) and PC-Max (pc-max.ts), with    *)
(* maxDegree at its default, no limit.                                     *)
(*                                                                         *)
(* The independence tests are exact: their answers are those of a DAG, the *)
(* truth.  Of several sets that separate a pair, which one is kept makes   *)
(* no difference to an exact test.  A step is a level of the skeleton, the *)
(* retest of a node, or a loop over the triples of nodes.                  *)
(***************************************************************************)
EXTENDS CausalGraph

VARIABLES method,   \* the search
          truth,    \* the DAG the data come from
          tests,    \* the <<i, j, S>> for which i and j are independent given S
          phase,    \* of the search, up to "done"
          g,        \* the graph; for a blanket, an edge from the target to each member
          sep,      \* the separating sets, {} for none
          at,       \* the next depth, node to retest or rule; for a blanket, the target
          round,    \* of the orientation rules
          before    \* g when the round began
vars == <<method, truth, tests, phase, g, sep, at, round, before>>

IndependenciesOf(dag) ==
    {t \in Nodes \X Nodes \X SUBSET Nodes :
        /\ t[1] # t[2] /\ {t[1], t[2]} \cap t[3] = {}
        /\ MoralSeparated(dag, t[1], t[2], t[3])}
Independent(i, j, S) == <<i, j, S>> \in tests

Points(h, a, b) == <<a, b>> \in h /\ <<b, a>> \notin h
Lines(h, a, b) == <<a, b>> \in h /\ <<b, a>> \in h

\* RFCI, CD-NOD and FASK remove i -> j for an independent pair i < j, and not
\* j -> i.
WithoutMarginals == CompleteGraph \ {p \in Pairs : Independent(p[1], p[2], {})}
\* CCD tests both orders and removes both directions.
WithoutBothWays == {e \in CompleteGraph : ~Independent(e[1], e[2], {})}

\* Nested loops over i and j, and over i, j and k; op sees what those before made.
EachPair(base, op(_, _)) ==
    FoldLeft(LAMBDA a, i : FoldLeft(LAMBDA b, j : op(b, <<i, j>>), a, NodeSeq), base, NodeSeq)
EachTriple(base, op(_, _)) ==
    EachPair(base, LAMBDA a, p : FoldLeft(LAMBDA b, k : op(b, Append(p, k)), a, NodeSeq))

Methods == {"blanket", "fci", "gfci", "rfci", "cdnod", "fask", "ccd", "mvpc", "pcmax"}
Init ==
    /\ truth \in Dags /\ tests = IndependenciesOf(truth)
    /\ method \in Methods
    /\ \/ method = "blanket" /\ g = {} /\ at \in Nodes /\ phase = "grow"
       \/ method \in {"fci", "mvpc", "pcmax"} /\ g = CompleteGraph /\ at = 0 /\ phase = "thin"
       \/ method \in {"rfci", "cdnod", "fask"} /\ g = WithoutMarginals /\ at = 1 /\ phase = "thin"
       \/ method = "ccd" /\ g = WithoutBothWays /\ at = 1 /\ phase = "thin"
          \* What GES found.  Its edges all have a direction, and the skeleton
          \* phase, which looks at neighbours without one, removes nothing.
       \/ /\ method = "gfci" /\ at = 0 /\ phase = "retest"
          /\ g \in {h \in Orientations({p \in Pairs : Adjacent(truth, p[1], p[2])}) :
                        MarkovEquivalent(h, truth)}
    /\ sep = [p \in Pairs |-> {}]
    /\ round = 0 /\ before = {}

\* tsFciAlgorithm runs FCI on the present values and on those some steps ago:
\* node v is variable v now, node v + N \div 2 the same variable then.  What
\* happened before is not observed, so the tests are not those of a DAG over
\* the nodes; `direct` are its edges between them.
TsFciInit(direct, found) ==
    /\ method = "tsfci" /\ truth = direct /\ tests = found
    /\ g = CompleteGraph /\ at = 0 /\ phase = "thin"
    /\ sep = [p \in Pairs |-> {}]
    /\ round = 0 /\ before = {}
\* The edges across time, whichever end they start from, by variable.
LagGraph(h) ==
    LET d == N \div 2
    IN  {<<e[1] % d, e[2] % d>> : e \in {f \in h : (f[1] < d) # (f[2] < d)}}

-----------------------------------------------------------------------------
(* Skeletons *)

Separators(h, i, j, depth) ==
    {S \in kSubset(depth, Neighbors(h, i) \ {j}) : Independent(i, j, S)}
Some(sets) == CHOOSE S \in sets : TRUE

\* One level of FCI: the tests see the graph as it was when the level began.
FCILevel ==
    LET sets(p) == Separators(g, p[1], p[2], at)
        gone == {p \in Pairs : Lines(g, p[1], p[2]) /\ sets(p) # {}}
        over == gone = {} \/ at = N
    IN  /\ method \in {"fci", "tsfci"} /\ phase = "thin"
        /\ g' = RemoveEdges(g, gone)
        /\ sep' = [p \in Pairs |-> IF p \in gone THEN Some(sets(p)) ELSE sep[p]]
        /\ phase' = IF over THEN "retest" ELSE "thin"
        /\ at' = IF over THEN 0 ELSE at + 1
        /\ UNCHANGED <<method, truth, tests, round, before>>

\* One pair i < j: only neighbours of i are conditioned on, as the pairs before
\* left them.
\* Mutant: the first set of the right size separates, whatever the test says.
ThinPairUntested(st, p) ==
    LET sets == kSubset(at, Neighbors(st.g, p[1]) \ {p[2]})
    IN  IF p \in Pairs /\ p \in st.g /\ sets # {}
        THEN [g |-> RemoveEdges(st.g, {p}), sep |-> [st.sep EXCEPT ![p] = Some(sets)]]
        ELSE st
ThinPair(st, p) ==
    LET sets == Separators(st.g, p[1], p[2], at)
    IN  IF p \in Pairs /\ p \in st.g /\ sets # {}
        THEN [g |-> RemoveEdges(st.g, {p}), sep |-> [st.sep EXCEPT ![p] = Some(sets)]]
        ELSE st
Thinned == EachPair([g |-> g, sep |-> sep], ThinPair)

\* One level of RFCI, CD-NOD, FASK and MVPC: one that removes nothing is the last.
ThinLevel ==
    /\ method \in {"rfci", "cdnod", "fask", "mvpc"} /\ phase = "thin"
    /\ g' = Thinned.g
    /\ sep' = Thinned.sep
    /\ phase' = IF g' # g /\ at < N THEN "thin"
                ELSE IF method = "fask" THEN "turn" ELSE "collide"
    /\ at' = at + 1
    /\ UNCHANGED <<method, truth, tests, round, before>>

\* One level of PC-Max, which repeats a level that removed something, except
\* that the first such level, at depth 0, ends the search.
PCMaxLevel ==
    /\ method = "pcmax" /\ phase = "thin"
    /\ g' = Thinned.g
    /\ at' = IF g' = g THEN at + 1 ELSE at
    /\ phase' = IF at' = N \/ (g' # g /\ at = 0) THEN "extend" ELSE "thin"
    /\ UNCHANGED <<method, truth, tests, sep, round, before>>

\* One level of CCD, which removes i -> j, and j -> i only if the neighbours
\* of j separate them too.
CCDLevel ==
    /\ method = "ccd" /\ phase = "thin"
    /\ g' = EachPair(g, LAMBDA h, e : IF e \in h /\ Separators(h, e[1], e[2], at) # {}
                                     THEN h \ {e} ELSE h)
    /\ phase' = IF g' # g /\ at < Min({N - 1, 5}) THEN "thin" ELSE "collide"
    /\ at' = at + 1
    /\ UNCHANGED <<method, truth, tests, sep, round, before>>

\* Possible-D-SEP: the nodes within two steps of i, whatever the marks; every
\* edge i -> j with i < j is tested again given one to three of them.
WithinTwo(h, i) ==
    LET step(S) == S \cup {w \in Nodes : \E v \in S : Adjacent(h, v, w)}
    IN  step(step({i})) \ {i}
Retest ==
    LET sets(j) == {S \in SUBSET (WithinTwo(g, at) \ {j}) :
                        Cardinality(S) \in 1..3 /\ Independent(at, j, S)}
        gone == {p \in Pairs : p[1] = at /\ p \in g /\ sets(p[2]) # {}}
    IN  /\ phase = "retest"
        /\ g' = RemoveEdges(g, gone)
        /\ sep' = [p \in Pairs |-> IF p \in gone THEN Some(sets(p[2])) ELSE sep[p]]
        /\ phase' = IF at = N - 1 THEN "collide" ELSE "retest"
        /\ at' = at + 1
        /\ UNCHANGED <<method, truth, tests, round, before>>

-----------------------------------------------------------------------------
(* Orientation.  i, j, k = t[1], t[2], t[3] are the indices of nested loops. *)

\* i -> k <- j for each pair without an edge i -> j whose set lacks k.
CollideAt(h, t) ==
    IF /\ t[1] < t[2] /\ t[3] \notin {t[1], t[2]} /\ <<t[1], t[2]>> \notin h
       /\ <<t[1], t[3]>> \in h /\ <<t[2], t[3]>> \in h
       /\ t[3] \notin sep[<<t[1], t[2]>>]
    THEN OrientEdge(OrientEdge(h, t[1], t[3]), t[2], t[3]) ELSE h
\* MVPC wants one-way edges into the middle and a dependence given it.
MVPCCollideAt(h, t) ==
    IF /\ t[1] < t[2] /\ t[3] \notin {t[1], t[2]} /\ <<t[1], t[2]>> \notin h
       /\ Points(h, t[1], t[3]) /\ Points(h, t[2], t[3])
       /\ ~Independent(t[1], t[2], {t[3]})
    THEN OrientEdge(OrientEdge(h, t[1], t[3]), t[2], t[3]) ELSE h
\* CCD takes every unshielded middle j.
CCDCollideAt(h, t) ==
    IF /\ Cardinality({t[1], t[2], t[3]}) = 3
       /\ <<t[1], t[2]>> \in h /\ <<t[3], t[2]>> \in h /\ ~Adjacent(h, t[1], t[3])
    THEN OrientEdge(OrientEdge(h, t[1], t[2]), t[3], t[2]) ELSE h

Collide ==
    /\ phase = "collide"
    /\ g' = CASE method = "mvpc" -> EachTriple(g, MVPCCollideAt)
              [] method = "ccd" -> EachTriple(g, CCDCollideAt)
              [] OTHER -> EachTriple(g, CollideAt)
    /\ phase' = CASE method = "cdnod" -> "extend" [] method = "ccd" -> "done" [] OTHER -> "orient"
    /\ at' = 1 /\ round' = 1 /\ before' = g'
    /\ UNCHANGED <<method, truth, tests, sep>>

\* Where each rule fires and the edge it orients, as positions in t.
Fires(rule, h, t) ==
    CASE rule \in {"R1", "R4"} ->
             Points(h, t[1], t[2]) /\ Lines(h, t[2], t[3]) /\ ~Adjacent(h, t[1], t[3])
      [] rule = "R2" -> Lines(h, t[1], t[2]) /\ Points(h, t[1], t[3]) /\ Points(h, t[3], t[2])
      [] rule = "R3" -> /\ Lines(h, t[1], t[2])
                        /\ Lines(h, t[1], t[3]) /\ Points(h, t[3], t[2])
                        /\ \E l \in Nodes \ {t[3]} : /\ Lines(h, t[1], l) /\ Points(h, l, t[2])
                                                    /\ ~Adjacent(h, t[3], l)
      [] rule = "R6" -> /\ Lines(h, t[1], t[2]) /\ Points(h, t[2], t[3])
                        /\ t[1] # t[3] /\ ~Adjacent(h, t[1], t[3])
      [] rule = "R7" -> /\ <<t[1], t[2]>> \in h /\ Lines(h, t[1], t[3]) /\ t[2] # t[3]
                        /\ ~HasDirectedPath(h, t[2], t[3])
      [] rule = "R9" -> Points(h, t[1], t[2]) /\ Points(h, t[1], t[3]) /\ Lines(h, t[2], t[3])
Orients == [r \in {"R1", "R2", "R3", "R4", "R6", "R7", "R9"} |->
               CASE r \in {"R1", "R4", "R9"} -> <<2, 3>> [] r \in {"R2", "R3"} -> <<1, 2>>
                 [] r = "R6" -> <<2, 1>> [] r = "R7" -> <<3, 1>>]
Applied(rule, h) ==
    IF Undirected(h) = {} THEN h
    ELSE EachTriple(h, LAMBDA a, t : IF Fires(rule, a, t)
                                     THEN OrientEdge(a, t[Orients[rule][1]], t[Orients[rule][2]])
                                     ELSE a)

\* FCI's R5 and R10 repeat R1 and its R8 repeats R2; R4, whose two branches
\* both orient away from the middle, runs when the rules before changed nothing.
RulesOf ==
    CASE method \in {"fci", "tsfci"} -> <<"R1", "R2", "R3", "R4", "R1", "R6", "R7", "R2", "R9", "R1">>
      [] method = "gfci" -> <<"R1", "R2", "R3">>
      [] OTHER -> <<"R1", "R2">>
Rounds == IF method = "rfci" THEN 3 ELSE 30
Orient ==
    LET rule == RulesOf[at]
        ends == at = Len(RulesOf)
    IN  /\ phase = "orient"
        /\ g' = IF rule = "R4" /\ g # before THEN g ELSE Applied(rule, g)
        /\ at' = IF ends THEN 1 ELSE at + 1
        /\ phase' = IF ends /\ (g' = before \/ round = Rounds) THEN "done" ELSE "orient"
        /\ round' = IF ends THEN round + 1 ELSE round
        /\ before' = IF ends THEN g' ELSE before
        /\ UNCHANGED <<method, truth, tests, sep>>

\* CD-NOD and PC-Max end with pdag2dag: the first node that can be a sink,
\* again and again.
Extend ==
    /\ phase = "extend"
    /\ LET open(h) == OpenPairs(g) \cap OpenPairs(h)
           into(h) == LET sinks == Sinks(h, open(h))
                      IN  IF sinks = {} THEN h ELSE OrientInto(h, open(h), Min(sinks))
       IN  g' = FoldLeft(LAMBDA h, i : into(h), g, NodeSeq)
    /\ phase' = "done"
    /\ UNCHANGED <<method, truth, tests, sep, at, round, before>>

-----------------------------------------------------------------------------
(* FASK *)

\* Skewness gives each pair left a direction, or none.
Turn ==
    /\ phase = "turn"
    /\ \E turned \in [{p \in Pairs : Lines(g, p[1], p[2])} -> {"up", "down", "no"}] :
           g' = {e \in g : LET p == IF e \in Pairs THEN e ELSE <<e[2], e[1]>>
                          IN  p \in DOMAIN turned =>
                                  turned[p] # (IF e = p THEN "down" ELSE "up")}
    /\ phase' = "break"
    /\ UNCHANGED <<method, truth, tests, sep, at, round, before>>

\* If a cycle is left - an edge without a direction is one - edges with a
\* direction are removed, in order, until there is none.
Break ==
    /\ phase = "break"
    /\ g' = EachPair(g, LAMBDA h, e : IF Points(g, e[1], e[2]) /\ HasCycle(h) THEN h \ {e} ELSE h)
    /\ phase' = "done"
    /\ UNCHANGED <<method, truth, tests, sep, at, round, before>>

-----------------------------------------------------------------------------
(* Markov blankets: growShrink, and targetedDiscovery on top of it. *)

Members(h) == {v \in Nodes : <<at, v>> \in h}
\* A pass adds what depends on the target given the blanket so far.
Grow ==
    /\ phase = "grow"
    /\ g' = FoldLeft(LAMBDA h, v : IF v \in Members(h) \cup {at} \/ Independent(at, v, Members(h))
                                  THEN h ELSE h \cup {<<at, v>>}, g, NodeSeq)
    /\ phase' = IF g' = g THEN "shrink" ELSE "grow"
    /\ UNCHANGED <<method, truth, tests, sep, at, round, before>>
Redundant(h, v) == v \in Members(h) /\ Independent(at, v, Members(h) \ {v})
Shrink ==
    /\ phase = "shrink"
    /\ g' = FoldLeft(LAMBDA h, v : IF Redundant(h, v) THEN h \ {<<at, v>>} ELSE h, g, NodeSeq)
    /\ phase' = IF g' = g THEN "target" ELSE "shrink"
    /\ UNCHANGED <<method, truth, tests, sep, at, round, before>>
\* The "parents" are the members that the rest of the blanket does not separate
\* from the target.
Target ==
    /\ phase = "target"
    /\ g' = {e \in g : ~Redundant(g, e[2])}
    /\ phase' = "done"
    /\ UNCHANGED <<method, truth, tests, sep, at, round, before>>

Next == FCILevel \/ ThinLevel \/ PCMaxLevel \/ CCDLevel \/ Retest \/ Collide \/ Orient
           \/ Extend \/ Turn \/ Break \/ Grow \/ Shrink \/ Target
Spec == Init /\ [][Next]_vars
=============================================================================
