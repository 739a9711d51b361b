---------------------------- MODULE LaggedSearches ----------------------------
(***************************************************************************)
(* Discovery over time series: pcmci.ts, the part of pcmci-plus.ts that *)
(* can run, and tsicd.ts, with exact tests.  A process is a set of <<i, j, lag>>: the    *)
(* value of i, lag steps ago, has an effect on j.  A column of the design  *)
(* matrix is a pair <<variable, lag>>; its dependences are those of the    *)
(* process unrolled over Slices steps.                                     *)
(***************************************************************************)
EXTENDS Integers, FiniteSets, FiniteSetsExt, SequencesExt, TLC

CONSTANTS D,            \* variables of the series
          TauMax, MaxCondVars,
          Slices        \* steps the process is unrolled over

Unrolled(nodes) == INSTANCE CausalSemantics WITH N <- nodes

Variables == 0..(D - 1)
LaggedCols == Variables \X (1..TauMax)
Columns == Variables \X (0..TauMax)

NodeOf(col) == (Slices - 1 - col[2]) * D + col[1]
Unroll(process) ==
    UNION {{<<(s - e[3]) * D + e[1], s * D + e[2]>> : s \in e[3]..(Slices - 1)} : e \in process}
\* What the tests on the design matrix find: <<a, b, S>> when the columns a and
\* b are independent given the columns S.
IndependentColumns(process) ==
    LET g == Unroll(process)
    IN  {t \in Columns \X Columns \X SUBSET Columns :
             /\ t[1] # t[2] /\ {t[1], t[2]} \cap t[3] = {}
             /\ Unrolled(D * Slices)!MoralSeparated(g, NodeOf(t[1]), NodeOf(t[2]), {NodeOf(c) : c \in t[3]})}

-----------------------------------------------------------------------------
(* pcmciAlgorithm *)

\* Mutant: the search for parents ends with as many as may be conditioned on.
FewAcceptedStrictly(accepted) == Len(accepted) < MaxCondVars
FewAccepted(accepted) == Len(accepted) <= MaxCondVars
\* Candidates by ascending p-value, each tested given the parents accepted
\* before it, until there are more of those than may be conditioned on.
PC1(tests, j, byPValue) ==
    LET dependent == SelectSeq(byPValue, LAMBDA c : <<<<j, 0>>, c, {}>> \notin tests)
    IN  FoldLeft(LAMBDA accepted, c :
                     IF /\ FewAccepted(accepted)
                        /\ <<<<j, 0>>, c, {accepted[k] : k \in 1..(IF Len(accepted) < MaxCondVars
                                               THEN Len(accepted) ELSE MaxCondVars)}>> \notin tests
                     THEN Append(accepted, c) ELSE accepted,
                 <<>>, dependent)

\* The parents of the source come first, then those of the target, without
\* repetition; only the first MaxCondVars are used.  The source itself is
\* among the parents of the target.
Conditions(parents, c, j) ==
    LET all == parents[c[1]] \o SelectSeq(parents[j], LAMBDA p : p \notin ToSet(parents[c[1]]))
    IN  ToSet(SubSeq(all, 1, IF Len(all) < MaxCondVars THEN Len(all) ELSE MaxCondVars))

\* A source that is also conditioned on makes the covariance matrix singular:
\* the inversion skips a pivot, and the test comes out as if the source had
\* not been conditioned on or, for the edges in `lost`, as independence.
MCI(tests, parents, lost) ==
    {e \in {<<c[1], j, c[2]>> : j \in Variables, c \in LaggedCols} :
        LET c == <<e[1], e[3]>>
            S == Conditions(parents, c, e[2])
        IN  /\ c \in ToSet(parents[e[2]])
            /\ ~(c \in S /\ e \in lost)
            /\ <<<<e[2], 0>>, c, S \ {c}>> \notin tests}

PCMCI(tests, byPValue, lost) ==
    LET parents == [j \in Variables |-> PC1(tests, j, byPValue[j])]
    IN  [parents |-> parents, edges |-> MCI(tests, parents, lost)]

-----------------------------------------------------------------------------
(* pcmciPlusAlgorithm *)

\* For every size of the conditioning set: a candidate is tested given the
\* first s accepted ones besides itself, if there are as many, and is accepted
\* or dropped by the result; from the second size on only accepted ones are.
PlusCandidate(tests, j, s, cands, accepted, c) ==
    LET others == SelectSeq(cands, LAMBDA p : p \in accepted /\ p # c)
    IN  IF (c \notin accepted /\ s > 1) \/ Len(others) < s THEN accepted
        ELSE IF <<<<j, 0>>, c, ToSet(SubSeq(others, 1, s))>> \notin tests
        THEN accepted \cup {c} ELSE accepted \ {c}
PlusParents(tests, j, cands) ==
    FoldLeft(LAMBDA accepted, s :
                 FoldLeft(LAMBDA acc, c : PlusCandidate(tests, j, s, cands, acc, c), accepted, cands),
             {}, [s \in 1..MaxCondVars |-> s])
-----------------------------------------------------------------------------
(* tsIcdAlgorithm.  Its matrix keeps the lags of a variable together: column i *)
(* holds variable i \div (TauMax + 1) at lag i % (TauMax + 1).  The adjacency   *)
(* keys "i-j", though, take the present value of variable j to be in column j. *)

Width == D * (TauMax + 1)
ColumnAt(i) == <<i \div (TauMax + 1), i % (TauMax + 1)>>
AllKeys == {<<p[1], p[2]>> : p \in {q \in Variables \X Variables : q[1] < q[2]}}
               \cup {<<p[1], p[2][1] * (TauMax + 1) + p[2][2]>> : p \in Variables \X LaggedCols}
\* getNeighbors looks for the smaller number first, however the key was added.
KeyNeighbors(adj, i) ==
    {k \in 0..(Width - 1) : k # i /\ (IF i < k THEN <<i, k>> ELSE <<k, i>>) \in adj}

\* A column comes out as independent of itself given anything at all.
Apart(tests, key, S) ==
    IF key[1] = key[2] THEN S # {}
    ELSE <<ColumnAt(key[1]), ColumnAt(key[2]), {ColumnAt(c) : c \in S}>> \in tests
SeparatorsOf(tests, adj, key, depth) ==
    {S \in kSubset(depth, (KeyNeighbors(adj, key[1]) \cup KeyNeighbors(adj, key[2]))
                              \ {key[1], key[2]}) : Apart(tests, key, S)}

\* A level tests against the keys it began with; one that removes none is the
\* last.  sep has a set for each pair of columns that was separated.
IcdLevel(tests, st, depth) ==
    LET sets == [key \in st.adj |-> SeparatorsOf(tests, st.adj, key, depth)]
        gone == {key \in st.adj : sets[key] # {}}
    IN  IF ~st.changed THEN st
        ELSE [adj     |-> st.adj \ gone,
              changed |-> gone # {},
              sep     |-> [key \in gone |-> CHOOSE S \in sets[key] : TRUE] @@ st.sep]
IcdSkeleton(tests) ==
    FoldLeft(LAMBDA st, depth : IcdLevel(tests, st, depth),
             [adj |-> AllKeys, changed |-> TRUE, sep |-> <<>>], [k \in 1..(Width + 1) |-> k - 1])

\* Lagged edges by what their keys were meant to be: key <<i, column of j at
\* lag>> is reported as j -> i with that lag.
LaggedEdges(adj) ==
    {<<p[2][1], p[1], p[2][2]>> : p \in {q \in Variables \X LaggedCols :
        <<q[1], q[2][1] * (TauMax + 1) + q[2][2]>> \in adj}}
\* Pairs i < j without a key, and a k joined to both that did not separate them.
IcdColliders(st) ==
    {t \in Variables \X Variables \X Variables :
        /\ t[1] < t[2] /\ t[3] \notin {t[1], t[2]} /\ <<t[1], t[2]>> \notin st.adj
        /\ {<<t[1], t[3]>>, <<t[2], t[3]>>} \subseteq st.adj
        /\ <<t[1], t[2]>> \in DOMAIN st.sep => t[3] * (TauMax + 1) \notin st.sep[<<t[1], t[2]>>]}
\* Every pair with a key then gets the direction with the better score: `up`
\* are the pairs i < j for which it is i -> j.
TsIcd(tests, up) ==
    LET st == IcdSkeleton(tests)
        collided == UNION {{<<t[1], t[3]>>, <<t[2], t[3]>>} : t \in IcdColliders(st)}
        pairs == {key \in st.adj : key[1] < key[2] /\ key[2] \in Variables}
    IN  [adj |-> st.adj, lagged |-> LaggedEdges(st.adj),
         contemporaneous |->
             (collided \ (pairs \cup {<<p[2], p[1]>> : p \in pairs}))
                 \cup {IF p \in up THEN p ELSE <<p[2], p[1]>> : p \in pairs}]
===============================================================================
