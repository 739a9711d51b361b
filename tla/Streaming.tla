------------------------------ MODULE Streaming ------------------------------
(***************************************************************************)
(* Analysis of streams in pipeline/src: OnlinePC (streaming-discovery.ts)  *)
(* keeps a graph that changes only when several windows in a row agree;    *)
(* StreamingPipeline (streaming.ts) looks for anomalies in a sliding       *)
(* window and ranks their causes.                                          *)
(*                                                                         *)
(* A row is its number; the window it falls into is tested exactly against *)
(* one of Regimes, the graphs the data may come from at that time.         *)
(***************************************************************************)
EXTENDS RootCauseAnalysis

CONSTANTS Regimes,             \* DAGs over Nodes
          Engines,             \* configurations: window, minBatch, maxDegree, stability
          BatchSizes,          \* lengths of the batches given to update
          MaxWindows,          \* bound: discovery iterations
          Pipelines,           \* configurations: window, slide, history
          MaxPoints,           \* bound: points ingested
          MaxGaps              \* bound: buffered points with a missing value

\* The sizes are counts; windows, batches and slides are not empty.
ASSUME StreamAssumption ==
    /\ \A c \in Engines : c.window \in Nat \ {0} /\ c.minBatch \in Nat \ {0}
                          /\ c.stability \in Int
    /\ \A p \in Pipelines : p.window \in Nat \ {0} /\ p.slide \in Nat \ {0} /\ p.history \in Nat
    /\ BatchSizes \subseteq Nat

VARIABLES
    engine,            \* configuration of OnlinePC
    buffer,            \* slot of the circular buffer -> row in it, 0 if none yet
    bufferIdx,
    bufferFill,
    totalObs,
    graph,             \* the committed graph
    pendingAdditions,  \* pair -> windows in a row that had an edge to add
    pendingRemovals,
    changeCount,
    verdicts,          \* ghost: the skeletons found, in order
    pipeline,          \* configuration of StreamingPipeline
    pointCount,
    points,            \* the rows buffered, [at |-> number, whole |-> no NaN in it]
    emitted            \* the last result: "none" or the rows, anomalies and causes

engineVars   == <<engine, buffer, bufferIdx, bufferFill, totalObs, graph,
                  pendingAdditions, pendingRemovals, changeCount, verdicts>>
pipelineVars == <<pipeline, pointCount, points, emitted>>
streamVars   == <<engineVars, pipelineVars>>

None == [rows |-> <<>>, anomalies |-> {}, causes |-> <<>>]

\* The constructors.
StreamInit(c, p) ==
    /\ engine = c
    /\ buffer = [s \in 0..(c.window - 1) |-> 0]
    /\ bufferIdx = 0 /\ bufferFill = 0 /\ totalObs = 0
    /\ graph = {} /\ changeCount = 0 /\ verdicts = <<>>
    /\ pendingAdditions = [q \in Pairs |-> 0]
    /\ pendingRemovals = [q \in Pairs |-> 0]
    /\ pipeline = p
    /\ pointCount = 0 /\ points = <<>> /\ emitted = None

-----------------------------------------------------------------------------
(* OnlinePC: one iteration on the window *)

\* The conditioning sets of a size that the masks enumerate: they reach no
\* further than the first size + 1 other neighbours.
CondSetsTried(others, size) == kSubset(size, ToSet(UpTo(size + 1, others)))
\* Node i, on the neighbours it has now, loses at most one edge.
Prune(regime, g, i, depth) ==
    LET near   == Neighbors(g, i)
        cut(j) == /\ j > i
                  /\ Cardinality(near \ {j}) >= depth
                  /\ \E S \in CondSetsTried(InOrder(near \ {j}), depth) :
                         DSeparated(regime, i, j, S)
        first  == {j \in near : cut(j) /\ \A k \in near : cut(k) => j <= k}
    IN  RemoveEdges(g, {<<i, j>> : j \in first})
\* Depth by depth, until a depth removes nothing.
OnlineSkeleton(regime, maxDegree) ==
    LET maxDepth == IF maxDegree = -1 THEN N ELSE maxDegree
        level(g, depth) == FoldLeft(LAMBDA h, i : Prune(regime, h, i, depth), g, NodeSeq)
    IN  FoldLeft(LAMBDA st, d : IF ~st.changed THEN st
                                ELSE LET h == level(st.g, d - 1)
                                     IN  [g |-> h, changed |-> h # st.g],
                 [g |-> Skeleton(Pairs), changed |-> TRUE],
                 [d \in 1..(maxDepth + 1) |-> d]).g
\* The separating sets are looked up in a map that is never filled: every
\* common neighbour of two nodes that are not adjacent becomes a collider.
OnlineColliders(skeleton) ==
    FoldLeft(LAMBDA g, t : IF /\ t[1] < t[2] /\ ~(<<t[1], t[2]>> \in g)
                              /\ t[3] \notin {t[1], t[2]}
                              /\ <<t[1], t[3]>> \in g /\ <<t[2], t[3]>> \in g
                           THEN OrientEdge(OrientEdge(g, t[1], t[3]), t[2], t[3])
                           ELSE g,
             skeleton, TripleSeq)

\* What an iteration finds under each regime.
FoundIn == [regime \in Regimes, maxDegree \in {e.maxDegree : e \in Engines} |->
               OnlineColliders(OnlineSkeleton(regime, maxDegree))]

\* applyStabilityCheck looks at adjacencies only.  An edge that is added points
\* from the earlier node to the later one, whatever was found.
\* Mutant: a window that agrees with the graph leaves the counts alone.
StabilityCheckForgetful(found) ==
    LET have(q) == Adjacent(graph, q[1], q[2])
        want(q) == Adjacent(found, q[1], q[2])
        adds    == {q \in Pairs : ~have(q) /\ want(q)}
        drops   == {q \in Pairs : have(q) /\ ~want(q)}
        added   == {q \in adds : pendingAdditions[q] + 1 >= engine.stability}
        dropped == {q \in drops : pendingRemovals[q] + 1 >= engine.stability}
    IN  /\ graph' = RemoveEdges(graph, dropped) \cup added
        /\ pendingAdditions' = [q \in Pairs |-> IF q \in adds \ added THEN pendingAdditions[q] + 1
                                                ELSE IF q \in added THEN 0 ELSE pendingAdditions[q]]
        /\ pendingRemovals' = [q \in Pairs |-> IF q \in drops \ dropped THEN pendingRemovals[q] + 1
                                               ELSE IF q \in dropped THEN 0 ELSE pendingRemovals[q]]
        /\ changeCount' = changeCount + Cardinality(added \cup dropped)
StabilityCheck(found) ==
    LET have(q) == Adjacent(graph, q[1], q[2])
        want(q) == Adjacent(found, q[1], q[2])
        adds    == {q \in Pairs : ~have(q) /\ want(q)}
        drops   == {q \in Pairs : have(q) /\ ~want(q)}
        added   == {q \in adds : pendingAdditions[q] + 1 >= engine.stability}
        dropped == {q \in drops : pendingRemovals[q] + 1 >= engine.stability}
    IN  /\ graph' = RemoveEdges(graph, dropped) \cup added
        /\ pendingAdditions' = [q \in Pairs |-> IF q \in adds \ added
                                                THEN pendingAdditions[q] + 1 ELSE 0]
        /\ pendingRemovals' = [q \in Pairs |-> IF q \in drops \ dropped
                                               THEN pendingRemovals[q] + 1 ELSE 0]
        /\ changeCount' = changeCount + Cardinality(added \cup dropped)

RunDiscoveryIteration(fill) ==
    IF fill < 10
    THEN UNCHANGED <<graph, pendingAdditions, pendingRemovals, changeCount, verdicts>>
    ELSE \E regime \in Regimes :
            LET found == FoundIn[regime, engine.maxDegree]
            IN  /\ StabilityCheck(found)
                /\ verdicts' = Append(verdicts, Skeleton(found))

-----------------------------------------------------------------------------
(* OnlinePC: operations *)

\* update: row by row into the circular buffer; discovery runs when the rows
\* seen so far are a multiple of the least batch and the buffer holds one.
PushRow(b, row) ==
    LET w == engine.window
    IN  [rows |-> [b.rows EXCEPT ![b.idx] = row],
         idx  |-> (b.idx + 1) % w,
         fill |-> IF b.fill < w THEN b.fill + 1 ELSE b.fill]
Update(k) ==
    LET filled == FoldLeft(PushRow, [rows |-> buffer, idx |-> bufferIdx, fill |-> bufferFill],
                           [r \in 1..k |-> totalObs + r])
        due    == filled.fill >= engine.minBatch /\ (totalObs + k) % engine.minBatch = 0
    IN  /\ Len(verdicts) < MaxWindows
        /\ totalObs' = totalObs + k
        /\ buffer' = filled.rows
        /\ bufferIdx' = filled.idx
        /\ bufferFill' = filled.fill
        /\ IF due THEN RunDiscoveryIteration(filled.fill)
           ELSE UNCHANGED <<graph, pendingAdditions, pendingRemovals, changeCount, verdicts>>
        /\ UNCHANGED <<engine, pipelineVars>>

ForceRecompute ==
    /\ Len(verdicts) < MaxWindows
    /\ RunDiscoveryIteration(bufferFill)
    /\ UNCHANGED <<engine, buffer, bufferIdx, bufferFill, totalObs, pipelineVars>>

-----------------------------------------------------------------------------
(* StreamingPipeline *)

\* The rows in order, without those with a missing value.
KeepWhole(clean, r) == IF r.whole THEN Append(clean, r) ELSE clean

\* processWindow: rows with a missing value are left out, and fewer than ten
\* rows give an empty result; the detector says which nodes are anomalous.
ProcessWindow(kept) ==
    LET n     == Len(kept)
        rows  == SubSeq(kept, n - LeastOf(pipeline.window, n) + 1, n)
        clean == FoldLeft(KeepWhole, <<>>, rows)
    IN  IF Len(clean) < 10 THEN emitted' = None
        ELSE \E odd \in {{}, {0}, Nodes} :
                emitted' = IF odd = {} THEN None
                           ELSE [rows      |-> [r \in DOMAIN clean |-> clean[r].at],
                                 anomalies |-> odd,
                                 causes    |-> HeuristicPathRCA(CHOOSE g \in Regimes : TRUE, odd,
                                                   [r \in DOMAIN clean |-> {}]).ranked]

Ingest(whole) ==
    LET at   == pointCount + 1
        kept == LET all == Append(points, [at |-> at, whole |-> whole])
                IN  IF Len(all) > pipeline.history THEN Tail(all) ELSE all
    IN  /\ pointCount < MaxPoints
        /\ whole \/ Len(SelectSeq(points, LAMBDA r : ~r.whole)) < MaxGaps
        /\ pointCount' = at
        /\ points' = kept
        /\ IF at % pipeline.slide = 0 /\ at >= pipeline.window
           THEN ProcessWindow(kept)
           ELSE emitted' = None
        /\ UNCHANGED <<pipeline, engineVars>>

OnlineNext == ForceRecompute \/ \E k \in BatchSizes : Update(k)
PipelineNext == \E whole \in BOOLEAN : Ingest(whole)

\* Either part of a stream, of any configuration.
StreamSpec ==
    /\ \E c \in Engines, p \in Pipelines : StreamInit(c, p)
    /\ [][OnlineNext \/ PipelineNext]_streamVars

-----------------------------------------------------------------------------
(* Properties *)

\* The verdict of the last run of engine.stability windows that agree on a pair.
LastAgreed(q) ==
    LET k == engine.stability
        ends == {t \in k..Len(verdicts) :
                    \A u \in (t - k + 1)..t : (q \in verdicts[u]) = (q \in verdicts[t])}
    IN  ends # {} /\ q \in verdicts[Max(ends)]

\* What a stream answers rests on its latest windows.  Two nodes are adjacent
\* in the committed graph exactly if the last `stabilityWindows` windows in a row
\* to agree about them found an edge: a disagreement shorter than that, however
\* often it comes back, neither adds nor removes one (applyStabilityCheck of
\* streaming-discovery.ts).  The circular buffer of OnlinePC holds the latest
\* rows, as many as fit, in the slots the covariance loop reads; a result of
\* StreamingPipeline is made of whole rows of its window only, the newest of
\* which may be left out.
WindowsDecide ==
    /\ engine.stability > 0 =>
           \A q \in Pairs : Adjacent(graph, q[1], q[2]) <=> LastAgreed(q)
    /\ {buffer[s] : s \in 0..(bufferFill - 1)} = (totalObs - bufferFill + 1)..totalObs
    /\ \A r \in DOMAIN emitted.rows :
           emitted.rows[r] \in (pointCount - pipeline.window + 1)..pointCount
=============================================================================
