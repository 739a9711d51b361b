------------------------------- MODULE RCAgent -------------------------------
(***************************************************************************)
(* The agent of pipeline/src/agent/rca-agent.ts over a graph that          *)
(* pcAlgorithm discovered.  A table is a function from services to columns *)
(* of whole numbers; averages and medians are kept over a common           *)
(* denominator, so comparisons are exact.  -0 and infinities do not occur. *)
(***************************************************************************)
EXTENDS RootCauseAnalysis

\* The level of pcAlgorithm, in 100000ths.
AdaptiveAlpha(n) ==
    IF n >= 500 THEN 5000 ELSE IF n <= 200 THEN 10000 ELSE 10000 - (5000 * (n - 200)) \div 300

-----------------------------------------------------------------------------
(* Detectors *)

Sorted(col) == SortSeq(col, <)
TwiceMedian(col) ==
    LET s == Sorted(col)
        n == Len(s)
    IN  IF n % 2 = 1 THEN 2 * s[n \div 2 + 1] ELSE s[n \div 2] + s[n \div 2 + 1]
Distance(a, b) == IF a < b THEN b - a ELSE a - b
\* Four times the median absolute deviation.
FourTimesMAD(col) ==
    TwiceMedian([i \in DOMAIN col |-> Distance(2 * col[i], TwiceMedian(col))])
Total(col) == FoldLeft(+, 0, col)
\* The last tail values; all of them when there are fewer.
Recent(col, tail) == SubSeq(col, IF Len(col) < tail THEN 1 ELSE Len(col) - tail + 1, Len(col))
FirstThree == {v \in Nodes : v < 3}
OrFirstThree(found) == IF found = {} THEN FirstThree ELSE found

\* The mean of the tail against the upper median; 0.6745 and the threshold in
\* ten thousandths, tail in tenths of the rows.
MadAnomalies(table, tailTenths, threshold) ==
    LET n    == Len(table[0])
        tail == Max({5, (n * tailTenths) \div 10})
        odd(v) == LET col   == table[v]
                      upper == Sorted(col)[n \div 2 + 1]
                      shift == Distance(Total(Recent(col, tail)), tail * upper)
                  IN  IF FourTimesMAD(col) = 0 THEN shift > 0
                      ELSE 4 * 6745 * shift > threshold * tail * FourTimesMAD(col)
    IN  IF n < 10 THEN FirstThree ELSE OrFirstThree({v \in Nodes : odd(v)})

\* The means' difference over the deviation, squared to avoid the root; a
\* column without deviation counts as deviation one.
ZscoreAnomalies(table, tailTenths, threshold) ==
    LET n    == Len(table[0])
        tail == Max({1, (n * tailTenths) \div 10})
        odd(v) == LET col   == table[v]
                      diff  == Distance(n * Total(Recent(col, tail)), tail * Total(col))
                      var   == Total([i \in DOMAIN col |-> (n * col[i] - Total(col)) * (n * col[i] - Total(col))])
                      scale == IF var = 0 THEN n * n * n ELSE var
                  IN  100 * diff * diff * n > threshold * threshold * tail * tail * scale
    IN  OrFirstThree({v \in Nodes : odd(v)})

DetectAnomalies(config, table) ==
    IF config.detector = "mad" THEN MadAnomalies(table, config.tail, config.threshold)
    ELSE ZscoreAnomalies(table, config.tail, config.threshold)

-----------------------------------------------------------------------------
(* Diagnoses *)

Rank(g, anomalous, rows) == HeuristicPathRCA(g, anomalous, rows).ranked
Diagnose(config, g, table, rows) ==
    LET anomalous == DetectAnomalies(config, table)
    IN  [anomalous |-> anomalous, ranking |-> Rank(g, anomalous, rows)]

\* Each round but the last takes the top cause and its children out of the
\* anomalies that remain.  A top cause that is none of them and has no child
\* among them leaves them as they are: the next round repeats this one.
DiagnoseMulti(g, given, rows, maxFaults) ==
    FoldLeft(LAMBDA st, i :
                 IF st.left = {} THEN st
                 ELSE LET ranking == Rank(g, st.left, rows)
                      IN  [done |-> Append(st.done, [anomalous |-> st.left, ranking |-> ranking]),
                           left |-> IF ranking = <<>> THEN st.left
                                    ELSE st.left \ ({ranking[1]} \cup Children(g, ranking[1]))],
             [done |-> <<>>, left |-> given], [i \in 1..maxFaults |-> i]).done

\* diagnoseV3: changes gives the changepoint the CUSUM detector reports for
\* each metric and the size of its shift; all services share the earliest.
CommonChangepoint(n, changes) ==
    Min({n \div 2} \cup {changes[m].at : m \in {k \in DOMAIN changes : changes[k].detected
                                                                        /\ changes[k].shift > 1}})
\* The largest distance from the median of the normal part, in halves, and the
\* spread of its middle half; no spread counts as next to nothing.
RobustScore(col, cp) ==
    LET normal == Sorted(SubSeq(col, 1, Max({1, cp})))
        n      == Len(normal)
        spread == Distance(normal[(3 * n) \div 4 + 1], normal[n \div 4 + 1])
        far    == Largest({Distance(2 * col[i], TwiceMedian(normal)) : i \in (cp + 1)..Len(col)})
    IN  [far |-> far, spread |-> spread]
\* Scores in six hundredths; a column of nearly constant normal values has a
\* score beyond all others as soon as it moves.
Huge == 1000000
ScoreV3(g, table, cp, v) ==
    LET r == RobustScore(table[v], cp)
        base == IF r.far = 0 THEN 0 ELSE IF r.spread = 0 THEN Huge ELSE (250 * r.far) \div r.spread
    IN  IF Parents(g, v) = {} THEN (base * 6) \div 5 ELSE base
DiagnoseV3(g, table, changes) ==
    LET n      == Len(table[0])
        cp     == CommonChangepoint(n, changes)
        scored == IF n < 10 THEN {} ELSE Nodes
    IN  IF n < 2 \/ N = 0 THEN [ranking |-> <<>>, anomalous |-> {}]
        ELSE [ranking   |-> Ranked(scored, [v \in Nodes |-> ScoreV3(g, table, cp, v)]),
              anomalous |-> {v \in scored : LET r == RobustScore(table[v], cp)
                                            IN  r.far > 4 * r.spread}]

-----------------------------------------------------------------------------
(* Reasoning with a language model: a reply is an HTTP error, a network     *)
(* error, or the content of a message, which need not hold an object.       *)

CallLLM(hasKey, reply) ==
    CASE ~hasKey                  -> [object |-> TRUE, component |-> "LLM_UNAVAILABLE"]
      [] reply.kind = "http"      -> [object |-> TRUE, component |-> "API_ERROR"]
      [] reply.kind = "network"   -> [object |-> TRUE, component |-> "API_ERROR"]
      [] reply.kind = "empty"     -> [object |-> TRUE, component |-> "none"]
      [] reply.kind = "message"   -> [object |-> reply.object, component |-> reply.component]
ParseResponse(raw) ==
    IF raw.object /\ raw.component # "none" THEN raw.component ELSE "UNKNOWN"
Reason(hasKey, reply) == ParseResponse(CallLLM(hasKey, reply))
=============================================================================
