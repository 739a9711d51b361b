----------------------------- MODULE MCServices -----------------------------
(* The stores, the distributed discovery and the stream analyses do not      *)
(* share state: `part` says which of them a behaviour is about, and the      *)
(* others stay as they start.                                                *)
EXTENDS RelationalStore, GraphStores, DistributedDiscovery, Streaming

CONSTANTS s1, s2, m1, r1, r2, n1, n2, c1, c2

VARIABLE part

vars == <<part, storeVars, graphVars, distVars, streamVars>>

-----------------------------------------------------------------------------
(* Values of the constants *)

SavedTogether == {{r1, r2}}

SmallGraphs == {[nodes |-> {n1}, edges |-> {}], [nodes |-> {n1, n2}, edges |-> {<<n1, n2>>}]}

\* Every strategy, merge and backend, with no worker, one, fewer and more
\* than there are processes with a clock.
Configurations ==
    {[strategy |-> t[1], count |-> t[2], merge |-> t[3], ciBackend |-> t[4]] :
        t \in {<<"round-robin", 0, "fisher-method", "cmiknn">>,
               <<"round-robin", 1, "fisher-method", "cmiknn">>,
               <<"round-robin", 2, "weighted-mean", "parcorr">>,
               <<"round-robin", 4, "majority-vote", "cmiknn">>,
               <<"least-loaded", 2, "fisher-method", "parcorr">>,
               <<"least-loaded", 2, "majority-vote", "cmiknn">>,
               <<"least-loaded", 4, "fisher-method", "cmiknn">>,
               <<"partition-aware", 2, "fisher-method", "cmiknn">>,
               <<"partition-aware", 2, "majority-vote", "parcorr">>,
               <<"partition-aware", 4, "weighted-mean", "cmiknn">>}}
PairsOfVariables == {{i, j} : i, j \in Vars}
\* The first pair is independent at once or dependent given the third.
SomeDatasets ==
    {[p \in PairsOfVariables |->
         CASE p = {0, 1} -> [alone |-> "high", given |-> l]
           [] p = {1, 2} -> [alone |-> "low", given |-> "high"]
           [] OTHER      -> [alone |-> "zero", given |-> "zero"]] : l \in {"high", "low"}}
SomeProcesses == {Coordinator, Worker(0), Worker(1)}

SomeRegimes == {{}, {<<0, 1>>, <<1, 2>>}, {<<0, 1>>, <<2, 1>>}}
SomeEngines ==
    {[window |-> 12, minBatch |-> 10, maxDegree |-> -1, stability |-> 2],
     [window |-> 12, minBatch |-> 5, maxDegree |-> 1, stability |-> 3]}
SomePipelines ==
    {[window |-> 11, slide |-> 2, history |-> 13],
     [window |-> 14, slide |-> 3, history |-> 12]}

-----------------------------------------------------------------------------
(* Composition *)

FirstEngine == CHOOSE c \in SomeEngines : TRUE
FirstPipeline == CHOOSE p \in SomePipelines : TRUE
FirstSetup == CHOOSE s \in Configurations : TRUE

Others(p) ==
    /\ part = p
    /\ p # "relational" => StoreInit("embedded")
    /\ p # "graphs" => GraphInit("embedded")
    /\ p # "distributed" => DistInit(FirstSetup)
Init ==
    \/ /\ Others("relational")
       /\ \E k \in Stores : StoreInit(k)
       /\ StreamInit(FirstEngine, FirstPipeline)
    \/ /\ Others("graphs")
       /\ \E k \in {"embedded", "remote"} : GraphInit(k)
       /\ StreamInit(FirstEngine, FirstPipeline)
    \/ /\ Others("distributed")
       /\ \E s \in Configurations : DistInit(s)
       /\ StreamInit(FirstEngine, FirstPipeline)
    \/ /\ Others("online")
       /\ \E c \in SomeEngines : StreamInit(c, FirstPipeline)
    \/ /\ Others("pipeline")
       /\ \E p \in SomePipelines : StreamInit(FirstEngine, p)

Next ==
    \/ /\ part = "relational"
       /\ StoreNext
       /\ UNCHANGED <<part, graphVars, distVars, streamVars>>
    \/ /\ part = "graphs"
       /\ GraphNext
       /\ UNCHANGED <<part, storeVars, distVars, streamVars>>
    \/ /\ part = "distributed"
       /\ DistNext
       /\ UNCHANGED <<part, storeVars, graphVars, streamVars>>
    \/ /\ part = "online"
       /\ OnlineNext
       /\ UNCHANGED <<part, storeVars, graphVars, distVars>>
    \/ /\ part = "pipeline"
       /\ PipelineNext
       /\ UNCHANGED <<part, storeVars, graphVars, distVars>>

Spec == Init /\ [][Next]_vars /\ StoreFairness
=============================================================================
