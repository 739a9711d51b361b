--------------------------- MODULE MCPCAlgorithm ---------------------------
(* Five nodes.  The data come from any DAG over the first four, node 4       *)
(* standing alone, so that the first level removes edges and the search      *)
(* goes on to the next ones; or from a DAG in which nothing is independent   *)
(* to begin with.  The knowledge forbids, requires, roots and leaves, alone  *)
(* and against each other.                                                   *)
EXTENDS PCAlgorithm

Chain == {<<0, 1>>, <<1, 2>>, <<2, 3>>, <<3, 4>>}
MCTruths == DagsOver({e \in Pairs : e[2] < 4}) \cup {Chain, Pairs}
MCMaxDegree == -1
MCKnowledge ==
    {NoKnowledge,
     [NoKnowledge EXCEPT !.forbids = {<<0, 1>>}, !.roots = {2}],
     [NoKnowledge EXCEPT !.requires = <<<<3, 0>>, <<0, 1>>>>],
     [NoKnowledge EXCEPT !.forbids = {<<0, 1>>}, !.requires = <<<<1, 0>>>>],
     [NoKnowledge EXCEPT !.requires = <<<<1, 2>>, <<2, 1>>>>],
     [NoKnowledge EXCEPT !.requires = <<<<1, 2>>>>, !.roots = {2}, !.leaves = {3}]}
=============================================================================
