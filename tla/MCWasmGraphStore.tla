-------------------------- MODULE MCWasmGraphStore --------------------------
(* Two graphs with one edge of different weight, over two pages: versions    *)
(* overlap statement by statement, and after the reload a version number is  *)
(* used again, for the edge with the other weight.                           *)
EXTENDS WasmGraphStore

MCGraphs == {[nodes |-> {"a", "b"}, edges |-> {<<"a", "b", "light">>}],
             [nodes |-> {"a", "b"}, edges |-> {<<"a", "b", "heavy">>}]}
=============================================================================
