---------------------------- MODULE GraphStores ----------------------------
(***************************************************************************)
(* The graph stores storage-embed/src/embed-graph-store.ts (OverGraph) and *)
(* storage-remote/src/remote-graph-store.ts (Neo4j), for one graph id.     *)
(* Both count versions in the memory of the process; a version is stored   *)
(* by merging the graph's nodes and edges into what has that number.       *)
(*                                                                         *)
(* The embedded store runs a call synchronously.  The remote one awaits    *)
(* the database at every query, and runs a call again when it fails.       *)
(***************************************************************************)
EXTENDS Integers, FiniteSetsExt

CONSTANTS Graphs,        \* the graphs saved, records of nodes and edges
          GraphCallers,  \* who calls the store, concurrently
          MaxAttempts,   \* config.maxRetries
          MaxGraphCalls, \* bound: calls
          MaxReloads     \* bound: restarts of the process

\* A load cannot tell a graph without nodes from no graph.
ASSUME GraphsAssumption ==
    \A g \in Graphs : g = [nodes |-> g.nodes, edges |-> g.edges] /\ g.nodes # {}

VARIABLES
    gkind,     \* "embedded" or "remote"
    stored,    \* the database: the nodes and edges of each version written
    counter,   \* vers, versionCounter
    gcalls,    \* the call of each caller: running, or ended with its result
    gmade,     \* number of calls
    acked,     \* history: the versions whose save was acknowledged, and their graphs
    reloads

graphVars == <<gkind, stored, counter, gcalls, gmade, acked, reloads>>

Nothing == [nodes |-> {}, edges |-> {}]
Merge(a, b) == [nodes |-> a.nodes \cup b.nodes, edges |-> a.edges \cup b.edges]
At(v) == IF v \in DOMAIN stored THEN stored[v] ELSE Nothing
MergeAt(v, g) == [u \in DOMAIN stored \cup {v} |-> IF u = v THEN Merge(At(v), g) ELSE stored[u]]
Acknowledge(v, g) == acked \cup {[ver |-> v, graph |-> g]}

\* A call: its step, the graph of a save, the version it works on, the attempts
\* that failed, what a load has found, and (history) the latest version
\* acknowledged when it began.
Idling == [step |-> "idle", graph |-> Nothing, ver |-> 0, attempt |-> 0, floor |-> 0]
Running(c) == gcalls[c].step \notin {"idle", "loaded", "none", "saved", "failed"}
Floor == IF acked = {} THEN 0 ELSE Max({a.ver : a \in acked})
Ended(c, step) == gcalls' = [gcalls EXCEPT ![c].step = step]

GraphInit(k) ==
    /\ gkind = k
    /\ stored = [v \in {} |-> Nothing]
    /\ counter = 0
    /\ gcalls = [c \in GraphCallers |-> Idling]
    /\ gmade = 0
    /\ acked = {}
    /\ reloads = 0

Called(c) ==
    /\ ~Running(c)
    /\ gmade < MaxGraphCalls
    /\ gmade' = gmade + 1

-----------------------------------------------------------------------------
(* The embedded store *)

\* What the loops have written when a call of OverGraph throws, or all of it.
WrittenNodes(g) == {[nodes |-> ns, edges |-> {}] : ns \in SUBSET g.nodes}
              \cup {[nodes |-> g.nodes, edges |-> es] : es \in SUBSET g.edges}

\* Mutant: the version is counted only after everything is written.
EmbedSaveCountsLast(c, g) ==
    /\ gkind = "embedded"
    /\ Called(c)
    /\ \E w \in WrittenNodes(g) :
          /\ counter' = IF w = g THEN counter + 1 ELSE counter
          /\ stored' = MergeAt(counter + 1, w)
          /\ acked' = IF w = g THEN Acknowledge(counter + 1, g) ELSE acked
          /\ gcalls' = [gcalls EXCEPT ![c] =
                 [Idling EXCEPT !.step = IF w = g THEN "saved" ELSE "failed"]]
    /\ UNCHANGED <<gkind, reloads>>
EmbedSave(c, g) ==
    /\ gkind = "embedded"
    /\ Called(c)
    /\ counter' = counter + 1
    /\ \E w \in WrittenNodes(g) :
          /\ stored' = MergeAt(counter', w)
          /\ acked' = IF w = g THEN Acknowledge(counter', g) ELSE acked
          /\ gcalls' = [gcalls EXCEPT ![c] =
                 [Idling EXCEPT !.step = IF w = g THEN "saved" ELSE "failed"]]
    /\ UNCHANGED <<gkind, reloads>>

\* _loadGraphByLabel looks the internal number of an edge's end up among the
\* names of the nodes; no name here is such a number, so it finds no edge.  A
\* name is what follows the first "_" of its key, which is the name that was saved
\* as long as the id of the graph, in front of it, has no "_"; so it is here.
EmbedLoad(c) ==
    /\ gkind = "embedded"
    /\ Called(c)
    /\ gcalls' = [gcalls EXCEPT ![c] =
           IF counter = 0 \/ At(counter).nodes = {}
           THEN [Idling EXCEPT !.step = "none", !.floor = Floor]
           ELSE [Idling EXCEPT !.step = "loaded", !.floor = Floor, !.ver = counter,
                               !.graph = [nodes |-> At(counter).nodes, edges |-> {}]]]
    /\ UNCHANGED <<gkind, stored, counter, acked, reloads>>

-----------------------------------------------------------------------------
(* The remote store *)

\* An attempt at a save counts its version before its first await.
Attempt(c, call) ==
    /\ counter' = counter + 1
    /\ gcalls' = [gcalls EXCEPT ![c] = [call EXCEPT !.step = "write", !.ver = counter + 1]]

RemoteSave(c, g) ==
    /\ gkind = "remote"
    /\ Called(c)
    /\ Attempt(c, [Idling EXCEPT !.graph = g])
    /\ UNCHANGED <<gkind, stored, acked, reloads>>

\* The write transaction commits, and the answer arrives.
Commit(c) ==
    /\ gcalls[c].step = "write"
    /\ stored' = MergeAt(gcalls[c].ver, gcalls[c].graph)
    /\ acked' = Acknowledge(gcalls[c].ver, gcalls[c].graph)
    /\ Ended(c, "saved")
    /\ UNCHANGED <<gkind, counter, gmade, reloads>>

RemoteLoad(c) ==
    /\ gkind = "remote"
    /\ Called(c)
    /\ gcalls' = [gcalls EXCEPT ![c] = [Idling EXCEPT !.step = "latest", !.floor = Floor]]
    /\ UNCHANGED <<gkind, stored, counter, acked, reloads>>

\* The three queries of a load.
ReadLatest(c) ==
    /\ gcalls[c].step = "latest"
    /\ LET with == {v \in DOMAIN stored : stored[v].nodes # {}}
       IN  gcalls' = IF with = {} THEN [gcalls EXCEPT ![c].step = "none"]
                     ELSE [gcalls EXCEPT ![c].step = "nodes", ![c].ver = Max(with)]
    /\ UNCHANGED <<gkind, stored, counter, gmade, acked, reloads>>
ReadNodes(c) ==
    /\ gcalls[c].step = "nodes"
    /\ gcalls' = [gcalls EXCEPT ![c].step = "edges",
                                ![c].graph.nodes = stored[gcalls[c].ver].nodes]
    /\ UNCHANGED <<gkind, stored, counter, gmade, acked, reloads>>
ReadEdges(c) ==
    /\ gcalls[c].step = "edges"
    /\ gcalls' = [gcalls EXCEPT ![c].step = IF gcalls[c].graph.nodes = {} THEN "none" ELSE "loaded",
                                ![c].graph.edges = stored[gcalls[c].ver].edges]
    /\ UNCHANGED <<gkind, stored, counter, gmade, acked, reloads>>

\* A query fails; the transaction of a save may have been committed all the
\* same.  retry waits and starts again, or gives up.
QueryFails(c) ==
    /\ gkind = "remote"
    /\ Running(c) /\ gcalls[c].step \notin {"save again", "load again"}
    /\ gcalls[c].step = "write" =>
           stored' \in {stored, MergeAt(gcalls[c].ver, gcalls[c].graph)}
    /\ gcalls[c].step # "write" => stored' = stored
    /\ LET attempt == gcalls[c].attempt + 1
           again   == IF gcalls[c].step = "write" THEN "save again" ELSE "load again"
       IN  \E retryable \in BOOLEAN :
              gcalls' = [gcalls EXCEPT
                  ![c].attempt = attempt,
                  ![c].step = IF attempt < MaxAttempts /\ retryable THEN again ELSE "failed"]
    /\ UNCHANGED <<gkind, counter, gmade, acked, reloads>>

SaveAgain(c) ==
    /\ gcalls[c].step = "save again"
    /\ Attempt(c, gcalls[c])
    /\ UNCHANGED <<gkind, stored, gmade, acked, reloads>>
LoadAgain(c) ==
    /\ gcalls[c].step = "load again"
    /\ gcalls' = [gcalls EXCEPT ![c].step = "latest", ![c].graph = Nothing]
    /\ UNCHANGED <<gkind, stored, counter, gmade, acked, reloads>>

-----------------------------------------------------------------------------

\* The process ends; the next one starts to count at zero.
Reload ==
    /\ reloads < MaxReloads
    /\ reloads' = reloads + 1
    /\ counter' = 0
    /\ gcalls' = [c \in GraphCallers |-> Idling]
    /\ UNCHANGED <<gkind, stored, gmade, acked>>

GraphNext ==
    \/ \E c \in GraphCallers, g \in Graphs : EmbedSave(c, g) \/ RemoteSave(c, g)
    \/ \E c \in GraphCallers :
          \/ EmbedLoad(c) \/ RemoteLoad(c)
          \/ Commit(c) \/ QueryFails(c) \/ SaveAgain(c) \/ LoadAgain(c)
          \/ ReadLatest(c) \/ ReadNodes(c) \/ ReadEdges(c)
    \/ Reload

GraphSpec == (\E k \in {"embedded", "remote"} : GraphInit(k)) /\ [][GraphNext]_graphVars

-----------------------------------------------------------------------------
(* Properties *)

\* A version acknowledged holds its graph and nothing else, whatever saves ran
\* at the same time, failed half-way or were tried again, up to a restart.  A
\* load that the remote store answers returns one graph that was saved, whole,
\* and none older than a version acknowledged when the load began: it never mixes
\* two versions nor misses the graph because a later save failed.  (The counter
\* of a restarted process merges new graphs into old versions.)
VersionsAreWhole == \A a \in acked : At(a.ver) = a.graph
LoadIsFresh(call) ==
    /\ call.step = "loaded" => call.ver >= call.floor /\ call.graph \in Graphs
    /\ call.step = "none" => call.floor = 0
SavedGraphsAreRead ==
    reloads = 0 =>
        /\ VersionsAreWhole
        /\ gkind = "remote" => \A c \in GraphCallers : LoadIsFresh(gcalls[c])
=============================================================================
