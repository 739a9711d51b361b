--------------------------- MODULE WasmGraphStore ---------------------------
(***************************************************************************)
(* The graph store of storage-browser/src/wasm-graph-store.ts on top of    *)
(* the worker's SQLite port, for one graph id.                             *)
(*                                                                         *)
(* A store operation is an async function: it posts one statement, awaits  *)
(* its answer and posts the next, so operations overlap statement by       *)
(* statement.  Its continuation runs in the page's task that receives the  *)
(* answer.  A page reload loses everything but the database file; the      *)
(* version counter is part of what is lost.                                *)
(***************************************************************************)
EXTENDS SqlitePort

CONSTANTS Graphs,      \* graphs to save: nodes and edges, one edge from one node to another
          AskedVersions,   \* versions asked for by number
          MaxReloads,  \* bound: page reloads
          MaxSteps     \* bound: store operations and page reloads in all

ASSUME GraphsAssumption ==
    \A g \in Graphs : /\ g = [nodes |-> g.nodes, edges |-> g.edges]
                      /\ IsFiniteSet(g.nodes) /\ IsFiniteSet(g.edges)
                      /\ \A e \in g.edges : /\ e = <<e[1], e[2], e[3]>>
                                            /\ e[1] \in g.nodes /\ e[2] \in g.nodes
                      /\ \A d, e \in g.edges : SameEnds(d, e) => d = e
ASSUME AskedVersionsAssumption == AskedVersions \subseteq Nat
ASSUME MaxReloadsAssumption == MaxReloads \in Nat
ASSUME MaxStepsAssumption == MaxSteps \in Nat

VARIABLES
    counter,    \* _versionCounter of the graph id; 0 when it has none
    ops,        \* the operations of this page, in the order they were called
    earlier,    \* number of operations of the pages before it
    begun,      \* history: every save that began, [graph, ver, page]
    finished,   \* history: those of them that were done
    reloads     \* number of reloads

vars == <<portVars, counter, ops, earlier, begun, finished, reloads>>

EmptyGraph == [nodes |-> {}, edges |-> {}]
NoJob == [i \in {} |-> ""]

\* graph: what is saved, or what was read so far.  todo: statements to be
\* answered, the head is awaited as request req.
Op(kind, graph, ver, todo) ==
    [kind |-> kind, graph |-> graph, ver |-> ver, todo |-> todo, req |-> 0,
     state |-> "running", wanted |-> EmptyGraph]

InsertAll(graph, ver) ==
    LET nodes == SetToSeq(graph.nodes)
        edges == SetToSeq(graph.edges)
    IN  [i \in 1..Len(nodes) |-> Insert("graph_nodes", ver, nodes[i])]
        \o [i \in 1..Len(edges) |-> Insert("graph_edges", ver, edges[i])]
\* Mutant: the edges of the newest version instead of the one asked for.
ReadNewestEdges(ver) == <<Select("graph_nodes", ver), Select("graph_edges", counter)>>
ReadVersion(ver) == <<Select("graph_nodes", ver), Select("graph_edges", ver)>>

DDL == <<CreateTable("graph_nodes"), CreateTable("graph_edges")>>

-----------------------------------------------------------------------------
(* Actions *)

\* The constructor posts both CREATE statements and awaits neither.
Init ==
    /\ requests = Posted(<<>>, DDL)
    /\ toWorker = <<1, 2>>
    /\ toMain = <<>>
    /\ worker = "loading"
    /\ job = NoJob
    /\ failures = 0
    /\ engine = 0
    /\ handle = 0
    /\ database = [tables |-> {}, rows |-> {}]
    /\ counter = 0
    /\ ops = <<>>
    /\ earlier = 0
    /\ begun = {}
    /\ finished = {}
    /\ reloads = 0

\* The state of an operation that awaits nothing any more.
Await(op, req) == IF op.todo = <<>> THEN [op EXCEPT !.req = 0, !.state = "done"]
                  ELSE [op EXCEPT !.req = req]

\* An operation runs up to its first await: its first statement is posted.
\* Bounds: the number of operations, and while databases are being opened only
\* the first operation of a page runs.
Begin(op) ==
    LET posted == SubSeq(op.todo, 1, IF op.todo = <<>> THEN 0 ELSE 1)
    IN  /\ earlier + Len(ops) + reloads < MaxSteps
        /\ worker \in {"loading", "running"}      \* a closed port is not used
        /\ ops # <<>> => handle # 0 /\ DOMAIN job = {}
        /\ requests' = Posted(requests, posted)
        /\ toWorker' = Deliverable(Len(posted))
        /\ ops' = Append(ops, Await(op, Len(requests) + 1))
        /\ UNCHANGED <<toMain, worker, program, earlier, reloads>>

\* What history keeps of a save of this page.
Save(graph, ver) == [graph |-> graph, ver |-> ver, page |-> reloads]

\* Mutant: the version is not counted.
SaveUncounted(graph) ==
    /\ UNCHANGED counter
    /\ Begin(Op("save", graph, counter + 1, InsertAll(graph, counter + 1)))
    /\ begun' = begun \cup {Save(graph, counter + 1)}
    /\ UNCHANGED finished

\* The version is taken before the first await, so it is never taken twice.
SaveGraph(graph) ==
    LET ver == counter + 1
    IN  /\ counter' = ver
        /\ Begin(Op("save", graph, ver, InsertAll(graph, ver)))
        /\ begun' = begun \cup {Save(graph, ver)}
        /\ finished' = IF InsertAll(graph, ver) = <<>> THEN finished \cup {Save(graph, ver)}
                       ELSE finished

\* What a load of ver must return if the save of ver is done by now.
SavedAs(ver) ==
    LET done == {i \in DOMAIN ops : /\ ops[i].kind = "save"
                                    /\ ops[i].ver = ver
                                    /\ ops[i].state = "done"}
    IN  IF done = {} THEN EmptyGraph ELSE ops[CHOOSE i \in done : TRUE].graph

Read(ver) == [Op("load", EmptyGraph, ver, IF ver = 0 THEN <<>> ELSE ReadVersion(ver))
                 EXCEPT !.wanted = SavedAs(ver)]

LoadGraph == Begin(Read(counter)) /\ UNCHANGED <<counter, begun, finished>>
LoadGraphVersion(ver) == Begin(Read(ver)) /\ UNCHANGED <<counter, begun, finished>>

\* findSimilarGraphs asks for the graph ids; what it does with each is loadGraph.
FindSimilarGraphs ==
    /\ Begin(Op("similar", EmptyGraph, 0, <<SelectVersions>>))
    /\ UNCHANGED <<counter, begun, finished>>

\* The continuation of an operation when its statement was answered.
Continued(op, response) ==
    LET stmt == Head(op.todo)
        rest == Tail(op.todo)
    IN  CASE ~response.ok -> [op EXCEPT !.state = "failed", !.todo = <<>>]
          [] response.ok /\ op.kind = "save" -> [op EXCEPT !.todo = rest]
          [] response.ok /\ op.kind = "similar" ->
                IF response.rows = {} THEN [op EXCEPT !.todo = <<>>] ELSE Read(counter)
          [] response.ok /\ op.kind = "load" /\ stmt.table = "graph_nodes" ->
                IF response.rows = {} THEN [op EXCEPT !.todo = <<>>]
                ELSE [op EXCEPT !.graph.nodes = response.rows, !.todo = rest]
          [] OTHER -> [op EXCEPT !.graph.edges = response.rows, !.todo = rest]

\* onmessage, and the continuation of the operation that awaits the answer.
Receive ==
    /\ toMain # <<>>
    /\ toMain' = Tail(toMain)
    /\ LET response == Head(toMain)
           settled  == Settled(requests, response)
           waiting  == {i \in DOMAIN ops : ops[i].req = response.id
                                           /\ requests[response.id].promise = "waiting"}
       IN  IF waiting = {}
           THEN /\ requests' = settled
                /\ UNCHANGED <<toWorker, ops, finished>>
           ELSE LET i    == CHOOSE j \in waiting : TRUE
                    op   == Continued(ops[i], response)
                    post == SubSeq(op.todo, 1, IF op.todo = <<>> THEN 0 ELSE 1)
                    next == IF op.state = "failed" THEN [op EXCEPT !.req = 0]
                            ELSE Await(op, Len(requests) + 1)
                IN  /\ requests' = Posted(settled, post)
                    /\ toWorker' = Deliverable(Len(post))
                    /\ ops' = [ops EXCEPT ![i] = next]
                    /\ finished' = IF next.kind = "save" /\ next.state = "done"
                                   THEN finished \cup {Save(next.graph, next.ver)} ELSE finished
    /\ UNCHANGED <<worker, program, counter, earlier, begun, reloads>>

\* The script does not load: onerror rejects every pending promise, and the
\* operations that awaited one fail.  The port stays in use.
WorkerError ==
    /\ worker = "loading"
    /\ worker' = "failed"
    /\ toWorker' = <<>>
    /\ requests' = PendingBecome(requests, "settled")
    /\ ops' = [i \in DOMAIN ops |-> IF ops[i].state = "running"
                                    THEN [ops[i] EXCEPT !.state = "failed", !.todo = <<>>, !.req = 0]
                                    ELSE ops[i]]
    /\ UNCHANGED <<toMain, program, counter, earlier, begun, finished, reloads>>

\* close(): the worker is terminated before it can see the last message, and
\* the promises are forgotten, neither resolved nor rejected.  Answers on their
\* way find no promise any more; the worker's state is gone with it.
Close ==
    /\ worker \in {"loading", "running"}
    /\ requests' = PendingBecome(requests, "forgotten")
    /\ worker' = "terminated"
    /\ toWorker' = <<>>
    /\ toMain' = <<>>
    /\ job' = NoJob
    /\ engine' = 0
    /\ handle' = 0
    /\ UNCHANGED <<failures, database, counter, ops, earlier, begun, finished, reloads>>

\* Mutant: the constructor drops the tables before it creates them.
ReloadFresh ==
    /\ reloads < MaxReloads
    /\ earlier + Len(ops) + reloads < MaxSteps
    /\ reloads' = reloads + 1
    /\ requests' = Posted(<<>>, DDL)
    /\ toWorker' = <<1, 2>>
    /\ toMain' = <<>>
    /\ worker' = "loading"
    /\ job' = NoJob
    /\ engine' = 0 /\ handle' = 0 /\ counter' = 0
    /\ earlier' = earlier + Len(ops)
    /\ ops' = <<>>
    /\ database' = [tables |-> {}, rows |-> {}]
    /\ UNCHANGED <<failures, begun, finished>>

Reload ==
    /\ reloads < MaxReloads
    /\ earlier + Len(ops) + reloads < MaxSteps
    /\ reloads' = reloads + 1
    /\ requests' = Posted(<<>>, DDL)
    /\ toWorker' = <<1, 2>>
    /\ toMain' = <<>>
    /\ worker' = "loading"
    /\ job' = NoJob
    /\ engine' = 0
    /\ handle' = 0
    /\ counter' = 0
    /\ earlier' = earlier + Len(ops)
    /\ ops' = <<>>
    /\ UNCHANGED <<failures, database, begun, finished>>

Next ==
    \/ \E graph \in Graphs : SaveGraph(graph)
    \/ LoadGraph
    \/ \E ver \in AskedVersions : LoadGraphVersion(ver)
    \/ FindSimilarGraphs
    \/ Receive
    \/ WorkerError
    \/ Close
    \/ Reload
    \/ WorkerStep /\ UNCHANGED <<counter, ops, earlier, begun, finished, reloads>>

\* The event loops of page and worker run; a module factory and an opening end,
\* one way or the other; the script is loaded or fails to load.
Fairness ==
    /\ WF_vars(Receive)
    /\ WF_vars(ScriptLoads /\ UNCHANGED <<counter, ops, earlier, begun, finished, reloads>>)
    /\ WF_vars(Handle /\ UNCHANGED <<counter, ops, earlier, begun, finished, reloads>>)
    /\ WF_vars(Initialising /\ UNCHANGED <<counter, ops, earlier, begun, finished, reloads>>)

Spec == Init /\ [][Next]_vars /\ Fairness

-----------------------------------------------------------------------------
(* Properties *)

\* The type invariant of the port, the worker and the store on top of them.
TypeOK ==
    /\ \A id \in Ids : requests[id].promise \in {"waiting", "settled", "forgotten"}
    /\ ToSet(toWorker) \subseteq Ids
    /\ \A i \in DOMAIN toMain : toMain[i].id \in Ids
    /\ worker \in {"loading", "running", "failed", "terminated"}
    /\ DOMAIN job \subseteq Ids
    /\ \A id \in DOMAIN job : job[id] \in {"factory", "opening"}
    /\ {engine, handle} \subseteq Ids \cup {0}
    /\ database.tables \subseteq {"graph_nodes", "graph_edges"}
    /\ counter \in 0..MaxSteps
    /\ \A i \in DOMAIN ops : ops[i].state \in {"running", "done", "failed"}
    /\ reloads \in 0..MaxReloads

\* A request is in one place only: on its way, with the worker's initialisation,
\* or answered.  So no statement is executed twice, and while the worker lives
\* no pending promise has lost its request.
OnTheWay == ToSet(toWorker)
Answers == {toMain[i].id : i \in DOMAIN toMain}
Accounted ==
    /\ TypeOK
    /\ IsInjective(toWorker)
    /\ \A i, j \in DOMAIN toMain : toMain[i].id = toMain[j].id => i = j
    /\ OnTheWay \cap DOMAIN job = {} /\ OnTheWay \cap Answers = {}
    /\ DOMAIN job \cap Answers = {}
    /\ worker \in {"loading", "running"} => Pending = OnTheWay \cup DOMAIN job \cup Answers

\* On the page that wrote them, the rows of a version are the graph saved as
\* that version: all of them once the save is done, none but them before.
Stored(ver) == [nodes |-> Rows(Select("graph_nodes", ver), database),
                edges |-> Rows(Select("graph_edges", ver), database)]
Within(g, h) == g.nodes \subseteq h.nodes /\ g.edges \subseteq h.edges
SavedVersionsAreWhole ==
    \A i \in DOMAIN ops : ops[i].kind = "save" =>
        /\ reloads = 0 => Within(Stored(ops[i].ver), ops[i].graph)
        /\ ops[i].state = "done" => Within(ops[i].graph, Stored(ops[i].ver))

\* A load that begins when the save of its version is done returns that graph,
\* whatever is saved meanwhile; a load that overlaps it returns no more.
LoadsAreSaved ==
    \A i \in DOMAIN ops : ops[i].kind = "load" /\ ops[i].state = "done" =>
        /\ Within(ops[i].wanted, ops[i].graph)
        /\ reloads = 0 => \/ ops[i].graph = EmptyGraph
                          \/ \E j \in DOMAIN ops : /\ ops[j].kind = "save"
                                                   /\ ops[j].ver = ops[i].ver
                                                   /\ Within(ops[i].graph, ops[j].graph)

\* What was once saved to the end stays in the file, over reloads, closed ports
\* and failed openings: the nodes, and for every edge a row with its ends.  Its
\* weight and direction stay too, unless a save of a later page, whose counter
\* has started again, got the same version and put an edge of its own there.
WrittenLater(d, save) ==
    \E later \in begun : /\ later.ver = save.ver /\ later.page > save.page
                         /\ d \in later.graph.edges
EdgeStays(e, save) ==
    \E d \in Stored(save.ver).edges : SameEnds(d, e) /\ (d = e \/ WrittenLater(d, save))
SavesSurvive ==
    \A save \in finished : /\ save.graph.nodes \subseteq Stored(save.ver).nodes
                           /\ \A e \in save.graph.edges : EdgeStays(e, save)

\* Whatever the initialisations that race did to the engine, every request the
\* page awaits is answered in the end, unless the script never loads or the
\* port is closed.
Answered == []<>(Pending = {} \/ worker \in {"failed", "terminated"})

\* docs/storage.md on this backend's persistence: "OPFS (survives reload)".  A
\* load that runs to its end on a file holding a finished save finds a graph.
SurvivesReload ==
    \A i \in DOMAIN ops : /\ ops[i].kind = "load" /\ ops[i].state = "done"
                          /\ reloads > 0 /\ finished # {}
                          => ops[i].graph.nodes # {}
=============================================================================
