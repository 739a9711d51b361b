----------------------------- MODULE SqlitePort -----------------------------
(***************************************************************************)
(* The browser's SQLite: the port of storage-browser/src/                  *)
(* worker-sqlite-port.ts on the page, the program of sqlite-worker.ts in   *)
(* its Web Worker, and one channel each way between them.                  *)
(*                                                                         *)
(* A request is known by its id, its position in requests.  The worker     *)
(* handles a message up to its first await; requests that find no open     *)
(* database all start to open one.  The SQLite library is external: an     *)
(* instance of it (engine) knows only the handles it opened itself, opening*)
(* may fail, and a statement on an open database runs at once.             *)
(***************************************************************************)
EXTENDS Integers, Sequences, SequencesExt, FiniteSets

CONSTANT MaxFailures    \* bound: initialisations that fail

ASSUME MaxFailuresAssumption == MaxFailures \in Nat

VARIABLES
    requests,   \* [stmt, promise] of every message posted, by id
    toWorker,   \* ids on their way to the worker
    toMain,     \* responses on their way back
    worker,     \* "loading", "running", "failed" or "terminated"
    job,        \* ids whose handler awaits, and what: "factory" or "opening"
    failures,   \* number of initialisations that failed
    engine,     \* the request whose initSqlite set sqlite3; 0 for null
    handle,     \* the request whose initSqlite set db; 0 for null
    database    \* the file: its tables and rows

page == <<requests, toMain>>
program == <<job, failures, engine, handle, database>>
portVars == <<requests, toWorker, toMain, worker, job, failures, engine, handle, database>>

Ids == 1..Len(requests)
Pending == {id \in Ids : requests[id].promise = "waiting"}

-----------------------------------------------------------------------------
(* Statements *)

CreateTable(table) == [type |-> "create", table |-> table]
Insert(table, ver, item) == [type |-> "insert", table |-> table, ver |-> ver, item |-> item]
Select(table, ver) == [type |-> "select", table |-> table, ver |-> ver]
SelectVersions == [type |-> "versions", table |-> "graph_nodes"]

\* SQLite: tables are created once, and a statement on a table that does not
\* exist fails.
Fails(stmt, db) == stmt.type # "create" /\ stmt.table \notin db.tables

\* The item of an edge row is <<source, target, columns>>.  The primary key of
\* graph_edges has its ends and its version; weight and directed, the columns,
\* are not part of it.  That of graph_nodes is the whole row.
SameEnds(d, e) == d[1] = e[1] /\ d[2] = e[2]
SameKey(r, s) == /\ r[1] = s[1] /\ r[2] = s[2]
                 /\ IF r[1] = "graph_edges" THEN SameEnds(r[3], s[3]) ELSE r[3] = s[3]

\* INSERT OR REPLACE: a row with the same key gives way to the new one.
Inserted(row, rows) == {r \in rows : ~SameKey(r, row)} \cup {row}

Executed(stmt, db) ==
    CASE stmt.type = "create" -> [db EXCEPT !.tables = @ \cup {stmt.table}]
      [] stmt.type = "insert" ->
            [db EXCEPT !.rows = Inserted(<<stmt.table, stmt.ver, stmt.item>>, @)]
      [] OTHER                -> db

Rows(stmt, db) ==
    CASE stmt.type = "select" ->
            {r[3] : r \in {q \in db.rows : q[1] = stmt.table /\ q[2] = stmt.ver}}
      [] stmt.type = "versions" -> {r[2] : r \in {q \in db.rows : q[1] = stmt.table}}
      [] OTHER -> {}

Failure(id) == [id |-> id, ok |-> FALSE, rows |-> {}]
Success(id, rows) == [id |-> id, ok |-> TRUE, rows |-> rows]

-----------------------------------------------------------------------------
(* The page's side; the owner of the port says when *)

\* _send, once per statement: a promise each; a dead worker gets no messages.
Posted(reqs, stmts) == reqs \o [i \in 1..Len(stmts) |-> [stmt |-> stmts[i], promise |-> "waiting"]]
Deliverable(n) == IF worker \in {"loading", "running"}
                  THEN toWorker \o [i \in 1..n |-> Len(requests) + i]
                  ELSE toWorker

\* What becomes of promises that are still pending.
Become(reqs, ids, promise) ==
    [id \in DOMAIN reqs |-> IF id \in ids /\ reqs[id].promise = "waiting"
                            THEN [reqs[id] EXCEPT !.promise = promise] ELSE reqs[id]]

\* onmessage: the promise is settled, resolved or rejected as the response says.
Settled(reqs, response) == Become(reqs, {response.id}, "settled")

\* onerror rejects what is pending; close() only forgets it.
PendingBecome(reqs, promise) == Become(reqs, DOMAIN reqs, promise)

-----------------------------------------------------------------------------
(* The worker's side *)

\* The two-part rest of handleMessage once initSqlite is over: with a handle
\* that another engine opened, the library refuses the call.
Execute(id, eng, hdl) ==
    LET stmt == requests[id].stmt
        refused == hdl # eng \/ Fails(stmt, database)
    IN  /\ toMain' = Append(toMain, IF refused THEN Failure(id)
                                    ELSE Success(id, Rows(stmt, database)))
        /\ database' = IF refused THEN database ELSE Executed(stmt, database)
        /\ engine' = eng
        /\ handle' = hdl

ScriptLoads ==
    /\ worker = "loading"
    /\ worker' = "running"
    /\ UNCHANGED <<page, toWorker, program>>

\* Mutants: a message that comes while a database is being opened is dropped;
\* a message stays queued when it is handled.
HandleOnlyFirst ==
    /\ worker = "running"
    /\ toWorker # <<>>
    /\ toWorker' = Tail(toWorker)
    /\ LET id == Head(toWorker)
       IN  \/ /\ handle # 0
              /\ Execute(id, engine, handle)
              /\ UNCHANGED <<job, failures>>
           \/ /\ handle = 0
              /\ job' = IF job = [i \in {} |-> ""] THEN [i \in {id} |-> "factory"] ELSE job
              /\ UNCHANGED <<toMain, failures, engine, handle, database>>
    /\ UNCHANGED <<requests, worker>>
HandleAgain ==
    /\ worker = "running"
    /\ toWorker # <<>>
    /\ LET id == Head(toWorker)
       IN  \/ /\ handle # 0
              /\ Execute(id, engine, handle)
              /\ UNCHANGED <<job, failures, toWorker>>
           \/ /\ handle = 0
              /\ job' = [i \in DOMAIN job \cup {id} |-> IF i = id THEN "factory" ELSE job[i]]
              /\ toWorker' = Tail(toWorker)
              /\ UNCHANGED <<toMain, failures, engine, handle, database>>
    /\ UNCHANGED <<requests, worker>>

\* self.onmessage: with an open database the request is answered at once.
Handle ==
    /\ worker = "running"
    /\ toWorker # <<>>
    /\ toWorker' = Tail(toWorker)
    /\ LET id == Head(toWorker)
       IN  \/ /\ handle # 0
              /\ Execute(id, engine, handle)
              /\ UNCHANGED <<job, failures>>
           \/ /\ handle = 0
              /\ job' = [i \in DOMAIN job \cup {id} |-> IF i = id THEN "factory" ELSE job[i]]
              /\ UNCHANGED <<toMain, failures, engine, handle, database>>
    /\ UNCHANGED <<requests, worker>>

WithoutJob(id) == [i \in DOMAIN job \ {id} |-> job[i]]

\* initSqlite, from the module factory to the opening of the database.
FactoryDone(id) ==
    /\ worker = "running"
    /\ id \in DOMAIN job
    /\ job[id] = "factory"
    /\ engine' = id
    /\ job' = [job EXCEPT ![id] = "opening"]
    /\ UNCHANGED <<page, toWorker, worker, failures, handle, database>>

\* The database opened last is the one every later request uses.
OpenDone(id) ==
    /\ worker = "running"
    /\ id \in DOMAIN job
    /\ job[id] = "opening"
    /\ job' = WithoutJob(id)
    /\ Execute(id, engine, id)
    /\ UNCHANGED <<requests, toWorker, worker, failures>>

\* Fetching the module or opening the file fails; the request is answered with
\* the error and the next one finds db as it was.
InitFails(id) ==
    /\ worker = "running"
    /\ failures < MaxFailures
    /\ failures' = failures + 1
    /\ id \in DOMAIN job
    /\ job' = WithoutJob(id)
    /\ toMain' = Append(toMain, Failure(id))
    /\ UNCHANGED <<requests, toWorker, worker, engine, handle, database>>

\* A handler that awaits the factory or the opening goes on.
Initialising == \E id \in DOMAIN job : FactoryDone(id) \/ OpenDone(id) \/ InitFails(id)

WorkerStep == \/ ScriptLoads
              \/ Handle
              \/ Initialising
=============================================================================
