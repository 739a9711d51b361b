---------------------------- MODULE SqlConnection ----------------------------
(***************************************************************************)
(* What the relational stores rely on in their databases, both external:   *)
(* a connection of SQLite (node:sqlite, WASM SQLite) and of PostgreSQL     *)
(* (pg).  A connection keeps the rows written since its transaction began  *)
(* and a stack of savepoints; a savepoint remembers those rows.            *)
(*                                                                         *)
(* SQLite opens a transaction with the first savepoint and commits it when *)
(* that one is released.  PostgreSQL opens it with BEGIN; a statement that *)
(* fails inside it makes all others fail, up to a rollback.                *)
(***************************************************************************)
EXTENDS Integers, Sequences, FiniteSets, FiniteSetsExt

CONSTANT Rows              \* keys of the rows stored
NoRow == 0                 \* no value: what is written are the numbers from 1

NoWrites == [r \in {} |-> NoRow]
Over(writes, disk) ==      \* the rows a transaction sees
    [r \in DOMAIN writes \cup DOMAIN disk |-> IF r \in DOMAIN writes THEN writes[r] ELSE disk[r]]
Idle == [tx |-> "idle", stack |-> <<>>, writes |-> NoWrites]

\* Statements.
Savepoint(name)     == [op |-> "savepoint", name |-> name]
Release(name)       == [op |-> "release", name |-> name]
RollbackTo(name)    == [op |-> "rollback to", name |-> name]
BeginTx             == [op |-> "begin"]
CommitTx            == [op |-> "commit"]
Put(row, value)     == [op |-> "put", row |-> row, value |-> value]
LogState(keyIsNull) == [op |-> "log state", keyIsNull |-> keyIsNull]   \* into analysis_state

Named(conn, name) == {i \in DOMAIN conn.stack : conn.stack[i].name = name}
Latest(conn, name) == Max(Named(conn, name))
Upto(stack, i) == SubSeq(stack, 1, i)

\* The result of a statement: the connection, the database file, success.
Done(conn, disk) == [conn |-> conn, disk |-> disk, ok |-> TRUE]
Failed(conn, disk) ==
    [conn |-> [conn EXCEPT !.tx = IF @ = "idle" THEN "idle" ELSE "aborted"],
     disk |-> disk, ok |-> FALSE]

Pushed(conn, name) ==
    [conn EXCEPT !.tx = "open",
                 !.stack = Append(@, [name |-> name, writes |-> conn.writes])]
Unwound(conn, name) ==
    [conn EXCEPT !.tx = "open",
                 !.writes = conn.stack[Latest(conn, name)].writes,
                 !.stack = Upto(@, Latest(conn, name))]
Released(conn, name) == [conn EXCEPT !.stack = Upto(@, Latest(conn, name) - 1)]
Written(conn, disk, st) ==
    IF conn.tx = "idle"
    THEN Done(conn, [disk EXCEPT ![st.row] = st.value])
    ELSE Done([conn EXCEPT !.writes = Over([r \in {st.row} |-> st.value], @)], disk)
Committed(conn, disk) == Done(Idle, Over(conn.writes, disk))

Sqlite(conn, disk, st) ==
    CASE st.op = "savepoint" -> Done(Pushed(conn, st.name), disk)
      [] st.op = "put" -> Written(conn, disk, st)
      [] st.op = "log state" -> Done(conn, disk)
      [] st.op = "rollback to" -> IF Named(conn, st.name) = {}
                                  THEN [conn |-> conn, disk |-> disk, ok |-> FALSE]
                                  ELSE Done(Unwound(conn, st.name), disk)
      [] st.op = "release" -> IF Named(conn, st.name) = {}
                              THEN [conn |-> conn, disk |-> disk, ok |-> FALSE]
                              ELSE IF Latest(conn, st.name) = 1
                              THEN Committed(conn, disk)
                              ELSE Done(Released(conn, st.name), disk)

\* A primary key holds no NULL.
Postgres(conn, disk, st) ==
    IF st.op = "commit"
    THEN IF conn.tx = "aborted" THEN Done(Idle, disk) ELSE Committed(conn, disk)
    ELSE IF st.op = "rollback to" /\ conn.tx # "idle" /\ Named(conn, st.name) # {}
    THEN Done(Unwound(conn, st.name), disk)
    ELSE IF conn.tx = "aborted"
    THEN Failed(conn, disk)
    ELSE CASE st.op = "begin" -> Done([conn EXCEPT !.tx = "open"], disk)
           [] st.op = "put" -> Written(conn, disk, st)
           [] st.op = "log state" -> IF st.keyIsNull THEN Failed(conn, disk) ELSE Done(conn, disk)
           [] st.op = "savepoint" /\ conn.tx = "open" -> Done(Pushed(conn, st.name), disk)
           [] st.op = "release" /\ conn.tx = "open" /\ Named(conn, st.name) # {} ->
                  Done(Released(conn, st.name), disk)
           [] OTHER -> Failed(conn, disk)
=============================================================================
