-------------------------- MODULE RelationalStore --------------------------
(***************************************************************************)
(* The relational stores: storage-browser/src/wasm-relational-store.ts,    *)
(* storage-embed/src/embed-relational-store.ts and                         *)
(* storage-remote/src/remote-relational-store.ts, used by several sessions *)
(* at once.  All of them share one connection, or a pool of connections.   *)
(*                                                                         *)
(* A call of the store is a list of statements.  The embedded store runs   *)
(* it synchronously; the others await every statement, so calls of other   *)
(* sessions come in between.  A call whose statement fails is rejected.    *)
(***************************************************************************)
EXTENDS SqlConnection, SequencesExt

CONSTANTS Sessions,    \* session ids
          Marks,       \* checkpoint names
          SavedRows,   \* the rows a call may save: a set of sets of Rows
          MaxConns,    \* connections of the pool: config.poolSize
          MaxRetries,  \* of withRetry
          MaxCalls,    \* bounds: calls of a SQLite store, and of a remote one
          MaxRemoteCalls,
          MaxRestarts  \* bound: restarts of the process

\* A save of no rows issues no statement.
ASSUME SavedRowsAssumption ==
    \A rows \in SavedRows : rows \subseteq Rows /\ IsFiniteSet(rows) /\ rows # {}
\* The constructor makes a pool for a poolSize above 1; a pool handed to it may be smaller.
ASSUME MaxConnsAssumption == MaxConns \in Nat \ {0}
ASSUME MaxCallsAssumption == MaxCalls \in Nat

VARIABLES
    kind,      \* which store: "browser", "embedded", "client" (one pg.Client), "pool" (pg.Pool)
    disk,      \* what is committed in the database
    conns,     \* its connections
    leaked,    \* number of the pool's connections checked out and never released
    ready,     \* _ready of the remote store: "connecting", "creating", "waiting", "yes", "failed"
    attempt,   \* withRetry: attempts that failed
    calls,     \* the statements left of each session's running call
    doing,     \* what that call is
    made,      \* number of calls made
    begun,     \* history: begins of each session not yet followed by a commit that succeeded
    turns,     \* history: sessions took turns, and kept to begin, ..., commit
    stray,     \* history: a session set a checkpoint before it began, or one that
               \* has the name of a session: they share one name space
    restarts

storeVars == <<kind, disk, conns, leaked, ready, attempt, calls, doing, made, begun, turns, stray,
               restarts>>
startVars == <<leaked, ready, attempt>>
useVars == <<calls, doing, made, begun, turns, stray>>

Stores == {"browser", "embedded", "client", "pool"}
IsSqlite == kind \in {"browser", "embedded"}
Usable == 1..(Len(conns) - leaked)
View(i) == Over(conns[i].writes, disk)

\* Calls: what, and the checkpoint or the rows it is about.
Call(what, mark, rows) == [what |-> what, mark |-> mark, rows |-> rows]
NoCall == Call("none", "", {})
Transactional == {Call(w, "", {}) : w \in {"begin", "commit"}}
                 \cup {Call(w, m, {}) : w \in {"checkpoint", "rollback"}, m \in Marks}
Saves == {Call("save", "", rows) : rows \in SavedRows}
Puts(rows, value) == LET order == SetToSeq(rows)
                     IN  [i \in DOMAIN order |-> Put(order[i], value)]

\* Mutants: begin sets its savepoint twice; a rollback goes to the session's own.
BrowserStatementsTwice(s, c) ==
    CASE c.what = "begin" -> <<Savepoint(s), Savepoint(s), LogState(TRUE)>>
      [] c.what = "commit" -> <<Release(s)>>
      [] c.what = "checkpoint" -> <<Savepoint(c.mark), LogState(FALSE)>>
      [] c.what = "rollback" -> <<RollbackTo(c.mark)>>
      [] c.what = "save" -> Puts(c.rows, made + 1)
BrowserStatementsToStart(s, c) ==
    CASE c.what = "begin" -> <<Savepoint(s), LogState(TRUE)>>
      [] c.what = "commit" -> <<Release(s)>>
      [] c.what = "checkpoint" -> <<Savepoint(c.mark), LogState(FALSE)>>
      [] c.what = "rollback" -> <<RollbackTo(s)>>
      [] c.what = "save" -> Puts(c.rows, made + 1)

\* writeDetections and saveCPT put one row after the other, the other saves one.
BrowserStatements(s, c) ==
    CASE c.what = "begin" -> <<Savepoint(s), LogState(TRUE)>>
      [] c.what = "commit" -> <<Release(s)>>
      [] c.what = "checkpoint" -> <<Savepoint(c.mark), LogState(FALSE)>>
      [] c.what = "rollback" -> <<RollbackTo(c.mark)>>
      [] c.what = "save" -> Puts(c.rows, made + 1)
EmbeddedStatements(s, c) == BrowserStatements(s, c)
RemoteStatements(s, c) ==
    CASE c.what = "begin" -> <<BeginTx, Savepoint(s), LogState(TRUE)>>
      [] c.what = "commit" -> <<Release(s), CommitTx>>
      [] c.what = "checkpoint" -> <<Savepoint(c.mark), LogState(FALSE)>>
      [] c.what = "rollback" -> <<RollbackTo(c.mark)>>
      [] c.what = "save" -> Puts(c.rows, made + 1)
Statements(s, c) ==
    CASE kind = "browser" -> BrowserStatements(s, c)
      [] kind = "embedded" -> EmbeddedStatements(s, c)
      [] OTHER -> RemoteStatements(s, c)

Execute(conn, d, st) == IF IsSqlite THEN Sqlite(conn, d, st) ELSE Postgres(conn, d, st)

\* Synchronously, up to the first statement that fails.
ExecuteAll(conn, d, list) ==
    LET after[n \in 0..Len(list)] ==
            IF n = 0 THEN Done(conn, d)
            ELSE LET r == after[n - 1]
                 IN  IF r.ok THEN Execute(r.conn, r.disk, list[n]) ELSE r
    IN  after[Len(list)]

\* A row written in an open transaction of another connection is locked.
Locked(i, st) ==
    st.op = "put" /\ \E j \in DOMAIN conns \ {i} : st.row \in DOMAIN conns[j].writes

-----------------------------------------------------------------------------
(* Actions *)

StoreInit(k) ==
    /\ kind = k
    /\ disk = [r \in Rows |-> NoRow]
    /\ conns = [i \in 1..(IF k = "pool" THEN MaxConns ELSE 1) |-> Idle]
    /\ leaked = 0
    /\ ready = IF k \in {"browser", "embedded"} THEN "yes" ELSE "connecting"
    /\ attempt = 0
    /\ calls = [s \in Sessions |-> <<>>]
    /\ doing = [s \in Sessions |-> NoCall]
    /\ made = 0
    /\ begun = [s \in Sessions |-> 0]
    /\ turns = TRUE
    /\ stray = FALSE
    /\ restarts = 0

\* _init connects.  The connect() of a pool checks a connection out that nobody
\* releases; with none left it waits for ever.
Connect ==
    /\ ready = "connecting"
    /\ Usable # {}
    /\ ready' = "creating"
    /\ leaked' = IF kind = "pool" THEN leaked + 1 ELSE leaked
    /\ UNCHANGED <<kind, disk, conns, attempt, useVars, restarts>>

CreateTables ==
    /\ ready = "creating"
    /\ Usable # {}
    /\ ready' = "yes"
    /\ UNCHANGED <<kind, disk, conns, leaked, attempt, useVars, restarts>>

\* Mutant: a failed attempt is not counted.
InitFailsUncounted ==
    /\ ready \in {"connecting", "creating"}
    /\ Usable # {}
    /\ UNCHANGED attempt
    /\ ready' \in {"waiting", "failed"}
    /\ UNCHANGED <<kind, disk, conns, leaked, useVars, restarts>>
\* withRetry: only connection errors are retried.
InitFails ==
    /\ ready \in {"connecting", "creating"}
    /\ Usable # {}
    /\ attempt' = attempt + 1
    /\ ready' \in IF attempt < MaxRetries THEN {"waiting", "failed"} ELSE {"failed"}
    /\ UNCHANGED <<kind, disk, conns, leaked, useVars, restarts>>
Backoff ==
    /\ ready = "waiting"
    /\ ready' = "connecting"
    /\ UNCHANGED <<kind, disk, conns, leaked, attempt, useVars, restarts>>

\* Sessions take turns: one begins when nobody else has, ends what it began, and
\* no other session uses the store meanwhile.  Its checkpoints have names of their own.
Alone(s) == \A t \in Sessions \ {s} : begun[t] = 0 /\ doing[t] = NoCall
InTurn(s, c) == /\ Alone(s)
                /\ c.what \in {"checkpoint", "rollback"} => c.mark \notin Sessions
                /\ c.what = "save" \/ (begun[s] = 0 <=> c.what = "begin")
Strays(s, c) == c.what = "checkpoint" /\ (begun[s] = 0 \/ c.mark \in Sessions)

\* The call is over; what its last statement left is r.
Counted(s, c, ok) ==
    IF c.what = "commit" /\ ok /\ begun[s] > 0 THEN [begun EXCEPT ![s] = @ - 1] ELSE begun

\* A call up to its first await; the embedded store awaits nothing.  A call made
\* before the remote store is ready waits for that and begins then.
CallStore(s, c) ==
    /\ ready = "yes"
    /\ doing[s] = NoCall
    /\ made < IF IsSqlite THEN MaxCalls ELSE MaxRemoteCalls
    /\ made' = made + 1
    /\ turns' = (turns /\ InTurn(s, c))
    /\ stray' = (stray \/ Strays(s, c))
    /\ LET start == IF c.what = "begin" THEN [begun EXCEPT ![s] = @ + 1] ELSE begun
           r     == ExecuteAll(conns[1], disk, Statements(s, c))
       IN  IF kind = "embedded"
           THEN /\ conns' = <<r.conn>>
                /\ disk' = r.disk
                /\ begun' = IF c.what = "begin" THEN start ELSE Counted(s, c, r.ok)
                /\ UNCHANGED <<calls, doing>>
           ELSE /\ calls' = [calls EXCEPT ![s] = Statements(s, c)]
                /\ doing' = [doing EXCEPT ![s] = c]
                /\ begun' = start
                /\ UNCHANGED <<disk, conns>>
    /\ UNCHANGED <<kind, startVars, restarts>>

\* The next statement of a call, on any connection that is free.
RunStatement(s) ==
    /\ doing[s] # NoCall
    /\ \E i \in Usable :
          LET r    == Execute(conns[i], disk, Head(calls[s]))
              over == ~r.ok \/ Len(calls[s]) = 1
          IN  /\ ~Locked(i, Head(calls[s]))
              /\ conns' = [conns EXCEPT ![i] = r.conn]
              /\ disk' = r.disk
              /\ calls' = [calls EXCEPT ![s] = IF over THEN <<>> ELSE Tail(@)]
              /\ doing' = [doing EXCEPT ![s] = IF over THEN NoCall ELSE @]
              /\ begun' = IF over THEN Counted(s, doing[s], r.ok) ELSE begun
    /\ UNCHANGED <<kind, startVars, made, turns, stray, restarts>>

\* The process ends, by close() or a crash, and is started again.
Restart ==
    /\ restarts < MaxRestarts
    /\ restarts' = restarts + 1
    /\ conns' = [i \in DOMAIN conns |-> Idle]
    /\ leaked' = 0
    /\ ready' = IF IsSqlite THEN "yes" ELSE "connecting"
    /\ attempt' = 0
    /\ calls' = [s \in Sessions |-> <<>>]
    /\ doing' = [s \in Sessions |-> NoCall]
    /\ begun' = [s \in Sessions |-> 0]
    /\ stray' = FALSE
    /\ UNCHANGED <<kind, disk, made, turns>>

StoreNext == \/ Connect
             \/ CreateTables
             \/ InitFails
             \/ Backoff
             \/ \E s \in Sessions, c \in Transactional \cup Saves : CallStore(s, c)
             \/ \E s \in Sessions : RunStatement(s)
             \/ Restart

StoreSpec == (\E k \in Stores : StoreInit(k)) /\ [][StoreNext]_storeVars
StoreFairness == WF_storeVars(Connect \/ CreateTables \/ InitFails \/ Backoff)

-----------------------------------------------------------------------------
(* Properties *)

\* When every session that began has committed, nothing is left that a crash
\* could undo: the connection has no transaction open, whatever the sessions did in
\* between on the connection they share.  (A checkpoint set before any begin opens
\* a transaction that no commit names, and a commit releases a checkpoint that
\* took the session's name in place of its savepoint: stray excludes both.  The
\* statements of a commit on a pool may go to two connections, and the one that
\* began stays open.)
CommittedIsDurable ==
    kind # "pool" /\ ~stray /\ (\A s \in Sessions : begun[s] = 0 /\ doing[s] = NoCall) =>
        \A i \in DOMAIN conns : conns[i] = Idle

\* Sessions that take turns on a SQLite store get the transactions promised: a
\* rollback restores the rows of the checkpoint, a commit makes all rows those of
\* the database, a crash at any await undoes what was not committed.
Checkpoints == LET stack == conns[1].stack
               IN  [i \in 1..(Len(stack) - 1) |->
                       [name |-> stack[i + 1].name, rows |-> Over(stack[i + 1].writes, disk)]]
Promised == INSTANCE Transactions WITH
                Names     <- Marks,
                Values    <- 1..MaxCalls,
                committed <- disk,
                open      <- conns[1].stack # <<>>,
                working   <- View(1),
                marks     <- IF conns[1].stack = <<>> THEN <<>> ELSE Checkpoints
TurnsAreTransactions ==
    /\ Promised!Init
    /\ [][IsSqlite /\ turns' => [Promised!Next]_(Promised!transactionVars)]_storeVars

\* The initialisation ends, well or not, unless its own attempts have used up
\* the connections of the pool: they then wait for ever.
InitialisationSettles == []<>(ready \in {"yes", "failed"} \/ Usable = {})
=============================================================================
