------------------------ MODULE WasmGraphStoreProofs ------------------------
(***************************************************************************)
(* The browser's graph store, for any graphs, operations, page reloads and *)
(* initialisations that fail: every statement has one place and is         *)
(* executed once, versions are whole, loads return what was saved, and     *)
(* what was saved to the end stays.                                        *)
(***************************************************************************)
EXTENDS WasmGraphStore, SequenceTheorems, FiniteSetTheorems, TLAPS

-----------------------------------------------------------------------------
(* The inductive invariant: types *)

Tables == {"graph_nodes", "graph_edges"}
Items == UNION {g.nodes \cup g.edges : g \in Graphs}
Statements == {CreateTable(t) : t \in Tables}
              \cup {Insert(t, v, x) : t \in Tables, v \in Nat, x \in Items}
              \cup {Select(t, v) : t \in Tables, v \in Nat}
              \cup {SelectVersions}
Request == [stmt : Statements, promise : {"waiting", "settled", "forgotten"}]
Response == [id : Nat, ok : BOOLEAN, rows : SUBSET (Items \cup Nat)]
Database == [tables : SUBSET Tables, rows : SUBSET (Tables \X Nat \X Items)]
Content == [nodes : SUBSET Items, edges : SUBSET Items]
Operation == [kind : {"save", "load", "similar"}, graph : Content, ver : Nat,
              todo : Seq(Statements), req : Nat,
              state : {"running", "done", "failed"}, wanted : Content]

Types ==
    /\ requests \in Seq(Request)
    /\ toWorker \in Seq(Nat)
    /\ toMain \in Seq(Response)
    /\ worker \in {"loading", "running", "failed", "terminated"}
    /\ job \in [DOMAIN job -> {"factory", "opening"}]
    /\ database \in Database
    /\ ops \in Seq(Operation)
    /\ counter \in Nat /\ counter <= Len(ops)
    /\ earlier \in Nat /\ earlier + Len(ops) + reloads <= MaxSteps
    /\ reloads \in 0..MaxReloads

-----------------------------------------------------------------------------
(* The inductive invariant: where requests are *)

Alive == worker \in {"loading", "running"}

InPlaces ==
    /\ ToSet(toWorker) \subseteq Ids /\ Answers \subseteq Ids /\ DOMAIN job \subseteq Ids
    /\ {engine, handle} \subseteq Ids \cup {0}
    /\ IsInjective(toWorker)
    /\ \A i, j \in DOMAIN toMain : toMain[i].id = toMain[j].id => i = j
    /\ OnTheWay \cap DOMAIN job = {} /\ OnTheWay \cap Answers = {}
    /\ DOMAIN job \cap Answers = {}
    /\ Alive => Pending = OnTheWay \cup DOMAIN job \cup Answers

-----------------------------------------------------------------------------
(* The inductive invariant: what operations and the database have to do with *)
(* each other                                                                *)

\* The statements of a save.
Inserts(g, v) == {Insert("graph_nodes", v, x) : x \in g.nodes}
                 \cup {Insert("graph_edges", v, e) : e \in g.edges}
IsOf(op, stmt) == op.kind = "save" /\ stmt \in Inserts(op.graph, op.ver)
IsWritten(stmt) == <<stmt.table, stmt.ver, stmt.item>> \in database.rows

\* The statements of this page's saves: nobody replaces their rows.
IsOwn(stmt) == \E op \in ToSet(ops) : IsOf(op, stmt)

\* A running operation awaits the answer to the first statement it has left.
AwaitsItsStatement(op) ==
    /\ op.state = "running" => /\ op.todo # <<>> /\ op.req \in DOMAIN requests
                               /\ requests[op.req].stmt = Head(op.todo)
    /\ op.state # "running" => op.req = 0 /\ op.todo = <<>>

\* What a save that has not failed has not left to do is in the database.
SaveIsRight(op) ==
    op.kind = "save" =>
        /\ op.graph \in Graphs
        /\ op.ver \in 1..counter
        /\ ToSet(op.todo) \subseteq Inserts(op.graph, op.ver)
        /\ op.state # "failed" =>
              \A stmt \in Inserts(op.graph, op.ver) : stmt \in ToSet(op.todo) \/ IsWritten(stmt)

\* What a load must find is in the database, and up to a reload what it has found
\* is; it reads the nodes first and ends when there are none.
LoadIsRight(op) ==
    /\ op.kind = "load" =>
        /\ Within(op.wanted, Stored(op.ver))
        /\ reloads = 0 => Within(op.graph, Stored(op.ver))
        /\ op.wanted.nodes = {} => op.wanted.edges = {}
        /\ op.graph.nodes = {} => op.graph.edges = {}
        /\ op.state = "running" =>
              \/ op.todo = ReadVersion(op.ver)
              \/ /\ op.todo = <<Select("graph_edges", op.ver)>>
                 /\ op.wanted.nodes \subseteq op.graph.nodes /\ op.graph.nodes # {}
        /\ op.state = "done" => Within(op.wanted, op.graph)
    /\ op.kind = "similar" /\ op.state = "running" => op.todo = <<SelectVersions>>

\* What a load must find is a graph this page has saved.
WantsOwn(op) ==
    op.kind = "load" => \/ op.wanted = EmptyGraph
                        \/ \E save \in ToSet(ops) : /\ save.kind = "save" /\ save.ver = op.ver
                                                    /\ save.graph = op.wanted

OpsAreRight == \A op \in ToSet(ops) : /\ AwaitsItsStatement(op)
                                      /\ SaveIsRight(op)
                                      /\ LoadIsRight(op)
                                      /\ WantsOwn(op)

VersionsAreApart ==
    \A i, j \in DOMAIN ops :
        ops[i].kind = "save" /\ ops[j].kind = "save" /\ ops[i].ver = ops[j].ver => i = j

\* Only saves insert, and up to a reload nothing else is in the database.
RequestsAreOfSaves ==
    \A r \in DOMAIN requests : requests[r].stmt.type = "insert" =>
        \E op \in ToSet(ops) : IsOf(op, requests[r].stmt)
RowsAreOfSaves ==
    reloads = 0 => \A row \in database.rows :
        \E op \in ToSet(ops) : IsOf(op, Insert(row[1], row[2], row[3]))

\* The part of what a load must find that a table holds.
Wanted(op, table) == IF table = "graph_nodes" THEN op.wanted.nodes ELSE op.wanted.edges

\* An answer is still true when it arrives.
AnswerIsRight(response) ==
    LET stmt == requests[response.id].stmt
    IN  response.ok =>
            /\ stmt.type = "insert" => IsWritten(stmt)
            /\ stmt.type = "select" =>
                  /\ response.rows \subseteq Items
                  /\ reloads = 0 => response.rows \subseteq Rows(stmt, database)
                  /\ \A op \in ToSet(ops) : op.kind = "load" /\ op.req = response.id =>
                        Wanted(op, stmt.table) \subseteq response.rows
AnswersAreRight == \A response \in ToSet(toMain) : AnswerIsRight(response)

\* History knows the saves of this page.
IsKnown(save) ==
    /\ save.graph \in Graphs /\ save.ver \in Nat
    /\ save.page \in Nat /\ save.page <= reloads
    /\ save.page = reloads =>
          \E op \in ToSet(ops) : op.kind = "save" /\ op.graph = save.graph /\ op.ver = save.ver
SavesAreKnown ==
    /\ \A op \in ToSet(ops) : op.kind = "save" => Save(op.graph, op.ver) \in begun
    /\ \A save \in finished : IsKnown(save)

DataAreRight == /\ OpsAreRight
                /\ VersionsAreApart
                /\ RequestsAreOfSaves
                /\ RowsAreOfSaves
                /\ AnswersAreRight
                /\ SavesAreKnown
                /\ SavesSurvive

StoreInv == /\ Types
            /\ InPlaces
            /\ DataAreRight

-----------------------------------------------------------------------------
(* Lemmas on graphs and sequences *)

LEMMA GraphsAreContent ==
    /\ \A g \in Graphs : g \in Content /\ (g.nodes = {} => g.edges = {})
    /\ EmptyGraph \in Content
<1>1. ASSUME NEW g \in Graphs PROVE g \in Content /\ (g.nodes = {} => g.edges = {})
  <2>1. /\ g = [nodes |-> g.nodes, edges |-> g.edges]
        /\ \A e \in g.edges : e[1] \in g.nodes
    BY GraphsAssumption
  <2>2. g.nodes \in SUBSET Items /\ g.edges \in SUBSET Items
    BY DEF Items
  <2> QED
    BY <2>1, <2>2 DEF Content
<1>2. EmptyGraph \in Content
  BY DEF EmptyGraph, Content
<1> QED
  BY <1>1, <1>2

LEMMA HeadAndTail ==
    ASSUME NEW S, NEW s \in Seq(S), s # <<>>
    PROVE  /\ Head(s) \in S /\ Tail(s) \in Seq(S)
           /\ ToSet(s) = {Head(s)} \cup ToSet(Tail(s))
<1>1. /\ Head(s) \in S /\ Tail(s) \in Seq(S) /\ Len(Tail(s)) = Len(s) - 1
      /\ \A i \in 1..Len(Tail(s)) : Tail(s)[i] = s[i + 1]
  BY HeadTailProperties
<1>2. /\ Len(s) \in Nat \ {0} /\ Len(Tail(s)) \in Nat /\ DOMAIN s = 1..Len(s)
      /\ DOMAIN Tail(s) = 1..Len(Tail(s)) /\ Head(s) = s[1]
  BY <1>1, EmptySeq, LenProperties
<1>3. ASSUME NEW x \in ToSet(s) PROVE x \in {Head(s)} \cup ToSet(Tail(s))
  <2>1. PICK i \in 1..Len(s) : x = s[i]
    BY <1>2 DEF ToSet
  <2>2. CASE i = 1
    BY <1>2, <2>1, <2>2
  <2>3. CASE i # 1
    <3>1. i - 1 \in 1..Len(Tail(s)) /\ Tail(s)[i - 1] = s[i]
      BY <1>1, <1>2, <2>1, <2>3
    <3> QED
      BY <1>2, <2>1, <3>1 DEF ToSet
  <2> QED
    BY <2>2, <2>3
<1>4. Head(s) \in ToSet(s)
  BY <1>2 DEF ToSet
<1>5. ASSUME NEW x \in ToSet(Tail(s)) PROVE x \in ToSet(s)
  <2>1. PICK i \in 1..Len(Tail(s)) : x = Tail(s)[i]
    BY <1>2 DEF ToSet
  <2>2. i + 1 \in 1..Len(s) /\ x = s[i + 1]
    BY <1>1, <1>2, <2>1
  <2> QED
    BY <1>2, <2>2 DEF ToSet
<1> QED
  BY <1>1, <1>3, <1>4, <1>5

LEMMA InjectiveTail ==
    ASSUME NEW S, NEW s \in Seq(S), s # <<>>, IsInjective(s)
    PROVE  IsInjective(Tail(s)) /\ Head(s) \notin ToSet(Tail(s))
<1>1. /\ Tail(s) \in Seq(S) /\ Len(Tail(s)) = Len(s) - 1
      /\ \A i \in 1..Len(Tail(s)) : Tail(s)[i] = s[i + 1]
  BY HeadTailProperties
<1>2. /\ Len(s) \in Nat \ {0} /\ Len(Tail(s)) \in Nat /\ DOMAIN s = 1..Len(s)
      /\ DOMAIN Tail(s) = 1..Len(Tail(s)) /\ Head(s) = s[1]
  BY <1>1, EmptySeq, LenProperties
<1>3. ASSUME NEW i \in 1..Len(Tail(s))
      PROVE  i + 1 \in 1..Len(s) /\ i + 1 # 1 /\ 1 \in 1..Len(s) /\ Tail(s)[i] = s[i + 1]
  BY <1>1, <1>2
<1>4. ASSUME NEW i \in DOMAIN Tail(s), NEW j \in DOMAIN Tail(s), Tail(s)[i] = Tail(s)[j]
      PROVE  i = j
  <2>1. i + 1 = j + 1
    BY <1>2, <1>3, <1>4 DEF IsInjective
  <2> QED
    BY <1>2, <2>1
<1>5. ASSUME NEW i \in DOMAIN Tail(s) PROVE Tail(s)[i] # Head(s)
  BY <1>2, <1>3 DEF IsInjective
<1>6. IsInjective(Tail(s))
  BY <1>4 DEF IsInjective
<1> QED
  BY <1>5, <1>6 DEF ToSet

LEMMA InjectiveAppend ==
    ASSUME NEW S, NEW s \in Seq(S), NEW x \in S
    PROVE  /\ ToSet(Append(s, x)) = ToSet(s) \cup {x}
           /\ IsInjective(s) /\ x \notin ToSet(s) => IsInjective(Append(s, x))
<1> DEFINE t == Append(s, x)
<1>1. /\ Len(s) \in Nat /\ DOMAIN s = 1..Len(s) /\ DOMAIN t = 1..(Len(s) + 1)
      /\ \A i \in 1..Len(s) : t[i] = s[i]
      /\ t[Len(s) + 1] = x
  BY AppendProperties, LenProperties
<1> HIDE DEF t
<1>2. DOMAIN t = DOMAIN s \cup {Len(s) + 1} /\ Len(s) + 1 \notin DOMAIN s
  BY <1>1
<1>3. ToSet(t) = ToSet(s) \cup {x}
  BY <1>1, <1>2 DEF ToSet
<1>4. ASSUME IsInjective(s), x \notin ToSet(s) PROVE IsInjective(t)
  BY <1>1, <1>2, <1>4 DEF IsInjective, ToSet
<1> QED
  BY <1>3, <1>4 DEF t

LEMMA ElementsOfConcat ==
    ASSUME NEW S, NEW s \in Seq(S), NEW t \in Seq(S)
    PROVE  s \o t \in Seq(S) /\ ToSet(s \o t) = ToSet(s) \cup ToSet(t)
<1> DEFINE u == s \o t
<1>1. /\ u \in Seq(S) /\ Len(u) = Len(s) + Len(t)
      /\ \A i \in 1..Len(u) : u[i] = IF i <= Len(s) THEN s[i] ELSE t[i - Len(s)]
  BY ConcatProperties
<1>2. /\ Len(s) \in Nat /\ Len(t) \in Nat
      /\ DOMAIN s = 1..Len(s) /\ DOMAIN t = 1..Len(t) /\ DOMAIN u = 1..Len(u)
  BY <1>1, LenProperties
<1> HIDE DEF u
<1>3. ASSUME NEW x \in ToSet(u) PROVE x \in ToSet(s) \cup ToSet(t)
  <2>1. PICK i \in 1..Len(u) : x = u[i]
    BY <1>2 DEF ToSet
  <2>2. CASE i <= Len(s)
    <3>1. i \in 1..Len(s) /\ x = s[i]
      BY <1>1, <1>2, <2>1, <2>2
    <3> QED
      BY <1>2, <3>1 DEF ToSet
  <2>3. CASE ~(i <= Len(s))
    <3>1. i - Len(s) \in 1..Len(t) /\ x = t[i - Len(s)]
      BY <1>1, <1>2, <2>1, <2>3
    <3> QED
      BY <1>2, <3>1 DEF ToSet
  <2> QED
    BY <2>2, <2>3
<1>4. ASSUME NEW x \in ToSet(s) PROVE x \in ToSet(u)
  <2>1. PICK i \in 1..Len(s) : x = s[i]
    BY <1>2 DEF ToSet
  <2>2. i \in 1..Len(u) /\ x = u[i]
    BY <1>1, <1>2, <2>1
  <2> QED
    BY <1>2, <2>2 DEF ToSet
<1>5. ASSUME NEW x \in ToSet(t) PROVE x \in ToSet(u)
  <2>1. PICK i \in 1..Len(t) : x = t[i]
    BY <1>2 DEF ToSet
  <2>2. Len(s) + i \in 1..Len(u) /\ ~(Len(s) + i <= Len(s)) /\ (Len(s) + i) - Len(s) = i
    BY <1>1, <1>2, <2>1
  <2>3. u[Len(s) + i] = t[i]
    BY <1>1, <2>2
  <2> QED
    BY <1>2, <2>1, <2>2, <2>3 DEF ToSet
<1> QED
  BY <1>1, <1>3, <1>4, <1>5 DEF u

\* The sequence of a finite set has all its elements.
LEMMA SetToSeqIsAll ==
    ASSUME NEW S, IsFiniteSet(S)
    PROVE  SetToSeq(S) \in Seq(S) /\ ToSet(SetToSeq(S)) = S
<1> DEFINE n == Cardinality(S)
           f == SetToSeq(S)
<1>1. n \in Nat /\ ExistsBijection(1..n, S)
  BY FS_CardinalityType
<1>2. \E g \in [1..n -> S] : IsInjective(g)
  BY <1>1 DEF ExistsBijection, Bijection, Injection
<1>3. f \in [1..n -> S] /\ IsInjective(f)
  <2>1. f = CHOOSE g \in [1..n -> S] : IsInjective(g)
    BY DEF SetToSeq
  <2> HIDE DEF f, n
  <2> QED
    BY <1>2, <2>1
<1>4. f \in Injection(1..n, S)
  BY <1>3 DEF Injection
<1>5. IsFiniteSet(1..n) /\ Cardinality(1..n) = n
  <2> HIDE DEF n
  <2>1. Cardinality(1..n) = IF 1 > n THEN 0 ELSE n - 1 + 1
    BY <1>1, FS_Interval
  <2> QED
    BY <1>1, <2>1, FS_Interval
<1>6. f \in Surjection(1..n, S)
  <2> HIDE DEF f
  <2> QED
    BY <1>4, <1>5, FS_Injection
<1>7. f \in Seq(S)
  <2> HIDE DEF f, n
  <2> QED
    BY <1>1, <1>3, SeqDef
<1>8. ToSet(f) = S
  <2> HIDE DEF f, n
  <2> QED
    BY <1>3, <1>6 DEF Surjection, ToSet
<1> QED
  BY <1>7, <1>8

\* A sequence of inserts, one for each element of a set.
LEMMA InsertsOfASet ==
    ASSUME NEW t \in Tables, NEW v \in Nat, NEW S, S \subseteq Items, IsFiniteSet(S)
    PROVE  LET s == SetToSeq(S)
               a == [i \in 1..Len(s) |-> Insert(t, v, s[i])]
           IN  a \in Seq(Statements) /\ ToSet(a) = {Insert(t, v, x) : x \in S}
<1> DEFINE s == SetToSeq(S)
           I(x) == Insert(t, v, x)
           a == [i \in 1..Len(s) |-> I(s[i])]
<1>1. s \in Seq(S) /\ ToSet(s) = S
  BY SetToSeqIsAll
<1> HIDE DEF s
<1>2. Len(s) \in Nat /\ DOMAIN s = 1..Len(s) /\ \A i \in 1..Len(s) : s[i] \in S
  BY <1>1, ElementOfSeq, LenProperties
<1>3. \A x \in S : I(x) \in Statements
  BY DEF Statements
<1> HIDE DEF I
<1>4. a \in [1..Len(s) -> Statements] /\ DOMAIN a = 1..Len(s)
  BY <1>2, <1>3
<1>5. a \in Seq(Statements)
  <2> HIDE DEF a
  <2> QED
    BY <1>2, <1>4, SeqDef
<1>6. ToSet(a) = {I(x) : x \in S}
  BY <1>1, <1>2, <1>4 DEF ToSet
<1> QED
  BY <1>5, <1>6 DEF s, I

LEMMA InsertsInOrder ==
    ASSUME NEW g \in Graphs, NEW v \in Nat
    PROVE  InsertAll(g, v) \in Seq(Statements) /\ ToSet(InsertAll(g, v)) = Inserts(g, v)
<1> DEFINE nodes == SetToSeq(g.nodes)
           edges == SetToSeq(g.edges)
           a == [i \in 1..Len(nodes) |-> Insert("graph_nodes", v, nodes[i])]
           b == [i \in 1..Len(edges) |-> Insert("graph_edges", v, edges[i])]
<1>1. /\ g.nodes \subseteq Items /\ g.edges \subseteq Items
      /\ IsFiniteSet(g.nodes) /\ IsFiniteSet(g.edges)
      /\ "graph_nodes" \in Tables /\ "graph_edges" \in Tables
  BY GraphsAssumption DEF Items, Tables
<1>2. a \in Seq(Statements) /\ ToSet(a) = {Insert("graph_nodes", v, x) : x \in g.nodes}
  BY <1>1, InsertsOfASet
<1>3. b \in Seq(Statements) /\ ToSet(b) = {Insert("graph_edges", v, e) : e \in g.edges}
  BY <1>1, InsertsOfASet
<1>4. InsertAll(g, v) = a \o b
  BY DEF InsertAll
<1> HIDE DEF a, b
<1>5. a \o b \in Seq(Statements) /\ ToSet(a \o b) = ToSet(a) \cup ToSet(b)
  BY <1>2, <1>3, ElementsOfConcat
<1> QED
  BY <1>2, <1>3, <1>4, <1>5 DEF Inserts

-----------------------------------------------------------------------------
(* Lemmas on statements and rows *)

LEMMA StatementsAre ==
    /\ \A t, v, x : LET stmt == Insert(t, v, x)
                    IN  stmt.type = "insert" /\ stmt.table = t /\ stmt.ver = v /\ stmt.item = x
    /\ \A t, v : LET stmt == Select(t, v)
                 IN  stmt.type = "select" /\ stmt.table = t /\ stmt.ver = v
    /\ \A t : CreateTable(t).type = "create" /\ CreateTable(t).table = t
    /\ SelectVersions.type = "versions" /\ SelectVersions.table = "graph_nodes"
BY DEF Insert, Select, CreateTable, SelectVersions

LEMMA StatementIsOneOf ==
    ASSUME NEW stmt \in Statements
    PROVE  \/ \E t \in Tables : stmt = CreateTable(t)
           \/ \E t \in Tables, v \in Nat, x \in Items : stmt = Insert(t, v, x)
           \/ \E t \in Tables, v \in Nat : stmt = Select(t, v)
           \/ stmt = SelectVersions
BY DEF Statements

LEMMA InsertIsItsFields ==
    ASSUME NEW stmt \in Statements, stmt.type = "insert"
    PROVE  /\ stmt.table \in Tables /\ stmt.ver \in Nat /\ stmt.item \in Items
           /\ stmt = Insert(stmt.table, stmt.ver, stmt.item)
<1>1. PICK t \in Tables, v \in Nat, x \in Items : stmt = Insert(t, v, x)
  BY StatementIsOneOf, StatementsAre
<1>2. stmt.table = t /\ stmt.ver = v /\ stmt.item = x
  BY <1>1, StatementsAre
<1> QED
  BY <1>1, <1>2

LEMMA SelectIsItsFields ==
    ASSUME NEW stmt \in Statements, stmt.type = "select"
    PROVE  /\ stmt.table \in Tables /\ stmt.ver \in Nat
           /\ stmt = Select(stmt.table, stmt.ver)
<1>1. PICK t \in Tables, v \in Nat : stmt = Select(t, v)
  BY StatementIsOneOf, StatementsAre
<1>2. stmt.table = t /\ stmt.ver = v
  BY <1>1, StatementsAre
<1> QED
  BY <1>1, <1>2

\* What a select finds.
LEMMA RowsAre ==
    ASSUME NEW db \in Database, NEW t, NEW v
    PROVE  Rows(Select(t, v), db) = {x \in Items : <<t, v, x>> \in db.rows}
<1>1. \A r \in db.rows : r = <<r[1], r[2], r[3]>> /\ r[3] \in Items
  BY DEF Database
<1>2. Rows(Select(t, v), db) = {r[3] : r \in {q \in db.rows : q[1] = t /\ q[2] = v}}
  BY StatementsAre DEF Rows
<1>3. ASSUME NEW x \in Rows(Select(t, v), db) PROVE x \in Items /\ <<t, v, x>> \in db.rows
  <2>1. PICK r \in db.rows : r[1] = t /\ r[2] = v /\ x = r[3]
    BY <1>2, <1>3
  <2> QED
    BY <1>1, <2>1
<1>4. ASSUME NEW x \in Items, <<t, v, x>> \in db.rows PROVE x \in Rows(Select(t, v), db)
  <2>1. PICK r : r = <<t, v, x>>
    OBVIOUS
  <2>2. r[1] = t /\ r[2] = v /\ r[3] = x
    BY <2>1
  <2> QED
    BY <1>2, <1>4, <2>1, <2>2
<1> QED
  BY <1>3, <1>4

\* Whatever a statement returns is items or version numbers.
LEMMA RowsAreTyped ==
    ASSUME NEW db \in Database, NEW stmt \in Statements
    PROVE  Rows(stmt, db) \in SUBSET (Items \cup Nat)
<1>1. \A r \in db.rows : r[2] \in Nat /\ r[3] \in Items
  BY DEF Database
<1> QED
  BY <1>1 DEF Rows

\* What a statement does to the file.
LEMMA ExecutedIs ==
    ASSUME NEW db \in Database, NEW stmt \in Statements
    PROVE  /\ Executed(stmt, db) \in Database
           /\ Executed(stmt, db).rows =
                IF stmt.type = "insert"
                THEN Inserted(<<stmt.table, stmt.ver, stmt.item>>, db.rows)
                ELSE db.rows
<1>1. CASE stmt.type = "insert"
  <2>1. <<stmt.table, stmt.ver, stmt.item>> \in Tables \X Nat \X Items
    BY <1>1, InsertIsItsFields
  <2>2. Executed(stmt, db)
            = [db EXCEPT !.rows = Inserted(<<stmt.table, stmt.ver, stmt.item>>, @)]
    BY <1>1 DEF Executed
  <2>3. db.rows \in SUBSET (Tables \X Nat \X Items)
    BY DEF Database
  <2>4. Inserted(<<stmt.table, stmt.ver, stmt.item>>, db.rows) \in SUBSET (Tables \X Nat \X Items)
    BY <2>1, <2>3 DEF Inserted
  <2> QED
    BY <1>1, <2>2, <2>4 DEF Database
<1>2. CASE stmt.type = "create"
  <2>1. stmt.table \in Tables
    BY <1>2, StatementIsOneOf, StatementsAre
  <2>2. Executed(stmt, db) = [db EXCEPT !.tables = @ \cup {stmt.table}]
    BY <1>2 DEF Executed
  <2> QED
    BY <1>2, <2>1, <2>2 DEF Database
<1>3. CASE stmt.type # "insert" /\ stmt.type # "create"
  BY <1>3 DEF Executed
<1> QED
  BY <1>1, <1>2, <1>3

-----------------------------------------------------------------------------
(* Lemmas on answers, posted statements and promises *)

IdsOf(answers) == {answers[i].id : i \in DOMAIN answers}
IdsApart(answers) == \A i, j \in DOMAIN answers : answers[i].id = answers[j].id => i = j

LEMMA AppendedAnswer ==
    ASSUME NEW s \in Seq(Response), NEW r \in Response
    PROVE  /\ Append(s, r) \in Seq(Response) /\ ToSet(Append(s, r)) = ToSet(s) \cup {r}
           /\ IdsOf(Append(s, r)) = IdsOf(s) \cup {r.id}
           /\ IdsApart(s) /\ r.id \notin IdsOf(s) => IdsApart(Append(s, r))
<1> DEFINE t == Append(s, r)
<1>1. /\ Len(s) \in Nat /\ DOMAIN s = 1..Len(s) /\ DOMAIN t = 1..(Len(s) + 1)
      /\ \A i \in 1..Len(s) : t[i] = s[i]
      /\ t[Len(s) + 1] = r /\ t \in Seq(Response)
  BY AppendProperties, LenProperties
<1> HIDE DEF t
<1>2. DOMAIN t = DOMAIN s \cup {Len(s) + 1} /\ Len(s) + 1 \notin DOMAIN s
  BY <1>1
<1>3. ToSet(t) = ToSet(s) \cup {r}
  BY <1>1, <1>2 DEF ToSet
<1>4. IdsOf(t) = IdsOf(s) \cup {r.id}
  BY <1>1, <1>2 DEF IdsOf
<1>5. ASSUME IdsApart(s), r.id \notin IdsOf(s) PROVE IdsApart(t)
  BY <1>1, <1>2, <1>5 DEF IdsOf, IdsApart
<1> QED
  BY <1>1, <1>3, <1>4, <1>5 DEF t

LEMMA TakenAnswer ==
    ASSUME NEW s \in Seq(Response), s # <<>>, IdsApart(s)
    PROVE  /\ IdsOf(s) = {Head(s).id} \cup IdsOf(Tail(s))
           /\ Head(s).id \notin IdsOf(Tail(s))
           /\ IdsApart(Tail(s))
<1>1. /\ Tail(s) \in Seq(Response) /\ Len(Tail(s)) = Len(s) - 1
      /\ \A i \in 1..Len(Tail(s)) : Tail(s)[i] = s[i + 1]
  BY HeadTailProperties
<1>2. /\ Len(s) \in Nat \ {0} /\ Len(Tail(s)) \in Nat /\ DOMAIN s = 1..Len(s)
      /\ DOMAIN Tail(s) = 1..Len(Tail(s)) /\ Head(s) = s[1]
  BY <1>1, EmptySeq, LenProperties
<1>3. ToSet(s) = {Head(s)} \cup ToSet(Tail(s))
  BY HeadAndTail
<1>4. /\ IdsOf(s) = {r.id : r \in ToSet(s)}
      /\ IdsOf(Tail(s)) = {r.id : r \in ToSet(Tail(s))}
  BY DEF IdsOf, ToSet
<1>5. IdsOf(s) = {Head(s).id} \cup IdsOf(Tail(s))
  BY <1>3, <1>4
<1>6. ASSUME NEW i \in 1..Len(Tail(s))
      PROVE  i + 1 \in 1..Len(s) /\ i + 1 # 1 /\ 1 \in 1..Len(s) /\ Tail(s)[i] = s[i + 1]
  BY <1>1, <1>2
<1>7. ASSUME NEW i \in DOMAIN Tail(s) PROVE Tail(s)[i].id # Head(s).id
  BY <1>2, <1>6 DEF IdsApart
<1>8. ASSUME NEW i \in DOMAIN Tail(s), NEW j \in DOMAIN Tail(s), Tail(s)[i].id = Tail(s)[j].id
      PROVE  i = j
  <2>1. i + 1 = j + 1
    BY <1>2, <1>6, <1>8 DEF IdsApart
  <2> QED
    BY <1>2, <2>1
<1> QED
  BY <1>5, <1>7, <1>8 DEF IdsOf, IdsApart

First(todo) == SubSeq(todo, 1, IF todo = <<>> THEN 0 ELSE 1)
Waiting(stmt) == [stmt |-> stmt, promise |-> "waiting"]

\* A statement that is left to do is posted as the next request.
LEMMA PostedIs ==
    ASSUME NEW todo \in Seq(Statements), NEW reqs \in Seq(Request), todo # <<>>
    PROVE  /\ Len(First(todo)) = 1
           /\ Posted(reqs, First(todo)) = Append(reqs, Waiting(Head(todo)))
<1>1. Len(todo) \in Nat \ {0} /\ Head(todo) \in Statements /\ Head(todo) = todo[1]
  BY EmptySeq, HeadTailProperties
<1>2. First(todo) = SubSeq(todo, 1, 1)
  BY DEF First
<1>3. \A i \in 1..1 : todo[i] \in Statements
  BY <1>1
<1>4. Len(SubSeq(todo, 1, 1)) = 1 /\ \A i \in 1..1 : SubSeq(todo, 1, 1)[i] = todo[i]
  BY <1>3, SubSeqProperties
<1>5. Len(First(todo)) = 1 /\ First(todo)[1] = Head(todo)
  BY <1>1, <1>2, <1>4
<1>6. [i \in 1..Len(First(todo)) |-> [stmt |-> First(todo)[i], promise |-> "waiting"]]
      = <<Waiting(Head(todo))>>
  <2> DEFINE f == [i \in 1..1 |-> [stmt |-> First(todo)[i], promise |-> "waiting"]]
  <2>1. f = [i \in 1..1 |-> Waiting(Head(todo))]
    BY <1>5 DEF Waiting
  <2> QED
    BY <1>5, <2>1
<1>7. Waiting(Head(todo)) \in Request
  BY <1>1 DEF Waiting, Request
<1> QED
  BY <1>5, <1>6, <1>7, AppendIsConcat DEF Posted

LEMMA NothingIsPosted ==
    ASSUME NEW reqs \in Seq(Request)
    PROVE  Len(First(<<>>)) = 0 /\ Posted(reqs, First(<<>>)) = reqs
<1>1. First(<<>>) = <<>>
  BY SubSeqEmpty DEF First
<1>2. Len(First(<<>>)) = 0
  BY <1>1, EmptySeq
<1>3. [i \in 1..0 |-> [stmt |-> First(<<>>)[i], promise |-> "waiting"]] = <<>>
  OBVIOUS
<1> QED
  BY <1>2, <1>3, ConcatEmptySeq DEF Posted

LEMMA DeliverableIs ==
    ASSUME toWorker \in Seq(Nat)
    PROVE  /\ Deliverable(0) = toWorker
           /\ Deliverable(1) = IF Alive THEN Append(toWorker, Len(requests) + 1) ELSE toWorker
<1>1. [i \in 1..0 |-> Len(requests) + i] = <<>>
  OBVIOUS
<1>2. Deliverable(0) = toWorker
  BY <1>1, ConcatEmptySeq DEF Deliverable
<1>3. [i \in 1..1 |-> Len(requests) + i] = <<Len(requests) + 1>>
  <2>1. [i \in 1..1 |-> Len(requests) + i] = [i \in 1..1 |-> Len(requests) + 1]
    OBVIOUS
  <2> QED
    BY <2>1
<1>4. Append(toWorker, Len(requests) + 1) = toWorker \o <<Len(requests) + 1>>
  OBVIOUS
<1> QED
  BY <1>2, <1>3, <1>4 DEF Deliverable, Alive

\* Promises change, statements and their order do not.
LEMMA BecomeKeeps ==
    ASSUME NEW reqs \in Seq(Request), NEW ids, NEW p \in {"settled", "forgotten"}
    PROVE  LET new == Become(reqs, ids, p)
           IN  /\ new \in Seq(Request) /\ Len(new) = Len(reqs)
               /\ \A r \in 1..Len(reqs) :
                    /\ new[r].stmt = reqs[r].stmt
                    /\ new[r].promise = "waiting" <=> reqs[r].promise = "waiting" /\ r \notin ids
<1> DEFINE new == Become(reqs, ids, p)
<1>1. /\ Len(reqs) \in Nat /\ DOMAIN reqs = 1..Len(reqs)
      /\ \A r \in 1..Len(reqs) : reqs[r] \in Request
  BY ElementOfSeq, LenProperties
<1>2. ASSUME NEW r \in 1..Len(reqs)
      PROVE  /\ new[r] \in Request /\ new[r].stmt = reqs[r].stmt
             /\ new[r].promise = "waiting" <=> reqs[r].promise = "waiting" /\ r \notin ids
  <2>1. new[r] = IF r \in ids /\ reqs[r].promise = "waiting"
                 THEN [reqs[r] EXCEPT !.promise = p] ELSE reqs[r]
    BY <1>1 DEF Become
  <2> HIDE DEF new
  <2> QED
    BY <1>1, <2>1 DEF Request
<1>3. new \in [1..Len(reqs) -> Request]
  <2>1. DOMAIN new = 1..Len(reqs) /\ new = [r \in DOMAIN new |-> new[r]]
    BY <1>1 DEF Become
  <2> HIDE DEF new
  <2> QED
    BY <1>2, <2>1
<1> HIDE DEF new
<1>4. new \in Seq(Request)
  BY <1>1, <1>3, SeqDef
<1>5. Len(new) = Len(reqs)
  BY <1>1, <1>3, <1>4, LenProperties
<1> QED
  BY <1>2, <1>4, <1>5 DEF new

-----------------------------------------------------------------------------
(* What was right stays right *)

OwnRowsStay == \A stmt : IsOwn(stmt) /\ IsWritten(stmt) => IsWritten(stmt)'

\* No step but a reload takes a statement, a row of this page or a version back.
Grows ==
    /\ requests' \in Seq(Request) /\ Len(requests) <= Len(requests')
    /\ \A r \in 1..Len(requests) : requests'[r].stmt = requests[r].stmt
    /\ database' \in Database
    /\ \A stmt : IsOwn(stmt) /\ IsWritten(stmt) => IsWritten(stmt)'
    /\ counter' \in Nat /\ counter <= counter'
    /\ reloads' = reloads

LEMMA IdsAre ==
    ASSUME Types PROVE Ids = DOMAIN requests /\ Len(requests) \in Nat
BY LenProperties DEF Types, Ids

\* Up to a reload all rows are of this page and none is taken back.
LEMMA RowsGrow ==
    ASSUME Types, Grows, RowsAreOfSaves, reloads = 0
    PROVE  /\ database.rows \subseteq database'.rows
           /\ \A t, v : Rows(Select(t, v), database) \subseteq Rows(Select(t, v), database')
           /\ \A v : Stored(v).nodes \subseteq Stored(v).nodes'
                     /\ Stored(v).edges \subseteq Stored(v).edges'
<1>1. database \in Database /\ database' \in Database
  BY DEF Types, Grows
<1>2. ASSUME NEW row \in database.rows PROVE row \in database'.rows
  <2>1. row = <<row[1], row[2], row[3]>>
    BY <1>1 DEF Database
  <2>2. PICK stmt : stmt = Insert(row[1], row[2], row[3])
    OBVIOUS
  <2>3. stmt.table = row[1] /\ stmt.ver = row[2] /\ stmt.item = row[3]
    BY <2>2, StatementsAre
  <2>4. IsOwn(stmt) /\ IsWritten(stmt)
    BY <1>2, <2>1, <2>2, <2>3 DEF IsOwn, IsWritten, RowsAreOfSaves
  <2>5. IsWritten(stmt)'
    BY <2>4 DEF Grows
  <2> QED
    BY <2>1, <2>3, <2>5 DEF IsWritten
<1>3. ASSUME NEW t, NEW v
      PROVE  Rows(Select(t, v), database) \subseteq Rows(Select(t, v), database')
  <2>1. /\ Rows(Select(t, v), database) = {x \in Items : <<t, v, x>> \in database.rows}
        /\ Rows(Select(t, v), database') = {x \in Items : <<t, v, x>> \in database'.rows}
    BY <1>1, RowsAre
  <2> QED
    BY <1>2, <2>1
<1> QED
  BY <1>2, <1>3 DEF Stored

\* The rows of a graph this page has saved stay.
LEMMA OwnStay ==
    ASSUME Types, Grows, NEW save \in ToSet(ops), save.kind = "save",
           Within(save.graph, Stored(save.ver))
    PROVE  Within(save.graph, Stored(save.ver)')
<1>1. database \in Database /\ database' \in Database
  BY DEF Types, Grows
<1>2. PICK v : v = save.ver
  OBVIOUS
<1>3. ASSUME NEW t, NEW x, x \in Rows(Select(t, v), database), IsOwn(Insert(t, v, x))
      PROVE  x \in Rows(Select(t, v), database')
  <2>1. /\ Rows(Select(t, v), database) = {y \in Items : <<t, v, y>> \in database.rows}
        /\ Rows(Select(t, v), database') = {y \in Items : <<t, v, y>> \in database'.rows}
    BY <1>1, RowsAre
  <2>2. PICK stmt : stmt = Insert(t, v, x)
    OBVIOUS
  <2>3. stmt.table = t /\ stmt.ver = v /\ stmt.item = x
    BY <2>2, StatementsAre
  <2>4. IsWritten(stmt)
    BY <1>3, <2>1, <2>3 DEF IsWritten
  <2>5. IsWritten(stmt)'
    BY <1>3, <2>2, <2>4 DEF Grows
  <2> QED
    BY <1>3, <2>1, <2>3, <2>5 DEF IsWritten
<1>4. /\ \A x \in save.graph.nodes : IsOwn(Insert("graph_nodes", v, x))
      /\ \A x \in save.graph.edges : IsOwn(Insert("graph_edges", v, x))
  BY <1>2 DEF IsOwn, IsOf, Inserts
<1>5. /\ save.graph.nodes \subseteq Rows(Select("graph_nodes", v), database)
      /\ save.graph.edges \subseteq Rows(Select("graph_edges", v), database)
  BY <1>2 DEF Within, Stored
<1> QED
  BY <1>2, <1>3, <1>4, <1>5 DEF Within, Stored

LEMMA AwaitingStays ==
    ASSUME Types, Grows, NEW op, AwaitsItsStatement(op)
    PROVE  AwaitsItsStatement(op)'
<1>1. DOMAIN requests = 1..Len(requests) /\ DOMAIN requests' = 1..Len(requests')
      /\ Len(requests) \in Nat /\ Len(requests') \in Nat
  BY LenProperties DEF Types, Grows
<1>2. DOMAIN requests \subseteq DOMAIN requests'
  BY <1>1 DEF Grows
<1> QED
  BY <1>1, <1>2 DEF AwaitsItsStatement, Grows

\* Either op is one of this page's operations, or the database does not change.
LEMMA SaveStays ==
    ASSUME Types, Grows, NEW op, SaveIsRight(op), op \in ToSet(ops) \/ database' = database
    PROVE  SaveIsRight(op)'
<1>1. ASSUME op.kind = "save", NEW stmt \in Inserts(op.graph, op.ver), IsWritten(stmt)
      PROVE  IsWritten(stmt)'
  <2>1. CASE op \in ToSet(ops)
    <3>1. IsOwn(stmt)
      BY <1>1, <2>1 DEF IsOwn, IsOf
    <3> QED
      BY <1>1, <3>1 DEF Grows
  <2>2. CASE database' = database
    BY <1>1, <2>2 DEF IsWritten
  <2> QED
    BY <2>1, <2>2
<1>2. counter \in Nat /\ \A v \in 1..counter : v \in 1..counter'
  BY DEF Types, Grows
<1> QED
  BY <1>1, <1>2 DEF SaveIsRight

LEMMA LoadStays ==
    ASSUME Types, Grows, RowsAreOfSaves, NEW op, LoadIsRight(op),
           WantsOwn(op) \/ database' = database
    PROVE  LoadIsRight(op)'
<1>1. ASSUME op.kind = "load" PROVE Within(op.wanted, Stored(op.ver)')
  <2>1. Within(op.wanted, Stored(op.ver))
    BY <1>1 DEF LoadIsRight
  <2>2. CASE database' = database
    BY <2>1, <2>2 DEF Within, Stored
  <2>3. CASE op.wanted = EmptyGraph
    BY <2>3 DEF Within, EmptyGraph
  <2>4. ASSUME NEW save \in ToSet(ops), save.kind = "save", save.ver = op.ver,
               save.graph = op.wanted
        PROVE  Within(op.wanted, Stored(op.ver)')
    <3>1. PICK v : v = save.ver
      OBVIOUS
    <3>2. Within(save.graph, Stored(v)')
      BY <2>1, <2>4, <3>1, OwnStay
    <3> QED
      BY <2>4, <3>1, <3>2
  <2> QED
    BY <1>1, <2>2, <2>3, <2>4 DEF WantsOwn
<1>2. ASSUME op.kind = "load", reloads' = 0 PROVE Within(op.graph, Stored(op.ver)')
  <2>1. reloads = 0 /\ Within(op.graph, Stored(op.ver))
    BY <1>2 DEF LoadIsRight, Grows
  <2> QED
    BY <2>1, RowsGrow DEF Within
<1> QED
  BY <1>1, <1>2 DEF LoadIsRight

\* An answer stays right unless an operation begins to await it.
LEMMA AnswerStays ==
    ASSUME Types, Grows, RequestsAreOfSaves, RowsAreOfSaves,
           NEW response \in Response, response.id \in Ids, AnswerIsRight(response),
           \A op \in ToSet(ops)' : op.kind = "load" /\ op.req = response.id => op \in ToSet(ops)
    PROVE  AnswerIsRight(response)'
<1>1. /\ response.id \in 1..Len(requests)
      /\ requests'[response.id].stmt = requests[response.id].stmt
      /\ requests[response.id].stmt \in Statements
  <2>1. response.id \in 1..Len(requests) /\ requests[response.id] \in Request
    BY ElementOfSeq DEF Types, Ids
  <2> QED
    BY <2>1 DEF Grows, Request
<1>2. PICK stmt \in Statements : /\ stmt = requests[response.id].stmt
                                 /\ stmt = requests'[response.id].stmt
  BY <1>1
<1>3. stmt.type = "select" /\ reloads' = 0 =>
        reloads = 0 /\ Rows(stmt, database) \subseteq Rows(stmt, database')
  BY SelectIsItsFields, RowsGrow DEF Grows
<1>4. stmt.type = "insert" /\ IsWritten(stmt) => IsWritten(stmt)'
  <2>1. stmt.type = "insert" => IsOwn(stmt)
    BY <1>1, <1>2, IdsAre DEF RequestsAreOfSaves, IsOwn, Ids
  <2> QED
    BY <2>1 DEF Grows
<1> SUFFICES ASSUME response.ok
             PROVE  /\ stmt.type = "insert" => IsWritten(stmt)'
                    /\ stmt.type = "select" =>
                         /\ response.rows \subseteq Items
                         /\ reloads' = 0 => response.rows \subseteq Rows(stmt, database')
                         /\ \A op \in ToSet(ops)' : op.kind = "load" /\ op.req = response.id =>
                               Wanted(op, stmt.table) \subseteq response.rows
  BY <1>2 DEF AnswerIsRight, IsWritten
<1>5. /\ stmt.type = "insert" => IsWritten(stmt)
      /\ stmt.type = "select" =>
           /\ response.rows \subseteq Items
           /\ reloads = 0 => response.rows \subseteq Rows(stmt, database)
           /\ \A op \in ToSet(ops) : op.kind = "load" /\ op.req = response.id =>
                 Wanted(op, stmt.table) \subseteq response.rows
  BY <1>2 DEF AnswerIsRight
<1> QED
  BY <1>3, <1>4, <1>5

\* What was saved to the end: its nodes, and a row for each of its edges.
IsKept(save) == /\ save.graph.nodes \subseteq Stored(save.ver).nodes
                /\ \A e \in save.graph.edges : EdgeStays(e, save)

LEMMA KeptStays ==
    ASSUME NEW save, IsKept(save), database' = database, begun \subseteq begun'
    PROVE  IsKept(save)'
<1>1. \A v : Stored(v)' = Stored(v)
  BY DEF Stored
<1>2. \A d : WrittenLater(d, save) => WrittenLater(d, save)'
  BY DEF WrittenLater
<1>3. \A e : EdgeStays(e, save) => EdgeStays(e, save)'
  BY <1>1, <1>2 DEF EdgeStays
<1> QED
  BY <1>1, <1>3 DEF IsKept

\* A graph that is stored is kept.
LEMMA StoredIsKept ==
    ASSUME NEW save, Within(save.graph, Stored(save.ver)) PROVE IsKept(save)
BY DEF IsKept, Within, EdgeStays, SameEnds

-----------------------------------------------------------------------------
(* The worker answers *)

LEMMA ElementsAreTyped ==
    ASSUME Types, InPlaces
    PROVE  /\ \A op \in ToSet(ops) : op \in Operation
           /\ \A response \in ToSet(toMain) : response \in Response /\ response.id \in Ids
           /\ \A id \in Ids : requests[id] \in Request /\ requests[id].stmt \in Statements
<1>1. \A op \in ToSet(ops) : op \in Operation
  BY ElementOfSeq, LenProperties DEF Types, ToSet
<1>2. \A response \in ToSet(toMain) : response \in Response
  BY ElementOfSeq, LenProperties DEF Types, ToSet
<1>3. \A response \in ToSet(toMain) : response.id \in Ids
  BY DEF InPlaces, Answers, ToSet
<1>4. \A id \in Ids : requests[id] \in Request
  BY ElementOfSeq DEF Types, Ids
<1> QED
  BY <1>1, <1>2, <1>3, <1>4 DEF Request

\* What a load must find is among the rows its statement selects.
LEMMA AwaitedRows ==
    ASSUME Types, NEW op, op.kind = "load", op.req \in Ids,
           AwaitsItsStatement(op), LoadIsRight(op)
    PROVE  LET stmt == requests[op.req].stmt
           IN  Wanted(op, stmt.table) \subseteq Rows(stmt, database)
<1>1. op.req # 0
  BY IdsAre DEF Ids
<1>2. op.state = "running" /\ requests[op.req].stmt = Head(op.todo)
  BY <1>1 DEF AwaitsItsStatement
<1>3. /\ op.wanted.nodes \subseteq Rows(Select("graph_nodes", op.ver), database)
      /\ op.wanted.edges \subseteq Rows(Select("graph_edges", op.ver), database)
  BY DEF LoadIsRight, Within, Stored
<1>4. \/ Head(op.todo) = Select("graph_nodes", op.ver)
      \/ Head(op.todo) = Select("graph_edges", op.ver)
  BY <1>2 DEF LoadIsRight, ReadVersion
<1>5. /\ Select("graph_nodes", op.ver).table = "graph_nodes"
      /\ Select("graph_edges", op.ver).table = "graph_edges"
  BY StatementsAre
<1> QED
  BY <1>2, <1>3, <1>4, <1>5 DEF Wanted

Untouched == UNCHANGED <<requests, counter, ops, earlier, begun, finished, reloads>>

RowOf(stmt) == <<stmt.table, stmt.ver, stmt.item>>

LEMMA InsertsAre ==
    ASSUME NEW g, NEW v, NEW stmt \in Inserts(g, v)
    PROVE  /\ stmt.type = "insert" /\ stmt.ver = v
           /\ \/ stmt.table = "graph_nodes" /\ stmt.item \in g.nodes
              \/ stmt.table = "graph_edges" /\ stmt.item \in g.edges
BY StatementsAre DEF Inserts

\* Two edges of one graph have not the same ends.
LEMMA OneEdge ==
    ASSUME NEW g \in Graphs, NEW d \in g.edges, NEW e \in g.edges, SameEnds(d, e)
    PROVE  d = e
BY GraphsAssumption

\* Two statements of this page's saves have the same key only for the same row.
LEMMA OwnKeysAreApart ==
    ASSUME StoreInv, NEW stmt, NEW other, IsOwn(stmt), IsOwn(other),
           SameKey(RowOf(other), RowOf(stmt))
    PROVE  RowOf(other) = RowOf(stmt)
<1>1. PICK op \in ToSet(ops), op2 \in ToSet(ops) : IsOf(op, stmt) /\ IsOf(op2, other)
  BY DEF IsOwn
<1>2. /\ op.kind = "save" /\ stmt \in Inserts(op.graph, op.ver) /\ op.graph \in Graphs
      /\ op2.kind = "save" /\ other \in Inserts(op2.graph, op2.ver)
  BY <1>1 DEF IsOf, StoreInv, DataAreRight, OpsAreRight, SaveIsRight
<1>3. /\ other.table = stmt.table /\ other.ver = stmt.ver
      /\ IF stmt.table = "graph_edges" THEN SameEnds(other.item, stmt.item)
         ELSE other.item = stmt.item
  BY DEF SameKey, RowOf
<1>4. op = op2
  <2>1. op.ver = op2.ver
    BY <1>2, <1>3, InsertsAre
  <2>2. PICK i \in DOMAIN ops, j \in DOMAIN ops : op = ops[i] /\ op2 = ops[j]
    BY DEF ToSet
  <2> QED
    BY <1>2, <2>1, <2>2 DEF StoreInv, DataAreRight, VersionsAreApart
<1>5. CASE stmt.table = "graph_edges"
  <2>1. stmt.item \in op.graph.edges /\ other.item \in op.graph.edges
    BY <1>2, <1>3, <1>4, <1>5, InsertsAre
  <2>2. other.item = stmt.item
    BY <1>2, <1>3, <1>5, <2>1, OneEdge
  <2> QED
    BY <1>3, <2>2 DEF RowOf
<1>6. CASE stmt.table # "graph_edges"
  BY <1>3, <1>6 DEF RowOf
<1> QED
  BY <1>5, <1>6

LEMMA OwnRowsStayInsert ==
    ASSUME StoreInv, NEW stmt, IsOwn(stmt), database'.rows = Inserted(RowOf(stmt), database.rows)
    PROVE  OwnRowsStay
<1> SUFFICES ASSUME NEW other, IsOwn(other), RowOf(other) \in database.rows
             PROVE  RowOf(other) \in database'.rows
  BY DEF OwnRowsStay, IsWritten, RowOf
<1>1. SameKey(RowOf(other), RowOf(stmt)) => RowOf(other) = RowOf(stmt)
  BY OwnKeysAreApart
<1> QED
  BY <1>1 DEF Inserted

\* What an insert of this page replaces was written by an earlier page.
LEMMA KeptStaysInsert ==
    ASSUME StoreInv, database' \in Database, UNCHANGED <<begun, finished, reloads>>,
           NEW stmt, IsOwn(stmt), database'.rows = Inserted(RowOf(stmt), database.rows),
           NEW save \in finished, IsKept(save)
    PROVE  IsKept(save)'
<1>1. PICK op \in ToSet(ops) : IsOf(op, stmt)
  BY DEF IsOwn
<1>2. /\ op.kind = "save" /\ stmt \in Inserts(op.graph, op.ver) /\ op.graph \in Graphs
      /\ Save(op.graph, op.ver) \in begun
  BY <1>1 DEF IsOf, StoreInv, DataAreRight, OpsAreRight, SaveIsRight, SavesAreKnown
<1>3. PICK v : v = save.ver
  OBVIOUS
<1>4. ASSUME NEW t
      PROVE  /\ Rows(Select(t, v), database) = {x \in Items : <<t, v, x>> \in database.rows}
             /\ Rows(Select(t, v), database') = {x \in Items : <<t, v, x>> \in database'.rows}
  BY RowsAre DEF StoreInv, Types
<1>5. ASSUME NEW x \in Stored(v).nodes PROVE x \in Stored(v)'.nodes
  <2>1. x \in Items /\ <<"graph_nodes", v, x>> \in database.rows
    BY <1>4 DEF Stored
  <2>2. PICK row : row = <<"graph_nodes", v, x>>
    OBVIOUS
  <2>3. row[1] = "graph_nodes" /\ row[2] = v /\ row[3] = x
    BY <2>2
  <2>4. SameKey(row, RowOf(stmt)) => row = RowOf(stmt)
    BY <2>2, <2>3 DEF SameKey, RowOf
  <2>5. row \in database'.rows
    BY <2>1, <2>2, <2>4 DEF Inserted
  <2> QED
    BY <1>4, <2>1, <2>2, <2>5 DEF Stored
<1>6. ASSUME NEW e \in save.graph.edges PROVE EdgeStays(e, save)'
  <2>1. PICK d \in Stored(v).edges : SameEnds(d, e) /\ (d = e \/ WrittenLater(d, save))
    BY <1>3, <1>6 DEF IsKept, EdgeStays
  <2>2. d \in Items /\ <<"graph_edges", v, d>> \in database.rows
    BY <1>4, <2>1 DEF Stored
  <2>3. PICK row : row = <<"graph_edges", v, d>>
    OBVIOUS
  <2>4. row[1] = "graph_edges" /\ row[2] = v /\ row[3] = d
    BY <2>3
  <2>5. CASE ~SameKey(row, RowOf(stmt))
    <3>1. row \in database'.rows
      BY <2>2, <2>3, <2>5 DEF Inserted
    <3>2. d \in Stored(v)'.edges
      BY <1>4, <2>2, <2>3, <3>1 DEF Stored
    <3>3. WrittenLater(d, save) => WrittenLater(d, save)'
      BY DEF WrittenLater
    <3> QED
      BY <1>3, <2>1, <3>2, <3>3 DEF EdgeStays
  <2>6. CASE SameKey(row, RowOf(stmt))
    <3>1. stmt.table = "graph_edges" /\ stmt.ver = v /\ SameEnds(d, stmt.item)
      BY <2>4, <2>6 DEF SameKey, RowOf
    <3>2. stmt.item \in op.graph.edges /\ op.ver = v
      BY <1>2, <3>1, InsertsAre
    <3>3. SameEnds(stmt.item, e)
      BY <2>1, <3>1 DEF SameEnds
    <3>4. stmt.item \in Stored(v)'.edges
      <4>1. RowOf(stmt) \in database'.rows /\ RowOf(stmt) = <<"graph_edges", v, stmt.item>>
        BY <3>1 DEF Inserted, RowOf
      <4>2. stmt.item \in Items
        BY <1>2, <3>2 DEF Items
      <4> QED
        BY <1>4, <4>1, <4>2 DEF Stored
    <3>5. CASE save.page = reloads
      <4>1. PICK same \in ToSet(ops) : /\ same.kind = "save" /\ same.graph = save.graph
                                       /\ same.ver = save.ver
        BY <3>5 DEF StoreInv, DataAreRight, SavesAreKnown, IsKnown
      <4>2. PICK i \in DOMAIN ops, j \in DOMAIN ops : op = ops[i] /\ same = ops[j]
        BY DEF ToSet
      <4>3. same = op
        BY <1>2, <1>3, <3>2, <4>1, <4>2 DEF StoreInv, DataAreRight, VersionsAreApart
      <4>4. stmt.item = e
        BY <1>2, <3>2, <3>3, <4>1, <4>3, OneEdge
      <4> QED
        BY <1>3, <3>3, <3>4, <4>4 DEF EdgeStays
    <3>6. CASE save.page # reloads
      <4>1. save.page \in Nat /\ save.page <= reloads /\ reloads \in Nat
        BY DEF StoreInv, DataAreRight, SavesAreKnown, IsKnown, Types
      <4>2. reloads > save.page
        BY <3>6, <4>1
      <4>3. WrittenLater(stmt.item, save)'
        <5>1. PICK later \in begun : later = Save(op.graph, op.ver)
          BY <1>2
        <5>2. later.ver = save.ver /\ later.page > save.page /\ stmt.item \in later.graph.edges
          BY <1>3, <3>2, <4>2, <5>1 DEF Save
        <5> QED
          BY <5>2 DEF WrittenLater
      <4> QED
        BY <1>3, <3>3, <3>4, <4>3 DEF EdgeStays
    <3> QED
      BY <3>5, <3>6
  <2> QED
    BY <2>5, <2>6
<1>7. save.graph.nodes \subseteq Stored(v)'.nodes
  BY <1>3, <1>5 DEF IsKept
<1> QED
  BY <1>3, <1>6, <1>7 DEF IsKept

LEMMA SurviveIsKept == SavesSurvive <=> \A save \in finished : IsKept(save)
BY DEF SavesSurvive, IsKept

LEMMA NoRowChanges ==
    ASSUME StoreInv, Untouched, database' = database
    PROVE  database' \in Database /\ OwnRowsStay /\ RowsAreOfSaves' /\ SavesSurvive'
<1>1. /\ ops' = ops /\ reloads' = reloads /\ finished' = finished /\ begun' = begun
      /\ SavesSurvive /\ RowsAreOfSaves /\ database \in Database
  BY DEF Untouched, StoreInv, DataAreRight, Types
<1>2. OwnRowsStay
  BY DEF OwnRowsStay, IsWritten
<1>3. RowsAreOfSaves'
  BY <1>1 DEF RowsAreOfSaves, IsOf
<1>4. \A save \in finished : IsKept(save)'
  BY <1>1, SurviveIsKept, KeptStays
<1> QED
  BY <1>1, <1>2, <1>3, <1>4 DEF SavesSurvive, IsKept

\* A statement is executed, or refused, and answered.
LEMMA ExecuteAnswers ==
    ASSUME StoreInv, Untouched, NEW id \in Ids, NEW eng, NEW hdl, Execute(id, eng, hdl)
    PROVE  /\ \E response \in Response : /\ response.id = id
                                         /\ toMain' = Append(toMain, response)
                                         /\ AnswerIsRight(response)'
           /\ database' \in Database /\ OwnRowsStay
           /\ RowsAreOfSaves' /\ SavesSurvive'
<1>1. PICK stmt \in Statements : stmt = requests[id].stmt
  BY ElementsAreTyped DEF StoreInv
<1>2. id \in Nat /\ database \in Database /\ requests' = requests /\ ops' = ops
      /\ reloads' = reloads
  BY IdsAre DEF StoreInv, Types, Ids, Untouched
<1>3. CASE hdl # eng \/ Fails(stmt, database)
  <2>1. toMain' = Append(toMain, Failure(id)) /\ database' = database
    BY <1>1, <1>3 DEF Execute
  <2>2. Failure(id) \in Response /\ Failure(id).id = id /\ ~Failure(id).ok
    BY <1>2 DEF Failure, Response
  <2>3. database' \in Database /\ OwnRowsStay /\ RowsAreOfSaves' /\ SavesSurvive'
    BY <2>1, NoRowChanges
  <2>4. PICK response : response = Failure(id)
    OBVIOUS
  <2>5. AnswerIsRight(response)'
    BY <2>2, <2>4 DEF AnswerIsRight
  <2> QED
    BY <1>2, <2>1, <2>2, <2>3, <2>4, <2>5
<1>4. CASE ~(hdl # eng \/ Fails(stmt, database))
  <2>1. toMain' = Append(toMain, Success(id, Rows(stmt, database)))
        /\ database' = Executed(stmt, database)
    BY <1>1, <1>4 DEF Execute
  <2>2. PICK response : response = Success(id, Rows(stmt, database))
    OBVIOUS
  <2>3. /\ response \in Response /\ response.id = id
        /\ response.rows = Rows(stmt, database)
    BY <1>2, <2>2, RowsAreTyped DEF Success, Response
  <2>4. /\ database' \in Database
        /\ database'.rows = IF stmt.type = "insert" THEN Inserted(RowOf(stmt), database.rows)
                            ELSE database.rows
    BY <1>2, <2>1, ExecutedIs DEF RowOf
  <2>5. stmt.type = "insert" => IsWritten(stmt)'
    BY <2>4 DEF IsWritten, Inserted, RowOf
  <2>6. stmt.type = "select" => Rows(stmt, database') = Rows(stmt, database)
    <3>1. ASSUME stmt.type = "select" PROVE Rows(stmt, database') = Rows(stmt, database)
      <4>1. stmt = Select(stmt.table, stmt.ver) /\ database'.rows = database.rows
        BY <2>4, <3>1, SelectIsItsFields
      <4>2. PICK t, v : t = stmt.table /\ v = stmt.ver
        OBVIOUS
      <4>3. /\ Rows(Select(t, v), database) = {x \in Items : <<t, v, x>> \in database.rows}
            /\ Rows(Select(t, v), database') = {x \in Items : <<t, v, x>> \in database'.rows}
        BY <1>2, <2>4, RowsAre
      <4> QED
        BY <4>1, <4>2, <4>3
    <3> QED
      BY <3>1
  <2>7. ASSUME NEW op \in ToSet(ops), op.kind = "load", op.req = id
        PROVE  Wanted(op, stmt.table) \subseteq Rows(stmt, database)
    BY <1>1, <2>7, AwaitedRows DEF StoreInv, DataAreRight, OpsAreRight
  <2>8. AnswerIsRight(response)'
    <3>1. ASSUME stmt.type = "select" PROVE Rows(stmt, database) \subseteq Items
      <4>1. PICK t, v : stmt = Select(t, v)
        BY <3>1, SelectIsItsFields
      <4>2. Rows(Select(t, v), database) = {x \in Items : <<t, v, x>> \in database.rows}
        BY <1>2, RowsAre
      <4> QED
        BY <4>1, <4>2
    <3> QED
      BY <1>1, <1>2, <2>3, <2>5, <2>6, <2>7, <3>1 DEF AnswerIsRight
  <2>9. RowsAreOfSaves'
    <3> SUFFICES ASSUME reloads = 0, NEW row \in database'.rows
                 PROVE  \E op \in ToSet(ops) : IsOf(op, Insert(row[1], row[2], row[3]))
      BY <1>2 DEF RowsAreOfSaves, IsOf
    <3>1. CASE row \in database.rows
      BY <3>1 DEF StoreInv, DataAreRight, RowsAreOfSaves
    <3>2. CASE row \notin database.rows
      <4>1. stmt.type = "insert" /\ row = <<stmt.table, stmt.ver, stmt.item>>
        BY <2>4, <3>2 DEF Inserted, RowOf
      <4>2. Insert(row[1], row[2], row[3]) = stmt
        BY <4>1, InsertIsItsFields
      <4>3. id \in DOMAIN requests
        BY IdsAre DEF StoreInv
      <4> QED
        BY <1>1, <4>1, <4>2, <4>3 DEF StoreInv, DataAreRight, RequestsAreOfSaves
    <3> QED
      BY <3>1, <3>2
  <2>10. stmt.type = "insert" => IsOwn(stmt)
    BY <1>1, IdsAre DEF StoreInv, DataAreRight, RequestsAreOfSaves, IsOwn
  <2>11. OwnRowsStay
    <3>1. CASE stmt.type = "insert"
      BY <2>4, <2>10, <3>1, OwnRowsStayInsert
    <3>2. CASE stmt.type # "insert"
      BY <2>4, <3>2 DEF OwnRowsStay, IsWritten
    <3> QED
      BY <3>1, <3>2
  <2>12. SavesSurvive'
    <3>1. /\ finished' = finished /\ UNCHANGED <<begun, finished, reloads>>
          /\ \A save \in finished : IsKept(save)
      BY SurviveIsKept DEF StoreInv, DataAreRight, Untouched
    <3>2. CASE stmt.type = "insert"
      <4>1. \A save \in finished : IsKept(save)'
        BY <2>4, <2>10, <3>1, <3>2, KeptStaysInsert
      <4> QED
        BY <3>1, <4>1 DEF SavesSurvive, IsKept
    <3>3. CASE stmt.type # "insert"
      <4>1. ASSUME NEW t, NEW v PROVE Rows(Select(t, v), database') = Rows(Select(t, v), database)
        <5>1. /\ Rows(Select(t, v), database) = {x \in Items : <<t, v, x>> \in database.rows}
              /\ Rows(Select(t, v), database') = {x \in Items : <<t, v, x>> \in database'.rows}
          BY <1>2, <2>4, RowsAre
        <5> QED
          BY <2>4, <3>3, <5>1
      <4>2. \A v : Stored(v)' = Stored(v)
        BY <4>1 DEF Stored
      <4> QED
        BY <3>1, <4>2 DEF SavesSurvive, IsKept, EdgeStays, WrittenLater
    <3> QED
      BY <3>2, <3>3
  <2> QED
    BY <2>1, <2>2, <2>3, <2>4, <2>8, <2>9, <2>11, <2>12
<1> QED
  BY <1>3, <1>4

\* Whatever the worker does, what is known of the operations stays.
LEMMA AnsweringKeeps ==
    ASSUME StoreInv, Untouched, database' \in Database, OwnRowsStay,
           RowsAreOfSaves', SavesSurvive',
           \A response \in ToSet(toMain)' : response \in ToSet(toMain) \/ AnswerIsRight(response)'
    PROVE  DataAreRight'
<1>1. Types /\ Grows
  BY DEF StoreInv, Types, Grows, OwnRowsStay, Untouched
<1>2. /\ ops' = ops /\ requests' = requests /\ reloads' = reloads
      /\ finished' = finished /\ begun' = begun
  BY DEF Untouched
<1>3. OpsAreRight'
  <2>1. ASSUME NEW op \in ToSet(ops)'
        PROVE  AwaitsItsStatement(op)' /\ SaveIsRight(op)' /\ LoadIsRight(op)' /\ WantsOwn(op)'
    <3>1. /\ op \in ToSet(ops) /\ AwaitsItsStatement(op) /\ SaveIsRight(op) /\ LoadIsRight(op)
          /\ WantsOwn(op) /\ RowsAreOfSaves
      BY <1>2, <2>1 DEF StoreInv, DataAreRight, OpsAreRight
    <3>2. WantsOwn(op)'
      BY <1>2, <3>1 DEF WantsOwn
    <3> QED
      BY <1>1, <3>1, <3>2, AwaitingStays, SaveStays, LoadStays
  <2> QED
    BY <2>1 DEF OpsAreRight
<1>4. VersionsAreApart'
  BY <1>2 DEF VersionsAreApart, StoreInv, DataAreRight
<1>5. RequestsAreOfSaves'
  BY <1>2 DEF RequestsAreOfSaves, IsOf, StoreInv, DataAreRight
<1>6. AnswersAreRight'
  <2>1. ASSUME NEW response \in ToSet(toMain)' PROVE AnswerIsRight(response)'
    <3>1. CASE response \in ToSet(toMain)
      <4>1. /\ response \in Response /\ response.id \in Ids /\ AnswerIsRight(response)
            /\ RequestsAreOfSaves /\ RowsAreOfSaves
        BY <3>1, ElementsAreTyped DEF StoreInv, DataAreRight, AnswersAreRight
      <4> QED
        BY <1>1, <1>2, <4>1, AnswerStays
    <3> QED
      BY <3>1
  <2> QED
    BY <2>1 DEF AnswersAreRight
<1>7. SavesAreKnown'
  BY <1>2 DEF SavesAreKnown, IsKnown, Save, StoreInv, DataAreRight
<1> QED
  BY <1>3, <1>4, <1>5, <1>6, <1>7 DEF DataAreRight

LEMMA PlacesAreSets ==
    Answers = IdsOf(toMain) /\ OnTheWay = ToSet(toWorker)
BY DEF Answers, IdsOf, OnTheWay

\* A message leaves the channel to the worker.
LEMMA TakenMessage ==
    ASSUME Types, InPlaces, toWorker # <<>>
    PROVE  /\ Head(toWorker) \in Ids /\ Tail(toWorker) \in Seq(Nat)
           /\ ToSet(toWorker) = {Head(toWorker)} \cup ToSet(Tail(toWorker))
           /\ Head(toWorker) \notin ToSet(Tail(toWorker)) /\ IsInjective(Tail(toWorker))
<1>1. toWorker \in Seq(Nat) /\ IsInjective(toWorker) /\ ToSet(toWorker) \subseteq Ids
  BY DEF Types, InPlaces
<1>2. /\ Tail(toWorker) \in Seq(Nat)
      /\ ToSet(toWorker) = {Head(toWorker)} \cup ToSet(Tail(toWorker))
  BY <1>1, HeadAndTail
<1>3. Head(toWorker) \notin ToSet(Tail(toWorker)) /\ IsInjective(Tail(toWorker))
  BY <1>1, InjectiveTail
<1> QED
  BY <1>1, <1>2, <1>3

\* An answer joins the channel to the page.
LEMMA AnswerJoins ==
    ASSUME StoreInv, Untouched, NEW response \in Response, response.id \in Ids,
           response.id \notin Answers, AnswerIsRight(response)',
           toMain' = Append(toMain, response)
    PROVE  /\ toMain' \in Seq(Response)
           /\ Answers' = Answers \cup {response.id}
           /\ \A i, j \in DOMAIN toMain' : toMain'[i].id = toMain'[j].id => i = j
           /\ \A r \in ToSet(toMain)' : r \in ToSet(toMain) \/ AnswerIsRight(r)'
<1>1. toMain \in Seq(Response) /\ IdsApart(toMain) /\ response.id \notin IdsOf(toMain)
  BY PlacesAreSets DEF StoreInv, Types, InPlaces, IdsApart
<1>2. /\ toMain' \in Seq(Response) /\ ToSet(toMain') = ToSet(toMain) \cup {response}
      /\ IdsOf(toMain') = IdsOf(toMain) \cup {response.id}
      /\ IdsApart(toMain')
  BY <1>1, AppendedAnswer
<1> QED
  BY <1>2 DEF Answers, IdsOf, IdsApart

LEMMA HandleKeeps == StoreInv /\ Handle /\ Untouched => StoreInv'
<1> SUFFICES ASSUME StoreInv, Handle, Untouched PROVE StoreInv'
  OBVIOUS
<1> DEFINE id == Head(toWorker)
<1>1. /\ id \in Ids /\ toWorker' \in Seq(Nat)
      /\ OnTheWay = {id} \cup OnTheWay' /\ id \notin OnTheWay'
      /\ IsInjective(toWorker')
  BY TakenMessage DEF StoreInv, Handle, OnTheWay
<1>2. Ids' = Ids /\ Pending' = Pending /\ Alive' = Alive
  BY DEF Untouched, Handle, Ids, Pending, Alive
<1>3. CASE handle # 0 /\ Execute(id, engine, handle) /\ UNCHANGED <<job, failures>>
  <2>1. PICK response \in Response : /\ response.id = id
                                     /\ toMain' = Append(toMain, response)
                                     /\ AnswerIsRight(response)'
    BY <1>1, <1>3, ExecuteAnswers
  <2>2. database' \in Database /\ OwnRowsStay /\ RowsAreOfSaves' /\ SavesSurvive'
    BY <1>1, <1>3, ExecuteAnswers
  <2>3. response.id \notin Answers /\ response.id \notin DOMAIN job
    BY <1>1, <2>1 DEF StoreInv, InPlaces
  <2>4. /\ toMain' \in Seq(Response)
        /\ Answers' = Answers \cup {id}
        /\ \A i, j \in DOMAIN toMain' : toMain'[i].id = toMain'[j].id => i = j
        /\ \A r \in ToSet(toMain)' : r \in ToSet(toMain) \/ AnswerIsRight(r)'
    BY <1>1, <2>1, <2>3, AnswerJoins
  <2>5. DataAreRight'
    BY <2>2, <2>4, AnsweringKeeps
  <2>6. Types'
    BY <1>1, <1>3, <2>2, <2>4 DEF StoreInv, Types, Handle, Untouched
  <2>7. engine' = engine /\ handle' = handle /\ job' = job
    BY <1>3 DEF Execute
  <2>8. InPlaces'
    BY <1>1, <1>2, <2>1, <2>3, <2>4, <2>7 DEF StoreInv, InPlaces, OnTheWay
  <2> QED
    BY <2>5, <2>6, <2>8 DEF StoreInv
<1>4. CASE /\ handle = 0
           /\ job' = [i \in DOMAIN job \cup {id} |-> IF i = id THEN "factory" ELSE job[i]]
           /\ UNCHANGED <<toMain, failures, engine, handle, database>>
  <2>1. DataAreRight'
    <3>1. database' \in Database /\ OwnRowsStay /\ RowsAreOfSaves' /\ SavesSurvive'
      BY <1>4, NoRowChanges
    <3> QED
      BY <1>4, <3>1, AnsweringKeeps
  <2>2. DOMAIN job' = DOMAIN job \cup {id} /\ job' \in [DOMAIN job' -> {"factory", "opening"}]
    BY <1>4 DEF StoreInv, Types
  <2>3. Types'
    BY <1>1, <1>4, <2>2 DEF StoreInv, Types, Handle, Untouched
  <2>4. Answers' = Answers
    BY <1>4 DEF Answers
  <2>5. InPlaces'
    BY <1>1, <1>2, <1>4, <2>2, <2>4 DEF StoreInv, InPlaces, OnTheWay
  <2> QED
    BY <2>1, <2>3, <2>5 DEF StoreInv
<1> QED
  BY <1>3, <1>4 DEF Handle

\* An initialisation that has ended, one way or the other, answers its request.
LEMMA InitialisedKeeps ==
    ASSUME StoreInv, Untouched, UNCHANGED <<toWorker, worker>>,
           NEW id \in DOMAIN job, job' = WithoutJob(id),
           NEW response \in Response, response.id = id,
           toMain' = Append(toMain, response), AnswerIsRight(response)',
           database' \in Database, OwnRowsStay, RowsAreOfSaves', SavesSurvive',
           {engine', handle'} \subseteq {engine, handle, id}
    PROVE  StoreInv'
<1>1. id \in Ids /\ id \notin OnTheWay /\ id \notin Answers
  BY DEF StoreInv, InPlaces
<1>2. /\ toMain' \in Seq(Response)
      /\ Answers' = Answers \cup {id}
      /\ \A i, j \in DOMAIN toMain' : toMain'[i].id = toMain'[j].id => i = j
      /\ \A r \in ToSet(toMain)' : r \in ToSet(toMain) \/ AnswerIsRight(r)'
  BY <1>1, AnswerJoins
<1>3. DataAreRight'
  BY <1>2, AnsweringKeeps
<1>4. DOMAIN job' = DOMAIN job \ {id} /\ job' \in [DOMAIN job' -> {"factory", "opening"}]
  BY DEF WithoutJob, StoreInv, Types
<1>5. Types'
  BY <1>2, <1>4 DEF StoreInv, Types, Untouched
<1>6. Ids' = Ids /\ Pending' = Pending /\ Alive' = Alive /\ OnTheWay' = OnTheWay
  BY DEF Untouched, Ids, Pending, Alive, OnTheWay
<1>7. InPlaces'
  BY <1>1, <1>2, <1>4, <1>6 DEF StoreInv, InPlaces
<1> QED
  BY <1>3, <1>5, <1>7 DEF StoreInv

LEMMA OpenDoneKeeps ==
    ASSUME StoreInv, Untouched, NEW id \in DOMAIN job, OpenDone(id)
    PROVE  StoreInv'
<1>1. id \in Ids
  BY DEF StoreInv, InPlaces
<1>2. Execute(id, engine, id) /\ UNCHANGED <<toWorker, worker>> /\ job' = WithoutJob(id)
  BY DEF OpenDone
<1>3. engine' = engine /\ handle' = id
  BY <1>2 DEF Execute
<1>4. PICK response \in Response : /\ response.id = id
                                   /\ toMain' = Append(toMain, response)
                                   /\ AnswerIsRight(response)'
  BY <1>1, <1>2, ExecuteAnswers
<1>5. database' \in Database /\ OwnRowsStay /\ RowsAreOfSaves' /\ SavesSurvive'
  BY <1>1, <1>2, ExecuteAnswers
<1> QED
  BY <1>2, <1>3, <1>4, <1>5, InitialisedKeeps

LEMMA InitFailsKeeps ==
    ASSUME StoreInv, Untouched, NEW id \in DOMAIN job, InitFails(id)
    PROVE  StoreInv'
<1>1. PICK response : response = Failure(id)
  OBVIOUS
<1>2. id \in Nat
  BY IdsAre DEF StoreInv, InPlaces, Ids
<1>3. response \in Response /\ response.id = id /\ ~response.ok
  BY <1>1, <1>2 DEF Failure, Response
<1>4. AnswerIsRight(response)'
  BY <1>3 DEF AnswerIsRight
<1>5. /\ UNCHANGED <<toWorker, worker, engine, handle, database>> /\ job' = WithoutJob(id)
      /\ toMain' = Append(toMain, response)
  BY <1>1 DEF InitFails
<1>6. database' \in Database /\ OwnRowsStay /\ RowsAreOfSaves' /\ SavesSurvive'
  BY <1>5, NoRowChanges
<1> QED
  BY <1>3, <1>4, <1>5, <1>6, InitialisedKeeps

LEMMA FactoryDoneKeeps ==
    ASSUME StoreInv, Untouched, NEW id \in DOMAIN job, FactoryDone(id)
    PROVE  StoreInv'
<1>1. /\ UNCHANGED <<toMain, toWorker, worker, handle, database>> /\ engine' = id
      /\ job' = [job EXCEPT ![id] = "opening"]
  BY DEF FactoryDone, page
<1>2. DOMAIN job' = DOMAIN job /\ job' \in [DOMAIN job' -> {"factory", "opening"}]
  BY <1>1 DEF StoreInv, Types
<1>3. database' \in Database /\ OwnRowsStay /\ RowsAreOfSaves' /\ SavesSurvive'
  BY <1>1, NoRowChanges
<1>4. DataAreRight'
  BY <1>1, <1>3, AnsweringKeeps
<1>5. Types'
  BY <1>1, <1>2 DEF StoreInv, Types, Untouched
<1>6. /\ Ids' = Ids /\ Pending' = Pending /\ Alive' = Alive
      /\ OnTheWay' = OnTheWay /\ Answers' = Answers
  BY <1>1 DEF Untouched, Ids, Pending, Alive, OnTheWay, Answers
<1>7. InPlaces'
  BY <1>1, <1>2, <1>6 DEF StoreInv, InPlaces
<1> QED
  BY <1>4, <1>5, <1>7 DEF StoreInv

LEMMA ScriptLoadsKeeps == StoreInv /\ ScriptLoads /\ Untouched => StoreInv'
<1> SUFFICES ASSUME StoreInv, ScriptLoads, Untouched PROVE StoreInv'
  OBVIOUS
<1>1. /\ UNCHANGED <<toMain, toWorker, job, engine, handle, database>>
      /\ worker = "loading" /\ worker' = "running"
  BY DEF ScriptLoads, page, program
<1>2. database' \in Database /\ OwnRowsStay /\ RowsAreOfSaves' /\ SavesSurvive'
  BY <1>1, NoRowChanges
<1>3. DataAreRight'
  BY <1>1, <1>2, AnsweringKeeps
<1>4. Types'
  BY <1>1 DEF StoreInv, Types, Untouched
<1>5. /\ Ids' = Ids /\ Pending' = Pending /\ Alive' = Alive
      /\ OnTheWay' = OnTheWay /\ Answers' = Answers
  BY <1>1 DEF Untouched, Ids, Pending, Alive, OnTheWay, Answers
<1>6. InPlaces'
  BY <1>1, <1>5 DEF StoreInv, InPlaces
<1> QED
  BY <1>3, <1>4, <1>6 DEF StoreInv

LEMMA WorkerStepKeeps == StoreInv /\ WorkerStep /\ Untouched => StoreInv'
BY ScriptLoadsKeeps, HandleKeeps, OpenDoneKeeps, InitFailsKeeps, FactoryDoneKeeps
   DEF WorkerStep, Initialising

-----------------------------------------------------------------------------
(* The page's steps *)

SavesStay ==
    \A op \in ToSet(ops) : op.kind = "save" =>
        \E new \in ToSet(ops)' : new.kind = "save" /\ new.graph = op.graph /\ new.ver = op.ver

LEMMA WantsStays ==
    ASSUME SavesStay, NEW op, WantsOwn(op) PROVE WantsOwn(op)'
BY DEF SavesStay, WantsOwn

\* A step of the page changes promises, operations and what it awaits; rows and
\* answers on their way do not change under it.
LEMMA PageStepKeeps ==
    ASSUME StoreInv, Grows, database' = database, reloads' = reloads, SavesStay,
           VersionsAreApart',
           \A op \in ToSet(ops)' : \/ op \in ToSet(ops)
                                   \/ /\ AwaitsItsStatement(op)'
                                      /\ SaveIsRight(op)'
                                      /\ LoadIsRight(op)'
                                      /\ WantsOwn(op)
                                      /\ op.kind = "save" => Save(op.graph, op.ver) \in begun'
                                      /\ op.req \notin Ids,
           \A response \in ToSet(toMain)' : response \in ToSet(toMain),
           \A r \in DOMAIN requests' \ Ids : requests'[r].stmt.type = "insert" =>
               \E op \in ToSet(ops)' : IsOf(op, requests'[r].stmt),
           begun \subseteq begun',
           \A save \in finished' : save \in finished \/ (IsKnown(save)' /\ IsKept(save)')
    PROVE  DataAreRight'
<1>1. Types /\ DataAreRight /\ DOMAIN requests = Ids /\ Ids = 1..Len(requests)
  BY IdsAre DEF StoreInv, Ids
<1>2. OpsAreRight'
  <2>1. ASSUME NEW op \in ToSet(ops)'
        PROVE  AwaitsItsStatement(op)' /\ SaveIsRight(op)' /\ LoadIsRight(op)' /\ WantsOwn(op)'
    <3>1. CASE op \in ToSet(ops)
      <4>1. /\ AwaitsItsStatement(op) /\ SaveIsRight(op) /\ LoadIsRight(op)
            /\ WantsOwn(op) /\ RowsAreOfSaves
        BY <1>1, <3>1 DEF DataAreRight, OpsAreRight
      <4> QED
        BY <1>1, <3>1, <4>1, AwaitingStays, SaveStays, LoadStays, WantsStays
    <3>2. CASE op \notin ToSet(ops)
      BY <3>2, WantsStays
    <3> QED
      BY <3>1, <3>2
  <2> QED
    BY <2>1 DEF OpsAreRight
<1>3. RequestsAreOfSaves'
  <2>1. ASSUME NEW r \in DOMAIN requests', requests'[r].stmt.type = "insert"
        PROVE  \E op \in ToSet(ops)' : IsOf(op, requests'[r].stmt)
    <3>1. CASE r \in Ids
      <4>1. requests'[r].stmt = requests[r].stmt /\ r \in DOMAIN requests
        BY <1>1, <3>1 DEF Grows
      <4>2. PICK op \in ToSet(ops) : IsOf(op, requests[r].stmt)
        BY <1>1, <2>1, <4>1 DEF DataAreRight, RequestsAreOfSaves
      <4> QED
        BY <4>1, <4>2 DEF IsOf, SavesStay
    <3> QED
      BY <2>1, <3>1
  <2> QED
    BY <2>1 DEF RequestsAreOfSaves, IsOf
<1>4. RowsAreOfSaves'
  <2>1. ASSUME reloads = 0, NEW row \in database.rows
        PROVE  \E op \in ToSet(ops)' : IsOf(op, Insert(row[1], row[2], row[3]))
    <3>1. PICK op \in ToSet(ops) : IsOf(op, Insert(row[1], row[2], row[3]))
      BY <1>1, <2>1 DEF DataAreRight, RowsAreOfSaves
    <3> QED
      BY <3>1 DEF IsOf, SavesStay
  <2> QED
    BY <2>1 DEF RowsAreOfSaves, IsOf
<1>5. AnswersAreRight'
  <2>1. ASSUME NEW response \in ToSet(toMain)' PROVE AnswerIsRight(response)'
    <3>1. /\ response \in Response /\ response.id \in Ids /\ AnswerIsRight(response)
          /\ RequestsAreOfSaves /\ RowsAreOfSaves
      BY <1>1, ElementsAreTyped DEF StoreInv, DataAreRight, AnswersAreRight
    <3>2. \A op \in ToSet(ops)' : op.kind = "load" /\ op.req = response.id => op \in ToSet(ops)
      BY <3>1
    <3> QED
      BY <1>1, <3>1, <3>2, AnswerStays
  <2> QED
    BY <2>1 DEF AnswersAreRight
<1>6. SavesSurvive'
  <2>1. ASSUME NEW save \in finished' PROVE IsKept(save)'
    BY <1>1, KeptStays, SurviveIsKept DEF DataAreRight
  <2> QED
    BY <2>1 DEF SavesSurvive, IsKept
<1>7. SavesAreKnown'
  <2>1. ASSUME NEW op \in ToSet(ops)', op.kind = "save" PROVE Save(op.graph, op.ver)' \in begun'
    BY <1>1, <2>1 DEF DataAreRight, SavesAreKnown, Save
  <2>2. ASSUME NEW save \in finished' PROVE IsKnown(save)'
    BY <1>1 DEF DataAreRight, SavesAreKnown, IsKnown, SavesStay
  <2> QED
    BY <2>1, <2>2 DEF SavesAreKnown, Save
<1> QED
  BY <1>2, <1>3, <1>4, <1>5, <1>6, <1>7 DEF DataAreRight

\* The promises that are pending after some have become something else.
LEMMA BecomePending ==
    ASSUME Types, NEW ids, NEW p \in {"settled", "forgotten"},
           requests' = Become(requests, ids, p)
    PROVE  /\ requests' \in Seq(Request) /\ Len(requests') = Len(requests) /\ Ids' = Ids
           /\ \A r \in 1..Len(requests) : requests'[r].stmt = requests[r].stmt
           /\ Pending' = Pending \ ids
<1>1. /\ requests' \in Seq(Request) /\ Len(requests') = Len(requests)
      /\ \A r \in 1..Len(requests) :
           /\ requests'[r].stmt = requests[r].stmt
           /\ requests'[r].promise = "waiting" <=> requests[r].promise = "waiting" /\ r \notin ids
  BY BecomeKeeps DEF Types
<1> QED
  BY <1>1 DEF Ids, Pending

LEMMA EmptySequences ==
    /\ \A S : <<>> \in Seq(S)
    /\ ToSet(<<>>) = {} /\ IdsOf(<<>>) = {} /\ IsInjective(<<>>) /\ IdsApart(<<>>)
    /\ \A s : DOMAIN s = {} => IsInjective(s) /\ IdsApart(s)
BY DEF ToSet, IdsOf, IsInjective, IdsApart

GivenUp(op) == IF op.state = "running"
               THEN [op EXCEPT !.state = "failed", !.todo = <<>>, !.req = 0] ELSE op

\* An operation whose promise is rejected has nothing left to do.
LEMMA GivenUpIsRight ==
    ASSUME StoreInv, Grows, NEW op \in ToSet(ops)
    PROVE  /\ GivenUp(op) \in Operation
           /\ GivenUp(op).kind = op.kind /\ GivenUp(op).graph = op.graph
           /\ GivenUp(op).ver = op.ver
           /\ op.state # "running" => GivenUp(op) = op
           /\ \A new : new = GivenUp(op) /\ op.state = "running" =>
                /\ AwaitsItsStatement(new)' /\ SaveIsRight(new)' /\ LoadIsRight(new)'
                /\ WantsOwn(new) /\ new.req \notin Ids
<1>1. /\ op \in Operation /\ SaveIsRight(op) /\ LoadIsRight(op) /\ WantsOwn(op) /\ Types
      /\ RowsAreOfSaves
  BY ElementsAreTyped DEF StoreInv, DataAreRight, OpsAreRight
<1>2. SaveIsRight(op)' /\ LoadIsRight(op)'
  BY <1>1, SaveStays, LoadStays
<1>3. CASE op.state = "running"
  <2>1. PICK new : new = GivenUp(op)
    OBVIOUS
  <2>2. /\ new \in Operation /\ new.state = "failed" /\ new.todo = <<>> /\ new.req = 0
        /\ new.kind = op.kind /\ new.graph = op.graph /\ new.ver = op.ver
        /\ new.wanted = op.wanted
    <3>1. PICK none : none = <<>>
      OBVIOUS
    <3>2. none \in Seq(Statements)
      BY <3>1, EmptySequences
    <3>3. new = [op EXCEPT !.state = "failed", !.todo = none, !.req = 0]
      BY <1>3, <2>1, <3>1 DEF GivenUp
    <3>4. /\ new \in Operation /\ new.state = "failed" /\ new.todo = none /\ new.req = 0
          /\ new.kind = op.kind /\ new.graph = op.graph /\ new.ver = op.ver
          /\ new.wanted = op.wanted
      BY <1>1, <3>2, <3>3 DEF Operation
    <3> QED
      BY <3>1, <3>4
  <2>3. AwaitsItsStatement(new)'
    BY <2>2 DEF AwaitsItsStatement
  <2>4. SaveIsRight(new)'
    BY <1>2, <2>2, EmptySequences DEF SaveIsRight
  <2>5. LoadIsRight(new)'
    BY <1>2, <2>2 DEF LoadIsRight
  <2>6. new.req \notin Ids /\ WantsOwn(new)
    BY <1>1, <2>2, IdsAre DEF Ids, WantsOwn
  <2> QED
    BY <1>3, <2>1, <2>2, <2>3, <2>4, <2>5, <2>6
<1>4. CASE op.state # "running"
  BY <1>1, <1>4 DEF GivenUp
<1> QED
  BY <1>3, <1>4

LEMMA WorkerErrorKeeps == StoreInv /\ WorkerError => StoreInv'
<1> SUFFICES ASSUME StoreInv, WorkerError PROVE StoreInv'
  OBVIOUS
<1>1. /\ worker' = "failed" /\ toWorker' = <<>>
      /\ requests' = Become(requests, DOMAIN requests, "settled")
      /\ ops' = [i \in DOMAIN ops |-> GivenUp(ops[i])]
      /\ UNCHANGED <<toMain, job, failures, engine, handle, database,
                     counter, earlier, begun, finished, reloads>>
  BY DEF WorkerError, PendingBecome, GivenUp, program
<1>2. Types /\ InPlaces /\ ops \in Seq(Operation) /\ Len(ops) \in Nat
      /\ DOMAIN ops = 1..Len(ops)
  BY LenProperties DEF StoreInv, Types
<1>3. /\ requests' \in Seq(Request) /\ Len(requests') = Len(requests) /\ Ids' = Ids
      /\ \A r \in 1..Len(requests) : requests'[r].stmt = requests[r].stmt
  BY <1>1, <1>2, BecomePending
<1>4. Grows
  BY <1>1, <1>2, <1>3, IdsAre DEF Grows, OwnRowsStay, IsWritten, Types
<1>5. DOMAIN ops' = DOMAIN ops /\ \A i \in DOMAIN ops : /\ ops'[i] = GivenUp(ops[i])
                                                       /\ ops[i] \in ToSet(ops)
  BY <1>1 DEF ToSet
<1>6. ops' \in Seq(Operation) /\ Len(ops') = Len(ops)
  <2>1. ops' \in [1..Len(ops) -> Operation]
    BY <1>1, <1>2, <1>4, <1>5, GivenUpIsRight
  <2>2. ops' \in Seq(Operation)
    BY <1>2, <2>1, SeqDef
  <2> QED
    BY <1>2, <2>1, <2>2, LenProperties
<1>7. DataAreRight'
  <2>1. SavesStay
    <3>1. ASSUME NEW op \in ToSet(ops), op.kind = "save"
          PROVE  \E new \in ToSet(ops') : /\ new.kind = "save"
                                          /\ new.graph = op.graph /\ new.ver = op.ver
      <4>1. PICK i \in DOMAIN ops : op = ops[i]
        BY DEF ToSet
      <4>2. GivenUp(op) \in ToSet(ops')
        BY <1>5, <4>1 DEF ToSet
      <4> QED
        BY <1>4, <3>1, <4>2, GivenUpIsRight
    <3> QED
      BY <3>1 DEF SavesStay
  <2>2. VersionsAreApart'
    <3>1. \A i \in DOMAIN ops : ops'[i].kind = ops[i].kind /\ ops'[i].ver = ops[i].ver
      BY <1>4, <1>5, GivenUpIsRight
    <3> QED
      BY <1>5, <3>1 DEF VersionsAreApart, StoreInv, DataAreRight
  <2>3. ASSUME NEW op \in ToSet(ops')
        PROVE  \/ op \in ToSet(ops)
               \/ /\ AwaitsItsStatement(op)'
                  /\ SaveIsRight(op)'
                  /\ LoadIsRight(op)'
                  /\ WantsOwn(op)
                  /\ op.kind = "save" => Save(op.graph, op.ver) \in begun
                  /\ op.req \notin Ids
    <3>1. PICK i \in DOMAIN ops : op = ops'[i]
      BY <1>5 DEF ToSet
    <3>2. PICK old \in ToSet(ops) : old = ops[i]
      BY <1>5
    <3>3. op = GivenUp(old)
      BY <1>5, <3>1, <3>2
    <3>4. CASE old.state = "running"
      <4>1. old.kind = "save" => Save(old.graph, old.ver) \in begun
        BY <3>2 DEF StoreInv, DataAreRight, SavesAreKnown
      <4> QED
        BY <1>4, <3>3, <3>4, <4>1, GivenUpIsRight
    <3>5. CASE old.state # "running"
      BY <1>4, <3>3, <3>5, GivenUpIsRight
    <3> QED
      BY <3>4, <3>5
  <2>4. DOMAIN requests' = Ids
    BY <1>3, LenProperties DEF Ids
  <2> QED
    BY <1>1, <1>4, <2>1, <2>2, <2>3, <2>4, PageStepKeeps
<1>8. Types'
  BY <1>1, <1>2, <1>3, <1>6, EmptySequences DEF Types
<1>9. InPlaces'
  <2>1. ToSet(toWorker') = {} /\ IsInjective(toWorker') /\ ~Alive'
    BY <1>1, EmptySequences DEF Alive
  <2>2. Answers' = Answers
    BY <1>1 DEF Answers
  <2> QED
    BY <1>1, <1>2, <1>3, <2>1, <2>2 DEF InPlaces, OnTheWay
<1> QED
  BY <1>7, <1>8, <1>9 DEF StoreInv

LEMMA CloseKeeps == StoreInv /\ Close => StoreInv'
<1> SUFFICES ASSUME StoreInv, Close PROVE StoreInv'
  OBVIOUS
<1>1. /\ worker' = "terminated" /\ toWorker' = <<>> /\ toMain' = <<>>
      /\ requests' = Become(requests, DOMAIN requests, "forgotten")
      /\ job' = NoJob /\ engine' = 0 /\ handle' = 0
      /\ UNCHANGED <<failures, database, counter, ops, earlier, begun, finished, reloads>>
  BY DEF Close, PendingBecome
<1>2. Types /\ InPlaces
  BY DEF StoreInv
<1>3. /\ requests' \in Seq(Request) /\ Len(requests') = Len(requests) /\ Ids' = Ids
      /\ \A r \in 1..Len(requests) : requests'[r].stmt = requests[r].stmt
  BY <1>1, <1>2, BecomePending
<1>4. Grows
  BY <1>1, <1>2, <1>3, IdsAre DEF Grows, OwnRowsStay, IsWritten, Types
<1>5. DataAreRight'
  <2>1. SavesStay
    BY <1>1 DEF SavesStay
  <2>2. VersionsAreApart'
    BY <1>1 DEF VersionsAreApart, StoreInv, DataAreRight
  <2>3. DOMAIN requests' = Ids
    BY <1>3, LenProperties DEF Ids
  <2>4. ToSet(toMain') = {}
    BY <1>1, EmptySequences
  <2> QED
    BY <1>1, <1>4, <2>1, <2>2, <2>3, <2>4, PageStepKeeps
<1>6. DOMAIN job' = {} /\ job' \in [DOMAIN job' -> {"factory", "opening"}]
  BY <1>1 DEF NoJob
<1>7. Types'
  BY <1>1, <1>2, <1>3, <1>6, EmptySequences DEF Types
<1>8. InPlaces'
  <2>1. /\ ToSet(toWorker') = {} /\ IsInjective(toWorker') /\ ~Alive'
        /\ IdsOf(toMain') = {} /\ IdsApart(toMain')
    BY <1>1, EmptySequences DEF Alive
  <2>2. Answers' = {}
    BY <2>1 DEF Answers, IdsOf
  <2> QED
    BY <1>1, <1>6, <2>1, <2>2 DEF InPlaces, OnTheWay, IdsApart
<1> QED
  BY <1>5, <1>7, <1>8 DEF StoreInv

-----------------------------------------------------------------------------
(* A page starts *)

FreshPage ==
    /\ requests = Posted(<<>>, DDL) /\ toWorker = <<1, 2>> /\ toMain = <<>>
    /\ worker = "loading" /\ job = NoJob /\ engine = 0 /\ handle = 0
    /\ counter = 0 /\ ops = <<>>
    /\ database \in Database /\ (reloads = 0 => database.rows = {})
    /\ earlier \in Nat /\ earlier + reloads <= MaxSteps /\ reloads \in 0..MaxReloads
    /\ SavesSurvive
    /\ \A save \in finished : /\ save.graph \in Graphs /\ save.ver \in Nat
                              /\ save.page \in Nat /\ save.page < reloads

\* The first two messages create the tables.
LEMMA TablesAreCreatedFirst ==
    /\ Posted(<<>>, DDL) \in Seq(Request) /\ Len(Posted(<<>>, DDL)) = 2
    /\ \A r \in 1..2 : /\ Posted(<<>>, DDL)[r].promise = "waiting"
                       /\ Posted(<<>>, DDL)[r].stmt.type = "create"
<1>1. CreateTable("graph_nodes") \in Statements /\ CreateTable("graph_edges") \in Statements
  BY DEF Statements, Tables
<1>2. DDL \in Seq(Statements) /\ Len(DDL) = 2
      /\ DDL[1] = CreateTable("graph_nodes") /\ DDL[2] = CreateTable("graph_edges")
  BY <1>1 DEF DDL
<1>3. \A i \in 1..2 : DDL[i] \in Statements /\ DDL[i].type = "create"
  BY <1>1, <1>2, StatementsAre
<1> DEFINE posted == [i \in 1..2 |-> [stmt |-> DDL[i], promise |-> "waiting"]]
<1>4. posted \in [1..2 -> Request]
  BY <1>3 DEF Request
<1>5. \A r \in 1..2 : posted[r].promise = "waiting" /\ posted[r].stmt.type = "create"
  BY <1>3
<1>6. Posted(<<>>, DDL) = <<>> \o posted
  BY <1>2 DEF Posted
<1> HIDE DEF posted
<1>7. posted \in Seq(Request)
  BY <1>4, SeqDef
<1>8. Len(posted) = 2
  BY <1>4, <1>7, LenProperties
<1>9. Posted(<<>>, DDL) = posted
  BY <1>6, <1>7, ConcatEmptySeq
<1> QED
  BY <1>5, <1>7, <1>8, <1>9

LEMMA FreshPageIsRight == FreshPage => StoreInv
<1> SUFFICES ASSUME FreshPage PROVE StoreInv
  OBVIOUS
<1>1. /\ requests \in Seq(Request) /\ Len(requests) = 2
      /\ \A r \in 1..2 : requests[r].promise = "waiting" /\ requests[r].stmt.type = "create"
  BY TablesAreCreatedFirst DEF FreshPage
<1>2. Ids = 1..2 /\ Pending = 1..2 /\ DOMAIN requests = 1..2
  BY <1>1, LenProperties DEF Ids, Pending
<1>3. /\ toWorker \in Seq(Nat) /\ ToSet(toWorker) = 1..2 /\ IsInjective(toWorker)
  BY DEF FreshPage, ToSet, IsInjective
<1>4. /\ Answers = {} /\ ToSet(toMain) = {} /\ ToSet(ops) = {} /\ DOMAIN ops = {} /\ Len(ops) = 0
      /\ IdsApart(toMain) /\ toMain \in Seq(Response) /\ ops \in Seq(Operation)
  BY EmptySequences, EmptySeq DEF FreshPage, Answers, IdsOf
<1>5. DOMAIN job = {} /\ job \in [DOMAIN job -> {"factory", "opening"}]
  BY DEF FreshPage, NoJob
<1>6. Types
  BY <1>1, <1>3, <1>4, <1>5 DEF Types, FreshPage
<1>7. InPlaces
  BY <1>2, <1>3, <1>4, <1>5 DEF InPlaces, OnTheWay, FreshPage, IdsApart
<1>8. SavesAreKnown
  <2>1. reloads \in Nat /\ \A n \in Nat : n < reloads => n <= reloads /\ n # reloads
    BY <1>6 DEF Types
  <2> QED
    BY <1>4, <2>1 DEF SavesAreKnown, IsKnown, FreshPage
<1>9. DataAreRight
  BY <1>1, <1>2, <1>4, <1>8 DEF DataAreRight, OpsAreRight, VersionsAreApart, RequestsAreOfSaves,
     RowsAreOfSaves, AnswersAreRight, FreshPage
<1> QED
  BY <1>6, <1>7, <1>9 DEF StoreInv

LEMMA InitIsRight == Init => StoreInv
<1> SUFFICES ASSUME Init PROVE FreshPage
  BY FreshPageIsRight
<1>1. database \in Database /\ database.rows = {}
  BY DEF Init, Database
<1> QED
  BY <1>1, MaxReloadsAssumption, MaxStepsAssumption DEF Init, FreshPage, SavesSurvive

LEMMA ReloadKeeps == StoreInv /\ Reload => StoreInv'
<1>1. StoreInv /\ Reload => FreshPage'
  <2> SUFFICES ASSUME StoreInv, Reload PROVE FreshPage'
    OBVIOUS
  <2>1. /\ requests' = Posted(<<>>, DDL) /\ toWorker' = <<1, 2>> /\ toMain' = <<>>
        /\ worker' = "loading" /\ job' = NoJob /\ engine' = 0 /\ handle' = 0
        /\ counter' = 0 /\ ops' = <<>>
        /\ database' = database /\ begun' = begun /\ finished' = finished
        /\ reloads < MaxReloads /\ reloads' = reloads + 1
        /\ earlier + Len(ops) + reloads < MaxSteps /\ earlier' = earlier + Len(ops)
    BY DEF Reload
  <2>2. Len(ops) \in Nat /\ earlier \in Nat /\ reloads \in Nat /\ database \in Database
    BY LenProperties DEF StoreInv, Types
  <2>3. SavesSurvive'
    BY <2>1, SurviveIsKept, KeptStays DEF StoreInv, DataAreRight, SavesSurvive, IsKept
  <2>4. /\ earlier' \in Nat /\ earlier' + reloads' <= MaxSteps
        /\ reloads' \in 0..MaxReloads /\ reloads' # 0
    BY <2>1, <2>2, MaxReloadsAssumption, MaxStepsAssumption
  <2>5. \A save \in finished' : /\ save.graph \in Graphs /\ save.ver \in Nat
                                /\ save.page \in Nat /\ save.page < reloads'
    <3>1. \A n \in Nat : n <= reloads => n < reloads + 1
      BY <2>2
    <3> QED
      BY <2>1, <3>1 DEF StoreInv, DataAreRight, SavesAreKnown, IsKnown
  <2> QED
    BY <2>1, <2>2, <2>3, <2>4, <2>5 DEF FreshPage
<1> QED
  BY <1>1, FreshPageIsRight, PTL

-----------------------------------------------------------------------------
(* An operation goes on: its next statement is posted *)

\* The request that posting what is left to do makes; none when nothing is left.
NewIds(todo) == IF todo = <<>> THEN {} ELSE {Len(requests) + 1}

\* reqs: the requests, after promises were settled.
LEMMA PostingPlaces ==
    ASSUME Types, InPlaces, NEW reqs \in Seq(Request), Len(reqs) = Len(requests),
           \A r \in 1..Len(requests) : reqs[r].stmt = requests[r].stmt,
           NEW todo \in Seq(Statements), requests' = Posted(reqs, First(todo)),
           toWorker' = Deliverable(Len(First(todo))), worker' = worker
    PROVE  /\ requests' \in Seq(Request) /\ Len(requests) <= Len(requests')
           /\ \A r \in 1..Len(requests) : requests'[r].stmt = requests[r].stmt
           /\ DOMAIN requests' = Ids' /\ Ids' = Ids \cup NewIds(todo) /\ NewIds(todo) \cap Ids = {}
           /\ Pending' = {r \in 1..Len(requests) : reqs[r].promise = "waiting"} \cup NewIds(todo)
           /\ \A r \in NewIds(todo) : requests'[r].stmt = Head(todo)
           /\ toWorker' \in Seq(Nat) /\ IsInjective(toWorker')
           /\ OnTheWay' = IF Alive THEN OnTheWay \cup NewIds(todo) ELSE OnTheWay
<1> DEFINE n == Len(requests)
<1>1. /\ n \in Nat /\ Ids = 1..n
      /\ toWorker \in Seq(Nat) /\ IsInjective(toWorker) /\ ToSet(toWorker) \subseteq 1..n
  BY IdsAre, LenProperties DEF Types, InPlaces, Ids
<1>2. CASE todo = <<>>
  <2>1. requests' = reqs /\ toWorker' = toWorker /\ NewIds(todo) = {}
    BY <1>1, <1>2, NothingIsPosted, DeliverableIs DEF NewIds
  <2> QED
    BY <1>1, <2>1, LenProperties DEF Ids, Pending, OnTheWay
<1>3. CASE todo # <<>>
  <2>1. PICK w \in Request : /\ w = Waiting(Head(todo)) /\ w.stmt = Head(todo)
                             /\ w.promise = "waiting"
    <3>1. PICK h \in Statements : h = Head(todo)
      BY <1>3, HeadTailProperties
    <3>2. Waiting(h) \in Request /\ Waiting(h).stmt = h /\ Waiting(h).promise = "waiting"
      BY DEF Waiting, Request
    <3> QED
      BY <3>1, <3>2
  <2>2. /\ requests' = Append(reqs, w) /\ NewIds(todo) = {n + 1}
        /\ toWorker' = IF Alive THEN Append(toWorker, n + 1) ELSE toWorker
    BY <1>1, <1>3, <2>1, PostedIs, DeliverableIs DEF NewIds
  <2>3. /\ requests' \in Seq(Request) /\ Len(requests') = n + 1
        /\ \A r \in 1..n : requests'[r] = reqs[r]
        /\ requests'[n + 1] = w
    BY <2>2, AppendProperties
  <2>4. Ids' = 1..n + 1 /\ Ids' = Ids \cup {n + 1} /\ n + 1 \notin Ids /\ DOMAIN requests' = Ids'
    BY <1>1, <2>3, LenProperties DEF Ids
  <2>5. Pending' = {r \in 1..n : reqs[r].promise = "waiting"} \cup {n + 1}
    BY <1>1, <2>1, <2>3, <2>4 DEF Pending
  <2>6. /\ ToSet(Append(toWorker, n + 1)) = ToSet(toWorker) \cup {n + 1}
        /\ IsInjective(Append(toWorker, n + 1)) /\ Append(toWorker, n + 1) \in Seq(Nat)
    <3>1. n + 1 \notin ToSet(toWorker) /\ n + 1 \in Nat
      BY <1>1
    <3> QED
      BY <1>1, <3>1, InjectiveAppend, AppendProperties
  <2> HIDE DEF n
  <2>7. /\ toWorker' \in Seq(Nat) /\ IsInjective(toWorker')
        /\ OnTheWay' = IF Alive THEN OnTheWay \cup {n + 1} ELSE OnTheWay
    BY <1>1, <2>2, <2>6 DEF OnTheWay
  <2>8. n <= Len(requests') /\ \A r \in 1..n : requests'[r].stmt = requests[r].stmt
    BY <1>1, <2>3 DEF n
  <2>9. \A r \in NewIds(todo) : requests'[r].stmt = Head(todo)
    BY <2>1, <2>2, <2>3
  <2> QED
    BY <2>2, <2>3, <2>4, <2>5, <2>7, <2>8, <2>9 DEF n
<1> QED
  BY <1>2, <1>3

\* An operation that awaits its next statement, or is done.
LEMMA AwaitIs ==
    ASSUME NEW op \in Operation, op.state = "running", NEW n \in Nat
    PROVE  /\ Await(op, n) \in Operation
           /\ Await(op, n).kind = op.kind /\ Await(op, n).graph = op.graph
           /\ Await(op, n).ver = op.ver /\ Await(op, n).todo = op.todo
           /\ Await(op, n).wanted = op.wanted
           /\ Await(op, n).req = IF op.todo = <<>> THEN 0 ELSE n
           /\ Await(op, n).state = IF op.todo = <<>> THEN "done" ELSE "running"
<1>1. PICK empty : empty <=> op.todo = <<>>
  OBVIOUS
<1>2. Await(op, n) = IF empty THEN [op EXCEPT !.req = 0, !.state = "done"] ELSE [op EXCEPT !.req = n]
  BY <1>1 DEF Await
<1>3. CASE empty
  <2>1. PICK new : new = [op EXCEPT !.req = 0, !.state = "done"]
    OBVIOUS
  <2>2. /\ new \in Operation /\ new.kind = op.kind /\ new.graph = op.graph /\ new.ver = op.ver
        /\ new.todo = op.todo /\ new.wanted = op.wanted /\ new.req = 0 /\ new.state = "done"
    BY <2>1 DEF Operation
  <2> QED
    BY <1>1, <1>2, <1>3, <2>1, <2>2
<1>4. CASE ~empty
  <2>1. PICK new : new = [op EXCEPT !.req = n]
    OBVIOUS
  <2>2. /\ new \in Operation /\ new.kind = op.kind /\ new.graph = op.graph /\ new.ver = op.ver
        /\ new.todo = op.todo /\ new.wanted = op.wanted /\ new.req = n /\ new.state = op.state
    BY <2>1 DEF Operation
  <2> QED
    BY <1>1, <1>2, <1>4, <2>1, <2>2
<1> QED
  BY <1>3, <1>4

LEMMA AwaitIsAwaiting ==
    ASSUME NEW op \in Operation, op.state = "running", Types, DOMAIN requests' = Ids',
           Ids' = Ids \cup NewIds(op.todo),
           \A r \in NewIds(op.todo) : requests'[r].stmt = Head(op.todo),
           NEW next, next = Await(op, Len(requests) + 1)
    PROVE  AwaitsItsStatement(next)' /\ next.req \notin Ids
<1>1. Len(requests) \in Nat /\ Ids = 1..Len(requests)
  BY IdsAre DEF Ids
<1>2. /\ next.todo = op.todo
      /\ next.req = IF op.todo = <<>> THEN 0 ELSE Len(requests) + 1
      /\ next.state = IF op.todo = <<>> THEN "done" ELSE "running"
  BY <1>1, AwaitIs
<1>3. CASE op.todo = <<>>
  <2>1. next.req = 0 /\ next.state = "done"
    BY <1>2, <1>3
  <2> QED
    BY <1>1, <1>2, <1>3, <2>1 DEF AwaitsItsStatement
<1>4. CASE op.todo # <<>>
  <2>1. next.req = Len(requests) + 1 /\ NewIds(op.todo) = {next.req} /\ next.state = "running"
    BY <1>2, <1>4 DEF NewIds
  <2> QED
    BY <1>1, <1>2, <1>4, <2>1 DEF AwaitsItsStatement
<1> QED
  BY <1>3, <1>4

\* An operation that begins right is right.
LEMMA BeginKeeps ==
    ASSUME StoreInv, NEW op \in Operation, op.state = "running", Begin(op),
           counter' \in Nat, counter <= counter', counter' <= Len(ops) + 1,
           NEW next, next = Await(op, Len(requests) + 1),
           SaveIsRight(next)', LoadIsRight(next), WantsOwn(next),
           \A old \in ToSet(ops) : old.kind = "save" /\ op.kind = "save" => old.ver # op.ver,
           op.todo # <<>> /\ Head(op.todo).type = "insert" => IsOf(op, Head(op.todo)),
           begun \subseteq begun', op.kind = "save" => Save(op.graph, op.ver) \in begun',
           \A save \in finished' : \/ save \in finished
                                   \/ /\ op.kind = "save" /\ op.graph \in Graphs
                                      /\ save = Save(op.graph, op.ver) /\ IsKept(save)
    PROVE  StoreInv'
<1>1. /\ earlier + Len(ops) + reloads < MaxSteps
      /\ requests' = Posted(requests, First(op.todo))
      /\ toWorker' = Deliverable(Len(First(op.todo)))
      /\ ops' = Append(ops, next) /\ Alive
      /\ UNCHANGED <<toMain, worker, job, failures, engine, handle, database, earlier, reloads>>
  BY DEF Begin, First, Alive, program
<1>2. /\ Types /\ InPlaces /\ requests \in Seq(Request) /\ ops \in Seq(Operation)
      /\ op.todo \in Seq(Statements) /\ Len(requests) + 1 \in Nat
  <2>1. Types /\ InPlaces
    BY DEF StoreInv
  <2>2. requests \in Seq(Request) /\ ops \in Seq(Operation)
    BY <2>1 DEF Types
  <2>3. Len(requests) + 1 \in Nat
    BY <2>1, IdsAre
  <2>4. op.todo \in Seq(Statements)
    BY DEF Operation
  <2> QED
    BY <2>1, <2>2, <2>3, <2>4
<1>3. /\ requests' \in Seq(Request) /\ Len(requests) <= Len(requests')
      /\ \A r \in 1..Len(requests) : requests'[r].stmt = requests[r].stmt
      /\ DOMAIN requests' = Ids' /\ Ids' = Ids \cup NewIds(op.todo) /\ NewIds(op.todo) \cap Ids = {}
      /\ Pending' = {r \in 1..Len(requests) : requests[r].promise = "waiting"} \cup NewIds(op.todo)
      /\ \A r \in NewIds(op.todo) : requests'[r].stmt = Head(op.todo)
      /\ toWorker' \in Seq(Nat) /\ IsInjective(toWorker')
      /\ OnTheWay' = OnTheWay \cup NewIds(op.todo)
  BY <1>1, <1>2, PostingPlaces
<1>4. Pending' = Pending \cup NewIds(op.todo)
  BY <1>3 DEF Pending, Ids
<1>5. Grows
  BY <1>1, <1>2, <1>3 DEF Grows, OwnRowsStay, IsWritten, Types
<1>6. /\ next \in Operation /\ next.kind = op.kind /\ next.graph = op.graph /\ next.ver = op.ver
  BY <1>2, AwaitIs
<1>7. AwaitsItsStatement(next)' /\ next.req \notin Ids
  BY <1>2, <1>3, AwaitIsAwaiting
<1>8. /\ ops' \in Seq(Operation) /\ Len(ops') = Len(ops) + 1
      /\ Len(ops) \in Nat /\ DOMAIN ops = 1..Len(ops) /\ DOMAIN ops' = 1..Len(ops) + 1
      /\ \A i \in 1..Len(ops) : ops'[i] = ops[i]
      /\ ops'[Len(ops) + 1] = next
      /\ ToSet(ops') = ToSet(ops) \cup {next}
  BY <1>1, <1>2, <1>6, AppendProperties, LenProperties, InjectiveAppend
<1>9. Types'
  <2>1. earlier' + Len(ops') + reloads' <= MaxSteps /\ counter' <= Len(ops')
    <3>1. /\ earlier' = earlier /\ reloads' = reloads /\ earlier + Len(ops) + reloads < MaxSteps
          /\ Len(ops') = Len(ops) + 1 /\ Len(ops) \in Nat
      BY <1>1, <1>8
    <3>2. earlier \in Nat /\ reloads \in Nat
      BY <1>2, MaxReloadsAssumption DEF Types
    <3>3. counter' <= Len(ops) + 1
      OBVIOUS
    <3> QED
      BY ONLY <3>1, <3>2, <3>3, MaxStepsAssumption
  <2>2. /\ toMain' \in Seq(Response) /\ database' \in Database
        /\ worker' \in {"loading", "running", "failed", "terminated"}
        /\ job' \in [DOMAIN job' -> {"factory", "opening"}]
        /\ earlier' \in Nat /\ reloads' \in 0..MaxReloads
    BY <1>1, <1>2 DEF Types
  <2> QED
    BY <1>3, <1>8, <2>1, <2>2 DEF Types
<1>10. InPlaces'
  <2>1. Answers' = Answers /\ Alive' = Alive
    BY <1>1 DEF Answers, Alive
  <2> QED
    BY <1>1, <1>2, <1>3, <1>4, <2>1 DEF InPlaces, OnTheWay
<1>11. DataAreRight'
  <2>1. SavesStay
    BY <1>8 DEF SavesStay
  <2>2. VersionsAreApart'
    <3>1. ASSUME NEW i \in 1..Len(ops), ops[i].kind = "save", op.kind = "save"
          PROVE  ops[i].ver # op.ver
      BY <1>8, <3>1 DEF ToSet
    <3>2. \A i, j \in 1..Len(ops) :
            ops[i].kind = "save" /\ ops[j].kind = "save" /\ ops[i].ver = ops[j].ver => i = j
      BY <1>8 DEF StoreInv, DataAreRight, VersionsAreApart
    <3>3. ASSUME NEW i \in DOMAIN ops', NEW j \in DOMAIN ops',
                 ops'[i].kind = "save", ops'[j].kind = "save", ops'[i].ver = ops'[j].ver
          PROVE  i = j
      BY <1>6, <1>8, <3>1, <3>2, <3>3
    <3> QED
      BY <3>3 DEF VersionsAreApart
  <2>3. LoadIsRight(next)'
    BY <1>2, <1>5, LoadStays DEF StoreInv, DataAreRight
  <2>4. ASSUME NEW o \in ToSet(ops')
        PROVE  \/ o \in ToSet(ops)
               \/ /\ AwaitsItsStatement(o)' /\ SaveIsRight(o)' /\ LoadIsRight(o)'
                  /\ WantsOwn(o) /\ o.req \notin Ids
                  /\ o.kind = "save" => Save(o.graph, o.ver) \in begun'
    BY <1>6, <1>7, <1>8, <2>3
  <2>5. ASSUME NEW r \in DOMAIN requests' \ Ids, requests'[r].stmt.type = "insert"
        PROVE  \E o \in ToSet(ops') : IsOf(o, requests'[r].stmt)
    <3>1. r \in NewIds(op.todo)
      BY <1>3
    <3>2. op.todo # <<>> /\ requests'[r].stmt = Head(op.todo)
      BY <1>3, <3>1 DEF NewIds
    <3>3. IsOf(next, requests'[r].stmt)
      BY <1>6, <2>5, <3>2 DEF IsOf
    <3> QED
      BY <1>8, <3>3
  <2>7. ASSUME NEW save \in finished'
        PROVE  save \in finished \/ (IsKnown(save)' /\ IsKept(save)')
    <3> SUFFICES ASSUME save \notin finished PROVE IsKnown(save)' /\ IsKept(save)'
      OBVIOUS
    <3>1. /\ op.kind = "save" /\ op.graph \in Graphs /\ IsKept(save)
          /\ save.graph = op.graph /\ save.ver = op.ver /\ save.page = reloads
      BY DEF Save
    <3>2. op.ver \in Nat /\ reloads \in Nat /\ reloads <= reloads
      BY <1>2 DEF Operation, Types
    <3>3. IsKnown(save)'
      BY <1>1, <1>6, <1>8, <3>1, <3>2 DEF IsKnown
    <3> QED
      BY <1>1, <3>1, <3>3, KeptStays
  <2>8. \A response \in ToSet(toMain') : response \in ToSet(toMain)
    BY <1>1
  <2> QED
    BY <1>1, <1>5, <2>1, <2>2, <2>4, <2>5, <2>7, <2>8, PageStepKeeps
<1> QED
  BY <1>9, <1>10, <1>11 DEF StoreInv

\* A graph all of whose inserts are executed is stored.
LEMMA WrittenIsStored ==
    ASSUME Types, NEW g \in Graphs, NEW v \in Nat,
           \A stmt \in Inserts(g, v) : IsWritten(stmt)
    PROVE  Within(g, Stored(v))
<1>1. database \in Database /\ g.nodes \subseteq Items /\ g.edges \subseteq Items
  BY GraphsAreContent DEF Types, Content
<1>2. /\ Rows(Select("graph_nodes", v), database)
            = {x \in Items : <<"graph_nodes", v, x>> \in database.rows}
      /\ Rows(Select("graph_edges", v), database)
            = {x \in Items : <<"graph_edges", v, x>> \in database.rows}
  BY <1>1, RowsAre
<1>3. ASSUME NEW x \in g.nodes PROVE <<"graph_nodes", v, x>> \in database.rows
  <2>1. Insert("graph_nodes", v, x) \in Inserts(g, v)
    BY DEF Inserts
  <2> QED
    BY <2>1, StatementsAre DEF IsWritten
<1>4. ASSUME NEW x \in g.edges PROVE <<"graph_edges", v, x>> \in database.rows
  <2>1. Insert("graph_edges", v, x) \in Inserts(g, v)
    BY DEF Inserts
  <2> QED
    BY <2>1, StatementsAre DEF IsWritten
<1> QED
  BY <1>1, <1>2, <1>3, <1>4 DEF Within, Stored

LEMMA SaveGraphKeeps ==
    ASSUME StoreInv, NEW graph \in Graphs, SaveGraph(graph)
    PROVE  StoreInv'
<1>1. PICK ver : ver = counter + 1
  OBVIOUS
<1>2. PICK todo : todo = InsertAll(graph, ver)
  OBVIOUS
<1>3. PICK op : op = Op("save", graph, ver, todo)
  OBVIOUS
<1>4. /\ counter' = ver /\ Begin(op)
      /\ begun' = begun \cup {Save(graph, ver)}
      /\ finished' = IF todo = <<>> THEN finished \cup {Save(graph, ver)} ELSE finished
  BY <1>1, <1>2, <1>3 DEF SaveGraph
<1>5. /\ counter \in Nat /\ counter <= Len(ops) /\ Len(ops) \in Nat /\ Len(requests) + 1 \in Nat
      /\ earlier \in Nat /\ reloads \in Nat /\ earlier + Len(ops) + reloads < MaxSteps
  BY <1>4, LenProperties, IdsAre DEF StoreInv, Types, Begin
<1>6. /\ ver \in Nat /\ ver \in 1..counter' /\ counter <= counter' /\ counter' <= Len(ops) + 1
  BY <1>1, <1>4, <1>5
<1>7. todo \in Seq(Statements) /\ ToSet(todo) = Inserts(graph, ver)
  BY <1>2, <1>6, InsertsInOrder
<1>8. /\ op.kind = "save" /\ op.graph = graph /\ op.ver = ver /\ op.todo = todo
      /\ op.state = "running"
  BY <1>3 DEF Op
<1>9. op \in Operation
  BY <1>3, <1>6, <1>7, GraphsAreContent DEF Op, Operation
<1>10. PICK next : next = Await(op, Len(requests) + 1)
  OBVIOUS
<1>11. /\ next.kind = "save" /\ next.graph = graph /\ next.ver = ver /\ next.todo = todo
       /\ next.state # "failed"
  BY <1>5, <1>8, <1>9, <1>10, AwaitIs
<1>12. SaveIsRight(next)' /\ LoadIsRight(next) /\ WantsOwn(next)
  <2>1. SaveIsRight(next)'
    BY <1>6, <1>7, <1>11 DEF SaveIsRight
  <2> QED
    BY <1>11, <2>1 DEF LoadIsRight, WantsOwn
<1>13. ASSUME NEW old \in ToSet(ops), old.kind = "save" PROVE old.ver # op.ver
  <2>1. old.ver \in 1..counter
    BY <1>13 DEF StoreInv, DataAreRight, OpsAreRight, SaveIsRight
  <2> QED
    BY <1>1, <1>5, <1>8, <2>1
<1>14. op.todo # <<>> /\ Head(op.todo).type = "insert" => IsOf(op, Head(op.todo))
  BY <1>7, <1>8, HeadAndTail DEF IsOf
<1>15. ASSUME NEW save \in finished'
       PROVE  \/ save \in finished
              \/ /\ op.kind = "save" /\ op.graph \in Graphs
                 /\ save = Save(op.graph, op.ver) /\ IsKept(save)
  <2>1. CASE todo = <<>>
    <3>1. Inserts(graph, ver) = {}
      BY <1>7, <2>1, EmptySequences
    <3>2. Within(graph, Stored(ver))
      BY <1>6, <3>1, WrittenIsStored DEF StoreInv
    <3>3. PICK saved : saved = Save(graph, ver)
      OBVIOUS
    <3>4. IsKept(saved)
      BY <3>2, <3>3, StoredIsKept DEF Save
    <3> QED
      BY <1>4, <1>8, <2>1, <3>3, <3>4
  <2> QED
    BY <1>4, <2>1
<1>16. begun \subseteq begun' /\ Save(op.graph, op.ver) \in begun'
  BY <1>4, <1>8
<1> QED
  BY <1>4, <1>6, <1>8, <1>9, <1>10, <1>12, <1>13, <1>14, <1>15, <1>16, BeginKeeps

\* What a load that begins must find is stored.
LEMMA SavedAsIs ==
    ASSUME StoreInv, NEW ver \in Nat
    PROVE  /\ SavedAs(ver) \in Content /\ Within(SavedAs(ver), Stored(ver))
           /\ SavedAs(ver).nodes = {} => SavedAs(ver).edges = {}
           /\ ver = 0 => SavedAs(ver) = EmptyGraph
           /\ \/ SavedAs(ver) = EmptyGraph
              \/ \E save \in ToSet(ops) : /\ save.kind = "save" /\ save.ver = ver
                                          /\ save.graph = SavedAs(ver)
<1> DEFINE done == {i \in DOMAIN ops : /\ ops[i].kind = "save"
                                       /\ ops[i].ver = ver
                                       /\ ops[i].state = "done"}
<1>1. CASE done = {}
  <2>1. SavedAs(ver) = EmptyGraph
    BY <1>1 DEF SavedAs
  <2> QED
    BY <2>1, GraphsAreContent DEF EmptyGraph, Within
<1>2. CASE done # {}
  <2>1. PICK i \in done : SavedAs(ver) = ops[i].graph
    BY <1>2 DEF SavedAs
  <2>2. PICK op \in ToSet(ops) : op = ops[i]
    BY <2>1 DEF ToSet
  <2>3. /\ op.kind = "save" /\ op.ver = ver /\ op.state = "done"
        /\ AwaitsItsStatement(op) /\ SaveIsRight(op)
    BY <2>1, <2>2 DEF StoreInv, DataAreRight, OpsAreRight
  <2>4. op.todo = <<>> /\ op.graph \in Graphs /\ ver \in 1..counter
    BY <2>3 DEF AwaitsItsStatement, SaveIsRight
  <2>5. \A stmt \in Inserts(op.graph, ver) : IsWritten(stmt)
    BY <2>3, <2>4, EmptySequences DEF SaveIsRight
  <2>6. Within(op.graph, Stored(ver))
    BY <2>4, <2>5, WrittenIsStored DEF StoreInv
  <2>7. ver # 0
    BY <2>4 DEF StoreInv, Types
  <2> QED
    BY <2>1, <2>2, <2>3, <2>4, <2>6, <2>7, GraphsAreContent
<1> QED
  BY <1>1, <1>2

LEMMA ReadVersionIs ==
    ASSUME NEW ver \in Nat
    PROVE  /\ ReadVersion(ver) \in Seq(Statements) /\ ReadVersion(ver) # <<>>
           /\ Head(ReadVersion(ver)) = Select("graph_nodes", ver)
           /\ Tail(ReadVersion(ver)) = <<Select("graph_edges", ver)>>
<1>1. Select("graph_nodes", ver) \in Statements /\ Select("graph_edges", ver) \in Statements
  BY DEF Statements, Tables
<1> QED
  BY <1>1 DEF ReadVersion

LEMMA ReadIs ==
    ASSUME StoreInv, NEW ver \in Nat
    PROVE  /\ Read(ver) \in Operation /\ Read(ver).kind = "load" /\ Read(ver).state = "running"
           /\ Read(ver).graph = EmptyGraph /\ Read(ver).ver = ver
           /\ Read(ver).todo = (IF ver = 0 THEN <<>> ELSE ReadVersion(ver))
           /\ Read(ver).wanted = SavedAs(ver)
<1>1. PICK todo : todo = (IF ver = 0 THEN <<>> ELSE ReadVersion(ver))
  OBVIOUS
<1>2. todo \in Seq(Statements)
  BY <1>1, ReadVersionIs, EmptySequences
<1>3. PICK wanted : wanted = SavedAs(ver)
  OBVIOUS
<1>4. wanted \in Content /\ EmptyGraph \in Content
  BY <1>3, SavedAsIs, GraphsAreContent
<1>5. PICK empty : empty = EmptyGraph
  OBVIOUS
<1>6. PICK op : op = [kind |-> "load", graph |-> empty, ver |-> ver, todo |-> todo, req |-> 0,
                      state |-> "running", wanted |-> empty]
  OBVIOUS
<1>7. Read(ver) = [op EXCEPT !.wanted = wanted]
  BY <1>1, <1>3, <1>5, <1>6 DEF Read, Op
<1>8. PICK read : read = [op EXCEPT !.wanted = wanted]
  OBVIOUS
<1>9. /\ read \in Operation /\ read.kind = "load" /\ read.state = "running"
      /\ read.graph = empty /\ read.ver = ver /\ read.todo = todo /\ read.wanted = wanted
  BY <1>2, <1>4, <1>5, <1>6, <1>8 DEF Operation
<1> QED
  BY <1>1, <1>3, <1>5, <1>7, <1>8, <1>9

\* A load that begins is right.
LEMMA ReadIsRight ==
    ASSUME StoreInv, NEW ver \in Nat, NEW n \in Nat, NEW next, next = Await(Read(ver), n)
    PROVE  next.kind = "load" /\ LoadIsRight(next) /\ WantsOwn(next)
<1>1. /\ next.kind = "load" /\ next.graph = EmptyGraph /\ next.ver = ver
      /\ next.wanted = SavedAs(ver) /\ next.todo = Read(ver).todo
      /\ next.state = IF Read(ver).todo = <<>> THEN "done" ELSE "running"
  BY ReadIs, AwaitIs
<1>2. /\ Within(next.wanted, Stored(ver)) /\ Within(next.graph, Stored(ver))
      /\ next.wanted.nodes = {} => next.wanted.edges = {}
      /\ next.graph.nodes = {} => next.graph.edges = {}
  BY <1>1, SavedAsIs DEF Within, EmptyGraph
<1>3. WantsOwn(next)
  BY <1>1, SavedAsIs DEF WantsOwn
<1>4. CASE ver = 0
  <2>1. next.state = "done" /\ next.wanted = EmptyGraph
    BY <1>1, <1>4, ReadIs, SavedAsIs
  <2> QED
    BY <1>1, <1>2, <1>3, <2>1 DEF LoadIsRight, Within
<1>5. CASE ver # 0
  <2>1. next.state = "running" /\ next.todo = ReadVersion(ver)
    BY <1>1, <1>5, ReadIs, ReadVersionIs
  <2> QED
    BY <1>1, <1>2, <1>3, <2>1 DEF LoadIsRight
<1> QED
  BY <1>4, <1>5

LEMMA LoadKeeps ==
    ASSUME StoreInv, NEW ver \in Nat, Begin(Read(ver)), UNCHANGED <<counter, begun, finished>>
    PROVE  StoreInv'
<1>1. PICK op : op = Read(ver)
  OBVIOUS
<1>2. PICK next : next = Await(op, Len(requests) + 1)
  OBVIOUS
<1>3. /\ counter \in Nat /\ counter <= Len(ops) /\ Len(ops) \in Nat /\ Len(requests) + 1 \in Nat
  BY LenProperties, IdsAre DEF StoreInv, Types
<1>4. next.kind = "load" /\ LoadIsRight(next) /\ WantsOwn(next)
  BY <1>1, <1>2, <1>3, ReadIsRight
<1>5. SaveIsRight(next)'
  BY <1>4 DEF SaveIsRight
<1>6. op \in Operation /\ op.kind = "load" /\ op.state = "running" /\ Begin(op)
  BY <1>1, ReadIs
<1>7. op.todo # <<>> => Head(op.todo).type # "insert"
  BY <1>1, ReadIs, ReadVersionIs, StatementsAre
<1>8. counter' \in Nat /\ counter <= counter' /\ counter' <= Len(ops) + 1
      /\ begun' = begun /\ finished' = finished
  BY <1>3
<1> QED
  BY <1>2, <1>4, <1>5, <1>6, <1>7, <1>8, BeginKeeps

LEMMA FindSimilarGraphsKeeps == StoreInv /\ FindSimilarGraphs => StoreInv'
<1> SUFFICES ASSUME StoreInv, FindSimilarGraphs PROVE StoreInv'
  OBVIOUS
<1>1. PICK todo : todo = <<SelectVersions>>
  OBVIOUS
<1>2. /\ todo \in Seq(Statements) /\ todo # <<>> /\ Head(todo) = SelectVersions
  BY <1>1 DEF Statements
<1>3. PICK op : op = Op("similar", EmptyGraph, 0, todo)
  OBVIOUS
<1>4. Begin(op) /\ counter' = counter /\ begun' = begun /\ finished' = finished
  BY <1>1, <1>3 DEF FindSimilarGraphs
<1>5. PICK next : next = Await(op, Len(requests) + 1)
  OBVIOUS
<1>6. /\ counter \in Nat /\ counter <= Len(ops) /\ Len(ops) \in Nat /\ Len(requests) + 1 \in Nat
  BY LenProperties, IdsAre DEF StoreInv, Types
<1>7. op.kind = "similar" /\ op.todo = todo /\ op.state = "running"
  BY <1>3 DEF Op
<1>8. op \in Operation
  <2>1. PICK empty \in Content : empty = EmptyGraph
    BY GraphsAreContent
  <2> QED
    BY <1>2, <1>3, <2>1 DEF Op, Operation
<1>9. next.kind = "similar" /\ next.todo = todo
  BY <1>5, <1>6, <1>7, <1>8, AwaitIs
<1>10. SaveIsRight(next)' /\ LoadIsRight(next) /\ WantsOwn(next)
  BY <1>1, <1>9 DEF SaveIsRight, LoadIsRight, WantsOwn
<1>11. Head(op.todo).type # "insert"
  BY <1>2, <1>7, StatementsAre
<1>12. counter' \in Nat /\ counter <= counter' /\ counter' <= Len(ops) + 1
  BY <1>4, <1>6
<1> QED
  BY <1>4, <1>5, <1>7, <1>8, <1>10, <1>11, <1>12, BeginKeeps

-----------------------------------------------------------------------------
(* An answer arrives *)

\* op is what old has become; it is right when it awaits its next statement.
GoesOn(old, op, next) ==
    /\ op \in Operation /\ op.state = "running"
    /\ op.kind = "save" <=> old.kind = "save"
    /\ op.kind = "save" => op.graph = old.graph /\ op.ver = old.ver
    /\ SaveIsRight(next) /\ LoadIsRight(next) /\ WantsOwn(next)
    /\ op.todo # <<>> /\ Head(op.todo).type = "insert" => IsOf(op, Head(op.todo))

\* What a load becomes when it has found nodes or edges.
WithNodes(op, rows, rest) == [op EXCEPT !.graph.nodes = rows, !.todo = rest]
WithEdges(op, rows, rest) == [op EXCEPT !.graph.edges = rows, !.todo = rest]

LEMMA FoundNodes ==
    ASSUME NEW old \in Operation, NEW rows \in SUBSET Items, NEW rest \in Seq(Statements),
           NEW op, op = WithNodes(old, rows, rest)
    PROVE  /\ op \in Operation /\ op.state = old.state /\ op.kind = old.kind
           /\ op.todo = rest /\ op.ver = old.ver /\ op.wanted = old.wanted
           /\ op.graph.nodes = rows /\ op.graph.edges = old.graph.edges
<1>1. old.graph \in Content
  BY DEF Operation
<1>2. PICK g \in Content : g = [old.graph EXCEPT !.nodes = rows]
  BY <1>1 DEF Content
<1>3. g.nodes = rows /\ g.edges = old.graph.edges
  BY <1>1, <1>2 DEF Content
<1>4. op = [old EXCEPT !.graph = g, !.todo = rest]
  BY <1>2 DEF WithNodes
<1> QED
  BY <1>3, <1>4 DEF Operation

LEMMA FoundEdges ==
    ASSUME NEW old \in Operation, NEW rows \in SUBSET Items, NEW rest \in Seq(Statements),
           NEW op, op = WithEdges(old, rows, rest)
    PROVE  /\ op \in Operation /\ op.state = old.state /\ op.kind = old.kind
           /\ op.todo = rest /\ op.ver = old.ver /\ op.wanted = old.wanted
           /\ op.graph.edges = rows /\ op.graph.nodes = old.graph.nodes
<1>1. old.graph \in Content
  BY DEF Operation
<1>2. PICK g \in Content : g = [old.graph EXCEPT !.edges = rows]
  BY <1>1 DEF Content
<1>3. g.edges = rows /\ g.nodes = old.graph.nodes
  BY <1>1, <1>2 DEF Content
<1>4. op = [old EXCEPT !.graph = g, !.todo = rest]
  BY <1>2 DEF WithEdges
<1> QED
  BY <1>3, <1>4 DEF Operation

\* The operation that awaits an answer is running, and the statement answered is
\* the first it has left.
LEMMA AnsweredOperation ==
    ASSUME StoreInv, NEW old \in ToSet(ops), old.req \in Ids
    PROVE  /\ old \in Operation /\ old.state = "running"
           /\ old.todo \in Seq(Statements) /\ old.todo # <<>>
           /\ Head(old.todo) \in Statements /\ Tail(old.todo) \in Seq(Statements)
           /\ ToSet(old.todo) = {Head(old.todo)} \cup ToSet(Tail(old.todo))
           /\ requests[old.req].stmt = Head(old.todo)
           /\ SaveIsRight(old) /\ LoadIsRight(old) /\ WantsOwn(old)
<1>1. /\ old \in Operation /\ AwaitsItsStatement(old)
      /\ SaveIsRight(old) /\ LoadIsRight(old) /\ WantsOwn(old)
  BY ElementsAreTyped DEF StoreInv, DataAreRight, OpsAreRight
<1>2. old.req # 0
  BY IdsAre DEF Ids, StoreInv
<1>3. /\ old.state = "running" /\ old.todo # <<>> /\ requests[old.req].stmt = Head(old.todo)
  BY <1>1, <1>2 DEF AwaitsItsStatement
<1>4. old.todo \in Seq(Statements)
  BY <1>1 DEF Operation
<1> QED
  BY <1>1, <1>3, <1>4, HeadAndTail

LEMMA SaveGoesOn ==
    ASSUME StoreInv, NEW old \in ToSet(ops), old.req \in Ids, old.kind = "save",
           NEW response \in Response, response.id = old.req, response.ok,
           AnswerIsRight(response),
           NEW op, op = Continued(old, response),
           NEW n \in Nat, NEW next, next = Await(op, n)
    PROVE  GoesOn(old, op, next)
<1>1. /\ old \in Operation /\ old.state = "running" /\ SaveIsRight(old)
      /\ Head(old.todo) \in Statements /\ Tail(old.todo) \in Seq(Statements)
      /\ ToSet(old.todo) = {Head(old.todo)} \cup ToSet(Tail(old.todo))
      /\ requests[old.req].stmt = Head(old.todo)
  BY AnsweredOperation
<1>2. PICK rest \in Seq(Statements) : rest = Tail(old.todo)
  BY <1>1
<1>3. op = [old EXCEPT !.todo = rest]
  BY <1>2 DEF Continued
<1>4. /\ op \in Operation /\ op.state = "running" /\ op.kind = "save" /\ op.graph = old.graph
      /\ op.ver = old.ver /\ op.todo = rest
  BY <1>1, <1>2, <1>3 DEF Operation
<1>5. /\ next.kind = "save" /\ next.graph = old.graph /\ next.ver = old.ver /\ next.todo = rest
      /\ next.state # "failed"
  BY <1>4, AwaitIs
<1>6. Head(old.todo) \in Inserts(old.graph, old.ver) /\ Head(old.todo).type = "insert"
  <2>1. ToSet(old.todo) \subseteq Inserts(old.graph, old.ver)
    BY <1>1 DEF SaveIsRight
  <2>2. \A stmt \in Inserts(old.graph, old.ver) : stmt.type = "insert"
    BY StatementsAre DEF Inserts
  <2> QED
    BY <1>1, <2>1, <2>2
<1>7. IsWritten(Head(old.todo))
  BY <1>1, <1>6 DEF AnswerIsRight
<1>8. SaveIsRight(next)
  BY <1>1, <1>2, <1>5, <1>7 DEF SaveIsRight
<1>9. LoadIsRight(next) /\ WantsOwn(next)
  BY <1>5 DEF LoadIsRight, WantsOwn
<1>10. rest # <<>> => Head(rest) \in Inserts(old.graph, old.ver)
  <2>1. ToSet(rest) \subseteq Inserts(old.graph, old.ver)
    BY <1>1, <1>2 DEF SaveIsRight
  <2>2. rest # <<>> => Head(rest) \in ToSet(rest)
    BY HeadAndTail
  <2> QED
    BY <2>1, <2>2
<1> QED
  BY <1>4, <1>8, <1>9, <1>10 DEF GoesOn, IsOf

LEMMA SimilarGoesOn ==
    ASSUME StoreInv, NEW old \in ToSet(ops), old.req \in Ids, old.kind = "similar",
           NEW response \in Response, response.id = old.req, response.ok,
           NEW op, op = Continued(old, response),
           NEW n \in Nat, NEW next, next = Await(op, n)
    PROVE  GoesOn(old, op, next)
<1>1. old \in Operation /\ old.state = "running" /\ counter \in Nat
  BY AnsweredOperation DEF StoreInv, Types
<1>2. CASE response.rows = {}
  <2>1. PICK none \in Seq(Statements) : none = <<>>
    BY EmptySequences
  <2>2. op = [old EXCEPT !.todo = none]
    BY <1>2, <2>1 DEF Continued
  <2>3. /\ op \in Operation /\ op.state = "running" /\ op.kind = "similar" /\ op.todo = none
    BY <1>1, <2>1, <2>2 DEF Operation
  <2>4. next.kind = "similar" /\ next.state = "done"
    BY <2>1, <2>3, AwaitIs
  <2> QED
    BY <2>1, <2>3, <2>4 DEF GoesOn, SaveIsRight, LoadIsRight, WantsOwn
<1>3. CASE response.rows # {}
  <2>1. op = Read(counter)
    BY <1>3 DEF Continued
  <2>2. PICK ver \in Nat : ver = counter
    BY <1>1
  <2>3. /\ op \in Operation /\ op.state = "running" /\ op.kind = "load"
        /\ op.todo = IF ver = 0 THEN <<>> ELSE ReadVersion(ver)
    BY <2>1, <2>2, ReadIs
  <2>4. next.kind = "load" /\ LoadIsRight(next) /\ WantsOwn(next)
    BY <2>1, <2>2, ReadIsRight
  <2>5. op.todo # <<>> => Head(op.todo).type # "insert"
    BY <2>3, ReadVersionIs, StatementsAre
  <2> QED
    BY <2>3, <2>4, <2>5 DEF GoesOn, SaveIsRight
<1> QED
  BY <1>2, <1>3

LEMMA LoadGoesOn ==
    ASSUME StoreInv, NEW old \in ToSet(ops), old.req \in Ids, old.kind = "load",
           NEW response \in Response, response.id = old.req, response.ok,
           AnswerIsRight(response),
           NEW op, op = Continued(old, response),
           NEW n \in Nat, NEW next, next = Await(op, n)
    PROVE  GoesOn(old, op, next)
<1>1. /\ old \in Operation /\ old.state = "running" /\ LoadIsRight(old) /\ WantsOwn(old)
      /\ old.ver \in Nat
      /\ Head(old.todo) \in Statements /\ Tail(old.todo) \in Seq(Statements)
      /\ requests[old.req].stmt = Head(old.todo)
  BY AnsweredOperation DEF Operation
<1>2. /\ old.graph \in Content /\ old.wanted \in Content
      /\ Within(old.wanted, Stored(old.ver))
      /\ reloads = 0 => Within(old.graph, Stored(old.ver))
      /\ old.wanted.nodes = {} => old.wanted.edges = {}
      /\ old.graph.nodes = {} => old.graph.edges = {}
      /\ \/ old.todo = ReadVersion(old.ver)
         \/ /\ old.todo = <<Select("graph_edges", old.ver)>>
            /\ old.wanted.nodes \subseteq old.graph.nodes /\ old.graph.nodes # {}
  BY <1>1 DEF LoadIsRight, Operation
<1>3. Head(old.todo).type = "select" =>
        /\ response.rows \subseteq Items
        /\ reloads = 0 => response.rows \subseteq Rows(Head(old.todo), database)
        /\ Wanted(old, Head(old.todo).table) \subseteq response.rows
  BY <1>1 DEF AnswerIsRight
<1>4. \A new : new.kind = "load" /\ new.ver = old.ver /\ new.wanted = old.wanted => WantsOwn(new)
  <2>1. old.kind = "load"
    OBVIOUS
  <2> QED
    BY <1>1, <2>1 DEF WantsOwn
<1>5. CASE old.todo = ReadVersion(old.ver)
  <2>1. /\ Head(old.todo) = Select("graph_nodes", old.ver)
        /\ Tail(old.todo) = <<Select("graph_edges", old.ver)>>
        /\ Head(old.todo).type = "select" /\ Head(old.todo).table = "graph_nodes"
    <3>1. PICK v \in Nat : v = old.ver
      BY <1>1
    <3>2. /\ Head(ReadVersion(v)) = Select("graph_nodes", v)
          /\ Tail(ReadVersion(v)) = <<Select("graph_edges", v)>>
      BY ReadVersionIs
    <3>3. Select("graph_nodes", v).type = "select" /\ Select("graph_nodes", v).table = "graph_nodes"
      BY StatementsAre
    <3> QED
      BY <1>5, <3>1, <3>2, <3>3
  <2>2. /\ reloads = 0 => response.rows \subseteq Stored(old.ver).nodes
        /\ old.wanted.nodes \subseteq response.rows
    BY <1>3, <2>1 DEF Stored, Wanted
  <2>3. response.rows \in SUBSET Items
    BY <1>3, <2>1
  <2>4. CASE response.rows = {}
    <3>1. PICK none \in Seq(Statements) : none = <<>>
      BY EmptySequences
    <3>2. op = [old EXCEPT !.todo = none]
      BY <2>1, <2>4, <3>1 DEF Continued
    <3>3. /\ op \in Operation /\ op.state = "running" /\ op.kind = "load" /\ op.todo = none
          /\ op.graph = old.graph /\ op.ver = old.ver /\ op.wanted = old.wanted
      BY <1>1, <3>1, <3>2 DEF Operation
    <3>4. /\ next.kind = "load" /\ next.state = "done" /\ next.graph = old.graph
          /\ next.ver = old.ver /\ next.wanted = old.wanted
      BY <3>1, <3>3, AwaitIs
    <3>5. Within(old.wanted, old.graph)
      BY <1>2, <2>2, <2>4 DEF Within
    <3>6. LoadIsRight(next)
      BY <1>2, <3>4, <3>5 DEF LoadIsRight
    <3> QED
      BY <1>4, <3>1, <3>3, <3>4, <3>6 DEF GoesOn, SaveIsRight
  <2>5. CASE response.rows # {}
    <3>1. PICK rest \in Seq(Statements) : rest = Tail(old.todo)
      BY <1>1
    <3>2. PICK rows \in SUBSET Items : /\ rows = response.rows
                                      /\ op = WithNodes(old, rows, rest)
      BY <2>1, <2>3, <2>5, <3>1 DEF Continued, WithNodes
    <3>3. /\ op \in Operation /\ op.state = "running" /\ op.kind = "load" /\ op.todo = rest
          /\ op.graph.nodes = response.rows /\ op.graph.edges = old.graph.edges
          /\ op.ver = old.ver /\ op.wanted = old.wanted
      BY <1>1, <3>2, FoundNodes
    <3>4. rest # <<>> /\ Head(rest) = Select("graph_edges", old.ver)
      <4>1. PICK stmt : stmt = Select("graph_edges", old.ver)
        OBVIOUS
      <4>2. rest = <<stmt>>
        BY <2>1, <3>1, <4>1
      <4> QED
        BY <4>1, <4>2
    <3>5. /\ next.kind = "load" /\ next.state = "running" /\ next.graph = op.graph
          /\ next.ver = old.ver /\ next.wanted = old.wanted /\ next.todo = rest
      BY <3>3, <3>4, AwaitIs
    <3>6. reloads = 0 => Within(next.graph, Stored(old.ver))
      BY <1>2, <2>2, <3>3, <3>5 DEF Within
    <3>7. /\ next.wanted.nodes \subseteq next.graph.nodes /\ next.graph.nodes # {}
      BY <2>2, <2>5, <3>3, <3>5
    <3>8. LoadIsRight(next)
      BY <1>2, <2>1, <3>1, <3>5, <3>6, <3>7 DEF LoadIsRight
    <3>9. Head(rest).type # "insert"
      BY <3>4, StatementsAre
    <3> QED
      BY <1>4, <3>3, <3>5, <3>8, <3>9 DEF GoesOn, SaveIsRight
  <2> QED
    BY <2>4, <2>5
<1>6. CASE /\ old.todo = <<Select("graph_edges", old.ver)>>
           /\ old.wanted.nodes \subseteq old.graph.nodes /\ old.graph.nodes # {}
  <2>1. /\ Head(old.todo) = Select("graph_edges", old.ver)
        /\ Head(old.todo).type = "select" /\ Head(old.todo).table = "graph_edges"
    BY <1>6, StatementsAre
  <2>2. PICK rest \in Seq(Statements) : rest = Tail(old.todo)
    BY <1>1
  <2>3. rest = <<>>
    BY <1>6, <2>2
  <2>4. /\ reloads = 0 => response.rows \subseteq Stored(old.ver).edges
        /\ old.wanted.edges \subseteq response.rows
    BY <1>3, <2>1 DEF Stored, Wanted
  <2>5. response.rows \in SUBSET Items
    BY <1>3, <2>1
  <2>6. PICK rows \in SUBSET Items : /\ rows = response.rows
                                    /\ op = WithEdges(old, rows, rest)
    BY <2>1, <2>2, <2>5 DEF Continued, WithEdges
  <2>7. /\ op \in Operation /\ op.state = "running" /\ op.kind = "load" /\ op.todo = rest
        /\ op.graph.edges = response.rows /\ op.graph.nodes = old.graph.nodes
        /\ op.ver = old.ver /\ op.wanted = old.wanted
    BY <1>1, <2>6, FoundEdges
  <2>8. /\ next.kind = "load" /\ next.state = "done" /\ next.graph = op.graph
        /\ next.ver = old.ver /\ next.wanted = old.wanted
    BY <2>3, <2>7, AwaitIs
  <2>9. /\ reloads = 0 => Within(next.graph, Stored(old.ver))
        /\ Within(next.wanted, next.graph)
        /\ next.graph.nodes # {}
    BY <1>2, <1>6, <2>4, <2>7, <2>8 DEF Within
  <2>10. LoadIsRight(next)
    BY <1>2, <2>8, <2>9 DEF LoadIsRight
  <2> QED
    BY <1>4, <2>3, <2>7, <2>8, <2>10 DEF GoesOn, SaveIsRight
<1> QED
  BY <1>2, <1>5, <1>6

\* What an answer makes of the operation that awaits it, and of the statement it
\* posts next.
AfterAnswer(op, n) == IF op.state = "failed" THEN [op EXCEPT !.req = 0] ELSE Await(op, n)

LEMMA AnswerGoesOn ==
    ASSUME StoreInv, Grows, database' = database, NEW old \in ToSet(ops), old.req \in Ids,
           NEW response \in Response, response.id = old.req, AnswerIsRight(response),
           NEW op, op = Continued(old, response),
           NEW next, next = AfterAnswer(op, Len(requests) + 1),
           DOMAIN requests' = Ids', Ids' = Ids \cup NewIds(op.todo),
           \A r \in NewIds(op.todo) : requests'[r].stmt = Head(op.todo)
    PROVE  /\ next \in Operation
           /\ next.kind = "save" <=> old.kind = "save"
           /\ next.kind = "save" => next.graph = old.graph /\ next.ver = old.ver
           /\ AwaitsItsStatement(next)' /\ next.req \notin Ids
           /\ SaveIsRight(next)' /\ LoadIsRight(next)' /\ WantsOwn(next)
           /\ op.todo # <<>> /\ Head(op.todo).type = "insert" => IsOf(next, Head(op.todo))
           /\ next.kind = "save" /\ next.state = "done" =>
                /\ next.graph \in Graphs /\ next.ver \in Nat
                /\ Within(next.graph, Stored(next.ver))
<1>1. /\ old \in Operation /\ old.state = "running" /\ Len(requests) + 1 \in Nat
      /\ Types
  BY AnsweredOperation, IdsAre DEF StoreInv
<1>2. CASE ~response.ok
  <2>1. PICK none : none = <<>>
    OBVIOUS
  <2>2. op = [old EXCEPT !.state = "failed", !.todo = none]
    BY <1>2, <2>1 DEF Continued
  <2>3. op.state = "failed" /\ op.todo = none
    BY <1>1, <2>2 DEF Operation
  <2>4. next = [op EXCEPT !.req = 0]
    BY <2>3 DEF AfterAnswer
  <2>5. next = [old EXCEPT !.state = "failed", !.todo = none, !.req = 0]
    BY <1>1, <2>2, <2>4 DEF Operation
  <2>6. next = GivenUp(old)
    BY <1>1, <2>1, <2>5 DEF GivenUp
  <2>7. next.state = "failed"
    BY <1>1, <2>5 DEF Operation
  <2> QED
    BY <1>1, <2>1, <2>3, <2>6, <2>7, GivenUpIsRight
<1>3. CASE response.ok
  <2>1. PICK n \in Nat : n = Len(requests) + 1
    BY <1>1
  <2>2. PICK await : await = Await(op, n)
    OBVIOUS
  <2>3. GoesOn(old, op, await)
    <3>1. old.kind \in {"save", "load", "similar"}
      BY <1>1 DEF Operation
    <3> QED
      BY <1>3, <2>2, <3>1, SaveGoesOn, SimilarGoesOn, LoadGoesOn
  <2>4. /\ op \in Operation /\ op.state = "running" /\ (op.kind = "save" <=> old.kind = "save")
        /\ (op.kind = "save" => op.graph = old.graph /\ op.ver = old.ver)
        /\ SaveIsRight(await) /\ LoadIsRight(await) /\ WantsOwn(await)
        /\ (op.todo # <<>> /\ Head(op.todo).type = "insert" => IsOf(op, Head(op.todo)))
    BY <2>3 DEF GoesOn
  <2>5. next = await
    BY <2>1, <2>2, <2>4 DEF AfterAnswer
  <2>6. /\ next \in Operation /\ next.kind = op.kind /\ next.graph = op.graph
        /\ next.ver = op.ver /\ next.todo = op.todo
        /\ next.state = IF op.todo = <<>> THEN "done" ELSE "running"
    BY <2>1, <2>2, <2>4, <2>5, AwaitIs
  <2>7. AwaitsItsStatement(next)' /\ next.req \notin Ids
    BY <1>1, <2>1, <2>2, <2>4, <2>5, AwaitIsAwaiting
  <2>8. SaveIsRight(next)' /\ LoadIsRight(next)'
    BY <1>1, <2>4, <2>5, SaveStays, LoadStays DEF StoreInv, DataAreRight
  <2>9. ASSUME next.kind = "save", next.state = "done"
        PROVE  /\ next.graph \in Graphs /\ next.ver \in Nat
               /\ Within(next.graph, Stored(next.ver))
    <3>1. next.todo = <<>> /\ SaveIsRight(next)
      BY <2>4, <2>5, <2>6, <2>9
    <3>2. /\ next.graph \in Graphs /\ next.ver \in 1..counter
          /\ \A stmt \in Inserts(next.graph, next.ver) : IsWritten(stmt)
      BY <2>9, <3>1, EmptySequences DEF SaveIsRight
    <3>3. next.ver \in Nat
      BY <1>1, <3>2 DEF Types
    <3>4. Within(next.graph, Stored(next.ver))
      BY <1>1, <3>2, <3>3, WrittenIsStored
    <3> QED
      BY <3>2, <3>3, <3>4
  <2> QED
    BY <2>4, <2>5, <2>6, <2>7, <2>8, <2>9 DEF IsOf
<1> QED
  BY <1>2, <1>3

Replaced(s, i, e) == [s EXCEPT ![i] = e]

LEMMA ReplacedOperation ==
    ASSUME Types, NEW i \in DOMAIN ops, NEW e \in Operation, ops' = Replaced(ops, i, e)
    PROVE  /\ ops' \in Seq(Operation) /\ Len(ops') = Len(ops) /\ DOMAIN ops' = DOMAIN ops
           /\ ops'[i] = e /\ \A j \in DOMAIN ops : j # i => ops'[j] = ops[j]
           /\ ToSet(ops') \subseteq ToSet(ops) \cup {e} /\ e \in ToSet(ops')
           /\ \A x \in ToSet(ops) : x = ops[i] \/ x \in ToSet(ops')
<1>1. DOMAIN ops = 1..Len(ops) /\ Len(ops) \in Nat /\ ops \in Seq(Operation)
  BY LenProperties DEF Types
<1>2. /\ ops' \in Seq(Operation) /\ Len(ops') = Len(ops)
      /\ \A j \in 1..Len(ops) : ops'[j] = IF j = i THEN e ELSE ops[j]
  BY <1>1, ExceptSeq DEF Replaced
<1>3. DOMAIN ops' = DOMAIN ops
  BY <1>1, <1>2, LenProperties
<1> QED
  BY <1>1, <1>2, <1>3 DEF ToSet

\* What an operation has left to do after an answer is statements.
LEMMA ContinuedIsTyped ==
    ASSUME StoreInv, NEW old \in ToSet(ops), old.req \in Ids,
           NEW response \in Response, response.id = old.req, AnswerIsRight(response),
           NEW op, op = Continued(old, response)
    PROVE  op.todo \in Seq(Statements)
<1>1. old \in Operation
  BY AnsweredOperation
<1>2. CASE ~response.ok
  <2>1. PICK none \in Seq(Statements) : none = <<>>
    BY EmptySequences
  <2>2. op = [old EXCEPT !.state = "failed", !.todo = none]
    BY <1>2, <2>1 DEF Continued
  <2> QED
    BY <1>1, <2>2 DEF Operation
<1>3. CASE response.ok
  <2>1. PICK await : await = Await(op, 1)
    OBVIOUS
  <2>2. old.kind \in {"save", "load", "similar"}
    BY <1>1 DEF Operation
  <2>3. GoesOn(old, op, await)
    BY <1>3, <2>1, <2>2, SaveGoesOn, SimilarGoesOn, LoadGoesOn
  <2> QED
    BY <2>3 DEF GoesOn, Operation
<1> QED
  BY <1>2, <1>3

\* The promise of the answer is settled and nothing awaits it.
LEMMA UnawaitedAnswerKeeps ==
    ASSUME StoreInv, NEW response \in Response, response.id \in Ids,
           IdsOf(toMain) = {response.id} \cup IdsOf(toMain'),
           response.id \notin IdsOf(toMain'), IdsApart(toMain'), toMain' \in Seq(Response),
           \A r \in ToSet(toMain)' : r \in ToSet(toMain),
           requests' = Settled(requests, response),
           UNCHANGED <<toWorker, ops, finished, worker, program, counter, earlier, begun, reloads>>
    PROVE  StoreInv'
<1>1. /\ UNCHANGED <<toWorker, ops, finished, worker, job, failures, engine, handle, database,
                     counter, earlier, begun, reloads>>
      /\ requests' = Become(requests, {response.id}, "settled") /\ Types /\ InPlaces
  BY DEF program, Settled, StoreInv
<1>2. /\ requests' \in Seq(Request) /\ Len(requests') = Len(requests) /\ Ids' = Ids
      /\ \A r \in 1..Len(requests) : requests'[r].stmt = requests[r].stmt
      /\ Pending' = Pending \ {response.id}
  BY <1>1, BecomePending
<1>3. Grows
  <2>1. /\ Len(requests) <= Len(requests') /\ counter' \in Nat /\ counter <= counter'
        /\ database' \in Database /\ OwnRowsStay
    BY <1>1, <1>2, IdsAre DEF Types, OwnRowsStay, IsWritten
  <2> QED
    BY <1>1, <1>2, <2>1 DEF Grows, OwnRowsStay
<1>4. DataAreRight'
  <2>1. SavesStay
    BY <1>1 DEF SavesStay
  <2>2. VersionsAreApart'
    BY <1>1 DEF VersionsAreApart, StoreInv, DataAreRight
  <2>3. DOMAIN requests' = Ids
    BY <1>2, LenProperties DEF Ids
  <2>4. /\ \A op \in ToSet(ops)' : op \in ToSet(ops)
        /\ \A save \in finished' : save \in finished
        /\ begun' = begun
    BY <1>1
  <2> QED
    BY <1>1, <1>3, <2>1, <2>2, <2>3, <2>4, PageStepKeeps
<1>5. Types'
  BY <1>1, <1>2 DEF Types
<1>6. InPlaces'
  <2>1. Answers = {response.id} \cup Answers' /\ response.id \notin Answers'
    BY DEF Answers, IdsOf
  <2>2. Alive' = Alive /\ OnTheWay' = OnTheWay
    BY <1>1 DEF Alive, OnTheWay
  <2> QED
    BY <1>1, <1>2, <2>1, <2>2 DEF InPlaces, OnTheWay, IdsApart
<1> QED
  BY <1>4, <1>5, <1>6 DEF StoreInv

\* A page step with an answer that operation i awaits: op is what it becomes.
GoesOnStep(response, i, op, next) ==
    /\ requests' = Posted(Settled(requests, response), First(op.todo))
    /\ toWorker' = Deliverable(Len(First(op.todo)))
    /\ ops' = Replaced(ops, i, next)
    /\ finished' = IF next.kind = "save" /\ next.state = "done"
                   THEN finished \cup {Save(next.graph, next.ver)} ELSE finished
    /\ UNCHANGED <<worker, program, counter, earlier, begun, reloads>>

LEMMA AwaitedAnswerKeeps ==
    ASSUME StoreInv, NEW response \in Response, response.id \in Ids, AnswerIsRight(response),
           IdsOf(toMain) = {response.id} \cup IdsOf(toMain'),
           response.id \notin IdsOf(toMain'), IdsApart(toMain'), toMain' \in Seq(Response),
           \A r \in ToSet(toMain)' : r \in ToSet(toMain),
           NEW i \in DOMAIN ops, ops[i].req = response.id,
           NEW op, op = Continued(ops[i], response),
           NEW next, next = AfterAnswer(op, Len(requests) + 1),
           GoesOnStep(response, i, op, next)
    PROVE  StoreInv'
<1>1. /\ UNCHANGED <<worker, job, failures, engine, handle, database,
                     counter, earlier, begun, reloads>>
      /\ Types /\ InPlaces
  BY DEF GoesOnStep, program, StoreInv
<1>2. PICK settled \in Seq(Request) :
        /\ settled = Settled(requests, response) /\ Len(settled) = Len(requests)
        /\ \A r \in 1..Len(requests) :
             /\ settled[r].stmt = requests[r].stmt
             /\ settled[r].promise = "waiting" <=>
                  requests[r].promise = "waiting" /\ r \notin {response.id}
  BY <1>1, BecomeKeeps DEF Types, Settled
<1>3. /\ requests' \in Seq(Request) /\ Len(requests) <= Len(requests')
      /\ \A r \in 1..Len(requests) : requests'[r].stmt = requests[r].stmt
      /\ DOMAIN requests' = Ids' /\ Ids' = Ids \cup NewIds(op.todo) /\ NewIds(op.todo) \cap Ids = {}
      /\ Pending' = {r \in 1..Len(requests) : settled[r].promise = "waiting"} \cup NewIds(op.todo)
      /\ \A r \in NewIds(op.todo) : requests'[r].stmt = Head(op.todo)
      /\ toWorker' \in Seq(Nat) /\ IsInjective(toWorker')
      /\ OnTheWay' = IF Alive THEN OnTheWay \cup NewIds(op.todo) ELSE OnTheWay
  <2>1. requests' = Posted(settled, First(op.todo)) /\ worker' = worker
    BY <1>1, <1>2 DEF GoesOnStep
  <2>2. \A r \in 1..Len(requests) : settled[r].stmt = requests[r].stmt
    BY <1>2
  <2>3. PICK old \in ToSet(ops) : old = ops[i]
    BY DEF ToSet
  <2>4. op.todo \in Seq(Statements)
    BY <2>3, ContinuedIsTyped
  <2>5. toWorker' = Deliverable(Len(First(op.todo)))
    BY DEF GoesOnStep
  <2>6. Len(settled) = Len(requests) /\ settled \in Seq(Request) /\ Types /\ InPlaces
    BY <1>1, <1>2
  <2>7. PICK todo \in Seq(Statements) : todo = op.todo
    BY <2>4
  <2>8. /\ requests' = Posted(settled, First(todo)) /\ worker' = worker
        /\ toWorker' = Deliverable(Len(First(todo)))
    BY <2>1, <2>5, <2>7
  <2>9. /\ requests' \in Seq(Request) /\ Len(requests) <= Len(requests')
        /\ \A r \in 1..Len(requests) : requests'[r].stmt = requests[r].stmt
        /\ DOMAIN requests' = Ids' /\ Ids' = Ids \cup NewIds(todo) /\ NewIds(todo) \cap Ids = {}
        /\ Pending' = {r \in 1..Len(requests) : settled[r].promise = "waiting"} \cup NewIds(todo)
        /\ \A r \in NewIds(todo) : requests'[r].stmt = Head(todo)
        /\ toWorker' \in Seq(Nat) /\ IsInjective(toWorker')
        /\ OnTheWay' = IF Alive THEN OnTheWay \cup NewIds(todo) ELSE OnTheWay
    BY ONLY <2>2, <2>6, <2>8, PostingPlaces
  <2> QED
    BY <2>7, <2>9
<1>4. Pending' = (Pending \ {response.id}) \cup NewIds(op.todo)
  BY <1>2, <1>3 DEF Pending, Ids
<1>5. Grows /\ database' = database
  BY <1>1, <1>3 DEF Grows, OwnRowsStay, IsWritten, Types
<1>6. PICK old \in ToSet(ops) : old = ops[i]
  BY DEF ToSet
<1>7. /\ next \in Operation
      /\ next.kind = "save" <=> old.kind = "save"
      /\ next.kind = "save" => next.graph = old.graph /\ next.ver = old.ver
      /\ AwaitsItsStatement(next)' /\ next.req \notin Ids
      /\ SaveIsRight(next)' /\ LoadIsRight(next)' /\ WantsOwn(next)
      /\ op.todo # <<>> /\ Head(op.todo).type = "insert" => IsOf(next, Head(op.todo))
      /\ next.kind = "save" /\ next.state = "done" =>
           /\ next.graph \in Graphs /\ next.ver \in Nat
           /\ Within(next.graph, Stored(next.ver))
  <2>1. old.req \in Ids /\ response.id = old.req /\ op = Continued(old, response)
    BY <1>6
  <2> QED
    <3>1. /\ DOMAIN requests' = Ids' /\ Ids' = Ids \cup NewIds(op.todo)
          /\ \A r \in NewIds(op.todo) : requests'[r].stmt = Head(op.todo)
      BY <1>3
    <3> QED
      BY <1>5, <2>1, <3>1, AnswerGoesOn
<1>8. /\ ops' \in Seq(Operation) /\ Len(ops') = Len(ops) /\ DOMAIN ops' = DOMAIN ops
      /\ ops'[i] = next /\ \A j \in DOMAIN ops : j # i => ops'[j] = ops[j]
      /\ ToSet(ops') \subseteq ToSet(ops) \cup {next} /\ next \in ToSet(ops')
      /\ \A x \in ToSet(ops) : x = ops[i] \/ x \in ToSet(ops')
  <2>1. ops' = Replaced(ops, i, next) /\ next \in Operation
    BY <1>7 DEF GoesOnStep
  <2> QED
    BY <1>1, <2>1, ReplacedOperation
<1>9. Types'
  BY <1>1, <1>3, <1>8 DEF Types
<1>10. InPlaces'
  <2>1. Answers = {response.id} \cup Answers' /\ response.id \notin Answers'
    BY DEF Answers, IdsOf
  <2>2. Alive' = Alive
    BY <1>1 DEF Alive
  <2> QED
    BY <1>1, <1>3, <1>4, <2>1, <2>2 DEF InPlaces, OnTheWay, IdsApart
<1>11. DataAreRight'
  <2>1. SavesStay
    <3>1. ASSUME NEW o \in ToSet(ops), o.kind = "save"
          PROVE  \E new \in ToSet(ops') : new.kind = "save" /\ new.graph = o.graph /\ new.ver = o.ver
      BY <1>6, <1>7, <1>8, <3>1
    <3> QED
      BY <3>1 DEF SavesStay
  <2>2. VersionsAreApart'
    <3>1. \A j \in DOMAIN ops : ops'[j].kind = "save" =>
            ops[j].kind = "save" /\ ops'[j].ver = ops[j].ver
      BY <1>6, <1>7, <1>8
    <3> QED
      BY <1>8, <3>1 DEF VersionsAreApart, StoreInv, DataAreRight
  <2>3. ASSUME NEW o \in ToSet(ops')
        PROVE  \/ o \in ToSet(ops)
               \/ /\ AwaitsItsStatement(o)' /\ SaveIsRight(o)' /\ LoadIsRight(o)'
                  /\ WantsOwn(o) /\ o.req \notin Ids
                  /\ o.kind = "save" => Save(o.graph, o.ver) \in begun'
    <3>1. next.kind = "save" => Save(next.graph, next.ver) \in begun'
      BY <1>1, <1>6, <1>7 DEF StoreInv, DataAreRight, SavesAreKnown
    <3> QED
      BY <1>7, <1>8, <3>1
  <2>4. ASSUME NEW r \in DOMAIN requests' \ Ids, requests'[r].stmt.type = "insert"
        PROVE  \E o \in ToSet(ops') : IsOf(o, requests'[r].stmt)
    <3>1. r \in NewIds(op.todo)
      BY <1>3
    <3>2. op.todo # <<>> /\ requests'[r].stmt = Head(op.todo)
      BY <1>3, <3>1 DEF NewIds
    <3>3. IsOf(next, requests'[r].stmt)
      BY <1>7, <2>4, <3>2
    <3> QED
      BY <1>8, <3>3
  <2>6. ASSUME NEW save \in finished'
        PROVE  save \in finished \/ (IsKnown(save)' /\ IsKept(save)')
    <3> SUFFICES ASSUME save \notin finished PROVE IsKnown(save)' /\ IsKept(save)'
      OBVIOUS
    <3>1. /\ next.kind = "save" /\ next.graph \in Graphs /\ next.ver \in Nat
          /\ Within(next.graph, Stored(next.ver)) /\ save = Save(next.graph, next.ver)
      BY <1>7 DEF GoesOnStep
    <3>2. save.graph = next.graph /\ save.ver = next.ver /\ save.page = reloads
      BY <3>1 DEF Save
    <3>3. reloads \in Nat /\ reloads <= reloads
      BY <1>1 DEF Types
    <3>4. IsKnown(save)'
      BY <1>1, <1>8, <3>1, <3>2, <3>3 DEF IsKnown
    <3>5. IsKept(save)
      BY <3>1, <3>2, StoredIsKept
    <3> QED
      BY <1>1, <3>4, <3>5, KeptStays
  <2>7. reloads' = reloads /\ begun \subseteq begun'
    BY <1>1
  <2> QED
    BY <1>5, <2>1, <2>2, <2>3, <2>4, <2>6, <2>7, PageStepKeeps
<1> QED
  BY <1>9, <1>10, <1>11 DEF StoreInv

LEMMA ReceiveKeeps == StoreInv /\ Receive => StoreInv'
<1> SUFFICES ASSUME StoreInv, Receive PROVE StoreInv'
  OBVIOUS
<1>1. /\ toMain # <<>> /\ toMain' = Tail(toMain)
      /\ UNCHANGED <<worker, program, counter, earlier, begun, reloads>>
  BY DEF Receive
<1>2. toMain \in Seq(Response) /\ IdsApart(toMain)
  BY DEF StoreInv, Types, InPlaces, IdsApart
<1>3. /\ Head(toMain) \in Response /\ toMain' \in Seq(Response)
      /\ ToSet(toMain) = {Head(toMain)} \cup ToSet(toMain')
      /\ IdsOf(toMain) = {Head(toMain).id} \cup IdsOf(toMain')
      /\ Head(toMain).id \notin IdsOf(toMain') /\ IdsApart(toMain')
  BY <1>1, <1>2, HeadAndTail, TakenAnswer
<1>4. PICK response \in Response : response = Head(toMain)
  BY <1>3
<1>5. response.id \in Ids /\ AnswerIsRight(response)
  BY <1>3, <1>4, ElementsAreTyped DEF StoreInv, DataAreRight, AnswersAreRight
<1> DEFINE waiting == {i \in DOMAIN ops : ops[i].req = response.id
                                          /\ requests[response.id].promise = "waiting"}
<1>6. CASE waiting = {}
  <2>1. requests' = Settled(requests, response) /\ UNCHANGED <<toWorker, ops, finished>>
    BY <1>4, <1>6 DEF Receive
  <2> QED
    BY <1>1, <1>3, <1>4, <1>5, <2>1, UnawaitedAnswerKeeps
<1>7. CASE waiting # {}
  <2>1. PICK i \in waiting : i = CHOOSE j \in waiting : TRUE
    BY <1>7
  <2>2. i \in DOMAIN ops /\ ops[i].req = response.id /\ ops[i] \in ToSet(ops)
    BY <2>1 DEF ToSet
  <2>3. PICK op : op = Continued(ops[i], response)
    OBVIOUS
  <2>4. PICK next : next = AfterAnswer(op, Len(requests) + 1)
    OBVIOUS
  <2> DEFINE first == CHOOSE j \in waiting : TRUE
             going == Continued(ops[first], response)
  <2>5. GoesOnStep(response, first, going, AfterAnswer(going, Len(requests) + 1))
    BY <1>1, <1>4, <1>7 DEF Receive, GoesOnStep, Replaced, First, AfterAnswer
  <2>6. GoesOnStep(response, i, op, next)
    BY ONLY <2>1, <2>3, <2>4, <2>5, Zenon
  <2> QED
    BY <1>1, <1>3, <1>4, <1>5, <2>2, <2>3, <2>4, <2>6, AwaitedAnswerKeeps
<1> QED
  BY <1>6, <1>7

-----------------------------------------------------------------------------
(* The invariant holds, and what it says *)

LEMMA StoreInvIsKept == StoreInv /\ [Next]_vars => StoreInv'
<1> SUFFICES ASSUME StoreInv, [Next]_vars PROVE StoreInv'
  OBVIOUS
<1>1. ASSUME NEW graph \in Graphs, SaveGraph(graph) PROVE StoreInv'
  BY <1>1, SaveGraphKeeps
<1>2. CASE LoadGraph
  <2>1. counter \in Nat
    BY DEF StoreInv, Types
  <2> QED
    BY <1>2, <2>1, LoadKeeps DEF LoadGraph
<1>3. ASSUME NEW ver \in AskedVersions, LoadGraphVersion(ver) PROVE StoreInv'
  BY <1>3, AskedVersionsAssumption, LoadKeeps DEF LoadGraphVersion
<1>4. CASE WorkerStep /\ UNCHANGED <<counter, ops, earlier, begun, finished, reloads>>
  <2>1. requests' = requests
    BY <1>4 DEF WorkerStep, ScriptLoads, Handle, Initialising, FactoryDone, OpenDone, InitFails, page
  <2> QED
    BY <1>4, <2>1, WorkerStepKeeps DEF Untouched
<1>5. CASE UNCHANGED vars
  <2>1. UNCHANGED <<requests, toWorker, toMain, worker, job, failures, engine, handle, database,
                    counter, ops, earlier, begun, finished, reloads>>
    BY <1>5 DEF vars, portVars
  <2>2. database' \in Database /\ OwnRowsStay /\ RowsAreOfSaves' /\ SavesSurvive'
    BY <2>1, NoRowChanges DEF Untouched
  <2>3. DataAreRight'
    BY <2>1, <2>2, AnsweringKeeps DEF Untouched
  <2>4. Types'
    BY <2>1 DEF StoreInv, Types
  <2>5. /\ Ids' = Ids /\ Pending' = Pending /\ Alive' = Alive
        /\ OnTheWay' = OnTheWay /\ Answers' = Answers
    BY <2>1 DEF Ids, Pending, Alive, OnTheWay, Answers
  <2>6. InPlaces'
    BY <2>1, <2>5 DEF StoreInv, InPlaces
  <2> QED
    BY <2>3, <2>4, <2>6 DEF StoreInv
<1> QED
  BY <1>1, <1>2, <1>3, <1>4, <1>5, FindSimilarGraphsKeeps, ReceiveKeeps, WorkerErrorKeeps,
     CloseKeeps, ReloadKeeps DEF Next

LEMMA StoreInvHolds == Spec => []StoreInv
BY InitIsRight, StoreInvIsKept, PTL DEF Spec

LEMMA AccountedFollows == StoreInv => Accounted
<1> SUFFICES ASSUME StoreInv PROVE Accounted
  OBVIOUS
<1>1. Types /\ InPlaces /\ OpsAreRight
  BY DEF StoreInv, DataAreRight
<1>2. \A id \in Ids : requests[id].promise \in {"waiting", "settled", "forgotten"}
  BY ElementsAreTyped DEF StoreInv, Request
<1>3. \A i \in DOMAIN ops : ops[i].state \in {"running", "done", "failed"}
  <2>1. \A op \in ToSet(ops) : op.state \in {"running", "done", "failed"}
    BY ElementsAreTyped DEF StoreInv, Operation
  <2> QED
    BY <2>1 DEF ToSet
<1>4. counter \in 0..MaxSteps
  <2>1. Len(ops) \in Nat
    BY <1>1, LenProperties DEF Types
  <2> QED
    BY <1>1, <2>1, MaxStepsAssumption DEF Types
<1>5. TypeOK
  <2>1. \A i \in DOMAIN toMain : toMain[i].id \in Ids
    BY <1>1 DEF InPlaces, Answers
  <2>2. /\ \A id \in DOMAIN job : job[id] \in {"factory", "opening"}
        /\ database.tables \subseteq {"graph_nodes", "graph_edges"}
    BY <1>1 DEF Types, Database, Tables
  <2> QED
    BY <1>1, <1>2, <1>3, <1>4, <2>1, <2>2 DEF TypeOK, Types, InPlaces
<1> QED
  BY <1>1, <1>5 DEF Accounted, InPlaces, Alive

\* Up to a reload, a row of a version was written by the save of that version.
LEMMA RowsAreOfTheirSave ==
    ASSUME StoreInv, reloads = 0, NEW v, NEW x
    PROVE  /\ x \in Stored(v).nodes =>
                \E i \in DOMAIN ops : /\ ops[i].kind = "save" /\ ops[i].ver = v
                                      /\ x \in ops[i].graph.nodes
           /\ x \in Stored(v).edges =>
                \E i \in DOMAIN ops : /\ ops[i].kind = "save" /\ ops[i].ver = v
                                      /\ x \in ops[i].graph.edges
<1>1. database \in Database
  BY DEF StoreInv, Types
<1>2. ASSUME NEW t, <<t, v, x>> \in database.rows
      PROVE  \E op \in ToSet(ops) : op.kind = "save" /\ Insert(t, v, x) \in Inserts(op.graph, op.ver)
  <2>1. PICK row \in database.rows : row = <<t, v, x>>
    BY <1>2
  <2>2. row[1] = t /\ row[2] = v /\ row[3] = x
    BY <2>1
  <2>3. PICK op \in ToSet(ops) : IsOf(op, Insert(row[1], row[2], row[3]))
    BY <2>1 DEF StoreInv, DataAreRight, RowsAreOfSaves
  <2> QED
    BY <2>2, <2>3 DEF IsOf
<1>3. ASSUME NEW g, NEW w
      PROVE  /\ Insert("graph_nodes", v, x) \in Inserts(g, w) => w = v /\ x \in g.nodes
             /\ Insert("graph_edges", v, x) \in Inserts(g, w) => w = v /\ x \in g.edges
  <2>1. \A t, u, y : /\ Insert(t, u, y).table = t
                     /\ Insert(t, u, y).ver = u /\ Insert(t, u, y).item = y
    BY StatementsAre
  <2>2. "graph_nodes" # "graph_edges"
    OBVIOUS
  <2>3. ASSUME Insert("graph_nodes", v, x) \in Inserts(g, w) PROVE w = v /\ x \in g.nodes
    <3>1. \/ \E y \in g.nodes : Insert("graph_nodes", v, x) = Insert("graph_nodes", w, y)
          \/ \E y \in g.edges : Insert("graph_nodes", v, x) = Insert("graph_edges", w, y)
      BY <2>3 DEF Inserts
    <3> QED
      BY <2>1, <2>2, <3>1
  <2>4. ASSUME Insert("graph_edges", v, x) \in Inserts(g, w) PROVE w = v /\ x \in g.edges
    <3>1. \/ \E y \in g.nodes : Insert("graph_edges", v, x) = Insert("graph_nodes", w, y)
          \/ \E y \in g.edges : Insert("graph_edges", v, x) = Insert("graph_edges", w, y)
      BY <2>4 DEF Inserts
    <3> QED
      BY <2>1, <2>2, <3>1
  <2> QED
    BY <2>3, <2>4
<1>4. /\ Stored(v).nodes = {y \in Items : <<"graph_nodes", v, y>> \in database.rows}
      /\ Stored(v).edges = {y \in Items : <<"graph_edges", v, y>> \in database.rows}
  BY <1>1, RowsAre DEF Stored
<1>5. ASSUME x \in Stored(v).nodes
      PROVE  \E i \in DOMAIN ops : /\ ops[i].kind = "save" /\ ops[i].ver = v
                                   /\ x \in ops[i].graph.nodes
  <2>1. PICK op \in ToSet(ops) : /\ op.kind = "save"
                                 /\ Insert("graph_nodes", v, x) \in Inserts(op.graph, op.ver)
    BY <1>2, <1>4, <1>5
  <2>2. op.ver = v /\ x \in op.graph.nodes
    BY <1>3, <2>1
  <2> QED
    BY <2>1, <2>2 DEF ToSet
<1>6. ASSUME x \in Stored(v).edges
      PROVE  \E i \in DOMAIN ops : /\ ops[i].kind = "save" /\ ops[i].ver = v
                                   /\ x \in ops[i].graph.edges
  <2>1. PICK op \in ToSet(ops) : /\ op.kind = "save"
                                 /\ Insert("graph_edges", v, x) \in Inserts(op.graph, op.ver)
    BY <1>2, <1>4, <1>6
  <2>2. op.ver = v /\ x \in op.graph.edges
    BY <1>3, <2>1
  <2> QED
    BY <2>1, <2>2 DEF ToSet
<1> QED
  BY <1>5, <1>6

LEMMA SavedVersionsAreWholeFollows == StoreInv => SavedVersionsAreWhole
<1> SUFFICES ASSUME StoreInv, NEW i \in DOMAIN ops, ops[i].kind = "save"
             PROVE  /\ reloads = 0 => Within(Stored(ops[i].ver), ops[i].graph)
                    /\ ops[i].state = "done" => Within(ops[i].graph, Stored(ops[i].ver))
  BY DEF SavedVersionsAreWhole
<1>1. VersionsAreApart
  BY DEF StoreInv, DataAreRight
<1>2. ASSUME reloads = 0 PROVE Within(Stored(ops[i].ver), ops[i].graph)
  <2>1. \A j \in DOMAIN ops : ops[j].kind = "save" /\ ops[j].ver = ops[i].ver => j = i
    BY <1>1 DEF VersionsAreApart
  <2>2. PICK v : v = ops[i].ver
    OBVIOUS
  <2>3. ASSUME NEW x \in Stored(v).nodes PROVE x \in ops[i].graph.nodes
    BY <1>2, <2>1, <2>2, <2>3, RowsAreOfTheirSave
  <2>4. ASSUME NEW x \in Stored(v).edges PROVE x \in ops[i].graph.edges
    BY <1>2, <2>1, <2>2, <2>4, RowsAreOfTheirSave
  <2> QED
    BY <2>2, <2>3, <2>4 DEF Within
<1>3. ASSUME ops[i].state = "done" PROVE Within(ops[i].graph, Stored(ops[i].ver))
  <2>1. PICK op \in ToSet(ops) : op = ops[i]
    BY DEF ToSet
  <2>2. AwaitsItsStatement(op) /\ SaveIsRight(op)
    BY DEF StoreInv, DataAreRight, OpsAreRight
  <2>3. op.todo = <<>> /\ op.graph \in Graphs /\ op.ver \in 1..counter
    BY <1>3, <2>1, <2>2 DEF AwaitsItsStatement, SaveIsRight
  <2>4. \A stmt \in Inserts(op.graph, op.ver) : IsWritten(stmt)
    BY <1>3, <2>1, <2>2, <2>3, EmptySequences DEF SaveIsRight
  <2>5. op.ver \in Nat
    BY <2>3 DEF StoreInv, Types
  <2> QED
    BY <2>1, <2>3, <2>4, <2>5, WrittenIsStored DEF StoreInv
<1> QED
  BY <1>2, <1>3

LEMMA LoadsAreSavedFollows == StoreInv => LoadsAreSaved
<1> SUFFICES ASSUME StoreInv, NEW i \in DOMAIN ops, ops[i].kind = "load", ops[i].state = "done"
             PROVE  /\ Within(ops[i].wanted, ops[i].graph)
                    /\ reloads = 0 => \/ ops[i].graph = EmptyGraph
                                      \/ \E j \in DOMAIN ops : /\ ops[j].kind = "save"
                                                               /\ ops[j].ver = ops[i].ver
                                                               /\ Within(ops[i].graph, ops[j].graph)
  BY DEF LoadsAreSaved
<1>1. PICK op \in ToSet(ops) : op = ops[i]
  BY DEF ToSet
<1>2. op \in Operation /\ LoadIsRight(op)
  BY ElementsAreTyped DEF StoreInv, DataAreRight, OpsAreRight
<1>3. /\ Within(op.wanted, op.graph)
      /\ reloads = 0 => Within(op.graph, Stored(op.ver))
      /\ op.graph.nodes = {} => op.graph.edges = {}
  BY <1>1, <1>2 DEF LoadIsRight
<1>4. CASE op.graph.nodes = {}
  <2>1. op.graph \in Content
    BY <1>2 DEF Operation
  <2>2. op.graph = EmptyGraph
    BY <1>3, <1>4, <2>1 DEF Content, EmptyGraph
  <2> QED
    BY <1>1, <1>3, <2>2
<1>5. CASE op.graph.nodes # {} /\ reloads = 0
  <2>1. PICK x : x \in op.graph.nodes
    BY <1>5
  <2>2. PICK v : v = op.ver
    OBVIOUS
  <2>3. x \in Stored(v).nodes
    BY <1>3, <1>5, <2>1, <2>2 DEF Within
  <2>4. PICK j \in DOMAIN ops : ops[j].kind = "save" /\ ops[j].ver = v
    BY <1>5, <2>3, RowsAreOfTheirSave
  <2>5. Within(Stored(v), ops[j].graph)
    BY <1>5, <2>4, SavedVersionsAreWholeFollows DEF SavedVersionsAreWhole
  <2>6. Within(op.graph, ops[j].graph)
    BY <1>3, <1>5, <2>2, <2>5 DEF Within
  <2> QED
    BY <1>1, <1>3, <2>2, <2>4, <2>6
<1> QED
  BY <1>1, <1>3, <1>4, <1>5

\* Whatever initialisations race, fail or are cut off by a closed port or a page
\* that is reloaded: every message posted has one place, is executed once, and
\* no promise of a worker that lives has lost its request.
THEOREM RequestsAreAccounted == Spec => []Accounted
BY StoreInvHolds, AccountedFollows, PTL

\* Saves that overlap statement by statement write versions that are whole when
\* they are done, and until the page is reloaded hold nothing else.
THEOREM VersionsStayWhole == Spec => []SavedVersionsAreWhole
BY StoreInvHolds, SavedVersionsAreWholeFollows, PTL

\* A load returns all of the graph saved when it began, whatever is saved while
\* it reads, and on the first page nothing but what one save wrote.
THEOREM LoadsReturnSavedGraphs == Spec => []LoadsAreSaved
BY StoreInvHolds, LoadsAreSavedFollows, PTL

\* A graph whose save was finished stays in the file over any number of reloads,
\* closed ports and failed openings; only the weight and direction of its edges
\* can be those of a later page's save that got the same version.
THEOREM FinishedSavesSurvive == Spec => []SavesSurvive
<1>1. StoreInv => SavesSurvive
  BY DEF StoreInv, DataAreRight
<1> QED
  BY <1>1, StoreInvHolds, PTL
=============================================================================
