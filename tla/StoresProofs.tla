----------------------------- MODULE StoresProofs -----------------------------
(* The stores.  The relational ones on one connection, for any sessions,     *)
(* names, rows and bounds: what every session committed is durable, and      *)
(* sessions that take turns on SQLite get the transactions promised.  Both   *)
(* graph stores, for any graphs, callers, retries and number of calls: up to *)
(* a restart, acknowledged versions are whole and the remote store's loads   *)
(* return one saved graph, none older than the call.                         *)
EXTENDS RelationalStore, GraphStores, FiniteSetTheorems, SequenceTheorems,
        WellFoundedInduction, TLAPS

-----------------------------------------------------------------------------
(* The inductive invariant on SQLite: types *)

Names == Sessions \cup Marks
RowSets == UNION {[S -> Nat] : S \in SUBSET Rows}     \* rows of a transaction
Entry == [name : Names, writes : RowSets]
Connection == [tx : {"idle", "open", "aborted"}, stack : Seq(Entry), writes : RowSets]
PutsOf(value) == {Put(row, value) : row \in Rows}

\* Without a savepoint there is no transaction.
IsConn(conn) ==
    /\ conn \in Connection
    /\ conn.stack = <<>> => conn = Idle
    /\ conn.stack # <<>> => conn.tx = "open"

\* What is left of a call that awaits the answer to a statement.
IsLeft(s, c, list) ==
    /\ c.what = "begin" => list \in {<<Savepoint(s), LogState(TRUE)>>, <<LogState(TRUE)>>}
    /\ c.what = "commit" => list = <<Release(s)>>
    /\ c.what = "checkpoint" =>
           list \in {<<Savepoint(c.mark), LogState(FALSE)>>, <<LogState(FALSE)>>}
    /\ c.what = "rollback" => list = <<RollbackTo(c.mark)>>
    /\ c.what = "save" => list # <<>> /\ \E value \in 1..MaxCalls : list \in Seq(PutsOf(value))

OneConnection == conns = [i \in 1..1 |-> conns[1]] /\ leaked = 0
Calls == {NoCall} \cup Transactional \cup Saves

SqliteTypes ==
    /\ OneConnection
    /\ IsConn(conns[1])
    /\ disk \in [Rows -> Nat]
    /\ made \in Nat
    /\ begun \in [Sessions -> Nat]
    /\ calls = [s \in Sessions |-> calls[s]]
    /\ doing \in [Sessions -> Calls]
    /\ \A s \in Sessions : IsLeft(s, doing[s], calls[s])
    /\ kind = "embedded" => \A s \in Sessions : doing[s] = NoCall

-----------------------------------------------------------------------------
(* The inductive invariant on SQLite: savepoints and what was begun *)

\* The savepoint of a begin that is still to be set.
Setting == [s \in Sessions |-> IF doing[s].what = "begin" /\ Len(calls[s]) = 2 THEN 1 ELSE 0]
Savepoints(conn, s) == Cardinality(Named(conn, s))

\* A session has begun as often as it has savepoints, or more often, and if the
\* transaction is not a session's then some session has begun more often.
Balance(conn, beg, set) ==
    /\ \A s \in Sessions : Savepoints(conn, s) + set[s] <= beg[s]
    /\ conn.stack # <<>> /\ conn.stack[1].name \notin Sessions =>
           \E s \in Sessions : Savepoints(conn, s) + set[s] < beg[s]
ChecksIn(c, n) == c.what = "checkpoint" => n > 0 /\ c.mark \notin Sessions

-----------------------------------------------------------------------------
(* Lemmas on sets, rows and sequences *)

\* A nonempty bounded set of naturals has a largest element.
LEMMA LargestIndex ==
    ASSUME NEW S, NEW n \in Nat, S \subseteq 1..n, S # {}
    PROVE  Max(S) \in S /\ \A v \in S : v <= Max(S)
<1> DEFINE T == {n - v : v \in S}
<1>1. IsWellFoundedOn(OpToRel(<, Nat), Nat)
  BY NatLessThanWellFounded
<1>2. T \subseteq Nat /\ T # {}
  <2>1. PICK s \in S : TRUE
    OBVIOUS
  <2>2. n - s \in T
    OBVIOUS
  <2> QED
    BY <2>2
<1>3. PICK x \in T : \A y \in T : ~(<<y, x>> \in OpToRel(<, Nat))
  <2> HIDE DEF T
  <2> QED BY <1>1, <1>2, WFMin
<1>4. PICK m \in S : x = n - m
  BY <1>3
<1>5. ASSUME NEW v \in S PROVE m >= v
  <2>1. n - v \in T /\ n - v \in Nat /\ x \in Nat
    BY <1>2, <1>3
  <2>2. ~(n - v < x)
    <3> HIDE DEF T
    <3> QED BY <1>3, <2>1 DEF OpToRel
  <2>3. v \in Int /\ m \in Int
    OBVIOUS
  <2> QED
    BY <1>4, <2>2, <2>3
<1>6. \E k \in S : \A v \in S : k >= v
  BY <1>5
<1>7. Max(S) \in S /\ \A v \in S : Max(S) >= v
  BY <1>6 DEF Max
<1>8. ASSUME NEW k \in S, \A v \in S : k >= v PROVE \A v \in S : v <= k
  BY <1>8
<1> QED
  BY <1>7, <1>8, Zenon

\* Induction, for a set of numbers.
LEMMA Counting ==
    ASSUME NEW S, 0 \in S, \A n \in Nat : n \in S => n + 1 \in S
    PROVE  \A n \in Nat : n \in S
<1> DEFINE T == {n \in Nat : n \notin S}
<1>1. SUFFICES ASSUME T # {} PROVE FALSE
  BY DEF T
<1>2. IsWellFoundedOn(OpToRel(<, Nat), Nat)
  BY NatLessThanWellFounded
<1>3. T \subseteq Nat
  OBVIOUS
<1>4. PICK x \in T : \A y \in T : ~(<<y, x>> \in OpToRel(<, Nat))
  <2> HIDE DEF T
  <2> QED BY <1>1, <1>2, <1>3, WFMin
<1>5. x \in Nat /\ x \notin S /\ x # 0
  BY <1>4
<1>6. x - 1 \in Nat /\ x - 1 + 1 = x
  BY <1>5
<1>7. x - 1 \notin S
  BY <1>5, <1>6
<1>8. x - 1 \in T
  BY <1>6, <1>7
<1>9. ~(<<x - 1, x>> \in OpToRel(<, Nat))
  <2> HIDE DEF T
  <2> QED BY <1>4, <1>8
<1> QED
  BY <1>5, <1>6, <1>9 DEF OpToRel

LEMMA SingletonIs ==
    ASSUME NEW a
    PROVE  Len(<<a>>) = 1 /\ Head(<<a>>) = a /\ <<a>>[1] = a /\ <<a>> # <<>>
OBVIOUS

LEMMA PairIs ==
    ASSUME NEW a, NEW b
    PROVE  /\ Len(<<a, b>>) = 2 /\ Head(<<a, b>>) = a /\ Tail(<<a, b>>) = <<b>>
           /\ <<a, b>>[1] = a /\ <<a, b>>[2] = b /\ <<a, b>> # <<>>
OBVIOUS

LEMMA OneConnectionIs ==
    ASSUME OneConnection
    PROVE  Len(conns) = 1 /\ DOMAIN conns = 1..1 /\ Usable = 1..1
<1>1. conns \in [1..1 -> {conns[1]}]
  <2>1. PICK c : c = conns[1]
    OBVIOUS
  <2>2. conns = [i \in 1..1 |-> c]
    BY <2>1 DEF OneConnection
  <2>3. conns \in [1..1 -> {c}]
    BY <2>2
  <2> QED
    BY <2>1, <2>3
<1>2. conns \in Seq({conns[1]})
  BY <1>1, SeqDef
<1>3. Len(conns) \in Nat /\ DOMAIN conns = 1..Len(conns) /\ DOMAIN conns = 1..1
  BY <1>1, <1>2, LenProperties
<1>4. Len(conns) = 1
  <2>1. PICK n \in Nat : n = Len(conns)
    BY <1>3
  <2>2. 1 \in 1..n /\ n \in 1..1
    <3>1. 1..n = 1..1
      BY <1>3, <2>1
    <3>2. 1 \in 1..n
      BY <3>1
    <3>3. n \in 1..n
      BY <3>2
    <3> QED
      BY <3>1, <3>2, <3>3
  <2>3. n = 1
    BY <2>2
  <2> QED
    BY <2>1, <2>3, Zenon
<1> QED
  BY <1>3, <1>4 DEF Usable, OneConnection

-----------------------------------------------------------------------------
(* Lemmas on connections *)

LEMMA IdleIsConn ==
    /\ IsConn(Idle) /\ Idle.stack = <<>> /\ Idle.writes = NoWrites /\ NoWrites \in RowSets
    /\ \A n : Named(Idle, n) = {}
<1>1. NoWrites \in [{} -> Nat] /\ {} \in SUBSET Rows
  BY DEF NoWrites
<1>2. NoWrites \in RowSets
  BY <1>1 DEF RowSets
<1>3. <<>> \in Seq(Entry)
  BY EmptySeq
<1> QED
  BY <1>2, <1>3 DEF IsConn, Connection, Idle, Named

LEMMA NamedIs ==
    ASSUME NEW conn, IsConn(conn), NEW n
    PROVE  /\ conn.stack \in Seq(Entry) /\ Len(conn.stack) \in Nat
           /\ DOMAIN conn.stack = 1..Len(conn.stack)
           /\ Named(conn, n) \subseteq 1..Len(conn.stack) /\ IsFiniteSet(Named(conn, n))
           /\ Savepoints(conn, n) \in Nat
           /\ Savepoints(conn, n) = 0 <=> Named(conn, n) = {}
           /\ Named(conn, n) # {} => /\ Latest(conn, n) \in Named(conn, n)
                                    /\ \A i \in Named(conn, n) : i <= Latest(conn, n)
<1>1. conn.stack \in Seq(Entry)
  BY DEF IsConn, Connection
<1>2. Len(conn.stack) \in Nat /\ DOMAIN conn.stack = 1..Len(conn.stack)
  BY <1>1, LenProperties
<1>3. Named(conn, n) \subseteq 1..Len(conn.stack)
  BY <1>2 DEF Named
<1>4. IsFiniteSet(1..Len(conn.stack))
  BY <1>2, FS_Interval
<1>5. IsFiniteSet(Named(conn, n))
  BY <1>3, <1>4, FS_Subset
<1>6. Savepoints(conn, n) \in Nat /\ (Savepoints(conn, n) = 0 <=> Named(conn, n) = {})
  BY <1>5, FS_CardinalityType, FS_EmptySet DEF Savepoints
<1>7. ASSUME Named(conn, n) # {}
      PROVE  /\ Latest(conn, n) \in Named(conn, n)
             /\ \A i \in Named(conn, n) : i <= Latest(conn, n)
  BY <1>2, <1>3, <1>7, LargestIndex DEF Latest
<1> QED
  BY <1>1, <1>2, <1>3, <1>5, <1>6, <1>7

LEMMA PushedIs ==
    ASSUME NEW conn, IsConn(conn), NEW n \in Names, NEW conn2, conn2 = Pushed(conn, n)
    PROVE  /\ IsConn(conn2) /\ conn2.writes = conn.writes
           /\ conn2.stack # <<>> /\ Len(conn2.stack) = Len(conn.stack) + 1
           /\ conn2.stack[Len(conn.stack) + 1] = [name |-> n, writes |-> conn.writes]
           /\ \A i \in 1..Len(conn.stack) : conn2.stack[i] = conn.stack[i]
           /\ Named(conn2, n) = Named(conn, n) \cup {Len(conn.stack) + 1}
           /\ \A x : x # n => Named(conn2, x) = Named(conn, x)
<1>1. /\ conn \in Connection /\ conn.stack \in Seq(Entry) /\ Len(conn.stack) \in Nat
      /\ DOMAIN conn.stack = 1..Len(conn.stack) /\ conn.writes \in RowSets
  BY NamedIs DEF IsConn, Connection
<1>2. PICK e \in Entry : e = [name |-> n, writes |-> conn.writes]
  BY <1>1 DEF Entry
<1>3. e.name = n
  BY <1>2
<1>4. PICK st : st = Append(conn.stack, e)
  OBVIOUS
<1>5. /\ st \in Seq(Entry) /\ st # <<>> /\ Len(st) = Len(conn.stack) + 1
      /\ st[Len(conn.stack) + 1] = e
      /\ \A i \in 1..Len(conn.stack) : st[i] = conn.stack[i]
  BY <1>1, <1>4, AppendProperties
<1>6. conn2 = [conn EXCEPT !.tx = "open", !.stack = st]
  BY <1>2, <1>4 DEF Pushed
<1>7. conn2 \in Connection /\ conn2.stack = st /\ conn2.writes = conn.writes /\ conn2.tx = "open"
  BY <1>1, <1>5, <1>6 DEF Connection
<1>8. DOMAIN st = 1..(Len(conn.stack) + 1)
  BY <1>5, LenProperties
<1>9. ASSUME NEW x
      PROVE  Named(conn2, x) = Named(conn, x) \cup {i \in {Len(conn.stack) + 1} : x = n}
  BY <1>1, <1>3, <1>5, <1>7, <1>8 DEF Named
<1> QED
  BY <1>2, <1>5, <1>7, <1>9 DEF IsConn

LEMMA CutIs ==
    ASSUME NEW conn, IsConn(conn), NEW k \in 1..Len(conn.stack),
           NEW conn2 \in Connection, conn2.stack = Upto(conn.stack, k), conn2.tx = "open"
    PROVE  /\ IsConn(conn2)
           /\ conn2.stack # <<>> /\ Len(conn2.stack) = k
           /\ \A i \in 1..k : conn2.stack[i] = conn.stack[i]
           /\ \A x : Named(conn2, x) = Named(conn, x) \cap (1..k)
<1>1. /\ conn.stack \in Seq(Entry) /\ Len(conn.stack) \in Nat
      /\ DOMAIN conn.stack = 1..Len(conn.stack)
  BY NamedIs
<1>2. PICK st : st = Upto(conn.stack, k)
  OBVIOUS
<1>3. \A i \in 1..k : conn.stack[i] \in Entry
  BY <1>1, ElementOfSeq
<1>4. st \in Seq(Entry) /\ Len(st) = k /\ \A i \in 1..k : st[i] = conn.stack[i]
  <2>1. k \in Int /\ 1 \in Int /\ 1 <= k
    OBVIOUS
  <2>2. /\ st \in Seq(Entry) /\ Len(st) = (IF 1 <= k THEN k - 1 + 1 ELSE 0)
        /\ \A i \in 1..(k - 1 + 1) : st[i] = conn.stack[1 + i - 1]
    BY <1>2, <1>3, <2>1, SubSeqProperties DEF Upto
  <2> QED
    BY <2>1, <2>2
<1>5. DOMAIN st = 1..k /\ st # <<>>
  BY <1>4, LenProperties, EmptySeq
<1>6. ASSUME NEW x PROVE Named(conn2, x) = Named(conn, x) \cap (1..k)
  BY <1>1, <1>2, <1>4, <1>5 DEF Named
<1> QED
  BY <1>2, <1>4, <1>5, <1>6 DEF IsConn

-----------------------------------------------------------------------------
(* Lemmas on SQLite's statements *)

LEMMA SavepointIs ==
    ASSUME NEW conn, NEW d, NEW n
    PROVE  Sqlite(conn, d, Savepoint(n)) = Done(Pushed(conn, n), d)
BY DEF Sqlite, Savepoint

LEMMA LogStateIs ==
    ASSUME NEW conn, NEW d, NEW null
    PROVE  Sqlite(conn, d, LogState(null)) = Done(conn, d)
BY DEF Sqlite, LogState

LEMMA PutIs ==
    ASSUME NEW conn, NEW d, NEW row, NEW value
    PROVE  Sqlite(conn, d, Put(row, value)) = Written(conn, d, Put(row, value))
BY DEF Sqlite, Put

LEMMA RollbackIs ==
    ASSUME NEW conn, NEW d, NEW n
    PROVE  Sqlite(conn, d, RollbackTo(n)) =
               IF Named(conn, n) = {} THEN [conn |-> conn, disk |-> d, ok |-> FALSE]
               ELSE Done(Unwound(conn, n), d)
BY DEF Sqlite, RollbackTo

LEMMA ReleaseIs ==
    ASSUME NEW conn, NEW d, NEW n
    PROVE  Sqlite(conn, d, Release(n)) =
               IF Named(conn, n) = {} THEN [conn |-> conn, disk |-> d, ok |-> FALSE]
               ELSE IF Latest(conn, n) = 1 THEN Committed(conn, d)
               ELSE Done(Released(conn, n), d)
BY DEF Sqlite, Release

\* A connection that is rolled back keeps the savepoints up to that one.
LEMMA UnwoundIs ==
    ASSUME NEW conn, IsConn(conn), NEW n, Named(conn, n) # {},
           NEW conn2, conn2 = Unwound(conn, n), NEW k, k = Latest(conn, n)
    PROVE  /\ IsConn(conn2)
           /\ k \in Named(conn, n) /\ k \in 1..Len(conn.stack)
           /\ \A i \in Named(conn, n) : i <= k
           /\ conn2.stack = Upto(conn.stack, k) /\ conn2.writes = conn.stack[k].writes
           /\ conn2.stack # <<>> /\ Len(conn2.stack) = k
           /\ \A i \in 1..k : conn2.stack[i] = conn.stack[i]
           /\ \A x : Named(conn2, x) = Named(conn, x) \cap (1..k)
<1>1. /\ conn.stack \in Seq(Entry) /\ Len(conn.stack) \in Nat
      /\ k \in Named(conn, n) /\ k \in 1..Len(conn.stack)
      /\ \A i \in Named(conn, n) : i <= k
  BY NamedIs
<1>2. PICK w \in RowSets : w = conn.stack[k].writes
  <2>1. conn.stack[k] \in Entry
    BY <1>1, ElementOfSeq
  <2> QED
    BY <2>1 DEF Entry
<1>3. PICK st : st = Upto(conn.stack, k)
  OBVIOUS
<1>4. st \in Seq(Entry)
  <2>1. \A i \in 1..k : conn.stack[i] \in Entry
    BY <1>1, ElementOfSeq
  <2> QED
    BY <1>1, <1>3, <2>1, SubSeqProperties DEF Upto
<1>5. conn2 = [conn EXCEPT !.tx = "open", !.writes = w, !.stack = st]
  BY <1>2, <1>3 DEF Unwound
<1>6. conn2 \in Connection /\ conn2.stack = st /\ conn2.writes = w /\ conn2.tx = "open"
  BY <1>4, <1>5 DEF IsConn, Connection
<1> QED
  BY <1>1, <1>2, <1>3, <1>6, CutIs

\* A release that does not commit keeps the savepoints before that one.
LEMMA ReleasedIs ==
    ASSUME NEW conn, IsConn(conn), NEW n, Named(conn, n) # {}, Latest(conn, n) # 1,
           NEW conn2, conn2 = Released(conn, n), NEW k, k = Latest(conn, n) - 1
    PROVE  /\ IsConn(conn2)
           /\ k \in 1..Len(conn.stack) /\ k + 1 \in Named(conn, n)
           /\ conn2.writes = conn.writes
           /\ conn2.stack # <<>> /\ Len(conn2.stack) = k
           /\ \A i \in 1..k : conn2.stack[i] = conn.stack[i]
           /\ \A x : Named(conn2, x) = Named(conn, x) \cap (1..k)
<1>1. /\ conn.stack \in Seq(Entry) /\ Len(conn.stack) \in Nat
      /\ Latest(conn, n) \in Named(conn, n) /\ Latest(conn, n) \in 1..Len(conn.stack)
      /\ DOMAIN conn.stack = 1..Len(conn.stack)
  BY NamedIs
<1>2. k \in 1..Len(conn.stack) /\ k + 1 = Latest(conn, n)
  BY <1>1
<1>3. PICK st : st = Upto(conn.stack, k)
  OBVIOUS
<1>4. st \in Seq(Entry)
  <2>1. \A i \in 1..k : conn.stack[i] \in Entry
    BY <1>1, <1>2, ElementOfSeq
  <2> QED
    BY <1>2, <1>3, <2>1, SubSeqProperties DEF Upto
<1>5. conn2 = [conn EXCEPT !.stack = st]
  BY <1>3 DEF Released
<1>6. conn.stack # <<>>
  BY <1>1, EmptySeq
<1>7. /\ conn2 \in Connection /\ conn2.stack = st /\ conn2.writes = conn.writes
      /\ conn2.tx = "open"
  BY <1>4, <1>5, <1>6 DEF IsConn, Connection
<1> QED
  BY <1>1, <1>2, <1>3, <1>7, CutIs

-----------------------------------------------------------------------------
(* Lemmas on statements that are executed one after the other *)

GoesOn(r, st) == IF r.ok THEN Execute(r.conn, r.disk, st) ELSE r
AreResults(f, conn, d, list, m) ==
    f = [n \in 0..m |-> IF n = 0 THEN Done(conn, d) ELSE GoesOn(f[n - 1], list[n])]

LEMMA ResultsExist ==
    ASSUME NEW conn, NEW d, NEW list
    PROVE  \A m \in Nat : \E f : AreResults(f, conn, d, list, m)
<1> DEFINE S == {m \in Nat : \E f : AreResults(f, conn, d, list, m)}
<1>1. 0 \in S
  <2>1. AreResults([n \in 0..0 |-> Done(conn, d)], conn, d, list, 0)
    BY DEF AreResults
  <2> QED
    BY <2>1
<1>2. ASSUME NEW m \in Nat, m \in S PROVE m + 1 \in S
  <2>1. PICK f : AreResults(f, conn, d, list, m)
    BY <1>2
  <2>2. PICK e : e = GoesOn(f[m], list[m + 1])
    OBVIOUS
  <2>3. PICK g : g = [n \in 0..(m + 1) |-> IF n = m + 1 THEN e ELSE f[n]]
    OBVIOUS
  <2>4. ASSUME NEW n \in 0..(m + 1)
        PROVE  g[n] = IF n = 0 THEN Done(conn, d) ELSE GoesOn(g[n - 1], list[n])
    <3>1. CASE n = m + 1
      BY <2>2, <2>3, <3>1
    <3>2. CASE n # m + 1
      <4>1. n \in 0..m /\ g[n] = f[n] /\ (n # 0 => g[n - 1] = f[n - 1])
        BY <2>3, <3>2
      <4>2. f[n] = IF n = 0 THEN Done(conn, d) ELSE GoesOn(f[n - 1], list[n])
        BY <2>1, <4>1 DEF AreResults
      <4> QED
        BY <4>1, <4>2
    <3> QED
      BY <3>1, <3>2
  <2>5. AreResults(g, conn, d, list, m + 1)
    BY <2>3, <2>4 DEF AreResults
  <2> QED
    BY <2>5
<1>3. \A m \in Nat : m \in S
  <2> HIDE DEF S
  <2> QED BY <1>1, <1>2, Counting
<1> QED
  BY <1>3

LEMMA ResultsAre ==
    ASSUME NEW conn, NEW d, NEW list, Len(list) \in Nat
    PROVE  \E f : /\ AreResults(f, conn, d, list, Len(list))
                  /\ ExecuteAll(conn, d, list) = f[Len(list)]
<1> DEFINE f == CHOOSE g : AreResults(g, conn, d, list, Len(list))
<1>1. AreResults(f, conn, d, list, Len(list))
  BY ResultsExist
<1>2. ExecuteAll(conn, d, list) = f[Len(list)]
  BY DEF ExecuteAll, AreResults, GoesOn
<1> QED
  BY <1>1, <1>2

LEMMA OneStatementIs ==
    ASSUME NEW conn, NEW d, NEW st
    PROVE  ExecuteAll(conn, d, <<st>>) = Execute(conn, d, st)
<1>1. PICK list : list = <<st>>
  OBVIOUS
<1>2. Len(list) = 1 /\ list[1] = st
  BY <1>1, SingletonIs
<1>3. PICK f : AreResults(f, conn, d, list, 1) /\ ExecuteAll(conn, d, list) = f[1]
  <2>1. Len(list) \in Nat
    BY <1>2
  <2>2. PICK f : AreResults(f, conn, d, list, Len(list))
                 /\ ExecuteAll(conn, d, list) = f[Len(list)]
    BY <2>1, ResultsAre
  <2> QED
    BY <1>2, <2>2, Zenon
<1>4. f[0] = Done(conn, d) /\ f[1] = GoesOn(f[0], st)
  BY <1>2, <1>3 DEF AreResults
<1> QED
  BY <1>1, <1>3, <1>4 DEF GoesOn, Done

LEMMA TwoStatementsAre ==
    ASSUME NEW conn, NEW d, NEW a, NEW b
    PROVE  ExecuteAll(conn, d, <<a, b>>) = GoesOn(Execute(conn, d, a), b)
<1>1. PICK list : list = <<a, b>>
  OBVIOUS
<1>2. Len(list) = 2 /\ list[1] = a /\ list[2] = b
  BY <1>1, PairIs
<1>3. PICK f : AreResults(f, conn, d, list, 2) /\ ExecuteAll(conn, d, list) = f[2]
  <2>1. Len(list) \in Nat
    BY <1>2
  <2>2. PICK f : AreResults(f, conn, d, list, Len(list))
                 /\ ExecuteAll(conn, d, list) = f[Len(list)]
    BY <2>1, ResultsAre
  <2> QED
    BY <1>2, <2>2, Zenon
<1>4. f[0] = Done(conn, d) /\ f[1] = GoesOn(f[0], a) /\ f[2] = GoesOn(f[1], b)
  BY <1>2, <1>3 DEF AreResults
<1>5. f[1] = Execute(conn, d, a)
  BY <1>4 DEF GoesOn, Done
<1> QED
  BY <1>1, <1>3, <1>4, <1>5

-----------------------------------------------------------------------------
(* Lemmas on rows that are saved *)

AllOf(rows, value, old) == [r \in DOMAIN old \cup rows |-> IF r \in rows THEN value ELSE old[r]]

\* What a save of rows makes of a connection and the database.
Saved(conn, d, rows, value, conn2, d2) ==
    /\ IsConn(conn2) /\ conn2.stack = conn.stack /\ d2 \in [Rows -> Nat]
    /\ conn.stack = <<>> => conn2 = conn /\ d2 = AllOf(rows, value, d)
    /\ conn.stack # <<>> => d2 = d /\ conn2.writes = AllOf(rows, value, conn.writes)

LEMMA AllOfNone ==
    ASSUME NEW value, NEW S, NEW T, NEW old \in [S -> T]
    PROVE  AllOf({}, value, old) = old
BY DEF AllOf

LEMMA RowSetsAre ==
    ASSUME NEW w \in RowSets, NEW rows, rows \subseteq Rows, NEW value \in Nat
    PROVE  /\ DOMAIN w \subseteq Rows /\ w \in [DOMAIN w -> Nat]
           /\ AllOf(rows, value, w) \in RowSets
<1>1. PICK S \in SUBSET Rows : w \in [S -> Nat]
  BY DEF RowSets
<1>2. AllOf(rows, value, w) \in [S \cup rows -> Nat] /\ S \cup rows \in SUBSET Rows
  BY <1>1 DEF AllOf
<1> QED
  BY <1>1, <1>2 DEF RowSets

LEMMA PutSaves ==
    ASSUME NEW conn, IsConn(conn), NEW d \in [Rows -> Nat], NEW row \in Rows,
           NEW value \in 1..MaxCalls, NEW r, r = Sqlite(conn, d, Put(row, value))
    PROVE  r.ok = TRUE /\ Saved(conn, d, {row}, value, r.conn, r.disk)
<1>1. r = Written(conn, d, Put(row, value)) /\ value \in Nat
  BY PutIs, MaxCallsAssumption
<1>2. /\ conn \in Connection /\ conn.writes \in RowSets
      /\ conn.stack = <<>> <=> conn.tx = "idle"
  BY DEF IsConn, Connection, Idle
<1>3. CASE conn.tx = "idle"
  <2>1. r = Done(conn, [d EXCEPT ![row] = value])
    BY <1>1, <1>3 DEF Written, Put
  <2>2. /\ [d EXCEPT ![row] = value] = AllOf({row}, value, d)
        /\ [d EXCEPT ![row] = value] \in [Rows -> Nat]
    BY <1>1 DEF AllOf
  <2>3. r.conn = conn /\ r.disk = [d EXCEPT ![row] = value] /\ r.ok = TRUE
    BY <2>1 DEF Done
  <2> QED
    BY <1>2, <1>3, <2>2, <2>3 DEF Saved
<1>4. CASE conn.tx # "idle"
  <2>1. PICK w : w = AllOf({row}, value, conn.writes)
    OBVIOUS
  <2>2. w \in RowSets
    BY <1>1, <1>2, <2>1, RowSetsAre
  <2>3. Over([x \in {row} |-> value], conn.writes) = w
    BY <2>1 DEF Over, AllOf
  <2>4. r = Done([conn EXCEPT !.writes = w], d)
    BY <1>1, <1>4, <2>3 DEF Written, Put
  <2>5. PICK conn2 : conn2 = [conn EXCEPT !.writes = w]
    OBVIOUS
  <2>6. /\ conn2 \in Connection /\ conn2.stack = conn.stack /\ conn2.tx = conn.tx
        /\ conn2.writes = w
    BY <1>2, <2>2, <2>5 DEF Connection
  <2>7. r.conn = conn2 /\ r.disk = d /\ r.ok = TRUE
    BY <2>4, <2>5 DEF Done
  <2> QED
    BY <1>2, <1>4, <2>1, <2>6, <2>7 DEF Saved, IsConn
<1> QED
  BY <1>3, <1>4

LEMMA SavesAddUp ==
    ASSUME NEW conn, NEW d, NEW rows, NEW value, NEW conn2, NEW d2, NEW row, NEW conn3, NEW d3,
           Saved(conn, d, rows, value, conn2, d2), Saved(conn2, d2, {row}, value, conn3, d3)
    PROVE  Saved(conn, d, rows \cup {row}, value, conn3, d3)
<1>1. conn.stack = conn2.stack /\ conn3.stack = conn.stack
  BY DEF Saved
<1>2. ASSUME conn.stack = <<>>
      PROVE  conn3 = conn /\ d3 = AllOf(rows \cup {row}, value, d)
  <2>1. d2 = AllOf(rows, value, d) /\ d3 = AllOf({row}, value, d2) /\ conn3 = conn2 /\ conn2 = conn
    BY <1>1, <1>2, Zenon DEF Saved
  <2>2. AllOf({row}, value, d2) = AllOf(rows \cup {row}, value, d)
    BY <2>1 DEF AllOf
  <2> QED
    BY <2>1, <2>2, Zenon
<1>3. ASSUME conn.stack # <<>>
      PROVE  d3 = d /\ conn3.writes = AllOf(rows \cup {row}, value, conn.writes)
  <2>1. PICK w, w2 : w = conn.writes /\ w2 = conn2.writes
    OBVIOUS
  <2>2. w2 = AllOf(rows, value, w) /\ conn3.writes = AllOf({row}, value, w2) /\ d3 = d2 /\ d2 = d
    BY <1>1, <1>3, <2>1, Zenon DEF Saved
  <2>3. AllOf({row}, value, w2) = AllOf(rows \cup {row}, value, w)
    BY <2>2 DEF AllOf
  <2> QED
    BY <2>1, <2>2, <2>3, Zenon
<1> QED
  BY <1>1, <1>2, <1>3 DEF Saved

LEMMA NothingIsSaved ==
    ASSUME NEW conn, IsConn(conn), NEW d \in [Rows -> Nat], NEW value
    PROVE  Saved(conn, d, {}, value, conn, d)
<1>1. AllOf({}, value, d) = d
  BY AllOfNone
<1>2. PICK S : conn.writes \in [S -> Nat]
  BY DEF IsConn, Connection, RowSets
<1>3. AllOf({}, value, conn.writes) = conn.writes
  BY <1>2, AllOfNone
<1> QED
  BY <1>1, <1>3 DEF Saved

\* The statements of a save, for each row one.
LEMMA PutsAre ==
    ASSUME NEW rows, rows \subseteq Rows, IsFiniteSet(rows), NEW value
    PROVE  \E order \in Seq(rows) :
             /\ rows = {order[i] : i \in 1..Len(order)} /\ Len(order) \in Nat
             /\ Puts(rows, value) = [i \in 1..Len(order) |-> Put(order[i], value)]
             /\ Puts(rows, value) \in Seq(PutsOf(value)) /\ Len(Puts(rows, value)) = Len(order)
<1> DEFINE n == Cardinality(rows)
           f == SetToSeq(rows)
<1>1. n \in Nat /\ ExistsBijection(1..n, rows)
  BY FS_CardinalityType
<1>2. \E g \in [1..n -> rows] : IsInjective(g)
  BY <1>1 DEF ExistsBijection, Bijection, Injection
<1>3. f \in [1..n -> rows] /\ IsInjective(f)
  <2>1. f = CHOOSE g \in [1..n -> rows] : IsInjective(g)
    BY DEF SetToSeq
  <2> HIDE DEF f, n
  <2> QED
    BY <1>2, <2>1
<1>4. f \in Injection(1..n, rows)
  BY <1>3 DEF Injection
<1>5. IsFiniteSet(1..n) /\ Cardinality(1..n) = n
  <2> HIDE DEF n
  <2>1. Cardinality(1..n) = IF 1 > n THEN 0 ELSE n - 1 + 1
    BY <1>1, FS_Interval
  <2> QED
    BY <1>1, <2>1, FS_Interval
<1>6. f \in Surjection(1..n, rows)
  <2> HIDE DEF f
  <2> QED
    BY <1>4, <1>5, FS_Injection
<1>7. PICK order : order = f
  OBVIOUS
<1>8. order \in Seq(rows) /\ order \in [1..n -> rows]
  <2> HIDE DEF f, n
  <2> QED
    BY <1>1, <1>3, <1>7, SeqDef
<1>9. Len(order) \in Nat /\ DOMAIN order = 1..Len(order)
  BY <1>8, LenProperties
<1>10. rows = {order[i] : i \in 1..Len(order)}
  <2> HIDE DEF f, n
  <2> QED
    BY <1>6, <1>7, <1>8, <1>9 DEF Surjection
<1>11. PICK puts : puts = [i \in 1..Len(order) |-> Put(order[i], value)]
  OBVIOUS
<1>12. Puts(rows, value) = puts
  BY <1>7, <1>9, <1>11 DEF Puts
<1>13. puts \in [1..Len(order) -> PutsOf(value)]
  <2>1. \A i \in 1..Len(order) : order[i] \in Rows
    BY <1>10
  <2> QED
    BY <1>11, <2>1 DEF PutsOf
<1>14. puts \in Seq(PutsOf(value))
  BY <1>9, <1>13, SeqDef
<1>15. PICK m \in Nat : m = Len(puts) /\ 1..m = DOMAIN puts
  BY <1>14, LenProperties
<1>16. PICK k \in Nat : k = Len(order) /\ 1..k = DOMAIN puts
  BY <1>9, <1>11
<1>17. m = k
  <2>1. \A i \in Nat : i \in 1..m <=> i \in 1..k
    BY <1>15, <1>16
  <2>2. (m \in 1..m <=> m \in 1..k) /\ (k \in 1..m <=> k \in 1..k)
    BY <2>1
  <2> QED
    BY <2>2
<1> HIDE DEF f, n
<1> QED
  BY <1>8, <1>9, <1>10, <1>11, <1>12, <1>14, <1>15, <1>16, <1>17

LEMMA PutsAreSome ==
    ASSUME NEW rows, rows \subseteq Rows, IsFiniteSet(rows), rows # {}, NEW value,
           NEW list, list = Puts(rows, value)
    PROVE  list # <<>> /\ list \in Seq(PutsOf(value))
<1>1. PICK order \in Seq(rows) :
        /\ rows = {order[i] : i \in 1..Len(order)} /\ Len(order) \in Nat
        /\ Puts(rows, value) = [i \in 1..Len(order) |-> Put(order[i], value)]
        /\ Puts(rows, value) \in Seq(PutsOf(value)) /\ Len(Puts(rows, value)) = Len(order)
  BY PutsAre
<1>2. PICK n \in Nat : n = Len(order)
  BY <1>1
<1>3. \E i \in 1..n : TRUE
  <2>1. PICK row : row \in rows
    OBVIOUS
  <2>2. \E i \in 1..n : row = order[i]
    BY <1>1, <1>2, <2>1
  <2> QED
    BY <2>2
<1>4. n # 0
  BY <1>3
<1>5. Len(list) # 0
  BY <1>1, <1>2, <1>4
<1> QED
  BY <1>1, <1>5, EmptySeq

\* A save that is not interrupted saves all its rows.
LEMMA PutsSave ==
    ASSUME IsSqlite, NEW conn, IsConn(conn), NEW d \in [Rows -> Nat],
           NEW rows, rows \subseteq Rows, IsFiniteSet(rows), NEW value \in 1..MaxCalls,
           NEW r, r = ExecuteAll(conn, d, Puts(rows, value))
    PROVE  r.ok = TRUE /\ Saved(conn, d, rows, value, r.conn, r.disk)
<1>1. PICK order \in Seq(rows) :
         /\ rows = {order[i] : i \in 1..Len(order)} /\ Len(order) \in Nat
         /\ Puts(rows, value) = [i \in 1..Len(order) |-> Put(order[i], value)]
         /\ Puts(rows, value) \in Seq(PutsOf(value)) /\ Len(Puts(rows, value)) = Len(order)
  BY PutsAre
<1>2. PICK m \in Nat : m = Len(order)
  BY <1>1
<1>3. PICK list : list = Puts(rows, value)
  OBVIOUS
<1>4. Len(list) = m /\ \A i \in 1..m : list[i] = Put(order[i], value) /\ order[i] \in Rows
  BY <1>1, <1>2, <1>3
<1>5. PICK f : AreResults(f, conn, d, list, m) /\ r = f[m]
  <2>1. Len(list) \in Nat
    BY <1>4
  <2>2. PICK f : AreResults(f, conn, d, list, Len(list))
                 /\ ExecuteAll(conn, d, list) = f[Len(list)]
    BY <2>1, ResultsAre
  <2> QED
    BY <1>3, <1>4, <2>2, Zenon
<1>6. f[0] = Done(conn, d) /\ \A n \in 0..m : n # 0 => f[n] = GoesOn(f[n - 1], list[n])
  BY <1>5 DEF AreResults
<1> DEFINE First(n) == {order[i] : i \in 1..n}
           Right(n) == f[n].ok = TRUE /\ Saved(conn, d, First(n), value, f[n].conn, f[n].disk)
           S == {n \in Nat : n <= m => Right(n)}
<1>7. 0 \in S
  <2>1. First(0) = {}
    OBVIOUS
  <2>2. f[0].ok = TRUE /\ f[0].conn = conn /\ f[0].disk = d
    BY <1>6 DEF Done
  <2>3. Saved(conn, d, {}, value, conn, d)
    BY NothingIsSaved
  <2>4. Saved(conn, d, First(0), value, f[0].conn, f[0].disk)
    <3> HIDE DEF First
    <3> QED BY <2>1, <2>2, <2>3, Zenon
  <2>5. Right(0)
    BY <2>2, <2>4, Zenon
  <2> HIDE DEF Right
  <2> QED
    BY <2>5
<1>8. ASSUME NEW n \in Nat, n \in S PROVE n + 1 \in S
  <2>1. SUFFICES ASSUME n + 1 <= m PROVE Right(n + 1)
    <3> HIDE DEF Right
    <3> QED OBVIOUS
  <2>2. Right(n)
    <3> HIDE DEF Right
    <3> QED BY <1>8, <2>1
  <2>3. PICK conn2, d2 : conn2 = f[n].conn /\ d2 = f[n].disk
    OBVIOUS
  <2>4. PICK row \in Rows : row = order[n + 1] /\ list[n + 1] = Put(row, value)
    BY <1>4, <2>1
  <2>5. PICK e : e = f[n + 1]
    OBVIOUS
  <2>6. e = Sqlite(conn2, d2, Put(row, value))
    <3>1. n + 1 \in 0..m /\ n + 1 # 0 /\ n + 1 - 1 = n
      BY <2>1
    <3>2. e = GoesOn(f[n], list[n + 1])
      BY <1>6, <2>5, <3>1
    <3> HIDE DEF S, First
    <3> QED
      BY <2>2, <2>3, <2>4, <3>2 DEF GoesOn, Execute
  <2>7. PICK rows1 : rows1 = First(n)
    OBVIOUS
  <2>8. Saved(conn, d, rows1, value, conn2, d2)
    <3> HIDE DEF First
    <3> QED BY <2>2, <2>3, <2>7, Zenon
  <2>9. IsConn(conn2) /\ d2 \in [Rows -> Nat]
    BY <2>8 DEF Saved
  <2>10. e.ok = TRUE /\ Saved(conn2, d2, {row}, value, e.conn, e.disk)
    BY <2>6, <2>9, PutSaves
  <2>11. Saved(conn, d, rows1 \cup {row}, value, e.conn, e.disk)
    BY <2>8, <2>10, SavesAddUp, Zenon
  <2>12. First(n + 1) = rows1 \cup {row}
    BY <2>4, <2>7
  <2> HIDE DEF First
  <2> QED
    BY <2>5, <2>10, <2>11, <2>12, Zenon DEF Right
<1>9. m \in S
  <2> HIDE DEF S
  <2> QED BY <1>7, <1>8, Counting
<1>10. Right(m)
  <2> HIDE DEF Right
  <2> QED BY <1>9
<1>11. First(m) = rows
  BY <1>1, <1>2
<1> HIDE DEF First
<1> QED
  BY <1>5, <1>10, <1>11, Zenon DEF Right

-----------------------------------------------------------------------------
(* Lemmas on the balance of savepoints and begins *)

Counts == [Sessions -> Nat]

\* What a call counts when it is made, and when it is over.
AfterCall(s, c, count) == IF c.what = "begin" THEN [count EXCEPT ![s] = @ + 1] ELSE count
BegunAfter(s, c, ok, beg) ==
    IF c.what = "commit" /\ ok /\ beg[s] > 0 THEN [beg EXCEPT ![s] = @ - 1] ELSE beg

LEMMA FewerSavepoints ==
    ASSUME NEW conn, IsConn(conn), NEW conn2, IsConn(conn2), NEW x,
           Named(conn2, x) \subseteq Named(conn, x)
    PROVE  /\ Savepoints(conn, x) \in Nat /\ Savepoints(conn2, x) \in Nat
           /\ Savepoints(conn2, x) <= Savepoints(conn, x)
BY NamedIs, FS_Subset DEF Savepoints

LEMMA FirstIs ==
    ASSUME NEW conn, IsConn(conn), conn.stack # <<>>
    PROVE  1 \in 1..Len(conn.stack) /\ 1 \in Named(conn, conn.stack[1].name)
<1>1. conn.stack \in Seq(Entry) /\ Len(conn.stack) \in Nat /\ DOMAIN conn.stack = 1..Len(conn.stack)
  BY NamedIs
<1>2. Len(conn.stack) # 0
  BY <1>1, EmptySeq
<1>3. 1 \in 1..Len(conn.stack)
  BY <1>1, <1>2
<1> QED
  BY <1>1, <1>3 DEF Named

LEMMA BalanceSame ==
    ASSUME NEW conn, NEW conn2, conn2.stack = conn.stack, NEW beg, NEW set,
           Balance(conn, beg, set)
    PROVE  Balance(conn2, beg, set)
<1>1. \A s : Named(conn2, s) = Named(conn, s)
  BY DEF Named
<1>2. \A s : Savepoints(conn2, s) = Savepoints(conn, s)
  BY <1>1 DEF Savepoints
<1> QED
  BY <1>2 DEF Balance

LEMMA BalanceCalled ==
    ASSUME NEW conn, IsConn(conn), NEW beg \in Counts, NEW set \in Counts,
           Balance(conn, beg, set), NEW s \in Sessions, NEW c
    PROVE  Balance(conn, AfterCall(s, c, beg), AfterCall(s, c, set))
<1>1. CASE c.what = "begin"
  <2>1. \A t \in Sessions : /\ Savepoints(conn, t) \in Nat /\ beg[t] \in Nat /\ set[t] \in Nat
                            /\ AfterCall(s, c, beg)[t] = IF t = s THEN beg[t] + 1 ELSE beg[t]
                            /\ AfterCall(s, c, set)[t] = IF t = s THEN set[t] + 1 ELSE set[t]
    BY <1>1, NamedIs DEF AfterCall, Counts
  <2>2. ASSUME NEW t \in Sessions
        PROVE  /\ Savepoints(conn, t) + set[t] <= beg[t] =>
                      Savepoints(conn, t) + AfterCall(s, c, set)[t] <= AfterCall(s, c, beg)[t]
               /\ Savepoints(conn, t) + set[t] < beg[t] =>
                      Savepoints(conn, t) + AfterCall(s, c, set)[t] < AfterCall(s, c, beg)[t]
    BY <2>1
  <2> QED
    BY <2>2 DEF Balance
<1>2. CASE c.what # "begin"
  BY <1>2 DEF AfterCall
<1> QED
  BY <1>1, <1>2

LEMMA BalancePushed ==
    ASSUME NEW conn, IsConn(conn), NEW beg \in Counts, NEW set \in Counts,
           Balance(conn, beg, set), NEW s \in Sessions, set[s] = 1,
           NEW conn2, conn2 = Pushed(conn, s), NEW set2, set2 = [set EXCEPT ![s] = 0]
    PROVE  Balance(conn2, beg, set2)
<1>1. /\ Len(conn.stack) \in Nat
      /\ Named(conn, s) \subseteq 1..Len(conn.stack) /\ IsFiniteSet(Named(conn, s))
  BY NamedIs
<1>2. s \in Names
  BY DEF Names
<1>3. /\ IsConn(conn2)
      /\ conn2.stack # <<>> /\ Len(conn2.stack) = Len(conn.stack) + 1
      /\ conn2.stack[Len(conn.stack) + 1] = [name |-> s, writes |-> conn.writes]
      /\ \A i \in 1..Len(conn.stack) : conn2.stack[i] = conn.stack[i]
      /\ Named(conn2, s) = Named(conn, s) \cup {Len(conn.stack) + 1}
      /\ \A x : x # s => Named(conn2, x) = Named(conn, x)
  BY <1>2, PushedIs
<1>4. Savepoints(conn2, s) = Savepoints(conn, s) + 1
  <2>1. Len(conn.stack) + 1 \notin Named(conn, s)
    BY <1>1
  <2> QED
    <3>1. Cardinality(Named(conn, s) \cup {Len(conn.stack) + 1}) = Cardinality(Named(conn, s)) + 1
      BY <1>1, <2>1, FS_AddElement
    <3> QED
      BY <1>3, <3>1, Zenon DEF Savepoints
<1>5. \A t \in Sessions : t # s => Savepoints(conn2, t) = Savepoints(conn, t)
  BY <1>3 DEF Savepoints
<1>6. \A t \in Sessions : Savepoints(conn, t) \in Nat /\ beg[t] \in Nat /\ set[t] \in Nat
                          /\ set2[t] = IF t = s THEN 0 ELSE set[t]
  BY NamedIs DEF Counts
<1>7. \A t \in Sessions : Savepoints(conn2, t) + set2[t] = Savepoints(conn, t) + set[t]
  BY <1>4, <1>5, <1>6
<1>8. ASSUME conn2.stack[1].name \notin Sessions
      PROVE  conn.stack # <<>> /\ conn.stack[1].name \notin Sessions
  <2>1. CASE conn.stack = <<>>
    <3>1. Len(conn.stack) = 0
      BY <2>1
    <3>2. conn2.stack[1] = [name |-> s, writes |-> conn.writes]
      BY <1>3, <3>1
    <3> QED
      BY <1>8, <3>2
  <2>2. CASE conn.stack # <<>>
    BY <1>3, <1>8, <2>2, FirstIs
  <2> QED
    BY <2>1, <2>2
<1> QED
  BY <1>7, <1>8 DEF Balance

LEMMA BalanceMarked ==
    ASSUME NEW conn, IsConn(conn), NEW beg \in Counts, NEW set \in Counts,
           Balance(conn, beg, set), NEW s \in Sessions, set[s] = 0, beg[s] > 0,
           NEW m \in Names, m \notin Sessions, NEW conn2, conn2 = Pushed(conn, m)
    PROVE  Balance(conn2, beg, set)
<1>1. /\ IsConn(conn2)
      /\ conn2.stack # <<>> /\ Len(conn2.stack) = Len(conn.stack) + 1
      /\ conn2.stack[Len(conn.stack) + 1] = [name |-> m, writes |-> conn.writes]
      /\ \A i \in 1..Len(conn.stack) : conn2.stack[i] = conn.stack[i]
      /\ Named(conn2, m) = Named(conn, m) \cup {Len(conn.stack) + 1}
      /\ \A x : x # m => Named(conn2, x) = Named(conn, x)
  BY PushedIs
<1>2. \A t \in Sessions : Savepoints(conn2, t) = Savepoints(conn, t)
  BY <1>1 DEF Savepoints
<1>3. ASSUME conn2.stack[1].name \notin Sessions
      PROVE  \E t \in Sessions : Savepoints(conn, t) + set[t] < beg[t]
  <2>1. CASE conn.stack = <<>>
    <3>1. Named(conn, s) = {}
      BY <2>1, IdleIsConn DEF IsConn
    <3>2. Savepoints(conn, s) = 0
      BY <3>1, NamedIs
    <3>3. Savepoints(conn, s) + set[s] < beg[s]
      BY <3>2 DEF Counts
    <3> QED
      BY <3>3
  <2>2. CASE conn.stack # <<>>
    <3>1. conn2.stack[1] = conn.stack[1]
      BY <1>1, <2>2, FirstIs
    <3> QED
      BY <1>3, <2>2, <3>1 DEF Balance
  <2> QED
    BY <2>1, <2>2
<1> QED
  BY <1>2, <1>3 DEF Balance

LEMMA BalanceCut ==
    ASSUME NEW conn, IsConn(conn), NEW beg \in Counts, NEW set \in Counts,
           Balance(conn, beg, set), NEW conn2, IsConn(conn2),
           conn.stack # <<>>, conn2.stack[1] = conn.stack[1],
           \A x : Named(conn2, x) \subseteq Named(conn, x)
    PROVE  Balance(conn2, beg, set)
<1>1. \A t \in Sessions : /\ Savepoints(conn, t) \in Nat /\ Savepoints(conn2, t) \in Nat
                          /\ Savepoints(conn2, t) <= Savepoints(conn, t)
                          /\ beg[t] \in Nat /\ set[t] \in Nat
  BY FewerSavepoints DEF Counts
<1>2. ASSUME NEW t \in Sessions
      PROVE  /\ Savepoints(conn, t) + set[t] <= beg[t] => Savepoints(conn2, t) + set[t] <= beg[t]
             /\ Savepoints(conn, t) + set[t] < beg[t] => Savepoints(conn2, t) + set[t] < beg[t]
  BY <1>1
<1> QED
  BY <1>2 DEF Balance

LEMMA BalanceReleased ==
    ASSUME NEW conn, IsConn(conn), NEW beg \in Counts, NEW set \in Counts,
           Balance(conn, beg, set), NEW s \in Sessions,
           Named(conn, s) # {}, Latest(conn, s) # 1,
           NEW conn2, conn2 = Released(conn, s), NEW beg2, beg2 = [beg EXCEPT ![s] = @ - 1]
    PROVE  beg[s] > 0 /\ Balance(conn2, beg2, set)
<1> DEFINE k == Latest(conn, s) - 1
<1>1. /\ IsConn(conn2) /\ k \in 1..Len(conn.stack) /\ k + 1 \in Named(conn, s)
      /\ conn2.stack # <<>> /\ \A i \in 1..k : conn2.stack[i] = conn.stack[i]
      /\ \A x : Named(conn2, x) = Named(conn, x) \cap (1..k)
  BY ReleasedIs
<1>2. /\ Len(conn.stack) \in Nat /\ IsFiniteSet(Named(conn, s))
      /\ \A t \in Sessions : Savepoints(conn, t) \in Nat /\ beg[t] \in Nat /\ set[t] \in Nat
  BY NamedIs DEF Counts
<1> HIDE DEF k
<1>3. \A t \in Sessions :
          Savepoints(conn2, t) \in Nat /\ Savepoints(conn2, t) <= Savepoints(conn, t)
  BY <1>1, FewerSavepoints
<1>4. Savepoints(conn2, s) <= Savepoints(conn, s) - 1
  <2>1. k \in Nat /\ k + 1 \notin 1..k
    BY <1>1, <1>2
  <2>2. Named(conn2, s) \subseteq Named(conn, s) \ {k + 1}
    BY <1>1, <2>1
  <2>3. IsFiniteSet(Named(conn, s) \ {k + 1})
        /\ Cardinality(Named(conn, s) \ {k + 1}) = Cardinality(Named(conn, s)) - 1
    BY <1>1, <1>2, FS_RemoveElement
  <2>4. Cardinality(Named(conn2, s)) <= Cardinality(Named(conn, s) \ {k + 1})
    BY <2>2, <2>3, FS_Subset
  <2> QED
    BY <2>3, <2>4 DEF Savepoints
<1>5. beg[s] > 0
  <2>1. Savepoints(conn, s) + set[s] <= beg[s] /\ Savepoints(conn, s) # 0
    BY NamedIs DEF Balance
  <2> QED
    BY <1>2, <2>1
<1>6. \A t \in Sessions : beg2[t] = IF t = s THEN beg[t] - 1 ELSE beg[t]
  BY DEF Counts
<1>7. ASSUME NEW t \in Sessions
      PROVE  /\ Savepoints(conn, t) + set[t] <= beg[t] => Savepoints(conn2, t) + set[t] <= beg2[t]
             /\ Savepoints(conn, t) + set[t] < beg[t] => Savepoints(conn2, t) + set[t] < beg2[t]
  <2>1. PICK m \in Nat, m2 \in Nat, n \in Nat, o \in Nat :
          m = Savepoints(conn, t) /\ m2 = Savepoints(conn2, t) /\ n = beg[t] /\ o = set[t]
    BY <1>2, <1>3
  <2>2. CASE t = s
    <3>1. m2 <= m - 1 /\ beg2[t] = n - 1
      BY <1>4, <1>6, <2>1, <2>2
    <3> QED
      BY <2>1, <3>1
  <2>3. CASE t # s
    <3>1. m2 <= m /\ beg2[t] = n
      BY <1>3, <1>6, <2>1, <2>3
    <3> QED
      BY <2>1, <3>1
  <2> QED
    BY <2>2, <2>3
<1>8. conn.stack # <<>> /\ conn2.stack[1] = conn.stack[1]
  <2>1. 1 \in 1..k /\ Len(conn.stack) # 0
    BY <1>1, <1>2
  <2> QED
    BY <1>1, <2>1
<1> QED
  BY <1>5, <1>7, <1>8 DEF Balance

LEMMA BalanceIdle ==
    ASSUME NEW conn, IsConn(conn), NEW beg \in Counts, NEW set \in Counts,
           Balance(conn, beg, set), NEW s \in Sessions, Named(conn, s) # {}, set[s] = 0,
           NEW beg2, beg2 = [beg EXCEPT ![s] = @ - 1]
    PROVE  beg[s] > 0 /\ Balance(Idle, beg2, set)
<1>1. \A t \in Sessions : Savepoints(conn, t) \in Nat /\ beg[t] \in Nat /\ set[t] \in Nat
                          /\ Savepoints(conn, t) + set[t] <= beg[t]
  BY NamedIs DEF Counts, Balance
<1>2. Savepoints(conn, s) # 0
  BY NamedIs
<1>3. \A t \in Sessions : Savepoints(Idle, t) = 0
  BY IdleIsConn, NamedIs
<1>4. \A t \in Sessions : beg2[t] = IF t = s THEN beg[t] - 1 ELSE beg[t]
  BY DEF Counts
<1>5. \A t \in Sessions : Savepoints(Idle, t) + set[t] <= beg2[t]
  BY <1>1, <1>2, <1>3, <1>4
<1> QED
  BY <1>1, <1>2, <1>5, IdleIsConn DEF Balance

-----------------------------------------------------------------------------
(* Lemmas on the transactions promised *)

\* The checkpoints of a connection, as Checkpoints has them.
CheckOf(entry, d) == [name |-> entry.name, rows |-> Over(entry.writes, d)]
Marked(conn, d) == IF conn.stack = <<>> THEN <<>>
                   ELSE [i \in 1..(Len(conn.stack) - 1) |-> CheckOf(conn.stack[i + 1], d)]

\* A step of Transactions, for what it says of a connection and the database.
Moves(conn, d, conn2, d2) ==
    LET open   == conn.stack # <<>>
        open2  == conn2.stack # <<>>
        work   == Over(conn.writes, d)
        work2  == Over(conn2.writes, d2)
        marks  == Marked(conn, d)
        marks2 == Marked(conn2, d2)
    IN  \/ d2 = d /\ (open2 <=> open) /\ work2 = work /\ marks2 = marks
        \/ ~open /\ open2 /\ marks2 = <<>> /\ d2 = d /\ work2 = work
        \/ \E rows \in SUBSET Rows, value \in 1..MaxCalls :
              /\ work2 = [r \in Rows |-> IF r \in rows THEN value ELSE work[r]]
              /\ d2 = IF open THEN d ELSE work2
              /\ (open2 <=> open) /\ marks2 = marks
        \/ \E name \in Marks :
              /\ open /\ open2 /\ d2 = d /\ work2 = work
              /\ marks2 = Append(marks, [name |-> name, rows |-> work])
        \/ \E i \in DOMAIN marks :
              /\ open /\ open2 /\ d2 = d
              /\ \A j \in DOMAIN marks : marks[j].name = marks[i].name => j <= i
              /\ work2 = marks[i].rows /\ marks2 = SubSeq(marks, 1, i)
        \/ open /\ ~open2 /\ d2 = work /\ work2 = work /\ marks2 = <<>>
        \/ ~open2 /\ work2 = d /\ d2 = d /\ marks2 = <<>>

LEMMA MovesArePromised ==
    ASSUME NEW conn, NEW conn2, NEW d, NEW d2, Moves(conn, d, conn2, d2),
           conn = conns[1], conn2 = conns'[1], d = disk, d2 = disk'
    PROVE  [Promised!Next]_(Promised!transactionVars)
<1> DEFINE open   == conn.stack # <<>>
           open2  == conn2.stack # <<>>
           work   == Over(conn.writes, d)
           work2  == Over(conn2.writes, d2)
           marks  == Marked(conn, d)
           marks2 == Marked(conn2, d2)
<1>1. CASE d2 = d /\ (open2 <=> open) /\ work2 = work /\ marks2 = marks
  BY <1>1 DEF Promised!transactionVars, Marked, CheckOf, Checkpoints, View
<1>2. CASE ~open /\ open2 /\ marks2 = <<>> /\ d2 = d /\ work2 = work
  BY <1>2 DEF Promised!Next, Promised!Begin, Marked, CheckOf, Checkpoints, View
<1>3. CASE \E rows \in SUBSET Rows, value \in 1..MaxCalls :
              /\ work2 = [r \in Rows |-> IF r \in rows THEN value ELSE work[r]]
              /\ d2 = IF open THEN d ELSE work2
              /\ (open2 <=> open) /\ marks2 = marks
  <2>1. PICK rows \in SUBSET Rows, value \in 1..MaxCalls :
          /\ work2 = [r \in Rows |-> IF r \in rows THEN value ELSE work[r]]
          /\ d2 = IF open THEN d ELSE work2
          /\ (open2 <=> open) /\ marks2 = marks
    BY <1>3
  <2>2. marks = IF conns[1].stack = <<>> THEN <<>> ELSE Checkpoints
    BY DEF Marked, CheckOf, Checkpoints
  <2>3. marks2 = (IF conns[1].stack = <<>> THEN <<>> ELSE Checkpoints)'
    BY DEF Marked, CheckOf, Checkpoints
  <2> HIDE DEF marks, marks2
  <2>4. Promised!Store(rows, value)
    BY <2>1, <2>2, <2>3 DEF Promised!Store, View
  <2> QED
    BY <2>1, <2>4 DEF Promised!Next
<1>4. CASE \E name \in Marks :
              /\ open /\ open2 /\ d2 = d /\ work2 = work
              /\ marks2 = Append(marks, [name |-> name, rows |-> work])
  BY <1>4 DEF Promised!Next, Promised!Checkpoint, Marked, CheckOf, Checkpoints, View
<1>5. CASE \E i \in DOMAIN marks :
              /\ open /\ open2 /\ d2 = d
              /\ \A j \in DOMAIN marks : marks[j].name = marks[i].name => j <= i
              /\ work2 = marks[i].rows /\ marks2 = SubSeq(marks, 1, i)
  <2>1. PICK i \in DOMAIN marks :
          /\ open /\ open2 /\ d2 = d
          /\ \A j \in DOMAIN marks : marks[j].name = marks[i].name => j <= i
          /\ work2 = marks[i].rows /\ marks2 = SubSeq(marks, 1, i)
    BY <1>5
  <2>2. marks = IF conns[1].stack = <<>> THEN <<>> ELSE Checkpoints
    BY DEF Marked, CheckOf, Checkpoints
  <2>3. marks2 = (IF conns[1].stack = <<>> THEN <<>> ELSE Checkpoints)'
    BY DEF Marked, CheckOf, Checkpoints
  <2> HIDE DEF marks, marks2
  <2>4. Promised!Rollback(i)
    BY <2>1, <2>2, <2>3 DEF Promised!Rollback, View
  <2> QED
    BY <2>1, <2>2, <2>4 DEF Promised!Next
<1>6. CASE open /\ ~open2 /\ d2 = work /\ work2 = work /\ marks2 = <<>>
  BY <1>6 DEF Promised!Next, Promised!Commit, Marked, CheckOf, Checkpoints, View
<1>7. CASE ~open2 /\ work2 = d /\ d2 = d /\ marks2 = <<>>
  BY <1>7 DEF Promised!Next, Promised!Crash, Marked, CheckOf, Checkpoints, View
<1> QED
  BY <1>1, <1>2, <1>3, <1>4, <1>5, <1>6, <1>7 DEF Moves

LEMMA MarkedIs ==
    ASSUME NEW conn, IsConn(conn), conn.stack # <<>>, NEW d
    PROVE  /\ Len(conn.stack) \in Nat /\ Len(conn.stack) >= 1
           /\ Marked(conn, d) \in Seq({CheckOf(e, d) : e \in Entry})
           /\ Len(Marked(conn, d)) = Len(conn.stack) - 1
           /\ DOMAIN Marked(conn, d) = 1..(Len(conn.stack) - 1)
           /\ \A i \in 1..(Len(conn.stack) - 1) : Marked(conn, d)[i] = CheckOf(conn.stack[i + 1], d)
<1>1. PICK n \in Nat : n = Len(conn.stack) - 1 /\ Len(conn.stack) \in Nat
  <2>1. Len(conn.stack) \in Nat \ {0}
    BY NamedIs, EmptySeq
  <2> QED
    BY <2>1
<1>2. PICK f : f = [i \in 1..n |-> CheckOf(conn.stack[i + 1], d)]
  OBVIOUS
<1>3. Marked(conn, d) = f
  BY <1>1, <1>2 DEF Marked
<1>4. \A i \in 1..n : conn.stack[i + 1] \in Entry
  <2>1. conn.stack \in Seq(Entry)
    BY NamedIs
  <2>2. \A i \in 1..n : i + 1 \in 1..Len(conn.stack)
    BY <1>1
  <2> QED
    BY <2>1, <2>2, ElementOfSeq
<1>5. f \in [1..n -> {CheckOf(e, d) : e \in Entry}]
  BY <1>2, <1>4
<1>6. f \in Seq({CheckOf(e, d) : e \in Entry})
  BY <1>5, SeqDef
<1>7. Len(f) = n
  <2>1. PICK m \in Nat : m = Len(f) /\ DOMAIN f = 1..m
    BY <1>6, LenProperties
  <2>2. DOMAIN f = 1..n
    BY <1>2
  <2>3. (m \in 1..m <=> m \in 1..n) /\ (n \in 1..m <=> n \in 1..n)
    BY <2>1, <2>2
  <2> QED
    BY <2>1, <2>3
<1> QED
  BY <1>1, <1>2, <1>3, <1>6, <1>7

LEMMA NotOpenIs ==
    ASSUME NEW conn, IsConn(conn), conn.stack = <<>>, NEW d \in [Rows -> Nat]
    PROVE  conn = Idle /\ Over(conn.writes, d) = d /\ Marked(conn, d) = <<>>
BY DEF IsConn, Idle, Over, NoWrites, Marked

LEMMA OverIs ==
    ASSUME NEW conn, IsConn(conn), NEW d \in [Rows -> Nat]
    PROVE  Over(conn.writes, d) \in [Rows -> Nat]
<1>1. PICK w, S : w = conn.writes /\ S \in SUBSET Rows /\ w \in [S -> Nat]
  BY DEF IsConn, Connection, RowSets
<1>2. Over(w, d) \in [Rows -> Nat]
  BY <1>1 DEF Over
<1> QED
  BY <1>1, <1>2

LEMMA BeginMoves ==
    ASSUME NEW conn, IsConn(conn), NEW d \in [Rows -> Nat],
           NEW s \in Sessions, NEW conn2, conn2 = Pushed(conn, s)
    PROVE  conn.stack = <<>> => Moves(conn, d, conn2, d)
<1>1. s \in Names
  BY DEF Names
<1>2. /\ IsConn(conn2) /\ conn2.writes = conn.writes
      /\ conn2.stack # <<>> /\ Len(conn2.stack) = Len(conn.stack) + 1
      /\ conn2.stack[Len(conn.stack) + 1] = [name |-> s, writes |-> conn.writes]
      /\ \A i \in 1..Len(conn.stack) : conn2.stack[i] = conn.stack[i]
      /\ Named(conn2, s) = Named(conn, s) \cup {Len(conn.stack) + 1}
      /\ \A x : x # s => Named(conn2, x) = Named(conn, x)
  BY <1>1, PushedIs
<1> SUFFICES ASSUME conn.stack = <<>> PROVE Moves(conn, d, conn2, d)
  OBVIOUS
<1>3. Len(conn.stack) = 0
  BY EmptySeq
<1>4. PICK marks2 : marks2 = Marked(conn2, d)
  OBVIOUS
<1>5. marks2 \in Seq({CheckOf(e, d) : e \in Entry}) /\ Len(marks2) = 0
  <2>1. Len(marks2) = Len(conn2.stack) - 1
    BY <1>2, <1>4, MarkedIs
  <2> QED
    BY <1>2, <1>3, <1>4, <2>1, MarkedIs
<1>6. marks2 = <<>>
  BY <1>5, EmptySeq
<1> QED
  BY <1>2, <1>4, <1>6 DEF Moves

LEMMA CheckpointMoves ==
    ASSUME NEW conn, IsConn(conn), conn.stack # <<>>, NEW d \in [Rows -> Nat],
           NEW m \in Marks, NEW conn2, conn2 = Pushed(conn, m)
    PROVE  Moves(conn, d, conn2, d)
<1>1. m \in Names
  BY DEF Names
<1>2. /\ IsConn(conn2) /\ conn2.writes = conn.writes
      /\ conn2.stack # <<>> /\ Len(conn2.stack) = Len(conn.stack) + 1
      /\ conn2.stack[Len(conn.stack) + 1] = [name |-> m, writes |-> conn.writes]
      /\ \A i \in 1..Len(conn.stack) : conn2.stack[i] = conn.stack[i]
      /\ Named(conn2, m) = Named(conn, m) \cup {Len(conn.stack) + 1}
      /\ \A x : x # m => Named(conn2, x) = Named(conn, x)
  BY <1>1, PushedIs
<1>3. PICK marks, marks2, set, e :
        /\ marks = Marked(conn, d) /\ marks2 = Marked(conn2, d)
        /\ set = {CheckOf(x, d) : x \in Entry}
        /\ e = [name |-> m, rows |-> Over(conn.writes, d)]
  OBVIOUS
<1>4. PICK n \in Nat : n = Len(conn.stack) - 1 /\ Len(conn.stack) = n + 1
  <2>1. Len(conn.stack) \in Nat /\ Len(conn.stack) >= 1
    BY MarkedIs
  <2>2. Len(conn.stack) - 1 \in Nat /\ Len(conn.stack) = Len(conn.stack) - 1 + 1
    BY <2>1
  <2> QED
    BY <2>2
<1>5. /\ marks \in Seq(set) /\ Len(marks) = n
      /\ \A i \in 1..n : marks[i] = CheckOf(conn.stack[i + 1], d)
  BY <1>3, <1>4, MarkedIs
<1>6. /\ marks2 \in Seq(set) /\ Len(marks2) = n + 1
      /\ \A i \in 1..(n + 1) : marks2[i] = CheckOf(conn2.stack[i + 1], d)
  <2>1. Len(conn2.stack) - 1 = n + 1
    BY <1>2, <1>4
  <2>2. /\ Marked(conn2, d) \in Seq({CheckOf(x, d) : x \in Entry})
        /\ Len(Marked(conn2, d)) = Len(conn2.stack) - 1
        /\ \A i \in 1..(Len(conn2.stack) - 1) : Marked(conn2, d)[i] = CheckOf(conn2.stack[i + 1], d)
    <3>1. IsConn(conn2) /\ conn2.stack # <<>>
      BY <1>2
    <3> QED
      BY <3>1, MarkedIs
  <2> QED
    BY <1>3, <2>1, <2>2
<1>7. e \in set /\ marks2[n + 1] = e
  <2>1. CheckOf(conn2.stack[n + 2], d) = e
    BY <1>2, <1>3, <1>4 DEF CheckOf
  <2>2. marks2[n + 1] = e
    BY <1>6, <2>1
  <2>3. marks2[n + 1] \in set
    BY <1>6, ElementOfSeq
  <2> QED
    BY <2>2, <2>3
<1>8. \A i \in 1..n : marks2[i] = marks[i]
  <2>1. \A i \in 1..n : i + 1 \in 1..Len(conn.stack) /\ i \in 1..(n + 1)
    BY <1>4
  <2> QED
    BY <1>2, <1>5, <1>6, <2>1
<1>9. marks2 = Append(marks, e)
  <2>1. PICK ap : ap = Append(marks, e)
    OBVIOUS
  <2>2. /\ ap \in Seq(set) /\ Len(ap) = n + 1 /\ ap[n + 1] = e
        /\ \A i \in 1..n : ap[i] = marks[i]
    BY <1>5, <1>7, <2>1, AppendProperties
  <2>3. ASSUME NEW i \in 1..(n + 1) PROVE marks2[i] = ap[i]
    <3>1. CASE i = n + 1
      BY <1>7, <2>2, <3>1
    <3>2. CASE i # n + 1
      BY <1>8, <2>2, <3>2
    <3> QED
      BY <3>1, <3>2
  <2>4. Len(marks2) = Len(ap) /\ \A i \in 1..Len(marks2) : marks2[i] = ap[i]
    BY <1>6, <2>2, <2>3
  <2>5. marks2 = ap
    BY <1>6, <2>2, <2>4, SeqEqual
  <2> QED
    BY <2>1, <2>5
<1> QED
  BY <1>2, <1>3, <1>9 DEF Moves

LEMMA RollbackMoves ==
    ASSUME NEW conn, IsConn(conn), NEW d \in [Rows -> Nat], NEW m, Named(conn, m) # {},
           NEW k, k = Latest(conn, m), k # 1, NEW conn2, conn2 = Unwound(conn, m)
    PROVE  Moves(conn, d, conn2, d)
<1>1. /\ IsConn(conn2)
      /\ k \in Named(conn, m) /\ k \in 1..Len(conn.stack)
      /\ \A i \in Named(conn, m) : i <= k
      /\ conn2.stack = Upto(conn.stack, k) /\ conn2.writes = conn.stack[k].writes
      /\ conn2.stack # <<>> /\ Len(conn2.stack) = k
      /\ \A i \in 1..k : conn2.stack[i] = conn.stack[i]
      /\ \A x : Named(conn2, x) = Named(conn, x) \cap (1..k)
  BY UnwoundIs
<1>2. /\ Len(conn.stack) \in Nat /\ conn.stack # <<>>
      /\ DOMAIN conn.stack = 1..Len(conn.stack)
  BY <1>1, NamedIs, EmptySeq
<1>3. PICK marks, marks2, set :
        /\ marks = Marked(conn, d) /\ marks2 = Marked(conn2, d)
        /\ set = {CheckOf(x, d) : x \in Entry}
  OBVIOUS
<1>4. PICK n \in Nat : n = Len(conn.stack) - 1 /\ Len(conn.stack) = n + 1
  <2>1. Len(conn.stack) \in Nat /\ Len(conn.stack) >= 1
    BY <1>2, MarkedIs
  <2>2. Len(conn.stack) - 1 \in Nat /\ Len(conn.stack) = Len(conn.stack) - 1 + 1
    BY <2>1
  <2> QED
    BY <2>2
<1>5. PICK i \in 1..n : k = i + 1
  <2>1. k - 1 \in 1..n /\ k - 1 + 1 = k
    BY <1>1, <1>4
  <2> QED
    BY <2>1
<1>6. /\ marks \in Seq(set) /\ Len(marks) = n /\ DOMAIN marks = 1..n
      /\ \A j \in 1..n : marks[j] = CheckOf(conn.stack[j + 1], d)
  BY <1>2, <1>3, <1>4, MarkedIs
<1>7. /\ marks2 \in Seq(set) /\ Len(marks2) = i
      /\ \A j \in 1..i : marks2[j] = CheckOf(conn2.stack[j + 1], d)
  <2>1. Len(conn2.stack) - 1 = i
    BY <1>1, <1>5
  <2>2. /\ Marked(conn2, d) \in Seq({CheckOf(x, d) : x \in Entry})
        /\ Len(Marked(conn2, d)) = Len(conn2.stack) - 1
        /\ \A j \in 1..(Len(conn2.stack) - 1) : Marked(conn2, d)[j] = CheckOf(conn2.stack[j + 1], d)
    <3>1. IsConn(conn2) /\ conn2.stack # <<>>
      BY <1>1
    <3> QED
      BY <3>1, MarkedIs
  <2> QED
    BY <1>3, <2>1, <2>2
<1>8. marks2 = SubSeq(marks, 1, i)
  <2>1. PICK sub : sub = SubSeq(marks, 1, i)
    OBVIOUS
  <2>2. \A j \in 1..i : marks[j] \in set /\ j \in 1..n
    BY <1>6, ElementOfSeq
  <2>3. sub \in Seq(set) /\ Len(sub) = i /\ \A j \in 1..i : sub[j] = marks[j]
    <3>1. 1 \in Int /\ i \in Int /\ 1 <= i /\ i - 1 + 1 = i
      OBVIOUS
    <3>2. /\ sub \in Seq(set) /\ Len(sub) = (IF 1 <= i THEN i - 1 + 1 ELSE 0)
          /\ \A j \in 1..(i - 1 + 1) : sub[j] = marks[1 + j - 1]
      BY <2>1, <2>2, <3>1, SubSeqProperties
    <3> QED
      BY <3>1, <3>2
  <2>4. ASSUME NEW j \in 1..i PROVE marks2[j] = sub[j]
    <3>1. j + 1 \in 1..k /\ j \in 1..n
      BY <1>5
    <3>2. conn2.stack[j + 1] = conn.stack[j + 1]
      BY <1>1, <3>1
    <3>3. marks2[j] = CheckOf(conn2.stack[j + 1], d)
      BY <1>7
    <3>4. marks[j] = CheckOf(conn.stack[j + 1], d)
      BY <1>6, <3>1
    <3> QED
      BY <2>3, <3>2, <3>3, <3>4
  <2>5. marks2 = sub
    BY <1>7, <2>3, <2>4, SeqEqual
  <2> QED
    BY <2>1, <2>5
<1>9. /\ marks[i].rows = Over(conn2.writes, d)
      /\ \A j \in 1..n : marks[j].name = conn.stack[j + 1].name
  <2>1. \A j \in 1..n : /\ marks[j].rows = Over(conn.stack[j + 1].writes, d)
                        /\ marks[j].name = conn.stack[j + 1].name
    BY <1>6 DEF CheckOf
  <2>2. marks[i].rows = Over(conn.stack[i + 1].writes, d)
    BY <2>1
  <2> QED
    BY <1>1, <1>5, <2>1, <2>2
<1>10. \A j \in DOMAIN marks : marks[j].name = marks[i].name => j <= i
  <2>1. conn.stack[i + 1].name = m
    BY <1>1, <1>5 DEF Named
  <2>2. ASSUME NEW j \in 1..n, marks[j].name = marks[i].name PROVE j <= i
    <3>1. j + 1 \in 1..Len(conn.stack)
      BY <1>4
    <3>2. conn.stack[j + 1].name = m
      BY <1>9, <2>1, <2>2
    <3>3. j + 1 \in Named(conn, m)
      BY <1>2, <3>1, <3>2 DEF Named
    <3>4. j + 1 <= i + 1
      BY <1>1, <1>5, <3>3
    <3> QED
      BY <3>4
  <2> QED
    BY <1>6, <2>2
<1>11. i \in DOMAIN marks
  BY <1>6
<1> QED
  BY <1>1, <1>2, <1>3, <1>8, <1>9, <1>10, <1>11 DEF Moves

LEMMA CommitMoves ==
    ASSUME NEW conn, IsConn(conn), conn.stack # <<>>, NEW d \in [Rows -> Nat],
           NEW d2, d2 = Over(conn.writes, d)
    PROVE  Moves(conn, d, Idle, d2)
<1>1. d2 \in [Rows -> Nat]
  BY OverIs
<1>2. Over(Idle.writes, d2) = d2 /\ Marked(Idle, d2) = <<>> /\ Idle.stack = <<>>
  BY <1>1, IdleIsConn, NotOpenIs
<1> QED
  BY <1>2 DEF Moves

LEMMA StoreMoves ==
    ASSUME NEW conn, IsConn(conn), NEW d \in [Rows -> Nat], NEW rows, rows \subseteq Rows,
           NEW value \in 1..MaxCalls, NEW conn2, NEW d2, Saved(conn, d, rows, value, conn2, d2)
    PROVE  Moves(conn, d, conn2, d2)
<1>1. PICK work, work2 : work = Over(conn.writes, d) /\ work2 = Over(conn2.writes, d2)
  OBVIOUS
<1>2. IsConn(conn2) /\ conn2.stack = conn.stack /\ d2 \in [Rows -> Nat]
  BY DEF Saved
<1>3. /\ work2 = [r \in Rows |-> IF r \in rows THEN value ELSE work[r]]
      /\ d2 = IF conn.stack # <<>> THEN d ELSE work2
      /\ Marked(conn2, d2) = Marked(conn, d)
  <2>1. CASE conn.stack = <<>>
    <3>1. work = d /\ Marked(conn, d) = <<>>
      BY <1>1, <2>1, NotOpenIs
    <3>2. work2 = d2 /\ Marked(conn2, d2) = <<>>
      BY <1>1, <1>2, <2>1, NotOpenIs
    <3>3. d2 = AllOf(rows, value, d)
      BY <2>1 DEF Saved
    <3> QED
      BY <2>1, <3>1, <3>2, <3>3 DEF AllOf
  <2>2. CASE conn.stack # <<>>
    <3>1. PICK w, w2 : w = conn.writes /\ w2 = conn2.writes
      OBVIOUS
    <3>2. w2 = AllOf(rows, value, w) /\ d2 = d
      BY <2>2, <3>1 DEF Saved
    <3>3. DOMAIN w \subseteq Rows
      <4>1. w \in RowSets /\ value \in Nat
        BY <3>1, MaxCallsAssumption DEF IsConn, Connection
      <4> QED
        BY <4>1, RowSetsAre
    <3>4. work = Over(w, d) /\ work2 = Over(w2, d)
      BY <1>1, <3>1, <3>2
    <3>5. work2 = [r \in Rows |-> IF r \in rows THEN value ELSE work[r]]
      BY <3>2, <3>3, <3>4 DEF Over, AllOf
    <3>6. Marked(conn2, d2) = Marked(conn, d)
      BY <1>2, <3>2 DEF Marked
    <3> QED
      BY <2>2, <3>2, <3>5, <3>6
  <2> QED
    BY <2>1, <2>2
<1>4. \E x \in SUBSET Rows, v \in 1..MaxCalls :
         /\ work2 = [r \in Rows |-> IF r \in x THEN v ELSE work[r]]
         /\ d2 = IF conn.stack # <<>> THEN d ELSE work2
         /\ (conn2.stack # <<>> <=> conn.stack # <<>>) /\ Marked(conn2, d2) = Marked(conn, d)
  BY <1>2, <1>3
<1> QED
  BY <1>1, <1>4, Zenon DEF Moves

-----------------------------------------------------------------------------
(* Lemmas on what a call does to a connection *)

\* Sessions that take turns: one transaction at most, opened by the savepoint of
\* the session that began, and the other savepoints are checkpoints.
Taken(conn, beg, set) ==
    /\ \A s, t \in Sessions : beg[s] > 0 /\ beg[t] > 0 => s = t
    /\ \A s \in Sessions : beg[s] > 0 => /\ beg[s] = 1
                                         /\ set[s] = 1 <=> conn.stack = <<>>
                                         /\ conn.stack # <<>> => conn.stack[1].name = s
    /\ conn.stack # <<>> => \E s \in Sessions : beg[s] > 0
    /\ \A i \in 2..Len(conn.stack) : conn.stack[i].name \notin Sessions
InOrder(c, n) ==
    /\ c.what \in {"checkpoint", "rollback"} => c.mark \notin Sessions
    /\ c.what \notin {"none", "save"} => n > 0

\* What the statement does that a call c of session s runs, or all of them.
Changes(s, c, setting, conn, d, r) ==
    \/ /\ setting = 0 /\ r.conn = conn /\ r.disk = d
       /\ c.what = "commit" => ~r.ok
    \/ c.what = "begin" /\ setting = 1 /\ r.conn = Pushed(conn, s) /\ r.disk = d
    \/ c.what = "checkpoint" /\ r.conn = Pushed(conn, c.mark) /\ r.disk = d
    \/ /\ c.what = "rollback" /\ Named(conn, c.mark) # {}
       /\ r.conn = Unwound(conn, c.mark) /\ r.disk = d
    \/ /\ c.what = "commit" /\ Named(conn, s) # {} /\ r.ok
       /\ IF Latest(conn, s) = 1 THEN r.conn = Idle /\ r.disk = Over(conn.writes, d)
                                 ELSE r.conn = Released(conn, s) /\ r.disk = d
    \/ /\ c.what = "save"
       /\ \E rows \in SUBSET Rows, value \in 1..MaxCalls :
              Saved(conn, d, rows, value, r.conn, r.disk)

LEMMA CallsAre ==
    ASSUME NEW c \in Calls
    PROVE  /\ c.what \in {"none", "begin", "commit", "checkpoint", "rollback", "save"}
           /\ c.what \in {"checkpoint", "rollback"} => c.mark \in Marks /\ c.mark \in Names
           /\ c.what = "save" => c.rows \in SavedRows
           /\ c.what = "none" => c = NoCall
<1>1. ASSUME c = NoCall PROVE c.what = "none"
  BY <1>1 DEF NoCall, Call
<1>2. ASSUME NEW w \in {"begin", "commit"}, c = Call(w, "", {})
      PROVE  c.what = w
  BY <1>2 DEF Call
<1>3. ASSUME NEW w \in {"checkpoint", "rollback"}, NEW m \in Marks, c = Call(w, m, {})
      PROVE  c.what = w /\ c.mark \in Marks
  BY <1>3 DEF Call
<1>4. ASSUME NEW rows \in SavedRows, c = Call("save", "", rows)
      PROVE  c.what = "save" /\ c.rows \in SavedRows
  BY <1>4 DEF Call
<1> DEFINE T1 == {Call(w, "", {}) : w \in {"begin", "commit"}}
           T2 == {Call(w, m, {}) : w \in {"checkpoint", "rollback"}, m \in Marks}
<1>5. c = NoCall \/ c \in T1 \/ c \in T2 \/ c \in Saves
  <2>1. Transactional = T1 \cup T2
    BY DEF Transactional
  <2> HIDE DEF T1, T2
  <2> QED
    BY <2>1 DEF Calls
<1>6. CASE c = NoCall
  BY <1>1, <1>6
<1>7. CASE c \in T1
  BY <1>2, <1>7
<1>8. CASE c \in T2
  <2>1. PICK w \in {"checkpoint", "rollback"}, m \in Marks : c = Call(w, m, {})
    BY <1>8
  <2>2. c.what = w /\ c.mark \in Marks
    BY <1>3, <2>1
  <2> QED
    BY <2>2 DEF Names
<1>9. CASE c \in Saves
  <2>1. PICK rows \in SavedRows : c = Call("save", "", rows)
    BY <1>9 DEF Saves
  <2>2. c.what = "save" /\ c.rows \in SavedRows
    BY <1>4, <2>1
  <2> QED
    BY <2>2
<1> HIDE DEF T1, T2
<1> QED
  BY <1>5, <1>6, <1>7, <1>8, <1>9

LEMMA TakenCalled ==
    ASSUME NEW conn, IsConn(conn), NEW beg \in Counts, NEW set \in Counts, Taken(conn, beg, set),
           NEW s \in Sessions, NEW c, set[s] = 0, \A t \in Sessions \ {s} : beg[t] = 0,
           c.what = "save" \/ (beg[s] = 0 <=> c.what = "begin")
    PROVE  Taken(conn, AfterCall(s, c, beg), AfterCall(s, c, set))
<1>1. CASE c.what = "begin"
  <2>1. beg[s] = 0
    BY <1>1
  <2>2. conn.stack = <<>>
    BY <2>1 DEF Taken
  <2>3. \A t \in Sessions : /\ beg[t] \in Nat /\ set[t] \in Nat
                            /\ AfterCall(s, c, beg)[t] = IF t = s THEN beg[t] + 1 ELSE beg[t]
                            /\ AfterCall(s, c, set)[t] = IF t = s THEN set[t] + 1 ELSE set[t]
    BY <1>1 DEF AfterCall, Counts
  <2>4. \A t \in Sessions : AfterCall(s, c, beg)[t] > 0 => t = s
    BY <2>3
  <2>5. AfterCall(s, c, beg)[s] = 1 /\ AfterCall(s, c, set)[s] = 1
    BY <2>1, <2>3
  <2> QED
    BY <2>2, <2>4, <2>5 DEF Taken
<1>2. CASE c.what # "begin"
  BY <1>2 DEF AfterCall
<1> QED
  BY <1>1, <1>2

LEMMA TakenSame ==
    ASSUME NEW conn, NEW conn2, conn2.stack = conn.stack, NEW beg, NEW set, Taken(conn, beg, set)
    PROVE  Taken(conn2, beg, set)
BY DEF Taken

LEMMA TakenPushed ==
    ASSUME NEW conn, IsConn(conn), NEW beg \in Counts, NEW set \in Counts, Taken(conn, beg, set),
           NEW s \in Sessions, beg[s] > 0, set[s] = 1,
           NEW conn2, conn2 = Pushed(conn, s), NEW set2, set2 = [set EXCEPT ![s] = 0]
    PROVE  conn.stack = <<>> /\ Taken(conn2, beg, set2)
<1>1. s \in Names
  BY DEF Names
<1>2. /\ IsConn(conn2) /\ conn2.writes = conn.writes
      /\ conn2.stack # <<>> /\ Len(conn2.stack) = Len(conn.stack) + 1
      /\ conn2.stack[Len(conn.stack) + 1] = [name |-> s, writes |-> conn.writes]
      /\ \A i \in 1..Len(conn.stack) : conn2.stack[i] = conn.stack[i]
      /\ Named(conn2, s) = Named(conn, s) \cup {Len(conn.stack) + 1}
      /\ \A x : x # s => Named(conn2, x) = Named(conn, x)
  BY <1>1, PushedIs
<1>3. conn.stack = <<>>
  BY DEF Taken
<1>4. Len(conn.stack) = 0
  BY <1>3, EmptySeq
<1>5. conn2.stack[1].name = s /\ Len(conn2.stack) = 1
  BY <1>2, <1>4
<1>6. set2[s] = 0
  BY DEF Counts
<1>7. \A t \in Sessions : beg[t] > 0 => t = s /\ beg[t] = 1
  BY DEF Taken
<1> QED
  BY <1>2, <1>3, <1>5, <1>6, <1>7 DEF Taken

LEMMA TakenMarked ==
    ASSUME NEW conn, IsConn(conn), NEW beg \in Counts, NEW set \in Counts, Taken(conn, beg, set),
           NEW s \in Sessions, beg[s] > 0, set[s] = 0,
           NEW m \in Names, m \notin Sessions, NEW conn2, conn2 = Pushed(conn, m)
    PROVE  conn.stack # <<>> /\ Taken(conn2, beg, set)
<1>1. /\ IsConn(conn2) /\ conn2.writes = conn.writes
      /\ conn2.stack # <<>> /\ Len(conn2.stack) = Len(conn.stack) + 1
      /\ conn2.stack[Len(conn.stack) + 1] = [name |-> m, writes |-> conn.writes]
      /\ \A i \in 1..Len(conn.stack) : conn2.stack[i] = conn.stack[i]
      /\ Named(conn2, m) = Named(conn, m) \cup {Len(conn.stack) + 1}
      /\ \A x : x # m => Named(conn2, x) = Named(conn, x)
  BY PushedIs
<1>2. conn.stack # <<>>
  BY DEF Taken
<1>3. 1 \in 1..Len(conn.stack) /\ Len(conn.stack) \in Nat
  BY <1>2, FirstIs, NamedIs
<1>4. conn2.stack[1] = conn.stack[1]
  BY <1>1, <1>3
<1>5. ASSUME NEW i \in 2..Len(conn2.stack) PROVE conn2.stack[i].name \notin Sessions
  <2>1. CASE i = Len(conn.stack) + 1
    BY <1>1, <2>1
  <2>2. CASE i # Len(conn.stack) + 1
    <3>1. i \in 2..Len(conn.stack) /\ i \in 1..Len(conn.stack)
      BY <1>1, <1>3, <2>2
    <3>2. conn2.stack[i] = conn.stack[i]
      BY <1>1, <3>1
    <3> QED
      BY <3>1, <3>2 DEF Taken
  <2> QED
    BY <2>1, <2>2
<1> QED
  BY <1>1, <1>2, <1>4, <1>5 DEF Taken

LEMMA TakenUnwound ==
    ASSUME NEW conn, IsConn(conn), NEW beg, NEW set, Taken(conn, beg, set),
           NEW m, m \notin Sessions, Named(conn, m) # {}, NEW conn2, conn2 = Unwound(conn, m)
    PROVE  Latest(conn, m) # 1 /\ Taken(conn2, beg, set)
<1>1. PICK k : k = Latest(conn, m)
  OBVIOUS
<1>2. /\ IsConn(conn2)
      /\ k \in Named(conn, m) /\ k \in 1..Len(conn.stack)
      /\ conn2.stack # <<>> /\ Len(conn2.stack) = k
      /\ \A i \in 1..k : conn2.stack[i] = conn.stack[i]
  BY <1>1, UnwoundIs
<1>3. Len(conn.stack) \in Nat /\ conn.stack # <<>>
  BY <1>2, NamedIs, EmptySeq
<1>4. conn.stack[1].name \in Sessions
  BY <1>3 DEF Taken
<1>5. k # 1
  BY <1>2, <1>4 DEF Named
<1>6. 1 \in 1..k /\ conn2.stack[1] = conn.stack[1]
  BY <1>2, <1>3
<1>7. ASSUME NEW i \in 2..Len(conn2.stack) PROVE conn2.stack[i].name \notin Sessions
  <2>1. i \in 2..Len(conn.stack) /\ i \in 1..k
    BY <1>2, <1>3
  <2> QED
    BY <1>2, <2>1 DEF Taken
<1> QED
  BY <1>1, <1>2, <1>3, <1>5, <1>6, <1>7 DEF Taken

LEMMA TakenReleased ==
    ASSUME NEW conn, IsConn(conn), NEW beg \in Counts, NEW set \in Counts, Taken(conn, beg, set),
           NEW s \in Sessions, beg[s] > 0, set[s] = 0, NEW beg2, beg2 = [beg EXCEPT ![s] = @ - 1]
    PROVE  conn.stack # <<>> /\ Latest(conn, s) = 1 /\ Taken(Idle, beg2, set)
<1>1. conn.stack # <<>> /\ conn.stack[1].name = s /\ beg[s] = 1
  BY DEF Taken
<1>2. Len(conn.stack) \in Nat /\ 1 \in Named(conn, s)
  BY <1>1, FirstIs, NamedIs
<1>3. Latest(conn, s) \in Named(conn, s) /\ Named(conn, s) \subseteq 1..Len(conn.stack)
  BY <1>2, NamedIs
<1>4. Latest(conn, s) = 1
  <2>1. conn.stack[Latest(conn, s)].name = s
    BY <1>3 DEF Named
  <2>2. Latest(conn, s) \notin 2..Len(conn.stack)
    BY <2>1 DEF Taken
  <2> QED
    BY <1>2, <1>3, <2>2
<1>5. \A t \in Sessions : beg2[t] = 0
  <2>1. \A t \in Sessions : beg[t] \in Nat /\ beg2[t] = IF t = s THEN beg[t] - 1 ELSE beg[t]
    BY DEF Counts
  <2>2. \A t \in Sessions : t # s => ~(beg[t] > 0)
    BY DEF Taken
  <2> QED
    BY <1>1, <2>1, <2>2
<1>6. Idle.stack = <<>> /\ Len(Idle.stack) = 0
  BY IdleIsConn, EmptySeq
<1>7. Taken(Idle, beg2, set)
  BY <1>5, <1>6 DEF Taken
<1> QED
  BY <1>1, <1>4, <1>7

\* What is kept of the invariant, from one connection, begins and calls to the next.
Keeps(s, c, conn, d, beg, set, conn2, d2, beg2, set2) ==
    /\ IsConn(conn2) /\ d2 \in [Rows -> Nat]
    /\ Balance(conn, beg, set) /\ ChecksIn(c, beg[s]) => Balance(conn2, beg2, set2)
    /\ Taken(conn, beg, set) /\ InOrder(c, beg[s]) =>
           Taken(conn2, beg2, set2) /\ Moves(conn, d, conn2, d2)

LEMMA NothingKeeps ==
    ASSUME NEW s, NEW c, NEW conn, IsConn(conn), NEW d \in [Rows -> Nat], NEW beg, NEW set
    PROVE  Keeps(s, c, conn, d, beg, set, conn, d, beg, set)
BY DEF Keeps, Moves

LEMMA BeginKeeps ==
    ASSUME NEW s \in Sessions, NEW c, c.what = "begin",
           NEW conn, IsConn(conn), NEW d \in [Rows -> Nat],
           NEW beg \in Counts, NEW set \in Counts, set[s] = 1,
           NEW conn2, conn2 = Pushed(conn, s), NEW set2, set2 = [set EXCEPT ![s] = 0]
    PROVE  Keeps(s, c, conn, d, beg, set, conn2, d, beg, set2)
<1>1. IsConn(conn2)
  <2>1. s \in Names
    BY DEF Names
  <2> QED
    BY <2>1, PushedIs
<1>2. Balance(conn, beg, set) => Balance(conn2, beg, set2)
  BY BalancePushed
<1>3. ASSUME Taken(conn, beg, set), InOrder(c, beg[s])
      PROVE  Taken(conn2, beg, set2) /\ Moves(conn, d, conn2, d)
  <2>1. beg[s] > 0
    BY <1>3 DEF InOrder
  <2>2. conn.stack = <<>> /\ Taken(conn2, beg, set2)
    BY <1>3, <2>1, TakenPushed
  <2> QED
    BY <2>2, BeginMoves
<1> QED
  BY <1>1, <1>2, <1>3 DEF Keeps

LEMMA CheckpointKeeps ==
    ASSUME NEW s \in Sessions, NEW c, c.what = "checkpoint", NEW m, m = c.mark, m \in Marks,
           NEW conn, IsConn(conn), NEW d \in [Rows -> Nat],
           NEW beg \in Counts, NEW set \in Counts, set[s] = 0,
           NEW conn2, conn2 = Pushed(conn, m)
    PROVE  Keeps(s, c, conn, d, beg, set, conn2, d, beg, set)
<1>1. m \in Names
  BY DEF Names
<1>2. IsConn(conn2)
  BY <1>1, PushedIs
<1>3. ASSUME Balance(conn, beg, set), ChecksIn(c, beg[s]) PROVE Balance(conn2, beg, set)
  <2>1. beg[s] > 0 /\ m \notin Sessions
    BY <1>3 DEF ChecksIn
  <2> QED
    BY <1>1, <1>3, <2>1, BalanceMarked
<1>4. ASSUME Taken(conn, beg, set), InOrder(c, beg[s])
      PROVE  Taken(conn2, beg, set) /\ Moves(conn, d, conn2, d)
  <2>1. beg[s] > 0 /\ m \notin Sessions
    BY <1>4 DEF InOrder
  <2>2. conn.stack # <<>> /\ Taken(conn2, beg, set)
    BY <1>1, <1>4, <2>1, TakenMarked
  <2> QED
    BY <2>2, CheckpointMoves
<1> QED
  BY <1>2, <1>3, <1>4 DEF Keeps

LEMMA RollbackKeeps ==
    ASSUME NEW s \in Sessions, NEW c, c.what = "rollback", NEW m, m = c.mark,
           NEW conn, IsConn(conn), Named(conn, m) # {}, NEW d \in [Rows -> Nat],
           NEW beg \in Counts, NEW set \in Counts,
           NEW conn2, conn2 = Unwound(conn, m)
    PROVE  Keeps(s, c, conn, d, beg, set, conn2, d, beg, set)
<1>1. PICK k : k = Latest(conn, m)
  OBVIOUS
<1>2. /\ IsConn(conn2)
      /\ k \in Named(conn, m) /\ k \in 1..Len(conn.stack)
      /\ \A i \in 1..k : conn2.stack[i] = conn.stack[i]
      /\ \A x : Named(conn2, x) = Named(conn, x) \cap (1..k)
  BY <1>1, UnwoundIs
<1>3. conn.stack # <<>> /\ conn2.stack[1] = conn.stack[1]
  <2>1. Len(conn.stack) \in Nat
    BY NamedIs
  <2>2. Len(conn.stack) # 0 /\ 1 \in 1..k
    BY <1>2, <2>1
  <2> QED
    BY <1>2, <2>2, EmptySeq
<1>4. Balance(conn, beg, set) => Balance(conn2, beg, set)
  BY <1>2, <1>3, BalanceCut
<1>5. ASSUME Taken(conn, beg, set), InOrder(c, beg[s])
      PROVE  Taken(conn2, beg, set) /\ Moves(conn, d, conn2, d)
  <2>1. m \notin Sessions
    BY <1>5 DEF InOrder
  <2>2. Latest(conn, m) # 1 /\ Taken(conn2, beg, set)
    BY <1>5, <2>1, TakenUnwound
  <2> QED
    BY <1>1, <2>2, RollbackMoves
<1> QED
  BY <1>2, <1>4, <1>5 DEF Keeps

LEMMA ConnectionCommitKeeps ==
    ASSUME NEW s \in Sessions, NEW c, c.what = "commit",
           NEW conn, IsConn(conn), Named(conn, s) # {}, NEW d \in [Rows -> Nat],
           NEW beg \in Counts, NEW set \in Counts, set[s] = 0,
           NEW conn2, NEW d2,
           IF Latest(conn, s) = 1 THEN conn2 = Idle /\ d2 = Over(conn.writes, d)
                                  ELSE conn2 = Released(conn, s) /\ d2 = d,
           NEW beg2, beg2 = IF beg[s] > 0 THEN [beg EXCEPT ![s] = @ - 1] ELSE beg
    PROVE  Keeps(s, c, conn, d, beg, set, conn2, d2, beg2, set)
<1>1. IsConn(conn2) /\ d2 \in [Rows -> Nat]
  BY ReleasedIs, IdleIsConn, OverIs
<1>2. ASSUME Balance(conn, beg, set) PROVE Balance(conn2, beg2, set)
  <2>1. PICK less : less = [beg EXCEPT ![s] = @ - 1]
    OBVIOUS
  <2>2. CASE Latest(conn, s) = 1
    <3>1. beg[s] > 0 /\ Balance(Idle, less, set)
      BY <1>2, <2>1, BalanceIdle
    <3> QED
      BY <2>1, <2>2, <3>1
  <2>3. CASE Latest(conn, s) # 1
    <3>1. beg[s] > 0 /\ Balance(conn2, less, set)
      BY <1>2, <2>1, <2>3, BalanceReleased
    <3> QED
      BY <2>1, <3>1
  <2> QED
    BY <2>2, <2>3
<1>3. ASSUME Taken(conn, beg, set), InOrder(c, beg[s])
      PROVE  Taken(conn2, beg2, set) /\ Moves(conn, d, conn2, d2)
  <2>1. beg[s] > 0
    BY <1>3 DEF InOrder
  <2>2. PICK less : less = [beg EXCEPT ![s] = @ - 1] /\ beg2 = less
    BY <2>1
  <2>3. conn.stack # <<>> /\ Latest(conn, s) = 1 /\ Taken(Idle, less, set)
    BY <1>3, <2>1, <2>2, TakenReleased
  <2>4. conn2 = Idle /\ d2 = Over(conn.writes, d)
    BY <2>3
  <2> QED
    BY <2>2, <2>3, <2>4, CommitMoves
<1> QED
  BY <1>1, <1>2, <1>3 DEF Keeps

LEMMA SaveKeeps ==
    ASSUME NEW s, NEW c, NEW conn, IsConn(conn), NEW d \in [Rows -> Nat], NEW beg, NEW set,
           NEW rows, rows \subseteq Rows, NEW value \in 1..MaxCalls,
           NEW conn2, NEW d2, Saved(conn, d, rows, value, conn2, d2)
    PROVE  Keeps(s, c, conn, d, beg, set, conn2, d2, beg, set)
<1>1. IsConn(conn2) /\ conn2.stack = conn.stack /\ d2 \in [Rows -> Nat]
  BY DEF Saved
<1>2. Moves(conn, d, conn2, d2)
  BY StoreMoves
<1>3. Balance(conn, beg, set) => Balance(conn2, beg, set)
  BY <1>1, BalanceSame
<1>4. Taken(conn, beg, set) => Taken(conn2, beg, set)
  BY <1>1, TakenSame
<1> QED
  BY <1>1, <1>2, <1>3, <1>4 DEF Keeps

LEMMA ChangesKeep ==
    ASSUME NEW s \in Sessions, NEW c \in Calls, NEW conn, IsConn(conn), NEW d \in [Rows -> Nat],
           NEW beg \in Counts, NEW set \in Counts, c.what # "begin" => set[s] = 0,
           NEW r, Changes(s, c, set[s], conn, d, r),
           NEW set2, set2 = [set EXCEPT ![s] = 0]
    PROVE  Keeps(s, c, conn, d, beg, set, r.conn, r.disk, BegunAfter(s, c, r.ok, beg), set2)
<1>1. PICK conn2, d2, beg2 : conn2 = r.conn /\ d2 = r.disk /\ beg2 = BegunAfter(s, c, r.ok, beg)
  OBVIOUS
<1> SUFFICES Keeps(s, c, conn, d, beg, set, conn2, d2, beg2, set2)
  BY <1>1
<1>2. set[s] = 0 => set2 = set
  BY DEF Counts
<1>3. c.what # "commit" \/ ~r.ok => beg2 = beg
  BY <1>1 DEF BegunAfter
<1>4. CASE set[s] = 0 /\ conn2 = conn /\ d2 = d /\ (c.what = "commit" => ~r.ok)
  <2>1. Keeps(s, c, conn, d, beg, set, conn, d, beg, set)
    BY NothingKeeps
  <2>2. set2 = set /\ beg2 = beg
    BY <1>2, <1>3, <1>4
  <2> QED
    BY <1>4, <2>1, <2>2, Zenon
<1>5. CASE c.what = "begin" /\ set[s] = 1 /\ conn2 = Pushed(conn, s) /\ d2 = d
  BY <1>3, <1>5, BeginKeeps
<1>6. CASE c.what = "checkpoint" /\ conn2 = Pushed(conn, c.mark) /\ d2 = d
  <2>1. PICK m : m = c.mark /\ m \in Marks
    BY <1>6, CallsAre
  <2> QED
    <3>1. set2 = set /\ beg2 = beg /\ set[s] = 0
      BY <1>2, <1>3, <1>6
    <3>2. conn2 = Pushed(conn, m)
      BY <1>6, <2>1
    <3>3. Keeps(s, c, conn, d, beg, set, conn2, d, beg, set)
      BY <1>6, <2>1, <3>1, <3>2, CheckpointKeeps
    <3> QED
      BY <1>6, <3>1, <3>3, Zenon
<1>7. CASE /\ c.what = "rollback" /\ Named(conn, c.mark) # {}
           /\ conn2 = Unwound(conn, c.mark) /\ d2 = d
  <2>1. PICK m : m = c.mark
    OBVIOUS
  <2> QED
    <3>1. set2 = set /\ beg2 = beg
      BY <1>2, <1>3, <1>7
    <3>2. conn2 = Unwound(conn, m) /\ Named(conn, m) # {}
      BY <1>7, <2>1
    <3>3. Keeps(s, c, conn, d, beg, set, conn2, d, beg, set)
      BY <1>7, <2>1, <3>2, RollbackKeeps
    <3> QED
      BY <1>7, <3>1, <3>3, Zenon
<1>8. CASE /\ c.what = "commit" /\ Named(conn, s) # {} /\ r.ok
           /\ IF Latest(conn, s) = 1 THEN conn2 = Idle /\ d2 = Over(conn.writes, d)
                                     ELSE conn2 = Released(conn, s) /\ d2 = d
  <2>1. beg2 = IF beg[s] > 0 THEN [beg EXCEPT ![s] = @ - 1] ELSE beg
    BY <1>1, <1>8 DEF BegunAfter
  <2> QED
    <3>1. set2 = set /\ set[s] = 0
      BY <1>2, <1>8
    <3>2. Keeps(s, c, conn, d, beg, set, conn2, d2, beg2, set)
      BY <1>8, <2>1, <3>1, ConnectionCommitKeeps
    <3> QED
      BY <3>1, <3>2, Zenon
<1>9. CASE /\ c.what = "save"
           /\ \E rows \in SUBSET Rows, value \in 1..MaxCalls :
                  Saved(conn, d, rows, value, conn2, d2)
  <2>1. PICK rows \in SUBSET Rows, value \in 1..MaxCalls : Saved(conn, d, rows, value, conn2, d2)
    BY <1>9
  <2>2. Keeps(s, c, conn, d, beg, set, conn2, d2, beg, set)
    BY <2>1, SaveKeeps
  <2>3. set2 = set /\ beg2 = beg
    BY <1>2, <1>3, <1>9
  <2> QED
    BY <2>2, <2>3, Zenon
<1> QED
  BY <1>1, <1>4, <1>5, <1>6, <1>7, <1>8, <1>9 DEF Changes

-----------------------------------------------------------------------------
(* Lemmas on the statements of a call *)

LEMMA LeftOver ==
    ASSUME NEW s, NEW c, c.what = "begin", NEW list, list = <<LogState(TRUE)>>
    PROVE  IsLeft(s, c, list)
BY DEF IsLeft

LEMMA HeadOfLog ==
    ASSUME NEW null, NEW list, list = <<LogState(null)>>
    PROVE  Len(list) = 1 /\ Head(list) = LogState(null) /\ list # <<>>
BY SingletonIs

LEMMA HeadOfTwo ==
    ASSUME NEW n, NEW null, NEW list, list = <<Savepoint(n), LogState(null)>>
    PROVE  /\ Len(list) = 2 /\ Head(list) = Savepoint(n) /\ list # <<>>
           /\ Tail(list) = <<LogState(null)>> /\ Len(Tail(list)) = 1
BY PairIs, SingletonIs

\* The first statement left of a call, and what is left after it.
LEMMA HeadChanges ==
    ASSUME NEW s \in Sessions, NEW c \in Calls, c.what # "none",
           NEW conn, IsConn(conn), NEW d \in [Rows -> Nat],
           NEW list, IsLeft(s, c, list), NEW r, r = Sqlite(conn, d, Head(list)),
           NEW p, p = IF c.what = "begin" /\ Len(list) = 2 THEN 1 ELSE 0
    PROVE  /\ Changes(s, c, p, conn, d, r)
           /\ c.what = "commit" => Len(list) = 1
           /\ Len(list) # 1 => IsLeft(s, c, Tail(list))
           /\ c.what = "begin" /\ Len(list) # 1 => Len(Tail(list)) = 1
<1>1. CASE c.what = "begin"
  <2>1. CASE list = <<LogState(TRUE)>>
    <3>1. Len(list) = 1 /\ Head(list) = LogState(TRUE)
      BY <2>1, HeadOfLog
    <3>2. r = Done(conn, d)
      BY <3>1, LogStateIs
    <3> QED
      BY <1>1, <3>1, <3>2 DEF Changes, Done
  <2>2. CASE list = <<Savepoint(s), LogState(TRUE)>>
    <3>1. /\ Len(list) = 2 /\ Head(list) = Savepoint(s)
          /\ Tail(list) = <<LogState(TRUE)>> /\ Len(Tail(list)) = 1
      BY <2>2, HeadOfTwo
    <3>2. r = Done(Pushed(conn, s), d)
      BY <3>1, SavepointIs
    <3>3. IsLeft(s, c, Tail(list))
      BY <1>1, <3>1, LeftOver
    <3> QED
      BY <1>1, <3>1, <3>2, <3>3 DEF Changes, Done
  <2> QED
    BY <1>1, <2>1, <2>2 DEF IsLeft
<1>2. CASE c.what = "checkpoint"
  <2>1. CASE list = <<LogState(FALSE)>>
    <3>1. Len(list) = 1 /\ Head(list) = LogState(FALSE)
      BY <2>1, HeadOfLog
    <3>2. r = Done(conn, d)
      BY <3>1, LogStateIs
    <3> QED
      BY <1>2, <3>1, <3>2 DEF Changes, Done
  <2>2. CASE list = <<Savepoint(c.mark), LogState(FALSE)>>
    <3>1. /\ Len(list) = 2 /\ Head(list) = Savepoint(c.mark)
          /\ Tail(list) = <<LogState(FALSE)>>
      BY <2>2, HeadOfTwo
    <3>2. r = Done(Pushed(conn, c.mark), d)
      BY <3>1, SavepointIs
    <3>3. IsLeft(s, c, Tail(list))
      BY <1>2, <3>1 DEF IsLeft
    <3> QED
      BY <1>2, <3>1, <3>2, <3>3 DEF Changes, Done
  <2> QED
    BY <1>2, <2>1, <2>2 DEF IsLeft
<1>3. CASE c.what = "rollback"
  <2>1. Len(list) = 1 /\ Head(list) = RollbackTo(c.mark)
    <3>1. list = <<RollbackTo(c.mark)>>
      BY <1>3 DEF IsLeft
    <3> QED
      BY <3>1, SingletonIs
  <2>2. r = IF Named(conn, c.mark) = {} THEN [conn |-> conn, disk |-> d, ok |-> FALSE]
            ELSE Done(Unwound(conn, c.mark), d)
    BY <2>1, RollbackIs
  <2> QED
    BY <1>3, <2>1, <2>2 DEF Changes, Done
<1>4. CASE c.what = "commit"
  <2>1. Len(list) = 1 /\ Head(list) = Release(s)
    <3>1. list = <<Release(s)>>
      BY <1>4 DEF IsLeft
    <3> QED
      BY <3>1, SingletonIs
  <2>2. r = IF Named(conn, s) = {} THEN [conn |-> conn, disk |-> d, ok |-> FALSE]
            ELSE IF Latest(conn, s) = 1 THEN Committed(conn, d)
            ELSE Done(Released(conn, s), d)
    BY <2>1, ReleaseIs
  <2> QED
    BY <1>4, <2>1, <2>2 DEF Changes, Done, Committed
<1>5. CASE c.what = "save"
  <2>1. PICK value \in 1..MaxCalls : list # <<>> /\ list \in Seq(PutsOf(value))
    BY <1>5 DEF IsLeft
  <2>2. /\ Head(list) \in PutsOf(value) /\ Tail(list) \in Seq(PutsOf(value))
        /\ Len(Tail(list)) = Len(list) - 1 /\ Len(list) \in Nat
    BY <2>1, HeadTailProperties, LenProperties
  <2>3. PICK row \in Rows : Head(list) = Put(row, value)
    BY <2>2 DEF PutsOf
  <2>4. Saved(conn, d, {row}, value, r.conn, r.disk)
    BY <2>3, PutSaves
  <2>5. Changes(s, c, p, conn, d, r)
    BY <1>5, <2>4 DEF Changes
  <2>6. ASSUME Len(list) # 1 PROVE IsLeft(s, c, Tail(list))
    <3>1. Tail(list) # <<>>
      <4>1. PICK rest, n : rest = Tail(list) /\ n = Len(rest)
        OBVIOUS
      <4>2. n # 0
        BY <2>2, <2>6, <4>1
      <4> QED
        BY <4>1, <4>2, EmptySeq, Zenon
    <3> QED
      BY <1>5, <2>2, <3>1 DEF IsLeft
  <2> QED
    BY <1>5, <2>5, <2>6
<1> QED
  BY <1>1, <1>2, <1>3, <1>4, <1>5, CallsAre

LEMMA StatementsAre ==
    ASSUME IsSqlite, NEW s, NEW c, NEW list, list = Statements(s, c)
    PROVE  /\ c.what = "begin" => list = <<Savepoint(s), LogState(TRUE)>>
           /\ c.what = "commit" => list = <<Release(s)>>
           /\ c.what = "checkpoint" => list = <<Savepoint(c.mark), LogState(FALSE)>>
           /\ c.what = "rollback" => list = <<RollbackTo(c.mark)>>
           /\ c.what = "save" => list = Puts(c.rows, made + 1)
<1>1. list = BrowserStatements(s, c)
  BY DEF IsSqlite, Statements, EmbeddedStatements
<1> QED
  BY <1>1 DEF BrowserStatements

\* The statements of a call when it is made.
LEMMA StatementsAreLeft ==
    ASSUME IsSqlite, NEW s \in Sessions, NEW c \in Calls, made + 1 \in 1..MaxCalls,
           NEW list, list = Statements(s, c)
    PROVE  IsLeft(s, c, list) /\ (c.what = "begin" => Len(list) = 2)
<1>1. /\ c.what = "begin" => list = <<Savepoint(s), LogState(TRUE)>>
      /\ c.what = "commit" => list = <<Release(s)>>
      /\ c.what = "checkpoint" => list = <<Savepoint(c.mark), LogState(FALSE)>>
      /\ c.what = "rollback" => list = <<RollbackTo(c.mark)>>
      /\ c.what = "save" => list = Puts(c.rows, made + 1)
  BY StatementsAre
<1>2. ASSUME c.what = "save"
      PROVE  list # <<>> /\ \E value \in 1..MaxCalls : list \in Seq(PutsOf(value))
  <2>1. PICK rows, value : rows = c.rows /\ value = made + 1
    OBVIOUS
  <2>2. rows \subseteq Rows /\ IsFiniteSet(rows) /\ rows # {}
    BY <1>2, <2>1, CallsAre, SavedRowsAssumption
  <2>3. list = Puts(rows, value)
    BY <1>1, <1>2, <2>1
  <2>4. list # <<>> /\ list \in Seq(PutsOf(value))
    BY <2>2, <2>3, PutsAreSome
  <2> QED
    BY <2>1, <2>4
<1>3. c.what = "begin" => Len(list) = 2
  BY <1>1, HeadOfTwo
<1> QED
  BY <1>1, <1>2, <1>3 DEF IsLeft

\* All statements of a call of the embedded store.
LEMMA AllChanges ==
    ASSUME IsSqlite, NEW s \in Sessions, NEW c \in Calls, c.what # "none", made + 1 \in 1..MaxCalls,
           NEW conn, IsConn(conn), NEW d \in [Rows -> Nat],
           NEW r, r = ExecuteAll(conn, d, Statements(s, c)),
           NEW p, p = IF c.what = "begin" THEN 1 ELSE 0
    PROVE  Changes(s, c, p, conn, d, r)
<1>1. PICK list : list = Statements(s, c) /\ r = ExecuteAll(conn, d, list)
  OBVIOUS
<1>2. /\ c.what = "begin" => list = <<Savepoint(s), LogState(TRUE)>>
      /\ c.what = "commit" => list = <<Release(s)>>
      /\ c.what = "checkpoint" => list = <<Savepoint(c.mark), LogState(FALSE)>>
      /\ c.what = "rollback" => list = <<RollbackTo(c.mark)>>
      /\ c.what = "save" => list = Puts(c.rows, made + 1)
  BY <1>1, StatementsAre
<1>3. ASSUME NEW n, NEW null, r = ExecuteAll(conn, d, <<Savepoint(n), LogState(null)>>)
      PROVE  r = Done(Pushed(conn, n), d)
  <2>1. r = GoesOn(Execute(conn, d, Savepoint(n)), LogState(null))
    BY <1>3, TwoStatementsAre
  <2>2. PICK e : e = Execute(conn, d, Savepoint(n)) /\ e = Done(Pushed(conn, n), d)
    BY SavepointIs DEF Execute
  <2>3. e.ok = TRUE /\ e.conn = Pushed(conn, n) /\ e.disk = d
    BY <2>2 DEF Done
  <2>4. r = Sqlite(e.conn, e.disk, LogState(null))
    BY <2>1, <2>2, <2>3 DEF GoesOn, Execute
  <2> QED
    BY <2>3, <2>4, LogStateIs
<1>4. ASSUME NEW st, r = ExecuteAll(conn, d, <<st>>)
      PROVE  r = Sqlite(conn, d, st)
  BY <1>4, OneStatementIs DEF Execute
<1>5. CASE c.what = "begin"
  <2>1. r = Done(Pushed(conn, s), d)
    BY <1>1, <1>2, <1>3, <1>5
  <2> QED
    BY <1>5, <2>1 DEF Changes, Done
<1>6. CASE c.what = "checkpoint"
  <2>1. r = Done(Pushed(conn, c.mark), d)
    BY <1>1, <1>2, <1>3, <1>6
  <2> QED
    BY <1>6, <2>1 DEF Changes, Done
<1>7. CASE c.what = "rollback"
  <2>1. r = IF Named(conn, c.mark) = {} THEN [conn |-> conn, disk |-> d, ok |-> FALSE]
            ELSE Done(Unwound(conn, c.mark), d)
    BY <1>1, <1>2, <1>4, <1>7, RollbackIs
  <2> QED
    BY <1>7, <2>1 DEF Changes, Done
<1>8. CASE c.what = "commit"
  <2>1. r = IF Named(conn, s) = {} THEN [conn |-> conn, disk |-> d, ok |-> FALSE]
            ELSE IF Latest(conn, s) = 1 THEN Committed(conn, d)
            ELSE Done(Released(conn, s), d)
    BY <1>1, <1>2, <1>4, <1>8, ReleaseIs
  <2> QED
    BY <1>8, <2>1 DEF Changes, Done, Committed
<1>9. CASE c.what = "save"
  <2>1. PICK rows, value : rows = c.rows /\ value = made + 1 /\ value \in 1..MaxCalls
    OBVIOUS
  <2>2. rows \subseteq Rows /\ IsFiniteSet(rows)
    BY <1>9, <2>1, CallsAre, SavedRowsAssumption
  <2>3. r = ExecuteAll(conn, d, Puts(rows, value))
    BY <1>1, <1>2, <1>9, <2>1
  <2>4. Saved(conn, d, rows, value, r.conn, r.disk)
    BY <2>1, <2>2, <2>3, PutsSave
  <2> QED
    BY <1>9, <2>1, <2>2, <2>4 DEF Changes
<1> QED
  BY <1>5, <1>6, <1>7, <1>8, <1>9, CallsAre

-----------------------------------------------------------------------------
(* The inductive invariant on SQLite holds *)

SqliteInv ==
    /\ IsSqlite
    /\ SqliteTypes
    /\ ~stray => /\ Balance(conns[1], begun, Setting)
                 /\ \A s \in Sessions : ChecksIn(doing[s], begun[s])
    /\ turns => /\ Taken(conns[1], begun, Setting)
                /\ \A s \in Sessions : InOrder(doing[s], begun[s])

\* What a step of the store does to the transactions promised.
Follows == turns' => Moves(conns[1], disk, conns'[1], disk')

LEMMA NoCallIs ==
    /\ NoCall.what = "none" /\ NoCall \in Calls
    /\ \A n : ChecksIn(NoCall, n) /\ InOrder(NoCall, n)
    /\ \A s, list : IsLeft(s, NoCall, list)
<1>1. NoCall.what = "none" /\ NoCall \in Calls
  BY DEF NoCall, Call, Calls
<1> QED
  BY <1>1 DEF ChecksIn, InOrder, IsLeft

LEMMA MadeIs ==
    \A c \in Transactional \cup Saves :
        c \in Calls /\ c.what \in {"begin", "commit", "checkpoint", "rollback", "save"}
<1> DEFINE T1 == {Call(w, "", {}) : w \in {"begin", "commit"}}
           T2 == {Call(w, m, {}) : w \in {"checkpoint", "rollback"}, m \in Marks}
<1>1. Transactional = T1 \cup T2
  BY DEF Transactional
<1> TAKE c \in Transactional \cup Saves
<1>2. c \in Calls
  BY DEF Calls
<1>3. c.what # "none"
  <2>1. \A w, m, rows : Call(w, m, rows).what = w
    BY DEF Call
  <2>2. CASE c \in T1
    BY <2>1, <2>2
  <2>3. CASE c \in T2
    BY <2>1, <2>3
  <2>4. CASE c \in Saves
    <3>1. PICK rows \in SavedRows : c = Call("save", "", rows)
      BY <2>4 DEF Saves
    <3>2. c.what = "save"
      BY <2>1, <3>1
    <3> QED
      BY <3>2
  <2> HIDE DEF T1, T2
  <2> QED
    BY <1>1, <2>2, <2>3, <2>4
<1> QED
  BY <1>2, <1>3, CallsAre

LEMMA FreshIs ==
    ASSUME NEW beg, beg = [s \in Sessions |-> 0], NEW set, set = [s \in Sessions |-> 0]
    PROVE  /\ beg \in Counts
           /\ Balance(Idle, beg, set) /\ Taken(Idle, beg, set)
<1>1. \A s \in Sessions : beg[s] = 0 /\ set[s] = 0
  OBVIOUS
<1>2. \A s : Savepoints(Idle, s) = 0
  BY IdleIsConn, NamedIs
<1>3. Balance(Idle, beg, set)
  BY <1>1, <1>2, IdleIsConn DEF Balance
<1>4. Taken(Idle, beg, set)
  <2>1. Idle.stack = <<>> /\ Len(Idle.stack) = 0
    BY IdleIsConn, EmptySeq
  <2> QED
    BY <1>1, <2>1 DEF Taken
<1> QED
  BY <1>3, <1>4 DEF Counts

LEMMA OneIs ==
    ASSUME NEW c, NEW f, f = [i \in 1..1 |-> c]
    PROVE  f = [i \in 1..1 |-> f[1]] /\ f[1] = c
OBVIOUS

LEMMA SqliteStarts ==
    ASSUME NEW k \in {"browser", "embedded"}, StoreInit(k)
    PROVE  SqliteInv
<1>1. kind = k /\ IsSqlite /\ leaked = 0 /\ made = 0
  BY DEF StoreInit, IsSqlite
<1>2. conns = [i \in 1..1 |-> Idle]
  BY DEF StoreInit
<1>3. conns = [i \in 1..1 |-> conns[1]] /\ conns[1] = Idle
  BY <1>2, OneIs
<1>4. /\ calls = [s \in Sessions |-> <<>>] /\ doing = [s \in Sessions |-> NoCall]
      /\ begun = [s \in Sessions |-> 0] /\ disk = [r \in Rows |-> 0]
  BY DEF StoreInit, NoRow
<1>5. Setting = [s \in Sessions |-> 0]
  BY <1>4 DEF Setting, NoCall, Call
<1>6. /\ begun \in Counts
      /\ Balance(Idle, begun, Setting) /\ Taken(Idle, begun, Setting)
  BY <1>4, <1>5, FreshIs
<1>7. SqliteTypes
  <2>1. OneConnection
    BY <1>1, <1>3 DEF OneConnection
  <2>2. IsConn(conns[1])
    BY <1>3, IdleIsConn
  <2>3. calls = [s \in Sessions |-> calls[s]]
    BY <1>4
  <2>4. doing \in [Sessions -> Calls] /\ \A s \in Sessions : doing[s] = NoCall
    BY <1>4, NoCallIs
  <2> QED
    BY <1>1, <1>4, <1>6, <2>1, <2>2, <2>3, <2>4, NoCallIs DEF SqliteTypes, Counts
<1> QED
  BY <1>1, <1>3, <1>4, <1>6, <1>7, NoCallIs DEF SqliteInv

LEMMA SettingIs ==
    ASSUME SqliteTypes
    PROVE  Setting \in Counts /\ begun \in Counts
           /\ \A s \in Sessions : doing[s].what # "begin" => Setting[s] = 0
BY DEF Setting, Counts, SqliteTypes

\* A session's call is made.
LEMMA SqliteCalls ==
    ASSUME SqliteInv, NEW s \in Sessions, NEW c \in Transactional \cup Saves, CallStore(s, c)
    PROVE  SqliteInv' /\ Follows
<1> USE DEF SqliteInv
<1>1. /\ IsSqlite /\ IsSqlite' /\ kind' = kind /\ leaked' = leaked
      /\ doing[s] = NoCall /\ made + 1 \in 1..MaxCalls /\ made' = made + 1
      /\ turns' = (turns /\ InTurn(s, c)) /\ stray' = (stray \/ Strays(s, c))
  <2>1. /\ kind' = kind /\ leaked' = leaked /\ doing[s] = NoCall /\ made' = made + 1
        /\ turns' = (turns /\ InTurn(s, c)) /\ stray' = (stray \/ Strays(s, c))
    BY DEF CallStore, startVars
  <2>2. made < MaxCalls
    BY DEF CallStore
  <2>3. made + 1 \in 1..MaxCalls
    BY <2>2, MaxCallsAssumption DEF SqliteTypes
  <2> QED
    BY <2>1, <2>3 DEF IsSqlite
<1>2. PICK conn, d, beg, set : conn = conns[1] /\ d = disk /\ beg = begun /\ set = Setting
  OBVIOUS
<1>3. IsConn(conn) /\ d \in [Rows -> Nat] /\ beg \in Counts /\ set \in Counts /\ set[s] = 0
  <2>1. doing[s].what # "begin"
    BY <1>1, NoCallIs
  <2> QED
    BY <1>2, <2>1, SettingIs DEF SqliteTypes
<1>4. PICK begE, setE : begE = AfterCall(s, c, beg) /\ setE = AfterCall(s, c, set)
  OBVIOUS
<1>5. /\ begE \in Counts /\ setE \in Counts
      /\ \A t \in Sessions : begE[t] = IF t = s /\ c.what = "begin" THEN beg[t] + 1 ELSE beg[t]
      /\ \A t \in Sessions : setE[t] = IF t = s /\ c.what = "begin" THEN 1 ELSE set[t]
  BY <1>3, <1>4 DEF AfterCall, Counts
<1>6. c \in Calls /\ c.what # "none"
  BY MadeIs
<1>7. ASSUME ~stray'
      PROVE  /\ Balance(conn, begE, setE) /\ ChecksIn(c, begE[s])
             /\ \A t \in Sessions : ChecksIn(doing[t], begun[t])
  <2>1. ~stray /\ ~Strays(s, c)
    BY <1>1, <1>7
  <2>2. Balance(conn, begE, setE)
    BY <1>2, <1>3, <1>4, <2>1, BalanceCalled
  <2>3. ChecksIn(c, begE[s])
    BY <1>2, <1>3, <1>5, <2>1 DEF ChecksIn, Strays, Counts
  <2> QED
    BY <2>1, <2>2, <2>3
<1>8. ASSUME turns'
      PROVE  /\ Taken(conn, begE, setE) /\ InOrder(c, begE[s])
             /\ \A t \in Sessions : InOrder(doing[t], begun[t])
  <2>1. turns /\ InTurn(s, c)
    BY <1>1, <1>8
  <2>2. \A t \in Sessions \ {s} : beg[t] = 0
    BY <1>2, <2>1 DEF InTurn, Alone
  <2>3. c.what = "save" \/ (beg[s] = 0 <=> c.what = "begin")
    BY <1>2, <2>1 DEF InTurn
  <2>4. Taken(conn, begE, setE)
    BY <1>2, <1>3, <1>4, <2>1, <2>2, <2>3, TakenCalled
  <2>5. InOrder(c, begE[s])
    BY <1>3, <1>5, <1>6, <2>1, <2>3 DEF InTurn, InOrder, Counts
  <2> QED
    BY <2>1, <2>4, <2>5
<1>9. CASE kind = "embedded"
  <2>1. PICK r : r = ExecuteAll(conn, d, Statements(s, c))
    OBVIOUS
  <2>2. /\ conns' = <<r.conn>> /\ disk' = r.disk /\ calls' = calls /\ doing' = doing
        /\ begun' = IF c.what = "begin" THEN begE ELSE Counted(s, c, r.ok)
    BY <1>2, <1>4, <1>9, <2>1 DEF CallStore, AfterCall
  <2>3. begun' = BegunAfter(s, c, r.ok, begE)
    BY <1>2, <1>4, <2>2 DEF BegunAfter, Counted, AfterCall
  <2>4. Changes(s, c, setE[s], conn, d, r)
    <3>1. PICK p : p = IF c.what = "begin" THEN 1 ELSE 0
      OBVIOUS
    <3>2. Changes(s, c, p, conn, d, r)
      BY <1>1, <1>3, <1>6, <2>1, <3>1, AllChanges
    <3>3. p = setE[s]
      BY <1>3, <1>5, <3>1
    <3> QED
      BY <3>2, <3>3, Zenon
  <2>5. PICK set2 : set2 = [setE EXCEPT ![s] = 0]
    OBVIOUS
  <2>6. Keeps(s, c, conn, d, begE, setE, r.conn, r.disk, BegunAfter(s, c, r.ok, begE), set2)
    <3>1. c.what # "begin" => setE[s] = 0
      BY <1>3, <1>5
    <3> QED
      BY <1>3, <1>5, <1>6, <2>4, <2>5, <3>1, ChangesKeep
  <2>7. Setting' = set2
    <3>1. Setting' = Setting
      BY <2>2 DEF Setting
    <3>2. set2 = set
      BY <1>3, <1>5, <2>5 DEF Counts
    <3> QED
      BY <1>2, <3>1, <3>2
  <2>8. OneConnection' /\ conns'[1] = r.conn
    <3>1. conns' = [i \in 1..1 |-> r.conn]
      BY <2>2
    <3> QED
      BY <1>1, <3>1, OneIs DEF OneConnection, SqliteTypes
  <2>9. begun' \in Counts
    BY <1>5, <2>3 DEF BegunAfter, Counts
  <2>10. SqliteTypes'
    <3>1. IsConn(conns'[1]) /\ disk' \in [Rows -> Nat]
      BY <2>2, <2>6, <2>8 DEF Keeps
    <3>2. made' \in Nat
      BY <1>1
    <3> QED
      BY <1>1, <2>2, <2>8, <2>9, <3>1, <3>2 DEF SqliteTypes, Counts
  <2>11. ASSUME ~stray'
         PROVE  Balance(conns'[1], begun', Setting')
                /\ \A t \in Sessions : ChecksIn(doing'[t], begun'[t])
    <3>1. Balance(conns'[1], begun', Setting')
      BY <1>7, <2>3, <2>6, <2>7, <2>8, <2>11 DEF Keeps
    <3>2. \A t \in Sessions : doing'[t] = NoCall
      BY <1>9, <2>2 DEF SqliteTypes
    <3> QED
      BY <3>1, <3>2, NoCallIs
  <2>12. ASSUME turns'
         PROVE  /\ Taken(conns'[1], begun', Setting')
                /\ \A t \in Sessions : InOrder(doing'[t], begun'[t])
                /\ Moves(conns[1], disk, conns'[1], disk')
    <3>1. Taken(r.conn, BegunAfter(s, c, r.ok, begE), set2) /\ Moves(conn, d, r.conn, r.disk)
      BY <1>8, <2>6, <2>12 DEF Keeps
    <3>2. Taken(conns'[1], begun', Setting') /\ Moves(conns[1], disk, conns'[1], disk')
      BY <1>2, <2>2, <2>3, <2>7, <2>8, <3>1
    <3>3. \A t \in Sessions : doing'[t] = NoCall
      BY <1>9, <2>2 DEF SqliteTypes
    <3> QED
      BY <3>2, <3>3, NoCallIs
  <2> QED
    BY <1>1, <2>10, <2>11, <2>12 DEF Follows
<1>10. CASE kind # "embedded"
  <2>1. PICK list : list = Statements(s, c)
    OBVIOUS
  <2>2. /\ conns' = conns /\ disk' = disk /\ begun' = begE
        /\ calls' = [calls EXCEPT ![s] = list] /\ doing' = [doing EXCEPT ![s] = c]
    BY <1>2, <1>4, <1>10, <2>1 DEF CallStore, AfterCall
  <2>3. IsLeft(s, c, list) /\ (c.what = "begin" => Len(list) = 2)
    BY <1>1, <1>6, <2>1, StatementsAreLeft
  <2>4. \A t \in Sessions : /\ doing'[t] = IF t = s THEN c ELSE doing[t]
                            /\ calls'[t] = IF t = s THEN list ELSE calls[t]
    BY <2>2 DEF SqliteTypes
  <2>5. calls' = [t \in Sessions |-> calls'[t]] /\ doing' \in [Sessions -> Calls]
    BY <1>6, <2>2 DEF SqliteTypes
  <2>6. Setting' = setE
    <3>1. \A t \in Sessions : Setting'[t] = setE[t]
      <4>1. ASSUME NEW t \in Sessions
            PROVE  Setting'[t] = IF doing'[t].what = "begin" /\ Len(calls'[t]) = 2 THEN 1 ELSE 0
        BY DEF Setting
      <4>2. ASSUME NEW t \in Sessions, t # s PROVE Setting'[t] = setE[t]
        BY <1>2, <1>5, <2>4, <4>1, <4>2 DEF Setting
      <4>3. Setting'[s] = setE[s]
        BY <1>3, <1>5, <2>3, <2>4, <4>1
      <4> QED
        BY <4>2, <4>3
    <3>2. setE = [t \in Sessions |-> setE[t]]
      BY <1>5 DEF Counts
    <3>3. Setting' = [t \in Sessions |-> Setting'[t]]
      BY DEF Setting
    <3> QED
      BY <3>1, <3>2, <3>3
  <2>7. SqliteTypes'
    <3>1. \A t \in Sessions : IsLeft(t, doing'[t], calls'[t])
      BY <2>3, <2>4 DEF SqliteTypes
    <3>2. OneConnection' /\ IsConn(conns'[1]) /\ disk' \in [Rows -> Nat]
      BY <1>1, <2>2 DEF SqliteTypes, OneConnection
    <3>3. made' \in Nat /\ kind' # "embedded" /\ begun' \in Counts
      BY <1>1, <1>5, <1>10, <2>2
    <3> QED
      BY <2>5, <3>1, <3>2, <3>3 DEF SqliteTypes, Counts
  <2>8. \A t \in Sessions : t # s => begun'[t] = begun[t]
    BY <1>2, <1>5, <2>2
  <2>9. ASSUME ~stray'
        PROVE  Balance(conns'[1], begun', Setting')
               /\ \A t \in Sessions : ChecksIn(doing'[t], begun'[t])
    BY <1>2, <1>7, <2>2, <2>4, <2>6, <2>8, <2>9
  <2>10. ASSUME turns'
         PROVE  Taken(conns'[1], begun', Setting')
                /\ \A t \in Sessions : InOrder(doing'[t], begun'[t])
    BY <1>2, <1>8, <2>2, <2>4, <2>6, <2>8, <2>10
  <2>11. Moves(conns[1], disk, conns'[1], disk')
    BY <2>2 DEF Moves
  <2> QED
    BY <1>1, <2>7, <2>9, <2>10, <2>11 DEF Follows
<1> QED
  BY <1>9, <1>10

LEMMA OnePut ==
    ASSUME NEW a, NEW b, NEW f, f = [i \in 1..1 |-> a], NEW g, g = [f EXCEPT ![1] = b]
    PROVE  g = [i \in 1..1 |-> b]
<1>1. DOMAIN f = 1..1 /\ \A i \in 1..1 : i = 1
  OBVIOUS
<1>2. \A i \in 1..1 : g[i] = b
  BY <1>1
<1>3. g = [i \in DOMAIN f |-> g[i]]
  OBVIOUS
<1> QED
  BY <1>1, <1>2, <1>3

LEMMA ConnPut ==
    ASSUME OneConnection, NEW b, conns' = [conns EXCEPT ![1] = b]
    PROVE  conns' = [i \in 1..1 |-> b]
<1>1. PICK f, g, a : f = conns /\ g = conns' /\ a = conns[1]
  OBVIOUS
<1>2. f = [i \in 1..1 |-> a] /\ g = [f EXCEPT ![1] = b]
  BY <1>1 DEF OneConnection
<1>3. g = [i \in 1..1 |-> b]
  BY <1>2, OnePut
<1> QED
  BY <1>1, <1>3

\* A statement of a call that runs.
LEMMA SqliteRuns ==
    ASSUME SqliteInv, NEW s \in Sessions, RunStatement(s)
    PROVE  SqliteInv' /\ Follows
<1> USE DEF SqliteInv
<1>1. PICK i \in Usable :
        LET r    == Execute(conns[i], disk, Head(calls[s]))
            over == ~r.ok \/ Len(calls[s]) = 1
        IN  /\ conns' = [conns EXCEPT ![i] = r.conn]
            /\ disk' = r.disk
            /\ calls' = [calls EXCEPT ![s] = IF over THEN <<>> ELSE Tail(@)]
            /\ doing' = [doing EXCEPT ![s] = IF over THEN NoCall ELSE @]
            /\ begun' = IF over THEN Counted(s, doing[s], r.ok) ELSE begun
  BY DEF RunStatement
<1>2. /\ IsSqlite' /\ kind' = kind /\ leaked' = leaked /\ made' = made
      /\ turns' = turns /\ stray' = stray /\ doing[s] # NoCall
  BY DEF RunStatement, startVars, IsSqlite
<1>3. i = 1
  <2>1. Usable = 1..1
    BY OneConnectionIs DEF SqliteTypes
  <2> QED
    BY <2>1
<1>4. PICK conn, d, beg, set, c, list :
        /\ conn = conns[1] /\ d = disk /\ beg = begun /\ set = Setting
        /\ c = doing[s] /\ list = calls[s]
  OBVIOUS
<1>5. /\ IsConn(conn) /\ d \in [Rows -> Nat] /\ beg \in Counts /\ set \in Counts
      /\ c \in Calls /\ c.what # "none" /\ IsLeft(s, c, list)
      /\ c.what # "begin" => set[s] = 0
  BY <1>2, <1>4, SettingIs, CallsAre DEF SqliteTypes
<1>6. PICK r : r = Sqlite(conn, d, Head(list))
  OBVIOUS
<1>7. PICK over \in BOOLEAN : over <=> ~r.ok \/ Len(list) = 1
  OBVIOUS
<1>8. /\ conns' = [conns EXCEPT ![1] = r.conn] /\ disk' = r.disk
      /\ calls' = [calls EXCEPT ![s] = IF over THEN <<>> ELSE Tail(list)]
      /\ doing' = [doing EXCEPT ![s] = IF over THEN NoCall ELSE c]
      /\ begun' = IF over THEN Counted(s, c, r.ok) ELSE begun
  BY <1>1, <1>3, <1>4, <1>6, <1>7 DEF Execute
<1>9. PICK p : p = IF c.what = "begin" /\ Len(list) = 2 THEN 1 ELSE 0
  OBVIOUS
<1>10. /\ Changes(s, c, p, conn, d, r)
       /\ c.what = "commit" => Len(list) = 1
       /\ Len(list) # 1 => IsLeft(s, c, Tail(list))
       /\ c.what = "begin" /\ Len(list) # 1 => Len(Tail(list)) = 1
  BY <1>5, <1>6, <1>9, HeadChanges
<1>11. p = set[s]
  BY <1>4, <1>9 DEF Setting
<1>12. PICK set2 : set2 = [set EXCEPT ![s] = 0]
  OBVIOUS
<1>13. Keeps(s, c, conn, d, beg, set, r.conn, r.disk, BegunAfter(s, c, r.ok, beg), set2)
  <2>1. Changes(s, c, set[s], conn, d, r)
    BY <1>10, <1>11, Zenon
  <2> QED
    BY <1>5, <1>12, <2>1, ChangesKeep
<1>14. begun' = BegunAfter(s, c, r.ok, beg)
  BY <1>4, <1>7, <1>8, <1>10 DEF Counted, BegunAfter
<1>15. \A t \in Sessions : /\ doing'[t] = IF t = s THEN IF over THEN NoCall ELSE c ELSE doing[t]
                           /\ calls'[t] = IF t = s THEN IF over THEN <<>> ELSE Tail(list)
                                                   ELSE calls[t]
  BY <1>8 DEF SqliteTypes
<1>16. calls' = [t \in Sessions |-> calls'[t]] /\ doing' \in [Sessions -> Calls]
  BY <1>5, <1>8, NoCallIs DEF SqliteTypes
<1>17. Setting' = set2
  <2>1. ASSUME NEW t \in Sessions
        PROVE  Setting'[t] = IF doing'[t].what = "begin" /\ Len(calls'[t]) = 2 THEN 1 ELSE 0
    BY DEF Setting
  <2>2. ASSUME NEW t \in Sessions, t # s PROVE Setting'[t] = set2[t]
    <3>1. Setting'[t] = Setting[t]
      BY <1>15, <2>1, <2>2 DEF Setting
    <3> QED
      BY <1>4, <1>5, <1>12, <2>2, <3>1 DEF Counts
  <2>3. Setting'[s] = 0
    <3>1. CASE over
      BY <1>15, <2>1, <3>1, NoCallIs
    <3>2. CASE ~over
      <4>1. Len(list) # 1
        BY <1>7, <3>2
      <4>2. c.what = "begin" => Len(calls'[s]) = 1
        BY <1>10, <1>15, <3>2, <4>1
      <4> QED
        BY <1>15, <2>1, <3>2, <4>2
    <3> QED
      BY <3>1, <3>2
  <2>4. set2 = [t \in Sessions |-> set2[t]] /\ set2[s] = 0
    BY <1>5, <1>12 DEF Counts
  <2>5. Setting' = [t \in Sessions |-> Setting'[t]]
    BY DEF Setting
  <2> QED
    BY <2>2, <2>3, <2>4, <2>5
<1>18. OneConnection' /\ conns'[1] = r.conn
  <2>1. conns' = [j \in 1..1 |-> r.conn]
    BY <1>8, ConnPut DEF SqliteTypes
  <2> QED
    BY <1>2, <2>1, OneIs DEF OneConnection, SqliteTypes
<1>19. begun' \in Counts /\ \A t \in Sessions : t # s \/ ~over => begun'[t] = begun[t]
  BY <1>4, <1>5, <1>8, <1>14 DEF BegunAfter, Counts
<1>20. SqliteTypes'
  <2>1. \A t \in Sessions : IsLeft(t, doing'[t], calls'[t])
    <3>1. ASSUME NEW t \in Sessions, t # s PROVE IsLeft(t, doing'[t], calls'[t])
      BY <1>15, <3>1 DEF SqliteTypes
    <3>2. IsLeft(s, doing'[s], calls'[s])
      <4>1. CASE over
        BY <1>15, <4>1, NoCallIs
      <4>2. CASE ~over
        BY <1>7, <1>10, <1>15, <4>2
      <4> QED
        BY <4>1, <4>2
    <3> QED
      BY <3>1, <3>2
  <2>2. IsConn(conns'[1]) /\ disk' \in [Rows -> Nat]
    BY <1>8, <1>13, <1>18 DEF Keeps
  <2>3. kind' # "embedded"
    BY <1>2 DEF SqliteTypes
  <2>4. made' \in Nat
    BY <1>2 DEF SqliteTypes
  <2> QED
    BY <1>16, <1>18, <1>19, <2>1, <2>2, <2>3, <2>4 DEF SqliteTypes, Counts
<1>21. ASSUME ~stray'
       PROVE  Balance(conns'[1], begun', Setting')
              /\ \A t \in Sessions : ChecksIn(doing'[t], begun'[t])
  <2>1. /\ Balance(conn, beg, set) /\ ChecksIn(c, beg[s])
        /\ \A t \in Sessions : ChecksIn(doing[t], begun[t])
    BY <1>2, <1>4, <1>21
  <2>2. Balance(conns'[1], begun', Setting')
    BY <1>13, <1>14, <1>17, <1>18, <2>1 DEF Keeps
  <2>3. \A t \in Sessions : ChecksIn(doing'[t], begun'[t])
    BY <1>4, <1>15, <1>19, <2>1, NoCallIs
  <2> QED
    BY <2>2, <2>3
<1>22. ASSUME turns'
       PROVE  /\ Taken(conns'[1], begun', Setting')
              /\ \A t \in Sessions : InOrder(doing'[t], begun'[t])
              /\ Moves(conns[1], disk, conns'[1], disk')
  <2>1. /\ Taken(conn, beg, set) /\ InOrder(c, beg[s])
        /\ \A t \in Sessions : InOrder(doing[t], begun[t])
    BY <1>2, <1>4, <1>22
  <2>2. Taken(conns'[1], begun', Setting') /\ Moves(conns[1], disk, conns'[1], disk')
    <3>1. Taken(r.conn, BegunAfter(s, c, r.ok, beg), set2) /\ Moves(conn, d, r.conn, r.disk)
      BY <1>13, <2>1 DEF Keeps
    <3> QED
      BY <1>4, <1>8, <1>14, <1>17, <1>18, <3>1
  <2>3. \A t \in Sessions : InOrder(doing'[t], begun'[t])
    BY <1>4, <1>15, <1>19, <2>1, NoCallIs
  <2> QED
    BY <2>2, <2>3
<1> QED
  BY <1>2, <1>20, <1>21, <1>22 DEF Follows

LEMMA SqliteRestarts ==
    ASSUME SqliteInv, Restart
    PROVE  SqliteInv' /\ Follows
<1> USE DEF SqliteInv
<1>1. /\ IsSqlite' /\ kind' = kind /\ leaked' = 0 /\ made' = made
      /\ turns' = turns /\ disk' = disk
      /\ calls' = [t \in Sessions |-> <<>>] /\ doing' = [t \in Sessions |-> NoCall]
      /\ begun' = [t \in Sessions |-> 0]
  BY DEF Restart, IsSqlite
<1>2. conns' = [i \in 1..1 |-> Idle]
  <2>1. DOMAIN conns = 1..1
    BY OneConnectionIs DEF SqliteTypes
  <2> QED
    BY <2>1 DEF Restart
<1>3. conns' = [i \in 1..1 |-> conns'[1]] /\ conns'[1] = Idle
  BY <1>2, OneIs
<1>4. Setting' = [t \in Sessions |-> 0]
  BY <1>1, NoCallIs DEF Setting
<1>5. begun' \in Counts /\ Balance(Idle, begun', Setting') /\ Taken(Idle, begun', Setting')
  BY <1>1, <1>4, FreshIs
<1>6. SqliteTypes'
  <2>1. OneConnection' /\ IsConn(conns'[1])
    BY <1>1, <1>3, IdleIsConn DEF OneConnection
  <2>2. calls' = [t \in Sessions |-> calls'[t]]
    BY <1>1
  <2>3. doing' \in [Sessions -> Calls] /\ \A t \in Sessions : doing'[t] = NoCall
    BY <1>1, NoCallIs
  <2> QED
    BY <1>1, <1>5, <2>1, <2>2, <2>3, NoCallIs DEF SqliteTypes, Counts
<1>7. Moves(conns[1], disk, conns'[1], disk')
  <2>1. disk \in [Rows -> Nat]
    BY DEF SqliteTypes
  <2>2. PICK d : d = disk
    OBVIOUS
  <2>3. Over(Idle.writes, d) = d /\ Marked(Idle, d) = <<>> /\ Idle.stack = <<>>
    BY <2>1, <2>2, IdleIsConn, NotOpenIs
  <2>4. \A conn : Moves(conn, d, Idle, d)
    BY <2>3 DEF Moves
  <2> QED
    BY <1>1, <1>3, <2>2, <2>4
<1> QED
  BY <1>1, <1>3, <1>5, <1>6, <1>7, NoCallIs DEF Follows

LEMMA SqliteSteps ==
    SqliteInv /\ [StoreNext]_storeVars => SqliteInv' /\ Follows
<1> SUFFICES ASSUME SqliteInv, [StoreNext]_storeVars PROVE SqliteInv' /\ Follows
  OBVIOUS
<1>1. ASSUME UNCHANGED <<kind, disk, conns, leaked, useVars>> PROVE SqliteInv' /\ Follows
  <2>1. /\ kind' = kind /\ disk' = disk /\ conns' = conns /\ leaked' = leaked /\ calls' = calls
        /\ doing' = doing /\ made' = made /\ begun' = begun /\ turns' = turns /\ stray' = stray
    BY <1>1 DEF useVars
  <2>2. SqliteTypes' /\ IsSqlite' /\ Setting' = Setting
    BY <2>1 DEF SqliteInv, SqliteTypes, OneConnection, IsSqlite, Setting
  <2>3. Moves(conns[1], disk, conns'[1], disk')
    BY <2>1 DEF Moves
  <2> QED
    BY <2>1, <2>2, <2>3 DEF SqliteInv, Follows
<1>2. CASE Connect \/ CreateTables \/ InitFails \/ Backoff \/ UNCHANGED storeVars
  <2>1. kind # "pool"
    BY DEF SqliteInv, IsSqlite
  <2> QED
    BY <1>1, <1>2, <2>1 DEF Connect, CreateTables, InitFails, Backoff, storeVars, useVars
<1>3. ASSUME NEW s \in Sessions, NEW c \in Transactional \cup Saves, CallStore(s, c)
      PROVE  SqliteInv' /\ Follows
  BY <1>3, SqliteCalls
<1>4. ASSUME NEW s \in Sessions, RunStatement(s) PROVE SqliteInv' /\ Follows
  BY <1>4, SqliteRuns
<1>5. CASE Restart
  BY <1>5, SqliteRestarts
<1> QED
  BY <1>2, <1>3, <1>4, <1>5 DEF StoreNext

LEMMA SqliteIsDurable == SqliteInv => CommittedIsDurable
<1> SUFFICES ASSUME SqliteInv, ~stray, \A s \in Sessions : begun[s] = 0 /\ doing[s] = NoCall
             PROVE  \A i \in DOMAIN conns : conns[i] = Idle
  BY DEF CommittedIsDurable
<1>1. PICK conn : conn = conns[1] /\ IsConn(conn)
  BY DEF SqliteInv, SqliteTypes
<1>2. \A s \in Sessions : Savepoints(conn, s) \in Nat /\ Setting[s] = 0
  BY <1>1, NamedIs, NoCallIs DEF Setting
<1>3. Balance(conn, begun, Setting)
  BY <1>1 DEF SqliteInv
<1>4. \A s \in Sessions : Savepoints(conn, s) = 0
  BY <1>2, <1>3 DEF Balance
<1>5. conn.stack = <<>>
  <2>1. SUFFICES ASSUME conn.stack # <<>> PROVE FALSE
    OBVIOUS
  <2>2. 1 \in Named(conn, conn.stack[1].name)
    BY <1>1, <2>1, FirstIs
  <2>3. conn.stack[1].name \notin Sessions
    <3>1. \A s \in Sessions : Named(conn, s) = {}
      BY <1>1, <1>4, NamedIs
    <3> QED
      BY <2>2, <3>1
  <2>4. \E s \in Sessions : Savepoints(conn, s) + Setting[s] < begun[s]
    BY <1>3, <2>1, <2>3 DEF Balance
  <2> QED
    BY <1>2, <2>4
<1>6. conn = Idle
  BY <1>1, <1>5 DEF IsConn
<1>7. DOMAIN conns = 1..1
  BY OneConnectionIs DEF SqliteInv, SqliteTypes
<1>8. \A i \in DOMAIN conns : i = 1
  BY <1>7
<1> QED
  BY <1>1, <1>6, <1>8, Zenon

-----------------------------------------------------------------------------
(* One connection of PostgreSQL *)

\* What is left of a call of the remote store.
RemoteLeft(s, c, list) ==
    /\ c.what = "begin" =>
           list \in {<<BeginTx, Savepoint(s), LogState(TRUE)>>, <<Savepoint(s), LogState(TRUE)>>,
                     <<LogState(TRUE)>>}
    /\ c.what = "commit" => list \in {<<Release(s), CommitTx>>, <<CommitTx>>}
    /\ c.what = "checkpoint" =>
           list \in {<<Savepoint(c.mark), LogState(FALSE)>>, <<LogState(FALSE)>>}
    /\ c.what = "rollback" => list = <<RollbackTo(c.mark)>>
    /\ c.what = "save" => list # <<>> /\ \E value : list \in Seq(PutsOf(value))

\* A begin alone opens a transaction, and is counted before it does; a commit is
\* counted when it has closed the transaction.
ClientInv ==
    /\ kind = "client"
    /\ OneConnection
    /\ begun \in Counts
    /\ calls = [s \in Sessions |-> calls[s]]
    /\ doing \in [Sessions -> Calls]
    /\ \A s \in Sessions : RemoteLeft(s, doing[s], calls[s])
    /\ \A s \in Sessions : doing[s].what = "begin" => begun[s] > 0
    /\ conns[1] # Idle => \E s \in Sessions : begun[s] > 0

LEMMA NoneIsLeft == \A s, list : RemoteLeft(s, NoCall, list)
BY NoCallIs DEF RemoteLeft

LEMMA FailedIdleIs ==
    ASSUME NEW d
    PROVE  Failed(Idle, d).conn = Idle
<1>1. Idle.tx = "idle"
  BY DEF Idle
<1>2. [Idle EXCEPT !.tx = "idle"] = Idle
  BY DEF Idle
<1> QED
  BY <1>1, <1>2 DEF Failed

LEMMA IdleStays ==
    ASSUME NEW d, NEW st, st.op # "begin", NEW r, r = Postgres(Idle, d, st)
    PROVE  r.conn = Idle
<1>1. Idle.tx = "idle"
  BY DEF Idle
<1>2. Failed(Idle, d).conn = Idle
  BY FailedIdleIs
<1>3. \A d2 : Done(Idle, d2).conn = Idle
  BY DEF Done
<1>4. CASE st.op = "commit"
  <2>1. r = Committed(Idle, d)
    BY <1>1, <1>4 DEF Postgres
  <2> QED
    BY <1>3, <2>1 DEF Committed
<1>5. CASE st.op = "put"
  <2>1. r = Written(Idle, d, st)
    BY <1>1, <1>5 DEF Postgres
  <2> QED
    BY <1>1, <1>3, <2>1 DEF Written
<1>6. CASE st.op = "log state"
  <2>1. r = Failed(Idle, d) \/ r = Done(Idle, d)
    BY <1>1, <1>6 DEF Postgres
  <2> QED
    BY <1>2, <1>3, <2>1
<1>7. CASE st.op \notin {"commit", "put", "log state"}
  <2>1. r = Failed(Idle, d)
    BY <1>1, <1>7 DEF Postgres
  <2> QED
    BY <1>2, <2>1
<1> QED
  BY <1>4, <1>5, <1>6, <1>7

LEMMA CommitIsIdle ==
    ASSUME NEW conn, NEW d, NEW r, r = Postgres(conn, d, CommitTx)
    PROVE  r.conn = Idle
<1>1. r = Done(Idle, d) \/ r = Committed(conn, d)
  BY DEF Postgres, CommitTx
<1> QED
  BY <1>1 DEF Done, Committed

LEMMA TripleIs ==
    ASSUME NEW a, NEW b, NEW c
    PROVE  /\ Len(<<a, b, c>>) = 3 /\ Head(<<a, b, c>>) = a /\ Tail(<<a, b, c>>) = <<b, c>>
           /\ <<a, b, c>> # <<>>
OBVIOUS

\* The next statement of a remote call, and what is left after it.
LEMMA RemoteHead ==
    ASSUME NEW s, NEW c \in Calls, c.what # "none", NEW list, RemoteLeft(s, c, list)
    PROVE  /\ c.what # "begin" => Head(list).op # "begin"
           /\ c.what = "commit" /\ Len(list) = 1 => Head(list) = CommitTx
           /\ Len(list) # 1 => RemoteLeft(s, c, Tail(list))
<1>0. /\ \A n : Savepoint(n).op # "begin" /\ RollbackTo(n).op # "begin"
      /\ LogState(FALSE).op # "begin"
  BY DEF Savepoint, RollbackTo, LogState
<1>1. CASE c.what = "begin"
  <2>1. CASE list = <<BeginTx, Savepoint(s), LogState(TRUE)>>
    <3>1. Tail(list) = <<Savepoint(s), LogState(TRUE)>>
      BY <2>1, TripleIs
    <3> QED
      BY <1>1, <3>1 DEF RemoteLeft
  <2>2. CASE list = <<Savepoint(s), LogState(TRUE)>>
    <3>1. Tail(list) = <<LogState(TRUE)>>
      BY <2>2, HeadOfTwo
    <3> QED
      BY <1>1, <3>1 DEF RemoteLeft
  <2>3. CASE list = <<LogState(TRUE)>>
    <3>1. Len(list) = 1
      BY <2>3, HeadOfLog
    <3> QED
      BY <1>1, <3>1
  <2> QED
    BY <1>1, <2>1, <2>2, <2>3 DEF RemoteLeft
<1>2. CASE c.what = "commit"
  <2>1. CASE list = <<Release(s), CommitTx>>
    <3>1. Len(list) = 2 /\ Head(list) = Release(s) /\ Tail(list) = <<CommitTx>>
      BY <2>1, PairIs
    <3> QED
      BY <1>2, <3>1 DEF RemoteLeft, Release
  <2>2. CASE list = <<CommitTx>>
    <3>1. Len(list) = 1 /\ Head(list) = CommitTx
      BY <2>2, SingletonIs
    <3> QED
      BY <1>2, <3>1 DEF CommitTx
  <2> QED
    BY <1>2, <2>1, <2>2 DEF RemoteLeft
<1>3. CASE c.what = "checkpoint"
  <2>1. CASE list = <<Savepoint(c.mark), LogState(FALSE)>>
    <3>1. Head(list) = Savepoint(c.mark) /\ Tail(list) = <<LogState(FALSE)>>
      BY <2>1, HeadOfTwo
    <3> QED
      BY <1>0, <1>3, <3>1 DEF RemoteLeft
  <2>2. CASE list = <<LogState(FALSE)>>
    <3>1. Len(list) = 1 /\ Head(list) = LogState(FALSE)
      BY <2>2, HeadOfLog
    <3> QED
      BY <1>0, <1>3, <3>1
  <2> QED
    BY <1>3, <2>1, <2>2 DEF RemoteLeft
<1>4. CASE c.what = "rollback"
  <2>1. Len(list) = 1 /\ Head(list) = RollbackTo(c.mark)
    <3>1. list = <<RollbackTo(c.mark)>>
      BY <1>4 DEF RemoteLeft
    <3> QED
      BY <3>1, SingletonIs
  <2> QED
    BY <1>0, <1>4, <2>1
<1>5. CASE c.what = "save"
  <2>1. PICK value : list # <<>> /\ list \in Seq(PutsOf(value))
    BY <1>5 DEF RemoteLeft
  <2>2. /\ Head(list) \in PutsOf(value) /\ Tail(list) \in Seq(PutsOf(value))
        /\ Len(Tail(list)) = Len(list) - 1 /\ Len(list) \in Nat
    BY <2>1, HeadTailProperties, LenProperties
  <2>3. Head(list).op = "put"
    BY <2>2 DEF PutsOf, Put
  <2>4. ASSUME Len(list) # 1 PROVE RemoteLeft(s, c, Tail(list))
    <3>1. Tail(list) # <<>>
      <4>1. PICK rest, n : rest = Tail(list) /\ n = Len(rest)
        OBVIOUS
      <4>2. n # 0
        BY <2>2, <2>4, <4>1
      <4> QED
        BY <4>1, <4>2, EmptySeq, Zenon
    <3> QED
      BY <1>5, <2>2, <3>1 DEF RemoteLeft
  <2> QED
    BY <1>5, <2>3, <2>4
<1> QED
  BY <1>1, <1>2, <1>3, <1>4, <1>5, CallsAre

LEMMA RemoteStatementsAreLeft ==
    ASSUME kind = "client", NEW s, NEW c \in Calls, NEW list, list = Statements(s, c)
    PROVE  RemoteLeft(s, c, list)
<1>1. list = RemoteStatements(s, c)
  BY DEF Statements
<1>2. /\ c.what = "begin" => list = <<BeginTx, Savepoint(s), LogState(TRUE)>>
      /\ c.what = "commit" => list = <<Release(s), CommitTx>>
      /\ c.what = "checkpoint" => list = <<Savepoint(c.mark), LogState(FALSE)>>
      /\ c.what = "rollback" => list = <<RollbackTo(c.mark)>>
      /\ c.what = "save" => list = Puts(c.rows, made + 1)
  BY <1>1 DEF RemoteStatements
<1>3. ASSUME c.what = "save" PROVE list # <<>> /\ \E value : list \in Seq(PutsOf(value))
  <2>1. PICK rows, value : rows = c.rows /\ value = made + 1
    OBVIOUS
  <2>2. rows \subseteq Rows /\ IsFiniteSet(rows) /\ rows # {}
    BY <1>3, <2>1, CallsAre, SavedRowsAssumption
  <2>3. list = Puts(rows, value)
    BY <1>2, <1>3, <2>1
  <2>4. list # <<>> /\ list \in Seq(PutsOf(value))
    BY <2>2, <2>3, PutsAreSome
  <2> QED
    BY <2>4
<1> QED
  BY <1>2, <1>3 DEF RemoteLeft

LEMMA ClientSteps ==
    ClientInv /\ [StoreNext]_storeVars => ClientInv'
<1> SUFFICES ASSUME ClientInv, [StoreNext]_storeVars PROVE ClientInv'
  OBVIOUS
<1> USE DEF ClientInv
<1>1. ASSUME UNCHANGED <<kind, conns, leaked, calls, doing, begun>> PROVE ClientInv'
  BY <1>1 DEF OneConnection
<1>2. CASE Connect \/ CreateTables \/ InitFails \/ Backoff \/ UNCHANGED storeVars
  BY <1>1, <1>2 DEF Connect, CreateTables, InitFails, Backoff, storeVars, useVars
<1>3. ASSUME NEW s \in Sessions, NEW c \in Transactional \cup Saves, CallStore(s, c)
      PROVE  ClientInv'
  <2>1. c \in Calls /\ c.what # "none"
    BY MadeIs
  <2>2. PICK list : list = Statements(s, c) /\ RemoteLeft(s, c, list)
    BY <2>1, RemoteStatementsAreLeft
  <2>3. /\ kind' = kind /\ leaked' = leaked /\ conns' = conns
        /\ calls' = [calls EXCEPT ![s] = list] /\ doing' = [doing EXCEPT ![s] = c]
        /\ begun' = IF c.what = "begin" THEN [begun EXCEPT ![s] = @ + 1] ELSE begun
    BY <1>3, <2>2 DEF CallStore, startVars
  <2>4. \A t \in Sessions : /\ doing'[t] = IF t = s THEN c ELSE doing[t]
                            /\ calls'[t] = IF t = s THEN list ELSE calls[t]
    BY <2>3
  <2>5. calls' = [t \in Sessions |-> calls'[t]] /\ doing' \in [Sessions -> Calls]
    BY <2>1, <2>3
  <2>6. /\ begun' \in Counts
        /\ \A t \in Sessions : begun'[t] >= begun[t]
        /\ c.what = "begin" => begun'[s] > 0
    BY <2>3 DEF Counts
  <2>7. \A t \in Sessions : begun[t] > 0 => begun'[t] > 0
    BY <2>6 DEF Counts
  <2>8. OneConnection' /\ kind' = "client"
    BY <2>3 DEF OneConnection
  <2> QED
    BY <2>2, <2>3, <2>4, <2>5, <2>6, <2>7, <2>8
<1>4. ASSUME NEW s \in Sessions, RunStatement(s) PROVE ClientInv'
  <2>1. PICK i \in Usable :
          LET r    == Execute(conns[i], disk, Head(calls[s]))
              over == ~r.ok \/ Len(calls[s]) = 1
          IN  /\ conns' = [conns EXCEPT ![i] = r.conn]
              /\ calls' = [calls EXCEPT ![s] = IF over THEN <<>> ELSE Tail(@)]
              /\ doing' = [doing EXCEPT ![s] = IF over THEN NoCall ELSE @]
              /\ begun' = IF over THEN Counted(s, doing[s], r.ok) ELSE begun
    BY <1>4 DEF RunStatement
  <2>2. kind' = kind /\ leaked' = leaked /\ doing[s] # NoCall
    BY <1>4 DEF RunStatement, startVars
  <2>3. i = 1
    <3>1. Usable = 1..1
      BY OneConnectionIs
    <3> QED
      BY <3>1
  <2>4. PICK conn, c, list : conn = conns[1] /\ c = doing[s] /\ list = calls[s]
    OBVIOUS
  <2>5. c \in Calls /\ c.what # "none" /\ RemoteLeft(s, c, list)
    BY <2>2, <2>4, CallsAre
  <2>6. PICK r : r = Postgres(conn, disk, Head(list))
    OBVIOUS
  <2>7. PICK over \in BOOLEAN : over <=> ~r.ok \/ Len(list) = 1
    OBVIOUS
  <2>8. /\ conns' = [conns EXCEPT ![1] = r.conn]
        /\ calls' = [calls EXCEPT ![s] = IF over THEN <<>> ELSE Tail(list)]
        /\ doing' = [doing EXCEPT ![s] = IF over THEN NoCall ELSE c]
        /\ begun' = IF over THEN Counted(s, c, r.ok) ELSE begun
    BY <2>1, <2>3, <2>4, <2>6, <2>7 DEF Execute, IsSqlite
  <2>9. /\ c.what # "begin" => Head(list).op # "begin"
        /\ c.what = "commit" /\ Len(list) = 1 => Head(list) = CommitTx
        /\ Len(list) # 1 => RemoteLeft(s, c, Tail(list))
    BY <2>5, RemoteHead
  <2>10. \A t \in Sessions : /\ doing'[t] = IF t = s THEN IF over THEN NoCall ELSE c ELSE doing[t]
                             /\ calls'[t] = IF t = s THEN IF over THEN <<>> ELSE Tail(list)
                                                     ELSE calls[t]
    BY <2>8
  <2>11. calls' = [t \in Sessions |-> calls'[t]] /\ doing' \in [Sessions -> Calls]
    BY <2>5, <2>8, NoCallIs
  <2>12. OneConnection' /\ conns'[1] = r.conn
    <3>1. conns' = [j \in 1..1 |-> r.conn]
      BY <2>8, ConnPut
    <3> QED
      BY <2>2, <3>1, OneIs DEF OneConnection
  <2>13. /\ begun' \in Counts
         /\ \A t \in Sessions : t # s \/ ~over \/ c.what # "commit" => begun'[t] = begun[t]
    BY <2>8 DEF Counted, Counts
  <2>14. \A t \in Sessions : RemoteLeft(t, doing'[t], calls'[t])
    <3>1. ASSUME NEW t \in Sessions, t # s PROVE RemoteLeft(t, doing'[t], calls'[t])
      BY <2>10, <3>1
    <3>2. RemoteLeft(s, doing'[s], calls'[s])
      <4>1. CASE over
        BY <2>10, <4>1, NoneIsLeft
      <4>2. CASE ~over
        BY <2>7, <2>9, <2>10, <4>2
      <4> QED
        BY <4>1, <4>2
    <3> QED
      BY <3>1, <3>2
  <2>15. \A t \in Sessions : doing'[t].what = "begin" => begun'[t] > 0
    <3>1. ASSUME NEW t \in Sessions, doing'[t].what = "begin" PROVE begun'[t] > 0
      <4>1. doing'[t] = doing[t] /\ (t # s \/ ~over)
        BY <2>4, <2>10, <3>1, NoCallIs
      <4>2. begun[t] > 0
        BY <3>1, <4>1
      <4> QED
        BY <2>13, <4>1, <4>2
    <3> QED
      BY <3>1
  <2>16. ASSUME r.conn # Idle PROVE \E t \in Sessions : begun'[t] > 0
    <3>1. CASE c.what = "begin"
      <4>1. begun[s] > 0 /\ begun'[s] = begun[s]
        BY <2>4, <2>13, <3>1
      <4> QED
        BY <4>1
    <3>2. CASE c.what # "begin"
      <4>1. conn # Idle
        BY <2>6, <2>9, <2>16, <3>2, IdleStays
      <4>2. PICK t \in Sessions : begun[t] > 0
        BY <2>4, <4>1
      <4>3. ~(c.what = "commit" /\ Len(list) = 1)
        BY <2>6, <2>9, <2>16, CommitIsIdle
      <4>4. begun' = begun
        BY <2>7, <2>8, <4>3 DEF Counted
      <4> QED
        BY <4>2, <4>4
    <3> QED
      BY <3>1, <3>2
  <2> QED
    BY <2>2, <2>11, <2>12, <2>13, <2>14, <2>15, <2>16
<1>5. CASE Restart
  <2>1. /\ kind' = kind /\ leaked' = 0
        /\ calls' = [t \in Sessions |-> <<>>] /\ doing' = [t \in Sessions |-> NoCall]
        /\ begun' = [t \in Sessions |-> 0]
    BY <1>5 DEF Restart
  <2>2. conns' = [i \in 1..1 |-> Idle]
    <3>1. DOMAIN conns = 1..1
      BY OneConnectionIs
    <3> QED
      BY <1>5, <3>1 DEF Restart
  <2>3. OneConnection' /\ conns'[1] = Idle
    BY <2>1, <2>2, OneIs DEF OneConnection
  <2>4. \A t \in Sessions : doing'[t] = NoCall
    BY <2>1
  <2>5. /\ begun' \in Counts
        /\ calls' = [t \in Sessions |-> calls'[t]]
        /\ doing' \in [Sessions -> Calls]
    BY <2>1, NoCallIs DEF Counts
  <2> QED
    BY <2>1, <2>3, <2>4, <2>5, NoCallIs, NoneIsLeft
<1> QED
  BY <1>2, <1>3, <1>4, <1>5 DEF StoreNext

LEMMA ClientStarts ==
    ASSUME StoreInit("client")
    PROVE  ClientInv
<1>1. /\ kind = "client" /\ leaked = 0
      /\ conns = [i \in 1..1 |-> Idle]
      /\ calls = [s \in Sessions |-> <<>>] /\ doing = [s \in Sessions |-> NoCall]
      /\ begun = [s \in Sessions |-> 0]
  BY DEF StoreInit
<1>2. conns = [i \in 1..1 |-> conns[1]] /\ conns[1] = Idle
  BY <1>1, OneIs
<1>3. \A t \in Sessions : doing[t] = NoCall
  BY <1>1
<1>4. begun \in Counts /\ calls = [t \in Sessions |-> calls[t]] /\ doing \in [Sessions -> Calls]
  BY <1>1, NoCallIs DEF Counts
<1> QED
  BY <1>1, <1>2, <1>3, <1>4, NoCallIs, NoneIsLeft DEF ClientInv, OneConnection

LEMMA ClientIsDurable == ClientInv => CommittedIsDurable
<1> SUFFICES ASSUME ClientInv, \A s \in Sessions : begun[s] = 0 /\ doing[s] = NoCall
             PROVE  \A i \in DOMAIN conns : conns[i] = Idle
  BY DEF CommittedIsDurable
<1>1. conns[1] = Idle
  BY DEF ClientInv
<1>2. \A i \in DOMAIN conns : i = 1
  BY OneConnectionIs DEF ClientInv
<1> QED
  BY <1>1, <1>2, Zenon

-----------------------------------------------------------------------------
(* Theorems on the relational stores *)

\* The invariant of every store; a pool has none.
StoreInv == /\ kind \in Stores
            /\ IsSqlite => SqliteInv
            /\ kind = "client" => ClientInv

LEMMA KindStays == [StoreNext]_storeVars => kind' = kind
BY DEF StoreNext, storeVars, Connect, CreateTables, InitFails, Backoff, CallStore, RunStatement,
       Restart

LEMMA StoreStarts == \A k \in Stores : StoreInit(k) => StoreInv
<1> SUFFICES ASSUME NEW k \in Stores, StoreInit(k) PROVE StoreInv
  OBVIOUS
<1>1. kind = k
  BY DEF StoreInit
<1>2. IsSqlite => SqliteInv
  BY <1>1, SqliteStarts DEF IsSqlite
<1>3. kind = "client" => ClientInv
  BY <1>1, ClientStarts
<1> QED
  BY <1>1, <1>2, <1>3 DEF StoreInv

LEMMA StoreSteps == StoreInv /\ [StoreNext]_storeVars => StoreInv'
<1> SUFFICES ASSUME StoreInv, [StoreNext]_storeVars PROVE StoreInv'
  OBVIOUS
<1>1. kind' = kind
  BY KindStays
<1>2. IsSqlite' => SqliteInv'
  BY <1>1, SqliteSteps DEF StoreInv, IsSqlite
<1>3. kind' = "client" => ClientInv'
  BY <1>1, ClientSteps DEF StoreInv
<1> QED
  BY <1>1, <1>2, <1>3 DEF StoreInv

LEMMA StoreInvHolds == StoreSpec => []StoreInv
<1>1. (\E k \in Stores : StoreInit(k)) => StoreInv
  BY StoreStarts
<1> QED
  BY <1>1, StoreSteps, PTL DEF StoreSpec

\* On one connection, of either database, every session that began and has
\* committed leaves nothing that a crash could undo, whatever other sessions did
\* on the connection at any await (wasm-relational-store.ts, embed-relational-store.ts
\* and remote-relational-store.ts: beginTransaction, commitTransaction).
THEOREM CommittedRowsAreDurable == StoreSpec => []CommittedIsDurable
<1>1. StoreInv => CommittedIsDurable
  <2> SUFFICES ASSUME StoreInv, kind # "pool" PROVE CommittedIsDurable
    BY DEF CommittedIsDurable
  <2>1. CASE IsSqlite
    BY <2>1, SqliteIsDurable DEF StoreInv
  <2>2. CASE kind = "client"
    BY <2>2, ClientIsDurable DEF StoreInv
  <2> QED
    BY <2>1, <2>2 DEF StoreInv, Stores, IsSqlite
<1> QED
  BY <1>1, StoreInvHolds, PTL

LEMMA PromisedStarts == \A k \in Stores : StoreInit(k) => Promised!Init
<1> SUFFICES ASSUME NEW k \in Stores, StoreInit(k) PROVE Promised!Init
  OBVIOUS
<1>1. conns[1] = Idle
  <2>1. conns = [i \in 1..(IF k = "pool" THEN MaxConns ELSE 1) |-> Idle]
    BY DEF StoreInit
  <2>2. 1 \in 1..(IF k = "pool" THEN MaxConns ELSE 1)
    BY MaxConnsAssumption
  <2> QED
    BY <2>1, <2>2
<1>2. disk \in [Rows -> Nat]
  BY DEF StoreInit, NoRow
<1>3. PICK d : d = disk
  OBVIOUS
<1>4. Over(Idle.writes, d) = d /\ Idle.stack = <<>>
  BY <1>2, <1>3, IdleIsConn, NotOpenIs
<1> QED
  BY <1>1, <1>3, <1>4 DEF Promised!Init, View

\* Sessions that take turns on a SQLite store get the transactions that
\* ITransactionStore promises: every step of the browser's and of the embedded
\* store, with its savepoints, is one of Transactions or changes nothing there.
THEOREM StoreIsTransactions == StoreSpec => TurnsAreTransactions
<1>1. (\E k \in Stores : StoreInit(k)) => Promised!Init
  BY PromisedStarts
<1>2. StoreInv /\ [StoreNext]_storeVars
          => [IsSqlite /\ turns' => [Promised!Next]_(Promised!transactionVars)]_storeVars
  <2> SUFFICES ASSUME StoreInv, [StoreNext]_storeVars, IsSqlite, turns'
               PROVE  [Promised!Next]_(Promised!transactionVars)
    OBVIOUS
  <2>1. Moves(conns[1], disk, conns'[1], disk')
    BY SqliteSteps DEF StoreInv, Follows
  <2>2. PICK conn, conn2, d, d2 :
          conn = conns[1] /\ conn2 = conns'[1] /\ d = disk /\ d2 = disk'
    OBVIOUS
  <2>3. Moves(conn, d, conn2, d2)
    BY <2>1, <2>2
  <2> QED
    BY <2>2, <2>3, MovesArePromised
<1> QED
  BY <1>1, <1>2, StoreInvHolds, PTL DEF StoreSpec, TurnsAreTransactions

-----------------------------------------------------------------------------
(* Graph stores: the inductive invariant *)

Contents == [nodes : SUBSET UNION {g.nodes : g \in Graphs},
             edges : SUBSET UNION {g.edges : g \in Graphs}]
Steps == {"idle", "write", "save again", "saved", "failed",
          "latest", "nodes", "edges", "load again", "loaded", "none"}
GraphCall == [step : Steps, graph : Contents, ver : Nat, attempt : Nat, floor : Nat]

GraphTypes ==
    /\ gkind \in {"embedded", "remote"}
    /\ counter \in Nat
    /\ DOMAIN stored \subseteq 1..counter
    /\ stored \in [DOMAIN stored -> Contents]
    /\ gcalls \in [GraphCallers -> GraphCall]

\* An acknowledged version has been written, and nothing was added to it.
AckedIsStored ==
    \A a \in acked : a.ver \in DOMAIN stored /\ a.graph \in Graphs /\ stored[a.ver] = a.graph

\* Nobody awaits anything in the embedded store.
EmbeddedIsSynchronous ==
    gkind = "embedded" => \A c \in GraphCallers : ~Running(c)

\* What the remote store has written is one graph per version.
StoredIsGraph == gkind = "remote" => \A v \in DOMAIN stored : stored[v] \in Graphs

\* The version of a write under way was counted, is written by nobody else and
\* not yet there.
WritesAreApart ==
    \A c \in GraphCallers :
        /\ gcalls[c].step \in {"write", "save again"} => gcalls[c].graph \in Graphs
        /\ gcalls[c].step = "write" =>
              /\ gcalls[c].ver \in 1..counter /\ gcalls[c].ver \notin DOMAIN stored
              /\ \A d \in GraphCallers \ {c} :
                    gcalls[d].step = "write" => gcalls[d].ver # gcalls[c].ver

\* A load knows of a version that was there when it began, and reads one that is
\* there and not older.
LoadIsOnTheWay(call) ==
    /\ call.step \in {"latest", "nodes", "edges", "load again"} =>
          call.floor = 0 \/ call.floor \in DOMAIN stored
    /\ call.step \in {"nodes", "edges"} => call.ver \in DOMAIN stored /\ call.ver >= call.floor
    /\ call.step = "edges" => call.graph.nodes = stored[call.ver].nodes
    /\ LoadIsFresh(call)
LoadsAreOnTheWay == gkind = "remote" => \A c \in GraphCallers : LoadIsOnTheWay(gcalls[c])

FirstProcess == /\ GraphTypes
                /\ AckedIsStored
                /\ EmbeddedIsSynchronous
                /\ StoredIsGraph
                /\ WritesAreApart
                /\ LoadsAreOnTheWay
StoresInv == reloads \in Nat /\ (reloads = 0 => FirstProcess)

-----------------------------------------------------------------------------
(* Graph stores: lemmas *)

LEMMA LargestVersion ==
    ASSUME NEW S, NEW n \in Nat, S \subseteq 1..n, S # {}
    PROVE  Max(S) \in S /\ \A v \in S : v <= Max(S)
<1> DEFINE T == {n - v : v \in S}
<1>1. IsWellFoundedOn(OpToRel(<, Nat), Nat)
  BY NatLessThanWellFounded
<1>2. T \subseteq Nat /\ T # {}
  <2>1. PICK s \in S : TRUE
    OBVIOUS
  <2>2. n - s \in T
    OBVIOUS
  <2> QED
    BY <2>2
<1>3. PICK x \in T : \A y \in T : ~(<<y, x>> \in OpToRel(<, Nat))
  <2> HIDE DEF T
  <2> QED BY <1>1, <1>2, WFMin
<1>4. PICK m \in S : x = n - m
  BY <1>3
<1>5. ASSUME NEW v \in S PROVE m >= v
  <2>1. n - v \in T /\ n - v \in Nat /\ x \in Nat
    BY <1>2, <1>3
  <2>2. ~(n - v < x)
    <3> HIDE DEF T
    <3> QED BY <1>3, <2>1 DEF OpToRel
  <2>3. v \in Int /\ m \in Int
    OBVIOUS
  <2> QED
    BY <1>4, <2>2, <2>3
<1>6. \E k \in S : \A v \in S : k >= v
  BY <1>5
<1>7. Max(S) \in S /\ \A v \in S : Max(S) >= v
  BY <1>6 DEF Max
<1>8. ASSUME NEW k \in S, \A v \in S : k >= v PROVE \A v \in S : v <= k
  BY <1>8
<1> QED
  BY <1>7, <1>8, Zenon

\* The contents of a graph store are records of nodes and edges.
LEMMA GraphsAreContents == Graphs \subseteq Contents /\ Nothing \in Contents
<1>1. ASSUME NEW g \in Graphs PROVE g \in Contents
  <2>1. g = [nodes |-> g.nodes, edges |-> g.edges]
    BY GraphsAssumption
  <2>2. /\ g.nodes \in SUBSET UNION {h.nodes : h \in Graphs}
        /\ g.edges \in SUBSET UNION {h.edges : h \in Graphs}
    OBVIOUS
  <2> QED
    BY <2>1, <2>2 DEF Contents
<1>2. Nothing \in Contents
  BY DEF Nothing, Contents
<1> QED
  BY <1>1, <1>2

LEMMA ContentsAreEqual ==
    ASSUME NEW a \in Contents, NEW b \in Contents, a.nodes = b.nodes, a.edges = b.edges
    PROVE  a = b
  BY DEF Contents

\* A part of a graph merged into a version that has nothing is that part.
LEMMA MergeIntoNothing ==
    ASSUME NEW w \in Contents, NEW v, v \notin DOMAIN stored
    PROVE  Merge(At(v), w) = w
<1>1. w = [nodes |-> w.nodes, edges |-> w.edges]
  BY DEF Contents
<1>2. Merge(At(v), w) = [nodes |-> w.nodes, edges |-> w.edges]
  BY DEF Merge, At, Nothing
<1> QED
  BY <1>1, <1>2

LEMMA WrittenIsContents ==
    ASSUME NEW g \in Graphs, NEW w \in WrittenNodes(g)
    PROVE  w \in Contents
<1>1. g \in Contents
  BY GraphsAreContents
<1> QED
  BY <1>1 DEF WrittenNodes, Contents

\* The floor of a load is a version that is there.
LEMMA FloorIsStored ==
    ASSUME GraphTypes, AckedIsStored
    PROVE  Floor \in Nat /\ (Floor = 0 \/ Floor \in DOMAIN stored)
<1>1. CASE acked = {}
  BY <1>1 DEF Floor
<1>2. CASE acked # {}
  <2> DEFINE S == {a.ver : a \in acked}
  <2>1. S \subseteq DOMAIN stored /\ S # {}
    <3>1. PICK a \in acked : TRUE
      BY <1>2
    <3>2. a.ver \in S
      OBVIOUS
    <3>3. S \subseteq DOMAIN stored
      BY DEF AckedIsStored
    <3> QED
      BY <3>2, <3>3
  <2>2. S \subseteq 1..counter /\ counter \in Nat
    BY <2>1 DEF GraphTypes
  <2>3. Floor = Max(S)
    BY <1>2 DEF Floor
  <2>4. Max(S) \in S
    <3> HIDE DEF S
    <3> QED BY <2>1, <2>2, LargestVersion
  <2> QED
    <3> HIDE DEF S
    <3> QED BY <2>1, <2>2, <2>3, <2>4
<1> QED
  BY <1>1, <1>2

-----------------------------------------------------------------------------
(* Graph stores: steps of a call that write nothing *)

\* One call goes on, nothing is written or counted.
LEMMA CallGoesOn ==
    ASSUME FirstProcess, NEW c \in GraphCallers, NEW call \in GraphCall,
           gcalls' = [gcalls EXCEPT ![c] = call],
           UNCHANGED <<gkind, stored, counter, acked>>,
           gkind = "embedded" => call.step \in {"idle", "loaded", "none", "saved", "failed"},
           call.step # "write",
           call.step = "save again" => call.graph \in Graphs,
           gkind = "remote" => LoadIsOnTheWay(call)
    PROVE  FirstProcess'
<1>1. gcalls \in [GraphCallers -> GraphCall]
  BY DEF FirstProcess, GraphTypes
<1>2. /\ gcalls' \in [GraphCallers -> GraphCall]
      /\ gcalls'[c] = call
      /\ \A d \in GraphCallers \ {c} : gcalls'[d] = gcalls[d]
  BY <1>1
<1>3. GraphTypes'
  BY <1>2 DEF FirstProcess, GraphTypes
<1>4. AckedIsStored' /\ StoredIsGraph'
  BY DEF FirstProcess, AckedIsStored, StoredIsGraph
<1>5. EmbeddedIsSynchronous'
  BY <1>2 DEF FirstProcess, EmbeddedIsSynchronous, Running
<1>6. WritesAreApart'
  BY <1>2 DEF FirstProcess, WritesAreApart
<1>7. LoadsAreOnTheWay'
  <2>1. SUFFICES ASSUME gkind = "remote", NEW d \in GraphCallers
                 PROVE  LoadIsOnTheWay(gcalls[d])'
    BY DEF LoadsAreOnTheWay
  <2>2. CASE d = c
    BY <1>2, <2>1, <2>2 DEF LoadIsOnTheWay, LoadIsFresh
  <2>3. CASE d # c
    <3>1. LoadIsOnTheWay(gcalls[d])
      BY <2>1 DEF FirstProcess, LoadsAreOnTheWay
    <3> QED
      BY <1>2, <2>3, <3>1 DEF LoadIsOnTheWay, LoadIsFresh
  <2> QED
    BY <2>2, <2>3
<1> QED
  BY <1>3, <1>4, <1>5, <1>6, <1>7 DEF FirstProcess

LEMMA EmbedLoadKeeps ==
    ASSUME FirstProcess, NEW c \in GraphCallers, EmbedLoad(c)
    PROVE  FirstProcess'
<1> DEFINE none == [Idling EXCEPT !.step = "none", !.floor = Floor]
           found == [Idling EXCEPT !.step = "loaded", !.floor = Floor, !.ver = counter,
                                   !.graph = [nodes |-> At(counter).nodes, edges |-> {}]]
<1>1. Floor \in Nat /\ counter \in Nat
  BY FloorIsStored DEF FirstProcess, GraphTypes
<1>2. none \in GraphCall /\ none.step = "none"
  BY <1>1, GraphsAreContents DEF GraphCall, Idling, Steps
<1>3. found \in GraphCall /\ found.step = "loaded"
  <2>1. At(counter) \in Contents
    BY GraphsAreContents DEF FirstProcess, GraphTypes, At
  <2>2. [nodes |-> At(counter).nodes, edges |-> {}] \in Contents
    BY <2>1 DEF Contents
  <2> QED
    BY <1>1, <2>2 DEF GraphCall, Steps, Idling
<1>4. gkind = "embedded" /\ gkind # "remote" /\ UNCHANGED <<gkind, stored, counter, acked>>
  BY DEF EmbedLoad
<1>5. gcalls' = [gcalls EXCEPT ![c] = none] \/ gcalls' = [gcalls EXCEPT ![c] = found]
  BY DEF EmbedLoad
<1> QED
  <2> HIDE DEF none, found
  <2>1. CASE gcalls' = [gcalls EXCEPT ![c] = none]
    BY <1>2, <1>4, <2>1, CallGoesOn
  <2>2. CASE gcalls' = [gcalls EXCEPT ![c] = found]
    BY <1>3, <1>4, <2>2, CallGoesOn
  <2> QED
    BY <1>5, <2>1, <2>2

LEMMA RemoteLoadKeeps ==
    ASSUME FirstProcess, NEW c \in GraphCallers, RemoteLoad(c)
    PROVE  FirstProcess'
<1> DEFINE call == [Idling EXCEPT !.step = "latest", !.floor = Floor]
<1>1. Floor \in Nat /\ (Floor = 0 \/ Floor \in DOMAIN stored)
  BY FloorIsStored DEF FirstProcess
<1>2. call \in GraphCall /\ call.step = "latest" /\ call.floor = Floor
  BY <1>1, GraphsAreContents DEF GraphCall, Idling, Steps
<1>3. /\ gkind = "remote" /\ UNCHANGED <<gkind, stored, counter, acked>>
      /\ gcalls' = [gcalls EXCEPT ![c] = call]
  BY DEF RemoteLoad
<1>4. LoadIsOnTheWay(call)
  BY <1>1, <1>2 DEF LoadIsOnTheWay, LoadIsFresh
<1> QED
  <2> HIDE DEF call
  <2> QED
    BY <1>2, <1>3, <1>4, CallGoesOn

LEMMA ReadLatestKeeps ==
    ASSUME FirstProcess, NEW c \in GraphCallers, ReadLatest(c)
    PROVE  FirstProcess'
<1> DEFINE with == {v \in DOMAIN stored : stored[v].nodes # {}}
           newest == Max(with)
           none == [gcalls[c] EXCEPT !.step = "none"]
           found == [gcalls[c] EXCEPT !.step = "nodes", !.ver = newest]
<1>1. /\ gcalls[c] \in GraphCall /\ gcalls[c].step = "latest"
      /\ gkind = "remote" /\ UNCHANGED <<gkind, stored, counter, acked>>
      /\ DOMAIN stored \subseteq 1..counter /\ counter \in Nat
  BY DEF FirstProcess, GraphTypes, ReadLatest, EmbeddedIsSynchronous, Running
<1>2. gcalls[c].floor = 0 \/ gcalls[c].floor \in with
  <2>1. gcalls[c].floor = 0 \/ gcalls[c].floor \in DOMAIN stored
    BY <1>1 DEF FirstProcess, LoadsAreOnTheWay, LoadIsOnTheWay
  <2>2. \A v \in DOMAIN stored : stored[v].nodes # {}
    BY <1>1, GraphsAssumption DEF FirstProcess, StoredIsGraph
  <2> QED
    BY <2>1, <2>2
<1>3. CASE with = {}
  <2>1. gcalls' = [gcalls EXCEPT ![c] = none]
    BY <1>3 DEF ReadLatest
  <2>2. none \in GraphCall /\ none.step = "none" /\ none.floor = 0
    BY <1>1, <1>2, <1>3 DEF GraphCall, Steps
  <2>3. LoadIsOnTheWay(none)
    BY <2>2 DEF LoadIsOnTheWay, LoadIsFresh
  <2> QED
    <3> HIDE DEF none
    <3> QED BY <1>1, <2>1, <2>2, <2>3, CallGoesOn
<1>4. CASE with # {}
  <2>1. gcalls' = [gcalls EXCEPT ![c] = found]
    BY <1>4 DEF ReadLatest
  <2>2. newest \in with /\ \A u \in with : u <= newest
    <3>1. with \subseteq 1..counter
      BY <1>1
    <3> HIDE DEF with
    <3> QED
      BY <1>1, <1>4, <3>1, LargestVersion
  <2>3. newest \in Nat /\ newest \in DOMAIN stored /\ newest >= gcalls[c].floor
    <3> HIDE DEF newest
    <3>1. newest \in DOMAIN stored /\ newest \in Nat
      BY <1>1, <2>2
    <3>2. gcalls[c].floor = 0 \/ gcalls[c].floor <= newest
      BY <1>2, <2>2
    <3>3. gcalls[c].floor \in Nat
      BY <1>1 DEF GraphCall
    <3> QED
      BY <3>1, <3>2, <3>3
  <2>4. /\ found \in GraphCall /\ found.step = "nodes"
        /\ found.ver = newest /\ found.floor = gcalls[c].floor
    <3> HIDE DEF newest
    <3> QED BY <1>1, <2>3 DEF GraphCall, Steps
  <2>5. LoadIsOnTheWay(found)
    <3> HIDE DEF found, newest
    <3>1. found.floor = 0 \/ found.floor \in DOMAIN stored
      BY <1>2, <2>4
    <3> QED
      BY <2>3, <2>4, <3>1 DEF LoadIsOnTheWay, LoadIsFresh
  <2> QED
    <3> HIDE DEF found
    <3> QED BY <1>1, <2>1, <2>4, <2>5, CallGoesOn
<1> QED
  BY <1>3, <1>4

\* A remote call that awaits the answer of a query.
LEMMA RemoteIsRunning ==
    ASSUME FirstProcess, NEW c \in GraphCallers, Running(c)
    PROVE  /\ gkind = "remote" /\ gkind # "embedded"
           /\ gcalls[c] \in GraphCall /\ LoadIsOnTheWay(gcalls[c])
  BY DEF FirstProcess, GraphTypes, EmbeddedIsSynchronous, LoadsAreOnTheWay

LEMMA ReadNodesKeeps ==
    ASSUME FirstProcess, NEW c \in GraphCallers, ReadNodes(c)
    PROVE  FirstProcess'
<1> DEFINE ver == gcalls[c].ver
           call == [gcalls[c] EXCEPT !.step = "edges", !.graph.nodes = stored[ver].nodes]
<1>1. gcalls[c].step = "nodes" /\ Running(c) /\ UNCHANGED <<gkind, stored, counter, acked>>
  BY DEF ReadNodes, Running
<1>2. gkind = "remote" /\ gkind # "embedded" /\ gcalls[c] \in GraphCall /\ LoadIsOnTheWay(gcalls[c])
  BY <1>1, RemoteIsRunning
<1>3. /\ gcalls[c].floor = 0 \/ gcalls[c].floor \in DOMAIN stored
      /\ ver \in DOMAIN stored /\ ver >= gcalls[c].floor
      /\ stored[ver] \in Contents
  BY <1>1, <1>2 DEF LoadIsOnTheWay, FirstProcess, GraphTypes
<1>4. gcalls' = [gcalls EXCEPT ![c] = call]
  BY <1>2 DEF ReadNodes, FirstProcess, GraphTypes
<1>5. /\ call \in GraphCall /\ call.step = "edges" /\ call.graph.nodes = stored[ver].nodes
      /\ call.ver = ver /\ call.floor = gcalls[c].floor
  BY <1>2, <1>3 DEF GraphCall, Contents, Steps
<1>6. LoadIsOnTheWay(call)
  <2> HIDE DEF call
  <2> QED BY <1>3, <1>5 DEF LoadIsOnTheWay, LoadIsFresh
<1> QED
  <2> HIDE DEF call
  <2> QED BY <1>1, <1>2, <1>4, <1>5, <1>6, CallGoesOn

LEMMA ReadEdgesKeeps ==
    ASSUME FirstProcess, NEW c \in GraphCallers, ReadEdges(c)
    PROVE  FirstProcess'
<1> DEFINE ver == gcalls[c].ver
           call == [gcalls[c] EXCEPT !.step = "loaded", !.graph.edges = stored[ver].edges]
<1>1. gcalls[c].step = "edges" /\ Running(c) /\ UNCHANGED <<gkind, stored, counter, acked>>
  BY DEF ReadEdges, Running
<1>2. gkind = "remote" /\ gkind # "embedded" /\ gcalls[c] \in GraphCall /\ LoadIsOnTheWay(gcalls[c])
  BY <1>1, RemoteIsRunning
<1>3. /\ ver \in DOMAIN stored /\ ver >= gcalls[c].floor
      /\ gcalls[c].graph.nodes = stored[ver].nodes
      /\ stored[ver] \in Contents /\ stored[ver] \in Graphs
  BY <1>1, <1>2 DEF LoadIsOnTheWay, FirstProcess, GraphTypes, StoredIsGraph
<1>4. gcalls' = [gcalls EXCEPT ![c] = call]
  <2>1. gcalls[c].graph.nodes # {}
    BY <1>3, GraphsAssumption
  <2> QED
    BY <1>2, <2>1 DEF ReadEdges, FirstProcess, GraphTypes
<1>5. /\ call \in GraphCall /\ call.step = "loaded" /\ call.graph = stored[ver]
      /\ call.ver = ver /\ call.floor = gcalls[c].floor
  <2>1. /\ call \in GraphCall /\ call.graph.nodes = stored[ver].nodes
        /\ call.graph.edges = stored[ver].edges
        /\ call.ver = ver /\ call.floor = gcalls[c].floor /\ call.step = "loaded"
    BY <1>2, <1>3 DEF GraphCall, Contents, Steps
  <2>2. call.graph \in Contents
    BY <2>1 DEF GraphCall
  <2> QED
    <3> HIDE DEF call
    <3> QED BY <1>3, <2>1, <2>2, ContentsAreEqual
<1>6. LoadIsOnTheWay(call)
  <2> HIDE DEF call
  <2> QED BY <1>3, <1>5 DEF LoadIsOnTheWay, LoadIsFresh
<1> QED
  <2> HIDE DEF call
  <2> QED BY <1>1, <1>2, <1>4, <1>5, <1>6, CallGoesOn

LEMMA LoadAgainKeeps ==
    ASSUME FirstProcess, NEW c \in GraphCallers, LoadAgain(c)
    PROVE  FirstProcess'
<1> DEFINE call == [gcalls[c] EXCEPT !.step = "latest", !.graph = Nothing]
<1>1. gcalls[c].step = "load again" /\ Running(c) /\ UNCHANGED <<gkind, stored, counter, acked>>
  BY DEF LoadAgain, Running
<1>2. gkind = "remote" /\ gkind # "embedded" /\ gcalls[c] \in GraphCall /\ LoadIsOnTheWay(gcalls[c])
  BY <1>1, RemoteIsRunning
<1>3. gcalls' = [gcalls EXCEPT ![c] = call]
  BY <1>2 DEF LoadAgain, FirstProcess, GraphTypes
<1>4. call \in GraphCall /\ call.step = "latest" /\ call.floor = gcalls[c].floor
  BY <1>2, GraphsAreContents DEF GraphCall, Steps
<1>5. LoadIsOnTheWay(call)
  <2> HIDE DEF call
  <2> QED BY <1>1, <1>2, <1>4 DEF LoadIsOnTheWay, LoadIsFresh
<1> QED
  <2> HIDE DEF call
  <2> QED BY <1>1, <1>2, <1>3, <1>4, <1>5, CallGoesOn

-----------------------------------------------------------------------------
(* Graph stores: steps that count or write a version *)

\* What a version is after it was written for the first time.
LEMMA VersionIsWritten ==
    ASSUME GraphTypes, NEW v \in Nat, v \notin DOMAIN stored, NEW w \in Contents,
           stored' = MergeAt(v, w)
    PROVE  /\ DOMAIN stored' = DOMAIN stored \cup {v}
           /\ stored' \in [DOMAIN stored' -> Contents]
           /\ stored'[v] = w
           /\ \A u \in DOMAIN stored : stored'[u] = stored[u]
<1>1. Merge(At(v), w) = w
  BY MergeIntoNothing
<1>2. stored' = [u \in DOMAIN stored \cup {v} |-> IF u = v THEN w ELSE stored[u]]
  BY <1>1 DEF MergeAt
<1>3. \A u \in DOMAIN stored : stored[u] \in Contents
  BY DEF GraphTypes
<1> QED
  BY <1>2, <1>3

\* Writing a new version disturbs no load.
LEMMA LoadStays ==
    ASSUME NEW call, LoadIsOnTheWay(call),
           DOMAIN stored \subseteq DOMAIN stored',
           \A u \in DOMAIN stored : stored'[u] = stored[u]
    PROVE  LoadIsOnTheWay(call)'
  BY DEF LoadIsOnTheWay, LoadIsFresh

LEMMA EmbedSaveKeeps ==
    ASSUME FirstProcess, NEW c \in GraphCallers, NEW g \in Graphs, EmbedSave(c, g)
    PROVE  FirstProcess'
<1> DEFINE call(w) == [Idling EXCEPT !.step = IF w = g THEN "saved" ELSE "failed"]
<1>1. /\ gkind = "embedded" /\ gkind' = gkind
      /\ counter' = counter + 1 /\ counter \in Nat /\ counter' \in Nat
      /\ DOMAIN stored \subseteq 1..counter
      /\ gcalls \in [GraphCallers -> GraphCall]
  BY DEF EmbedSave, FirstProcess, GraphTypes
<1>2. PICK w \in WrittenNodes(g) :
          /\ stored' = MergeAt(counter', w)
          /\ acked' = IF w = g THEN Acknowledge(counter', g) ELSE acked
          /\ gcalls' = [gcalls EXCEPT ![c] = call(w)]
  BY DEF EmbedSave
<1>3. counter' \notin DOMAIN stored
  BY <1>1
<1>4. /\ DOMAIN stored' = DOMAIN stored \cup {counter'}
      /\ stored' \in [DOMAIN stored' -> Contents]
      /\ stored'[counter'] = w
      /\ \A u \in DOMAIN stored : stored'[u] = stored[u]
  BY <1>1, <1>2, <1>3, WrittenIsContents, VersionIsWritten DEF FirstProcess
<1>5. DOMAIN stored' \subseteq 1..counter'
  BY <1>1, <1>4
<1>6. /\ gcalls' \in [GraphCallers -> GraphCall]
      /\ gcalls'[c].step \in {"saved", "failed"}
      /\ \A d \in GraphCallers \ {c} : gcalls'[d] = gcalls[d]
  <2>1. call(w) \in GraphCall /\ call(w).step \in {"saved", "failed"}
    BY GraphsAreContents DEF GraphCall, Idling, Steps
  <2> HIDE DEF call
  <2> QED
    BY <1>1, <1>2, <2>1
<1>7. GraphTypes'
  BY <1>1, <1>4, <1>5, <1>6 DEF GraphTypes
<1>8. AckedIsStored'
  <2>1. SUFFICES ASSUME NEW a \in acked'
                 PROVE  a.ver \in DOMAIN stored' /\ a.graph \in Graphs /\ stored'[a.ver] = a.graph
    BY DEF AckedIsStored
  <2>2. CASE a \in acked
    BY <1>4, <2>2 DEF FirstProcess, AckedIsStored
  <2>3. CASE a = [ver |-> counter', graph |-> g] /\ w = g
    BY <1>4, <2>3
  <2> QED
    BY <1>2, <2>1, <2>2, <2>3 DEF Acknowledge
<1>9. EmbeddedIsSynchronous'
  BY <1>1, <1>6 DEF FirstProcess, EmbeddedIsSynchronous, Running
<1>10. WritesAreApart'
  <2>1. \A d \in GraphCallers : gcalls'[d].step \notin {"write", "save again"}
    BY <1>1, <1>6 DEF FirstProcess, EmbeddedIsSynchronous, Running
  <2> QED
    BY <2>1 DEF WritesAreApart
<1>11. StoredIsGraph' /\ LoadsAreOnTheWay'
  BY <1>1 DEF StoredIsGraph, LoadsAreOnTheWay
<1> QED
  BY <1>7, <1>8, <1>9, <1>10, <1>11 DEF FirstProcess

\* An attempt at a save takes a version nobody has.
LEMMA AttemptKeeps ==
    ASSUME FirstProcess, NEW c \in GraphCallers, NEW call \in GraphCall,
           gkind = "remote", call.graph \in Graphs, Attempt(c, call),
           UNCHANGED <<gkind, stored, acked>>
    PROVE  FirstProcess'
<1> DEFINE next == [call EXCEPT !.step = "write", !.ver = counter + 1]
<1>1. /\ gkind # "embedded"
      /\ counter' = counter + 1 /\ counter \in Nat /\ counter' \in Nat
      /\ DOMAIN stored \subseteq 1..counter
      /\ gcalls \in [GraphCallers -> GraphCall]
      /\ gcalls' = [gcalls EXCEPT ![c] = next]
  BY DEF Attempt, FirstProcess, GraphTypes
<1>2. next \in GraphCall /\ next.step = "write" /\ next.ver = counter' /\ next.graph \in Graphs
  BY <1>1 DEF GraphCall, Steps
<1>3. /\ gcalls' \in [GraphCallers -> GraphCall]
      /\ gcalls'[c] = next
      /\ \A d \in GraphCallers \ {c} : gcalls'[d] = gcalls[d]
  <2> HIDE DEF next
  <2> QED BY <1>1, <1>2
<1>4. GraphTypes'
  <2>1. DOMAIN stored \subseteq 1..counter'
    BY <1>1
  <2> QED
    BY <1>1, <1>3, <2>1 DEF FirstProcess, GraphTypes
<1>5. AckedIsStored' /\ EmbeddedIsSynchronous' /\ StoredIsGraph'
  BY <1>1 DEF FirstProcess, AckedIsStored, EmbeddedIsSynchronous, StoredIsGraph
<1>6. WritesAreApart'
  <2> HIDE DEF next
  <2>1. counter' \in 1..counter' /\ counter' \notin 1..counter /\ 1..counter \subseteq 1..counter'
    BY <1>1
  <2>2. \A d \in GraphCallers \ {c} : gcalls[d].step = "write" => gcalls[d].ver \in 1..counter
    BY DEF FirstProcess, WritesAreApart
  <2>3. counter' \notin DOMAIN stored
    BY <1>1, <2>1
  <2>4. WritesAreApart
    BY DEF FirstProcess
  <2>5. ASSUME NEW d \in GraphCallers, gcalls'[d].step = "write"
        PROVE  /\ gcalls'[d].ver \in 1..counter' /\ gcalls'[d].ver \notin DOMAIN stored
               /\ \A e \in GraphCallers \ {d} :
                     gcalls'[e].step = "write" => gcalls'[e].ver # gcalls'[d].ver
    <3>1. CASE d = c
      BY <1>2, <1>3, <2>1, <2>2, <2>3, <3>1
    <3>2. CASE d # c
      <4>1. gcalls'[d] = gcalls[d] /\ gcalls[d].ver \in 1..counter /\ gcalls[d].ver \notin DOMAIN stored
        BY <1>3, <2>4, <2>5, <3>2 DEF WritesAreApart
      <4>2. ASSUME NEW e \in GraphCallers \ {d}, gcalls'[e].step = "write"
            PROVE  gcalls'[e].ver # gcalls'[d].ver
        BY <1>2, <1>3, <2>1, <2>4, <2>5, <4>1, <4>2 DEF WritesAreApart
      <4> QED
        BY <2>1, <4>1, <4>2
    <3> QED
      BY <3>1, <3>2
  <2>6. ASSUME NEW d \in GraphCallers, gcalls'[d].step \in {"write", "save again"}
        PROVE  gcalls'[d].graph \in Graphs
    BY <1>2, <1>3, <2>4, <2>6 DEF WritesAreApart
  <2>7. stored' = stored
    OBVIOUS
  <2> QED
    BY <2>5, <2>6, <2>7 DEF WritesAreApart
<1>7. LoadsAreOnTheWay'
  <2> HIDE DEF next
  <2>1. SUFFICES ASSUME NEW d \in GraphCallers PROVE LoadIsOnTheWay(gcalls[d])'
    BY DEF LoadsAreOnTheWay
  <2>2. CASE d = c
    BY <1>2, <1>3, <2>2 DEF LoadIsOnTheWay, LoadIsFresh
  <2>3. CASE d # c
    <3>1. LoadIsOnTheWay(gcalls[d])
      BY DEF FirstProcess, LoadsAreOnTheWay
    <3> QED
      BY <1>3, <2>3, <3>1 DEF LoadIsOnTheWay, LoadIsFresh
  <2> QED
    BY <2>2, <2>3
<1> QED
  BY <1>4, <1>5, <1>6, <1>7 DEF FirstProcess

LEMMA RemoteSaveKeeps ==
    ASSUME FirstProcess, NEW c \in GraphCallers, NEW g \in Graphs, RemoteSave(c, g)
    PROVE  FirstProcess'
<1> DEFINE call == [Idling EXCEPT !.graph = g]
<1>1. gkind = "remote" /\ Attempt(c, call) /\ UNCHANGED <<gkind, stored, acked>>
  BY DEF RemoteSave
<1>2. call \in GraphCall /\ call.graph \in Graphs
  BY GraphsAreContents DEF GraphCall, Idling, Steps
<1> QED
  <2> HIDE DEF call
  <2> QED BY <1>1, <1>2, AttemptKeeps

LEMMA SaveAgainKeeps ==
    ASSUME FirstProcess, NEW c \in GraphCallers, SaveAgain(c)
    PROVE  FirstProcess'
<1>1. gcalls[c].step = "save again" /\ Attempt(c, gcalls[c]) /\ UNCHANGED <<gkind, stored, acked>>
  BY DEF SaveAgain
<1>2. gkind = "remote" /\ gcalls[c] \in GraphCall
  BY <1>1, RemoteIsRunning DEF Running
<1>3. gcalls[c].graph \in Graphs
  BY <1>1 DEF FirstProcess, WritesAreApart
<1> QED
  BY <1>1, <1>2, <1>3, AttemptKeeps

\* The transaction of a write is committed, whether or not its answer arrives.
LEMMA WriteLands ==
    ASSUME FirstProcess, NEW c \in GraphCallers, NEW call \in GraphCall,
           gcalls[c].step = "write",
           stored' = MergeAt(gcalls[c].ver, gcalls[c].graph),
           gcalls' = [gcalls EXCEPT ![c] = call],
           call.step \in {"saved", "save again", "failed"},
           call.graph = gcalls[c].graph,
           acked' \in {acked, Acknowledge(gcalls[c].ver, gcalls[c].graph)},
           UNCHANGED <<gkind, counter>>
    PROVE  FirstProcess'
<1> DEFINE ver == gcalls[c].ver
           graph == gcalls[c].graph
<1>1. /\ gkind = "remote" /\ gkind # "embedded"
      /\ ver \in 1..counter /\ ver \in Nat /\ ver \notin DOMAIN stored
      /\ graph \in Graphs /\ graph \in Contents
      /\ gcalls \in [GraphCallers -> GraphCall]
  <2>1. Running(c)
    BY DEF Running
  <2>2. gkind = "remote" /\ gkind # "embedded" /\ gcalls[c] \in GraphCall
    BY <2>1, RemoteIsRunning
  <2> QED
    BY <2>2, GraphsAreContents DEF FirstProcess, GraphTypes, GraphCall, WritesAreApart
<1>2. /\ DOMAIN stored' = DOMAIN stored \cup {ver}
      /\ stored' \in [DOMAIN stored' -> Contents]
      /\ stored'[ver] = graph
      /\ \A u \in DOMAIN stored : stored'[u] = stored[u]
  <2> HIDE DEF ver, graph
  <2>1. stored' = MergeAt(ver, graph)
    BY DEF ver, graph
  <2> QED
    BY <1>1, <2>1, VersionIsWritten DEF FirstProcess
<1>3. /\ gcalls' \in [GraphCallers -> GraphCall]
      /\ gcalls'[c] = call
      /\ \A d \in GraphCallers \ {c} : gcalls'[d] = gcalls[d]
  BY <1>1
<1>4. GraphTypes'
  BY <1>1, <1>2, <1>3 DEF FirstProcess, GraphTypes
<1>5. AckedIsStored'
  <2>1. SUFFICES ASSUME NEW a \in acked'
                 PROVE  a.ver \in DOMAIN stored' /\ a.graph \in Graphs /\ stored'[a.ver] = a.graph
    BY DEF AckedIsStored
  <2>2. CASE a \in acked
    BY <1>2, <2>2 DEF FirstProcess, AckedIsStored
  <2>3. CASE a = [ver |-> ver, graph |-> graph]
    <3>1. a.ver = ver /\ a.graph = graph
      BY <2>3
    <3> QED
      BY <1>1, <1>2, <3>1
  <2> QED
    BY <2>1, <2>2, <2>3 DEF Acknowledge
<1>6. EmbeddedIsSynchronous'
  BY <1>1 DEF EmbeddedIsSynchronous
<1>7. StoredIsGraph'
  BY <1>1, <1>2 DEF FirstProcess, StoredIsGraph
<1>8. WritesAreApart'
  <2>1. \A d \in GraphCallers \ {c} : gcalls[d].step = "write" => gcalls[d].ver # ver
    BY DEF FirstProcess, WritesAreApart
  <2>2. WritesAreApart
    BY DEF FirstProcess
  <2>3. ASSUME NEW d \in GraphCallers \ {c}, gcalls[d].step = "write"
        PROVE  gcalls[d].ver \in 1..counter' /\ gcalls[d].ver \notin DOMAIN stored'
    BY <1>1, <1>2, <2>1, <2>2, <2>3 DEF WritesAreApart
  <2>4. ASSUME NEW d \in GraphCallers, gcalls'[d].step = "write"
        PROVE  d # c /\ gcalls'[d] = gcalls[d]
    BY <1>3, <2>4
  <2>5. ASSUME NEW d \in GraphCallers, gcalls'[d].step = "write"
        PROVE  /\ gcalls'[d].ver \in 1..counter' /\ gcalls'[d].ver \notin DOMAIN stored'
               /\ \A e \in GraphCallers \ {d} :
                     gcalls'[e].step = "write" => gcalls'[e].ver # gcalls'[d].ver
    <3>1. d # c /\ gcalls'[d] = gcalls[d] /\ gcalls[d].step = "write"
      BY <2>4, <2>5
    <3>2. gcalls'[d].ver \in 1..counter' /\ gcalls'[d].ver \notin DOMAIN stored'
      BY <2>3, <3>1
    <3>3. ASSUME NEW e \in GraphCallers \ {d}, gcalls'[e].step = "write"
          PROVE  gcalls'[e].ver # gcalls'[d].ver
      <4>1. gcalls'[e] = gcalls[e] /\ gcalls[e].step = "write"
        BY <2>4, <3>3
      <4> QED
        BY <2>2, <3>1, <4>1 DEF WritesAreApart
    <3> QED
      BY <3>2, <3>3
  <2>6. ASSUME NEW d \in GraphCallers, gcalls'[d].step \in {"write", "save again"}
        PROVE  gcalls'[d].graph \in Graphs
    BY <1>1, <1>3, <2>2, <2>6 DEF WritesAreApart
  <2> QED
    BY <2>5, <2>6 DEF WritesAreApart
<1>9. LoadsAreOnTheWay'
  <2>1. SUFFICES ASSUME NEW d \in GraphCallers PROVE LoadIsOnTheWay(gcalls[d])'
    BY DEF LoadsAreOnTheWay
  <2>2. CASE d = c
    BY <1>3, <2>2 DEF LoadIsOnTheWay, LoadIsFresh
  <2>3. CASE d # c
    <3>1. LoadIsOnTheWay(gcalls[d]) /\ gcalls'[d] = gcalls[d]
      BY <1>1, <1>3, <2>3 DEF FirstProcess, LoadsAreOnTheWay
    <3> QED
      BY <1>2, <3>1 DEF LoadIsOnTheWay, LoadIsFresh
  <2> QED
    BY <2>2, <2>3
<1> QED
  BY <1>4, <1>5, <1>6, <1>7, <1>8, <1>9 DEF FirstProcess

LEMMA CommitKeeps ==
    ASSUME FirstProcess, NEW c \in GraphCallers, Commit(c)
    PROVE  FirstProcess'
<1> DEFINE call == [gcalls[c] EXCEPT !.step = "saved"]
<1>1. /\ gcalls[c].step = "write"
      /\ stored' = MergeAt(gcalls[c].ver, gcalls[c].graph)
      /\ acked' \in {acked, Acknowledge(gcalls[c].ver, gcalls[c].graph)}
      /\ UNCHANGED <<gkind, counter>>
  BY DEF Commit
<1>2. gcalls[c] \in GraphCall
  BY DEF FirstProcess, GraphTypes
<1>3. gcalls' = [gcalls EXCEPT ![c] = call]
  BY DEF Commit, Ended, FirstProcess, GraphTypes
<1>4. call \in GraphCall /\ call.step = "saved" /\ call.graph = gcalls[c].graph
  BY <1>2 DEF GraphCall, Steps
<1> QED
  <2> HIDE DEF call
  <2> QED BY <1>1, <1>3, <1>4, WriteLands

LEMMA QueryFailsKeeps ==
    ASSUME FirstProcess, NEW c \in GraphCallers, QueryFails(c)
    PROVE  FirstProcess'
<1> DEFINE again == IF gcalls[c].step = "write" THEN "save again" ELSE "load again"
           failed(step, n) == [gcalls[c] EXCEPT !.attempt = n, !.step = step]
<1>1. /\ Running(c) /\ gcalls[c].step \notin {"save again", "load again"}
      /\ UNCHANGED <<gkind, counter, acked>>
      /\ gcalls[c].step = "write" =>
            stored' \in {stored, MergeAt(gcalls[c].ver, gcalls[c].graph)}
      /\ gcalls[c].step # "write" => stored' = stored
  BY DEF QueryFails
<1>2. gkind = "remote" /\ gkind # "embedded" /\ gcalls[c] \in GraphCall /\ LoadIsOnTheWay(gcalls[c])
  BY <1>1, RemoteIsRunning
<1>3. PICK n \in Nat : n = gcalls[c].attempt + 1
  <2>1. gcalls[c].attempt \in Nat
    BY <1>2 DEF GraphCall
  <2>2. \A k \in Nat : k + 1 \in Nat
    <3> HIDE DEF again, failed
    <3> QED OBVIOUS
  <2> HIDE DEF again, failed
  <2> QED
    BY <2>1, <2>2
<1>4. PICK step \in {again, "failed"} : gcalls' = [gcalls EXCEPT ![c] = failed(step, n)]
  BY <1>2, <1>3 DEF QueryFails, FirstProcess, GraphTypes
<1>5. PICK call : call = failed(step, n)
  OBVIOUS
<1>6. /\ call \in GraphCall /\ call.step = step
      /\ call.graph = gcalls[c].graph /\ call.floor = gcalls[c].floor
  <2>1. step \in Steps
    BY <1>4 DEF Steps
  <2>2. gcalls[c] \in GraphCall /\ call = [gcalls[c] EXCEPT !.attempt = n, !.step = step]
    BY <1>2, <1>5
  <2> HIDE DEF failed, again
  <2> QED
    BY <2>1, <2>2 DEF GraphCall
<1>7. gcalls' = [gcalls EXCEPT ![c] = call]
  BY <1>4, <1>5
<1> HIDE DEF failed
<1>8. CASE stored' = stored
  <2>1. LoadIsOnTheWay(call)
    <3>1. CASE step \in {"save again", "failed"}
      BY <1>6, <3>1 DEF LoadIsOnTheWay, LoadIsFresh
    <3>2. CASE step = "load again"
      <4>1. gcalls[c].step \in {"latest", "nodes", "edges"}
        BY <1>1, <1>2, <1>4, <3>2 DEF Running, GraphCall, Steps
      <4> QED
        BY <1>2, <1>6, <3>2, <4>1 DEF LoadIsOnTheWay, LoadIsFresh
    <3> QED
      BY <1>4, <3>1, <3>2
  <2>2. step = "save again" => call.graph \in Graphs
    BY <1>4, <1>6 DEF FirstProcess, WritesAreApart
  <2>3. step # "write"
    BY <1>4
  <2> QED
    BY <1>1, <1>2, <1>6, <1>7, <1>8, <2>1, <2>2, <2>3, CallGoesOn
<1>9. CASE gcalls[c].step = "write" /\ stored' = MergeAt(gcalls[c].ver, gcalls[c].graph)
  <2>1. step \in {"saved", "save again", "failed"}
    BY <1>4, <1>9
  <2> QED
    BY <1>1, <1>6, <1>7, <1>9, <2>1, WriteLands
<1> QED
  BY <1>1, <1>8, <1>9

-----------------------------------------------------------------------------
(* Theorems on the graph stores *)

LEMMA FirstProcessStarts ==
    ASSUME NEW k \in {"embedded", "remote"}, GraphInit(k)
    PROVE  StoresInv
<1>1. Idling \in GraphCall /\ Idling.step = "idle"
  BY GraphsAreContents DEF Idling, GraphCall, Steps
<1>2. /\ gkind = k /\ counter = 0 /\ DOMAIN stored = {} /\ acked = {} /\ reloads = 0
      /\ stored \in [DOMAIN stored -> Contents]
      /\ gcalls \in [GraphCallers -> GraphCall]
      /\ \A c \in GraphCallers : gcalls[c] = Idling
  BY <1>1 DEF GraphInit
<1>3. \A c \in GraphCallers : gcalls[c].step = "idle"
  BY <1>1, <1>2
<1>4. GraphTypes
  BY <1>2 DEF GraphTypes
<1>5. AckedIsStored /\ StoredIsGraph /\ EmbeddedIsSynchronous /\ WritesAreApart
  BY <1>2, <1>3 DEF AckedIsStored, StoredIsGraph, EmbeddedIsSynchronous, Running, WritesAreApart
<1>6. LoadsAreOnTheWay
  BY <1>3 DEF LoadsAreOnTheWay, LoadIsOnTheWay, LoadIsFresh
<1> QED
  BY <1>2, <1>4, <1>5, <1>6 DEF StoresInv, FirstProcess

LEMMA StoresInvIsKept == StoresInv /\ [GraphNext]_graphVars => StoresInv'
<1> SUFFICES ASSUME StoresInv, [GraphNext]_graphVars PROVE StoresInv'
  OBVIOUS
<1>1. CASE Reload
  <2>1. reloads' = reloads + 1 /\ reloads \in Nat
    BY <1>1 DEF Reload, StoresInv
  <2> QED
    BY <2>1 DEF StoresInv
<1>2. CASE UNCHANGED graphVars
  BY <1>2 DEF graphVars, StoresInv, FirstProcess, GraphTypes, AckedIsStored, StoredIsGraph,
              EmbeddedIsSynchronous, Running, WritesAreApart, LoadsAreOnTheWay, LoadIsOnTheWay,
              LoadIsFresh
<1>3. ASSUME NEW c \in GraphCallers, NEW g \in Graphs, EmbedSave(c, g) \/ RemoteSave(c, g)
      PROVE  StoresInv'
  <2>1. reloads' = reloads
    BY <1>3 DEF EmbedSave, RemoteSave
  <2> QED
    BY <1>3, <2>1, EmbedSaveKeeps, RemoteSaveKeeps DEF StoresInv
<1>4. ASSUME NEW c \in GraphCallers, EmbedLoad(c) \/ RemoteLoad(c) \/ Commit(c)
      PROVE  StoresInv'
  <2>1. reloads' = reloads
    BY <1>4 DEF EmbedLoad, RemoteLoad, Commit
  <2> QED
    BY <1>4, <2>1, EmbedLoadKeeps, RemoteLoadKeeps, CommitKeeps DEF StoresInv
<1>5. ASSUME NEW c \in GraphCallers, QueryFails(c) \/ SaveAgain(c) \/ LoadAgain(c)
      PROVE  StoresInv'
  <2>1. reloads' = reloads
    BY <1>5 DEF QueryFails, SaveAgain, LoadAgain
  <2> QED
    BY <1>5, <2>1, QueryFailsKeeps, SaveAgainKeeps, LoadAgainKeeps DEF StoresInv
<1>6. ASSUME NEW c \in GraphCallers, ReadLatest(c) \/ ReadNodes(c) \/ ReadEdges(c)
      PROVE  StoresInv'
  <2>1. reloads' = reloads
    BY <1>6 DEF ReadLatest, ReadNodes, ReadEdges
  <2> QED
    BY <1>6, <2>1, ReadLatestKeeps, ReadNodesKeeps, ReadEdgesKeeps DEF StoresInv
<1> QED
  BY <1>1, <1>2, <1>3, <1>4, <1>5, <1>6 DEF GraphNext

LEMMA StoresInvSuffices == StoresInv => SavedGraphsAreRead
<1> SUFFICES ASSUME FirstProcess PROVE VersionsAreWhole /\
                    (gkind = "remote" => \A c \in GraphCallers : LoadIsFresh(gcalls[c]))
  BY DEF StoresInv, SavedGraphsAreRead
<1>1. VersionsAreWhole
  BY DEF VersionsAreWhole, FirstProcess, AckedIsStored, At
<1> QED
  BY <1>1 DEF FirstProcess, LoadsAreOnTheWay, LoadIsOnTheWay

\* Whatever saves overlap, fail half-way or are tried again, up to a restart: an
\* acknowledged version of a graph store holds its graph and nothing else, and a
\* load of the remote store returns one saved graph, whole, and none older than
\* the newest version acknowledged when it began.
THEOREM SavedGraphsAreAlwaysRead == GraphSpec => []SavedGraphsAreRead
<1>1. (\E k \in {"embedded", "remote"} : GraphInit(k)) => StoresInv
  BY FirstProcessStarts
<1> QED
  BY <1>1, StoresInvIsKept, StoresInvSuffices, PTL DEF GraphSpec
=============================================================================
