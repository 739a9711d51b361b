--------------------------- MODULE PCAlgorithmProofs ---------------------------
(* PC on right tests, for any number of nodes, any true DAG and any limit of *)
(* the degree: the skeleton search loses no adjacency of the truth and       *)
(* records a separating set of every pair it parts, no later phase adds or   *)
(* drops an adjacency, the extension keeps directions and adds no cycle, and *)
(* the result honours the caller's knowledge.                                *)
EXTENDS PCAlgorithm, FoldLemmas

-----------------------------------------------------------------------------
(* Orienting edges *)

Links == {e \in Nodes \X Nodes : e[1] # e[2]}
\* The graphs with the adjacencies sk.
GraphsOf(sk) == {g \in SUBSET Links : Skeleton(g) = sk}

\* Turning an edge that is there one way keeps who is adjacent to whom.
LEMMA OrientKeeps ==
    ASSUME NEW sk, NEW g \in GraphsOf(sk), NEW a, NEW b, <<a, b>> \in g
    PROVE  OrientEdge(g, a, b) \in GraphsOf(sk)
<1> DEFINE h == OrientEdge(g, a, b)
<1>1. h = (g \ {<<b, a>>}) \cup {<<a, b>>} /\ g \in SUBSET Links
  BY DEF OrientEdge, GraphsOf
<1>2. h \in SUBSET Links
  BY <1>1
<1>3. ASSUME NEW u, NEW v PROVE Adjacent(h, u, v) <=> Adjacent(g, u, v)
  <2> HIDE DEF h
  <2>1. \A e : e \in h <=> (e \in g /\ e # <<b, a>>) \/ e = <<a, b>>
    BY <1>1
  <2>2. <<a, b>> \in g
    OBVIOUS
  <2>3. <<u, v>> = <<b, a>> <=> <<v, u>> = <<a, b>>
    OBVIOUS
  <2>4. <<u, v>> = <<a, b>> <=> <<v, u>> = <<b, a>>
    OBVIOUS
  <2> QED
    BY <2>1, <2>2, <2>3, <2>4 DEF Adjacent
<1>4. Skeleton(h) = Skeleton(g)
  BY <1>3 DEF Skeleton
<1> QED
  BY <1>2, <1>4 DEF GraphsOf

LEMMA MeekR1Keeps ==
    ASSUME NEW sk, NEW g \in GraphsOf(sk), NEW e
    PROVE  MeekR1(g, e) \in GraphsOf(sk)
<1> DEFINE turned == {l \in Nodes : TwoWay(g, e[2], l) /\ ~Adjacent(g, e[1], l)}
           gone == {<<k, e[2]>> : k \in turned}
           h == g \ gone
<1>1. g \in SUBSET Links /\ Skeleton(g) = sk
  BY DEF GraphsOf
<1>2. \A k \in turned : <<e[2], k>> \in g /\ k # e[2]
  BY <1>1 DEF TwoWay, Links
<1> HIDE DEF turned
<1>3. ASSUME NEW u, NEW v, <<u, v>> \in g PROVE <<u, v>> \in h \/ <<v, u>> \in h
  <2>1. CASE <<u, v>> \notin gone
    BY <1>3, <2>1
  <2>2. CASE <<u, v>> \in gone
    <3>1. v = e[2] /\ u \in turned
      BY <2>2
    <3>2. <<v, u>> \in g /\ u # e[2]
      BY <1>2, <3>1
    <3>3. <<v, u>> \notin gone
      BY <3>2
    <3> QED
      BY <3>2, <3>3
  <2> QED
    BY <2>1, <2>2
<1>4. h \subseteq g
  OBVIOUS
<1> HIDE DEF h
<1>5. \A u, v : Adjacent(h, u, v) <=> Adjacent(g, u, v)
  BY <1>3, <1>4 DEF Adjacent
<1>6. h \in GraphsOf(sk)
  BY <1>1, <1>4, <1>5 DEF GraphsOf, Skeleton
<1>7. MeekR1(g, e) = IF OneWay(g, e[1], e[2]) THEN h ELSE g
  BY DEF MeekR1, h, turned
<1> QED
  BY <1>6, <1>7

LEMMA MeekR2Keeps ==
    ASSUME NEW sk, NEW g \in GraphsOf(sk), NEW e
    PROVE  MeekR2(g, e) \in GraphsOf(sk)
<1>1. TwoWay(g, e[1], e[2]) => OrientEdge(g, e[1], e[2]) \in GraphsOf(sk)
  BY OrientKeeps DEF TwoWay
<1> QED
  BY <1>1 DEF MeekR2

LEMMA MeekR3Keeps ==
    ASSUME NEW sk, NEW g \in GraphsOf(sk), NEW e
    PROVE  MeekR3(g, e) \in GraphsOf(sk)
<1>1. TwoWay(g, e[1], e[2]) => OrientEdge(g, e[1], e[2]) \in GraphsOf(sk)
  BY OrientKeeps DEF TwoWay
<1> QED
  BY <1>1 DEF MeekR3

LEMMA OrientTripleKeeps ==
    ASSUME NEW sk, NEW g \in GraphsOf(sk), NEW t
    PROVE  OrientTriple(g, t) \in GraphsOf(sk)
<1>1. CASE IsTriple(g, t)
  <2> DEFINE h == OrientEdge(g, t[1], t[3])
  <2>1. /\ <<t[1], t[3]>> \in g /\ <<t[2], t[3]>> \in g /\ g \in SUBSET Links
        /\ t[1] # t[2] /\ t[3] # t[2]
    <3>1. <<t[1], t[3]>> \in Nodes \X Nodes /\ <<t[2], t[3]>> \in Nodes \X Nodes
      BY <1>1 DEF IsTriple, GraphsOf, Links
    <3>2. t[1] \in Int /\ t[2] \in Int
      BY <3>1 DEF Nodes
    <3> QED
      BY <1>1, <3>2 DEF IsTriple, GraphsOf
  <2>2. h \in GraphsOf(sk)
    BY <2>1, OrientKeeps
  <2>3. <<t[2], t[3]>> \in h
    BY <2>1 DEF OrientEdge
  <2> HIDE DEF h
  <2>4. OrientEdge(h, t[2], t[3]) \in GraphsOf(sk)
    BY <2>2, <2>3, OrientKeeps
  <2> QED
    BY <1>1, <2>4 DEF OrientTriple, h
<1>2. CASE ~IsTriple(g, t)
  BY <1>2 DEF OrientTriple
<1> QED
  BY <1>1, <1>2

-----------------------------------------------------------------------------
(* The loops over pairs and triples *)

\* There are finitely many triples, and the lists of pairs and triples have a length.
LEMMA TriplesAreFinite ==
    IsFiniteSet({t \in Nodes \X Nodes \X Nodes : t[1] < t[2]})
<1> DEFINE S == (Nodes \X Nodes) \X Nodes
           T == Nodes \X Nodes \X Nodes
           f == [p \in S |-> <<p[1][1], p[1][2], p[2]>>]
<1>1. IsFiniteSet(Nodes)
  BY NAssumption, FS_Interval DEF Nodes
<1>2. IsFiniteSet(S)
  BY <1>1, FS_Product
<1>3. f \in Surjection(S, T)
  <2>1. f \in [S -> T]
    OBVIOUS
  <2>2. ASSUME NEW t \in T PROVE \E p \in S : f[p] = t
    <3>1. <<<<t[1], t[2]>>, t[3]>> \in S /\ t = <<t[1], t[2], t[3]>>
      OBVIOUS
    <3> QED
      BY <3>1
  <2> QED
    BY <2>1, <2>2 DEF Surjection
<1>4. IsFiniteSet(T)
  BY <1>2, <1>3, FS_Surjection
<1> QED
  BY <1>4, FS_Subset

LEMMA ListsAreFinite ==
    /\ DOMAIN PairSeq = 1..(N * (N - 1)) /\ N * (N - 1) \in Nat
    /\ DOMAIN Triples = 1..Cardinality({t \in Nodes \X Nodes \X Nodes : t[1] < t[2]})
    /\ Cardinality({t \in Nodes \X Nodes \X Nodes : t[1] < t[2]}) \in Nat
<1>1. N \in Nat
  BY NAssumption
<1>2. N * (N - 1) \in Nat
  <2>1. CASE N = 0
    BY <2>1
  <2>2. CASE N # 0
    <3>1. N - 1 \in Nat
      BY <1>1, <2>2
    <3> QED
      BY <1>1, <3>1
  <2> QED
    BY <2>1, <2>2
<1> QED
  BY <1>2, TriplesAreFinite, FS_CardinalityType DEF PairSeq, Triples

\* The loops of Meek's rules over all pairs keep the adjacencies, too.
LEMMA MeekR1Loop ==
    ASSUME NEW sk, NEW g \in GraphsOf(sk)
    PROVE  FoldLeft(MeekR1, g, PairSeq) \in GraphsOf(sk)
<1> DEFINE n == N * (N - 1)
           D == GraphsOf(sk)
           F == [x \in (1..n) \X D |-> MeekR1(x[2], PairSeq[x[1]])]
           h == CHOOSE h : h = [s \in SUBSET DOMAIN PairSeq |->
                   IF s = {} THEN g ELSE MeekR1(h[s \ {Max(s)}], PairSeq[Max(s)])]
<1>1. FoldLeft(MeekR1, g, PairSeq) = h[DOMAIN PairSeq]
  BY DEF FoldLeft, MapThenFoldSet
<1>2. DOMAIN PairSeq = 1..n /\ n \in Nat
  BY ListsAreFinite
<1>3. ASSUME NEW x \in D, NEW i \in 1..n PROVE MeekR1(x, PairSeq[i]) \in D
  BY MeekR1Keeps
<1>4. F \in [(1..n) \X D -> D]
  <2>1. \A x \in (1..n) \X D : MeekR1(x[2], PairSeq[x[1]]) \in D
    BY <1>3
  <2> HIDE DEF D
  <2> QED
    BY <2>1
<1>5. ASSUME NEW i \in 1..n, NEW x \in D PROVE F[<<i, x>>] = MeekR1(x, PairSeq[i])
  OBVIOUS
<1>6. g \in D
  OBVIOUS
<1> HIDE DEF D, F, h
<1>7. PICK r \in [SUBSET (1..n) -> D] : Recursion(r, g, F, 1..n)
  BY <1>2, <1>4, <1>6, SetRecursion
<1>8. r = [s \in SUBSET DOMAIN PairSeq |->
              IF s = {} THEN g ELSE MeekR1(r[s \ {Max(s)}], PairSeq[Max(s)])]
  <2>1. ASSUME NEW s \in SUBSET (1..n), s # {}
        PROVE  r[s] = MeekR1(r[s \ {Max(s)}], PairSeq[Max(s)])
    <3>1. Max(s) \in 1..n
      BY <1>2, <2>1, MaxExists
    <3>2. r[s \ {Max(s)}] \in D
      BY <1>7
    <3> QED
      BY <1>5, <1>7, <2>1, <3>1, <3>2 DEF Recursion
  <2>2. r[{}] = g
    BY <1>7 DEF Recursion
  <2> QED
    BY <1>2, <1>7, <2>1, <2>2
<1>9. h = [s \in SUBSET DOMAIN PairSeq |->
              IF s = {} THEN g ELSE MeekR1(h[s \ {Max(s)}], PairSeq[Max(s)])]
  BY <1>8 DEF h
<1>10. FollowsFrom(h, D, g, F, 1..n)
  <2> SUFFICES ASSUME NEW t \in SUBSET (1..n)
               PROVE  /\ t = {} => h[t] = g
                      /\ t # {} /\ h[t \ {Max(t)}] \in D
                            => h[t] = F[<<Max(t), h[t \ {Max(t)}]>>]
    BY DEF FollowsFrom
  <2>1. h[t] = IF t = {} THEN g ELSE MeekR1(h[t \ {Max(t)}], PairSeq[Max(t)])
    BY <1>2, <1>9
  <2>2. t # {} => Max(t) \in 1..n
    BY <1>2, MaxExists
  <2> QED
    BY <1>5, <2>1, <2>2
<1>11. PICK f \in [0..n -> D] : Stages(f, h, g, F, n)
  BY <1>2, <1>4, <1>6, <1>10, Unfolding
<1>12. f[n] \in D
  BY <1>2, <1>11
<1> QED
  BY <1>1, <1>2, <1>11, <1>12 DEF Stages, D

LEMMA MeekR2Loop ==
    ASSUME NEW sk, NEW g \in GraphsOf(sk)
    PROVE  FoldLeft(MeekR2, g, PairSeq) \in GraphsOf(sk)
<1> DEFINE n == N * (N - 1)
           D == GraphsOf(sk)
           F == [x \in (1..n) \X D |-> MeekR2(x[2], PairSeq[x[1]])]
           h == CHOOSE h : h = [s \in SUBSET DOMAIN PairSeq |->
                   IF s = {} THEN g ELSE MeekR2(h[s \ {Max(s)}], PairSeq[Max(s)])]
<1>1. FoldLeft(MeekR2, g, PairSeq) = h[DOMAIN PairSeq]
  BY DEF FoldLeft, MapThenFoldSet
<1>2. DOMAIN PairSeq = 1..n /\ n \in Nat
  BY ListsAreFinite
<1>3. ASSUME NEW x \in D, NEW i \in 1..n PROVE MeekR2(x, PairSeq[i]) \in D
  BY MeekR2Keeps
<1>4. F \in [(1..n) \X D -> D]
  <2>1. \A x \in (1..n) \X D : MeekR2(x[2], PairSeq[x[1]]) \in D
    BY <1>3
  <2> HIDE DEF D
  <2> QED
    BY <2>1
<1>5. ASSUME NEW i \in 1..n, NEW x \in D PROVE F[<<i, x>>] = MeekR2(x, PairSeq[i])
  OBVIOUS
<1>6. g \in D
  OBVIOUS
<1> HIDE DEF D, F, h
<1>7. PICK r \in [SUBSET (1..n) -> D] : Recursion(r, g, F, 1..n)
  BY <1>2, <1>4, <1>6, SetRecursion
<1>8. r = [s \in SUBSET DOMAIN PairSeq |->
              IF s = {} THEN g ELSE MeekR2(r[s \ {Max(s)}], PairSeq[Max(s)])]
  <2>1. ASSUME NEW s \in SUBSET (1..n), s # {}
        PROVE  r[s] = MeekR2(r[s \ {Max(s)}], PairSeq[Max(s)])
    <3>1. Max(s) \in 1..n
      BY <1>2, <2>1, MaxExists
    <3>2. r[s \ {Max(s)}] \in D
      BY <1>7
    <3> QED
      BY <1>5, <1>7, <2>1, <3>1, <3>2 DEF Recursion
  <2>2. r[{}] = g
    BY <1>7 DEF Recursion
  <2> QED
    BY <1>2, <1>7, <2>1, <2>2
<1>9. h = [s \in SUBSET DOMAIN PairSeq |->
              IF s = {} THEN g ELSE MeekR2(h[s \ {Max(s)}], PairSeq[Max(s)])]
  BY <1>8 DEF h
<1>10. FollowsFrom(h, D, g, F, 1..n)
  <2> SUFFICES ASSUME NEW t \in SUBSET (1..n)
               PROVE  /\ t = {} => h[t] = g
                      /\ t # {} /\ h[t \ {Max(t)}] \in D
                            => h[t] = F[<<Max(t), h[t \ {Max(t)}]>>]
    BY DEF FollowsFrom
  <2>1. h[t] = IF t = {} THEN g ELSE MeekR2(h[t \ {Max(t)}], PairSeq[Max(t)])
    BY <1>2, <1>9
  <2>2. t # {} => Max(t) \in 1..n
    BY <1>2, MaxExists
  <2> QED
    BY <1>5, <2>1, <2>2
<1>11. PICK f \in [0..n -> D] : Stages(f, h, g, F, n)
  BY <1>2, <1>4, <1>6, <1>10, Unfolding
<1>12. f[n] \in D
  BY <1>2, <1>11
<1> QED
  BY <1>1, <1>2, <1>11, <1>12 DEF Stages, D

LEMMA MeekR3Loop ==
    ASSUME NEW sk, NEW g \in GraphsOf(sk)
    PROVE  FoldLeft(MeekR3, g, PairSeq) \in GraphsOf(sk)
<1> DEFINE n == N * (N - 1)
           D == GraphsOf(sk)
           F == [x \in (1..n) \X D |-> MeekR3(x[2], PairSeq[x[1]])]
           h == CHOOSE h : h = [s \in SUBSET DOMAIN PairSeq |->
                   IF s = {} THEN g ELSE MeekR3(h[s \ {Max(s)}], PairSeq[Max(s)])]
<1>1. FoldLeft(MeekR3, g, PairSeq) = h[DOMAIN PairSeq]
  BY DEF FoldLeft, MapThenFoldSet
<1>2. DOMAIN PairSeq = 1..n /\ n \in Nat
  BY ListsAreFinite
<1>3. ASSUME NEW x \in D, NEW i \in 1..n PROVE MeekR3(x, PairSeq[i]) \in D
  BY MeekR3Keeps
<1>4. F \in [(1..n) \X D -> D]
  <2>1. \A x \in (1..n) \X D : MeekR3(x[2], PairSeq[x[1]]) \in D
    BY <1>3
  <2> HIDE DEF D
  <2> QED
    BY <2>1
<1>5. ASSUME NEW i \in 1..n, NEW x \in D PROVE F[<<i, x>>] = MeekR3(x, PairSeq[i])
  OBVIOUS
<1>6. g \in D
  OBVIOUS
<1> HIDE DEF D, F, h
<1>7. PICK r \in [SUBSET (1..n) -> D] : Recursion(r, g, F, 1..n)
  BY <1>2, <1>4, <1>6, SetRecursion
<1>8. r = [s \in SUBSET DOMAIN PairSeq |->
              IF s = {} THEN g ELSE MeekR3(r[s \ {Max(s)}], PairSeq[Max(s)])]
  <2>1. ASSUME NEW s \in SUBSET (1..n), s # {}
        PROVE  r[s] = MeekR3(r[s \ {Max(s)}], PairSeq[Max(s)])
    <3>1. Max(s) \in 1..n
      BY <1>2, <2>1, MaxExists
    <3>2. r[s \ {Max(s)}] \in D
      BY <1>7
    <3> QED
      BY <1>5, <1>7, <2>1, <3>1, <3>2 DEF Recursion
  <2>2. r[{}] = g
    BY <1>7 DEF Recursion
  <2> QED
    BY <1>2, <1>7, <2>1, <2>2
<1>9. h = [s \in SUBSET DOMAIN PairSeq |->
              IF s = {} THEN g ELSE MeekR3(h[s \ {Max(s)}], PairSeq[Max(s)])]
  BY <1>8 DEF h
<1>10. FollowsFrom(h, D, g, F, 1..n)
  <2> SUFFICES ASSUME NEW t \in SUBSET (1..n)
               PROVE  /\ t = {} => h[t] = g
                      /\ t # {} /\ h[t \ {Max(t)}] \in D
                            => h[t] = F[<<Max(t), h[t \ {Max(t)}]>>]
    BY DEF FollowsFrom
  <2>1. h[t] = IF t = {} THEN g ELSE MeekR3(h[t \ {Max(t)}], PairSeq[Max(t)])
    BY <1>2, <1>9
  <2>2. t # {} => Max(t) \in 1..n
    BY <1>2, MaxExists
  <2> QED
    BY <1>5, <2>1, <2>2
<1>11. PICK f \in [0..n -> D] : Stages(f, h, g, F, n)
  BY <1>2, <1>4, <1>6, <1>10, Unfolding
<1>12. f[n] \in D
  BY <1>2, <1>11
<1> QED
  BY <1>1, <1>2, <1>11, <1>12 DEF Stages, D

\* And so does the loop of phase 2 over all triples.
LEMMA ColliderLoop ==
    ASSUME NEW sk, NEW g \in GraphsOf(sk)
    PROVE  FoldLeft(VisitTriple, [bad |-> FALSE, g |-> g], Triples)
              \in [bad : BOOLEAN, g : GraphsOf(sk)]
<1> DEFINE n == Cardinality({t \in Nodes \X Nodes \X Nodes : t[1] < t[2]})
           start == [bad |-> FALSE, g |-> g]
           D == [bad : BOOLEAN, g : GraphsOf(sk)]
           F == [x \in (1..n) \X D |-> VisitTriple(x[2], Triples[x[1]])]
           h == CHOOSE h : h = [s \in SUBSET DOMAIN Triples |->
                   IF s = {} THEN start ELSE VisitTriple(h[s \ {Max(s)}], Triples[Max(s)])]
<1>1. FoldLeft(VisitTriple, start, Triples) = h[DOMAIN Triples]
  BY DEF FoldLeft, MapThenFoldSet
<1>2. DOMAIN Triples = 1..n /\ n \in Nat
  BY ListsAreFinite
<1>3. ASSUME NEW x \in D, NEW i \in 1..n PROVE VisitTriple(x, Triples[i]) \in D
  <2>1. x.g \in GraphsOf(sk)
    OBVIOUS
  <2>2. OrientTriple(x.g, Triples[i]) \in GraphsOf(sk)
    BY <2>1, OrientTripleKeeps
  <2> QED
    BY <2>2 DEF VisitTriple
<1>4. F \in [(1..n) \X D -> D]
  <2>1. \A x \in (1..n) \X D : VisitTriple(x[2], Triples[x[1]]) \in D
    BY <1>3
  <2> HIDE DEF D
  <2> QED
    BY <2>1
<1>5. ASSUME NEW i \in 1..n, NEW x \in D PROVE F[<<i, x>>] = VisitTriple(x, Triples[i])
  OBVIOUS
<1>6. start \in D
  OBVIOUS
<1> HIDE DEF D, F, h, start
<1>7. PICK r \in [SUBSET (1..n) -> D] : Recursion(r, start, F, 1..n)
  BY <1>2, <1>4, <1>6, SetRecursion
<1>8. r = [s \in SUBSET DOMAIN Triples |->
              IF s = {} THEN start ELSE VisitTriple(r[s \ {Max(s)}], Triples[Max(s)])]
  <2>1. ASSUME NEW s \in SUBSET (1..n), s # {}
        PROVE  r[s] = VisitTriple(r[s \ {Max(s)}], Triples[Max(s)])
    <3>1. Max(s) \in 1..n
      BY <1>2, <2>1, MaxExists
    <3>2. r[s \ {Max(s)}] \in D
      BY <1>7
    <3> QED
      BY <1>5, <1>7, <2>1, <3>1, <3>2 DEF Recursion
  <2>2. r[{}] = start
    BY <1>7 DEF Recursion
  <2> QED
    BY <1>2, <1>7, <2>1, <2>2
<1>9. h = [s \in SUBSET DOMAIN Triples |->
              IF s = {} THEN start ELSE VisitTriple(h[s \ {Max(s)}], Triples[Max(s)])]
  BY <1>8 DEF h
<1>10. FollowsFrom(h, D, start, F, 1..n)
  <2> SUFFICES ASSUME NEW t \in SUBSET (1..n)
               PROVE  /\ t = {} => h[t] = start
                      /\ t # {} /\ h[t \ {Max(t)}] \in D
                            => h[t] = F[<<Max(t), h[t \ {Max(t)}]>>]
    BY DEF FollowsFrom
  <2>1. h[t] = IF t = {} THEN start ELSE VisitTriple(h[t \ {Max(t)}], Triples[Max(t)])
    BY <1>2, <1>9
  <2>2. t # {} => Max(t) \in 1..n
    BY <1>2, MaxExists
  <2> QED
    BY <1>5, <2>1, <2>2
<1>11. PICK f \in [0..n -> D] : Stages(f, h, start, F, n)
  BY <1>2, <1>4, <1>6, <1>10, Unfolding
<1>12. f[n] \in D
  BY <1>2, <1>11
<1> QED
  BY <1>1, <1>2, <1>11, <1>12 DEF Stages, D, start

\* The graphs that the loop over the required edges passes through.
RequiredFrom(f, g, q) ==
    /\ f[0] = g /\ f[Len(q)] = FoldLeft(RequireEdge, g, q)
    /\ \A i \in 1..Len(q) : f[i] = RequireEdge(f[i - 1], q[i])

LEMMA RequireLoop ==
    ASSUME NEW g \in SUBSET Links, NEW q \in Seq(Nodes \X Nodes)
    PROVE  \E f \in [0..Len(q) -> SUBSET Links] : RequiredFrom(f, g, q)
<1> DEFINE n == Len(q)
           D == SUBSET Links
           F == [x \in (1..n) \X D |-> RequireEdge(x[2], q[x[1]])]
           h == CHOOSE h : h = [s \in SUBSET DOMAIN q |->
                   IF s = {} THEN g ELSE RequireEdge(h[s \ {Max(s)}], q[Max(s)])]
<1>1. FoldLeft(RequireEdge, g, q) = h[DOMAIN q]
  BY DEF FoldLeft, MapThenFoldSet
<1>2. DOMAIN q = 1..n /\ n \in Nat
  OBVIOUS
<1>3. ASSUME NEW x \in D, NEW i \in 1..n PROVE RequireEdge(x, q[i]) \in D
  <2>1. q[i] \in Nodes \X Nodes
    OBVIOUS
  <2>2. q[i] \in Links \/ q[i] = <<q[i][2], q[i][1]>>
    BY <2>1 DEF Links
  <2> QED
    BY <2>2 DEF RequireEdge
<1>4. F \in [(1..n) \X D -> D]
  <2>1. \A x \in (1..n) \X D : RequireEdge(x[2], q[x[1]]) \in D
    BY <1>3
  <2> HIDE DEF D
  <2> QED
    BY <2>1
<1>5. ASSUME NEW i \in 1..n, NEW x \in D PROVE F[<<i, x>>] = RequireEdge(x, q[i])
  OBVIOUS
<1>6. g \in D
  OBVIOUS
<1> HIDE DEF D, F, h
<1>7. PICK r \in [SUBSET (1..n) -> D] : Recursion(r, g, F, 1..n)
  BY <1>2, <1>4, <1>6, SetRecursion
<1>8. r = [s \in SUBSET DOMAIN q |->
              IF s = {} THEN g ELSE RequireEdge(r[s \ {Max(s)}], q[Max(s)])]
  <2>1. ASSUME NEW s \in SUBSET (1..n), s # {}
        PROVE  r[s] = RequireEdge(r[s \ {Max(s)}], q[Max(s)])
    <3>1. Max(s) \in 1..n
      BY <1>2, <2>1, MaxExists
    <3>2. r[s \ {Max(s)}] \in D
      BY <1>7
    <3> QED
      BY <1>5, <1>7, <2>1, <3>1, <3>2 DEF Recursion
  <2>2. r[{}] = g
    BY <1>7 DEF Recursion
  <2> QED
    BY <1>2, <1>7, <2>1, <2>2
<1>9. h = [s \in SUBSET DOMAIN q |->
              IF s = {} THEN g ELSE RequireEdge(h[s \ {Max(s)}], q[Max(s)])]
  BY <1>8 DEF h
<1>10. FollowsFrom(h, D, g, F, 1..n)
  <2> SUFFICES ASSUME NEW t \in SUBSET (1..n)
               PROVE  /\ t = {} => h[t] = g
                      /\ t # {} /\ h[t \ {Max(t)}] \in D
                            => h[t] = F[<<Max(t), h[t \ {Max(t)}]>>]
    BY DEF FollowsFrom
  <2>1. h[t] = IF t = {} THEN g ELSE RequireEdge(h[t \ {Max(t)}], q[Max(t)])
    BY <1>2, <1>9
  <2>2. t # {} => Max(t) \in 1..n
    BY <1>2, MaxExists
  <2> QED
    BY <1>5, <2>1, <2>2
<1>11. PICK f \in [0..n -> D] : Stages(f, h, g, F, n)
  BY <1>2, <1>4, <1>6, <1>10, Unfolding
<1>12. ASSUME NEW i \in 1..n PROVE f[i] = RequireEdge(f[i - 1], q[i])
  <2>1. f[i - 1] \in D
    <3>1. i - 1 \in 0..n
      BY <1>2
    <3> HIDE DEF n
    <3> QED
      BY <1>11, <3>1
  <2> QED
    BY <1>5, <1>11, <2>1 DEF Stages
<1> QED
  BY <1>1, <1>2, <1>11, <1>12 DEF Stages, D, RequiredFrom

-----------------------------------------------------------------------------
(* The tests *)

\* A trail of one edge is open whatever is given: the test of nodes that are
\* adjacent in the truth never says independent.
LEMMA AdjacentIsDependent ==
    ASSUME NEW g, NEW Z, NEW x0 \in Nodes, NEW y0 \in Nodes, x0 # y0, Adjacent(g, x0, y0)
    PROVE  ~DSeparated(g, x0, y0, Z)
<1> DEFINE start == {<<x0>>}
           trail == Append(<<x0>>, y0)
           D == SUBSET Seq(Nodes)
           F == [x \in (1..N) \X D |-> LongerTrails(g, Z, x[2], NodeSeq[x[1]])]
           h == CHOOSE h : h = [s \in SUBSET DOMAIN NodeSeq |->
                   IF s = {} THEN start ELSE LongerTrails(g, Z, h[s \ {Max(s)}], NodeSeq[Max(s)])]
<1>1. OpenTrails(g, Z, x0) = h[DOMAIN NodeSeq]
  BY DEF OpenTrails, FoldLeft, MapThenFoldSet
<1>2. DOMAIN NodeSeq = 1..N /\ N \in Nat
  BY NAssumption DEF NodeSeq
<1>3. ASSUME NEW x \in D, NEW i \in 1..N PROVE LongerTrails(g, Z, x, NodeSeq[i]) \in D
  <2>1. \A t \in x : \A w \in OpenSteps(g, Z, t) : Append(t, w) \in Seq(Nodes)
    BY DEF OpenSteps
  <2> QED
    BY <2>1 DEF LongerTrails
<1>4. F \in [(1..N) \X D -> D]
  <2>1. \A x \in (1..N) \X D : LongerTrails(g, Z, x[2], NodeSeq[x[1]]) \in D
    BY <1>3
  <2> HIDE DEF D
  <2> QED
    BY <2>1
<1>5. ASSUME NEW i \in 1..N, NEW x \in D PROVE F[<<i, x>>] = LongerTrails(g, Z, x, NodeSeq[i])
  OBVIOUS
<1>6. start \in D
  OBVIOUS
<1> HIDE DEF D, F, h, start, trail
<1>7. PICK r \in [SUBSET (1..N) -> D] : Recursion(r, start, F, 1..N)
  BY <1>2, <1>4, <1>6, SetRecursion
<1>8. r = [s \in SUBSET DOMAIN NodeSeq |->
              IF s = {} THEN start ELSE LongerTrails(g, Z, r[s \ {Max(s)}], NodeSeq[Max(s)])]
  <2>1. ASSUME NEW s \in SUBSET (1..N), s # {}
        PROVE  r[s] = LongerTrails(g, Z, r[s \ {Max(s)}], NodeSeq[Max(s)])
    <3>1. Max(s) \in 1..N
      BY <1>2, <2>1, MaxExists
    <3>2. r[s \ {Max(s)}] \in D
      BY <1>7
    <3> QED
      BY <1>5, <1>7, <2>1, <3>1, <3>2 DEF Recursion
  <2>2. r[{}] = start
    BY <1>7 DEF Recursion
  <2> QED
    BY <1>2, <1>7, <2>1, <2>2
<1>9. h = [s \in SUBSET DOMAIN NodeSeq |->
              IF s = {} THEN start ELSE LongerTrails(g, Z, h[s \ {Max(s)}], NodeSeq[Max(s)])]
  BY <1>8 DEF h
<1>10. FollowsFrom(h, D, start, F, 1..N)
  <2> SUFFICES ASSUME NEW t \in SUBSET (1..N)
               PROVE  /\ t = {} => h[t] = start
                      /\ t # {} /\ h[t \ {Max(t)}] \in D
                            => h[t] = F[<<Max(t), h[t \ {Max(t)}]>>]
    BY DEF FollowsFrom
  <2>1. h[t] = IF t = {} THEN start ELSE LongerTrails(g, Z, h[t \ {Max(t)}], NodeSeq[Max(t)])
    BY <1>2, <1>9
  <2>2. t # {} => Max(t) \in 1..N
    BY <1>2, MaxExists
  <2> QED
    BY <1>5, <2>1, <2>2
<1>11. PICK f \in [0..N -> D] : Stages(f, h, start, F, N)
  BY <1>2, <1>4, <1>6, <1>10, Unfolding
<1>12. <<x0>> \in f[0] /\ f[N] = OpenTrails(g, Z, x0)
  BY <1>1, <1>2, <1>11 DEF Stages, start
<1>13. ASSUME NEW i \in 1..N PROVE f[i] = LongerTrails(g, Z, f[i - 1], i - 1)
  <2>1. f[i - 1] \in D /\ NodeSeq[i] = i - 1
    BY <1>2, <1>11 DEF NodeSeq
  <2> QED
    BY <1>5, <1>11, <2>1 DEF Stages
<1>14. N >= 1
  BY NAssumption DEF Nodes
<1>15. trail \in f[1]
  <2>1. f[1] = LongerTrails(g, Z, f[0], 0)
    BY <1>2, <1>13, <1>14
  <2>2. y0 \in OpenSteps(g, Z, <<x0>>)
    <3>1. Len(<<x0>>) = 1 /\ <<x0>>[1] = x0 /\ ToSet(<<x0>>) = {x0}
      BY DEF ToSet
    <3> QED
      BY <3>1 DEF OpenSteps
  <2>3. Len(<<x0>>) = 0 + 1
    OBVIOUS
  <2> DEFINE one == <<x0>>
  <2>4. one \in {u \in f[0] : Len(u) = 0 + 1}
    BY <1>12, <2>3
  <2>5. trail \in {Append(one, w) : w \in OpenSteps(g, Z, one)}
    BY <2>2 DEF trail
  <2> HIDE DEF one
  <2> QED
    BY <2>1, <2>4, <2>5 DEF LongerTrails
<1> DEFINE K == {i \in Nat : i + 1 <= N => trail \in f[i + 1]}
<1>16. 0 \in K
  BY <1>15
<1>17. ASSUME NEW i \in Nat, i \in K PROVE i + 1 \in K
  <2>1. SUFFICES ASSUME (i + 1) + 1 <= N PROVE trail \in f[(i + 1) + 1]
    OBVIOUS
  <2>2. (i + 1) + 1 \in 1..N /\ ((i + 1) + 1) - 1 = i + 1 /\ i + 1 <= N
    BY <1>2, <2>1
  <2>3. f[(i + 1) + 1] = LongerTrails(g, Z, f[i + 1], i + 1)
    BY <1>13, <2>2
  <2>4. trail \in f[i + 1]
    BY <1>17, <2>2
  <2> QED
    BY <2>3, <2>4 DEF LongerTrails
<1>18. N - 1 \in K
  <2> HIDE DEF K
  <2>1. \A i \in Nat : i \in K
    BY <1>16, <1>17, Counting
  <2> QED
    BY <1>2, <1>14, <2>1
<1>19. trail \in OpenTrails(g, Z, x0)
  BY <1>2, <1>12, <1>14, <1>18
<1>20. Len(trail) = 2 /\ trail[2] = y0
  <2>1. <<x0>> \in Seq(Nodes) /\ Len(<<x0>>) = 1
    OBVIOUS
  <2> QED
    BY <2>1, AppendProperties DEF trail
<1> QED
  BY <1>19, <1>20 DEF DSeparated

LEMMA MinIs ==
    ASSUME NEW S \in SUBSET Int, NEW m \in S, \A v \in S : m <= v
    PROVE  Min(S) = m
<1>1. Min(S) \in S /\ \A v \in S : Min(S) <= v
  BY DEF Min
<1>2. Min(S) \in Int /\ m \in Int
  BY <1>1
<1>3. m <= Min(S) /\ Min(S) <= m
  BY <1>1, <1>2
<1> QED
  BY <1>2, <1>3

\* The order of combinations has a first among any sets of nodes: S and T have the
\* same members below k, or the first that tells them apart is one of S.
Alike(S, T, k) == \A v \in 0..(k - 1) : v \in S <=> v \in T
FirstBelow(S, sets, k) ==
    \A T \in sets : Alike(S, T, k) \/ \E m \in 0..(k - 1) : m \in S /\ m \notin T /\ Alike(S, T, m)

LEMMA FirstSetIsMember ==
    ASSUME NEW sets \in SUBSET SUBSET Nodes, sets # {}
    PROVE  FirstSet(sets) \in sets
<1> DEFINE K == {k \in Nat : \E S \in sets : FirstBelow(S, sets, k)}
<1>1. 0 \in K
  <2>1. 0..(0 - 1) = {}
    OBVIOUS
  <2>2. PICK S \in sets : TRUE
    OBVIOUS
  <2>3. FirstBelow(S, sets, 0)
    BY <2>1 DEF FirstBelow, Alike
  <2> QED
    BY <2>3
<1>2. ASSUME NEW k \in Nat, k \in K PROVE k + 1 \in K
  <2>1. PICK S \in sets : FirstBelow(S, sets, k)
    BY <1>2
  <2>2. \A v : v \in 0..((k + 1) - 1) <=> v \in 0..(k - 1) \/ v = k
    OBVIOUS
  <2>3. k + 1 \in Nat /\ k \in 0..((k + 1) - 1)
    OBVIOUS
  <2>4. CASE \E U \in sets : Alike(S, U, k) /\ k \in U
    <3>1. PICK U \in sets : Alike(S, U, k) /\ k \in U
      BY <2>4
    <3>2. ASSUME NEW T \in sets
          PROVE  \/ Alike(U, T, k + 1)
                 \/ \E m \in 0..((k + 1) - 1) : m \in U /\ m \notin T /\ Alike(U, T, m)
      <4>1. CASE Alike(S, T, k)
        <5>1. Alike(U, T, k)
          BY <3>1, <4>1 DEF Alike
        <5>2. k \in T => Alike(U, T, k + 1)
          BY <2>2, <3>1, <5>1 DEF Alike
        <5> QED
          BY <2>3, <3>1, <5>1, <5>2
      <4>2. CASE ~Alike(S, T, k)
        <5>1. PICK m \in 0..(k - 1) : m \in S /\ m \notin T /\ Alike(S, T, m)
          BY <2>1, <4>2 DEF FirstBelow
        <5>2. m \in U
          BY <3>1, <5>1 DEF Alike
        <5>3. \A v \in 0..(m - 1) : v \in 0..(k - 1)
          OBVIOUS
        <5>4. Alike(U, T, m)
          BY <3>1, <5>1, <5>3 DEF Alike
        <5> QED
          BY <2>2, <5>1, <5>2, <5>4
      <4> QED
        BY <4>1, <4>2
    <3>3. FirstBelow(U, sets, k + 1)
      BY <3>2 DEF FirstBelow
    <3> QED
      BY <2>3, <3>3
  <2>5. CASE ~\E U \in sets : Alike(S, U, k) /\ k \in U
    <3>1. k \notin S
      BY <2>5 DEF Alike
    <3>2. ASSUME NEW T \in sets
          PROVE  \/ Alike(S, T, k + 1)
                 \/ \E m \in 0..((k + 1) - 1) : m \in S /\ m \notin T /\ Alike(S, T, m)
      <4>1. CASE Alike(S, T, k)
        <5>1. k \notin T
          BY <2>5, <4>1
        <5> QED
          BY <2>2, <3>1, <4>1, <5>1 DEF Alike
      <4>2. CASE ~Alike(S, T, k)
        BY <2>1, <2>2, <4>2 DEF FirstBelow
      <4> QED
        BY <4>1, <4>2
    <3>3. FirstBelow(S, sets, k + 1)
      BY <3>2 DEF FirstBelow
    <3> QED
      BY <2>3, <3>3
  <2> QED
    BY <2>4, <2>5
<1>3. N \in K
  <2> HIDE DEF K
  <2> QED
    BY <1>1, <1>2, Counting, NAssumption
<1>4. PICK S \in sets : FirstBelow(S, sets, N)
  BY <1>3
<1>5. ASSUME NEW T \in sets \ {S} PROVE Min(SymDiff(S, T)) \in S
  <2>1. S \subseteq 0..(N - 1) /\ T \subseteq 0..(N - 1)
    BY DEF Nodes
  <2>2. ~Alike(S, T, N)
    BY <2>1 DEF Alike
  <2>3. PICK m \in 0..(N - 1) : m \in S /\ m \notin T /\ Alike(S, T, m)
    BY <1>4, <2>2 DEF FirstBelow
  <2>4. m \in SymDiff(S, T) /\ SymDiff(S, T) \in SUBSET Int
    BY <2>1, <2>3 DEF SymDiff
  <2>5. ASSUME NEW v \in SymDiff(S, T) PROVE m <= v
    <3>1. v \in 0..(N - 1) /\ ~(v \in S <=> v \in T)
      BY <2>1 DEF SymDiff
    <3>2. v \notin 0..(m - 1)
      BY <2>3, <3>1 DEF Alike
    <3> QED
      BY <3>1, <3>2
  <2>6. Min(SymDiff(S, T)) = m
    BY <2>4, <2>5, MinIs
  <2> QED
    BY <2>3, <2>6
<1> QED
  BY <1>5 DEF FirstSet

-----------------------------------------------------------------------------
(* The inductive invariant *)

\* While pdag2dag runs, `open` is what is still undirected.
OpenIsUndirected == phase = "extend" => open = OpenPairs(graph)

PCInv ==
    /\ truth \in Truths
    /\ dk.requires \in Seq(Nodes \X Nodes)
    /\ phase = "skeleton" => depth <= MaxDepth
    /\ SkeletonIsRight
    /\ OpenIsUndirected
    /\ KnowledgeHolds

\* The truth has no loops.
LEMMA TruthIsIrreflexive ==
    ASSUME NEW d \in Truths
    PROVE  d \in SUBSET Links
<1>1. d \subseteq Nodes \X Nodes /\ Acyclic(d)
  BY TruthsAssumption
<1>2. ASSUME NEW v \in Nodes PROVE <<v, v>> \notin d
  <2>1. {v} \in (SUBSET Nodes) \ {{}}
    OBVIOUS
  <2> QED
    BY <1>1, <2>1 DEF Acyclic
<1>3. ASSUME NEW e \in d PROVE e[1] # e[2]
  <2>1. e \in Nodes \X Nodes /\ e = <<e[1], e[2]>>
    BY <1>1
  <2> QED
    BY <1>2, <2>1
<1> QED
  BY <1>1, <1>3 DEF Links

LEMMA MaxDepthIsNat == MaxDepth \in Nat
BY MaxDegreeAssumption, NAssumption DEF MaxDepth

LEMMA PCInitInv == Init => PCInv
<1> SUFFICES ASSUME Init PROVE PCInv
  OBVIOUS
<1> USE DEF Init
<1>1. truth \in Truths /\ truth \in SUBSET Links
  BY TruthIsIrreflexive
<1>2. CompleteGraph \in SUBSET Links
  <2>1. ASSUME NEW p \in Pairs
        PROVE  <<p[1], p[2]>> \in Links /\ <<p[2], p[1]>> \in Links
    BY DEF Pairs, Links, Nodes
  <2> QED
    BY <2>1 DEF CompleteGraph
<1>3. \A e \in Links : Adjacent(CompleteGraph, e[1], e[2])
  <2>1. SUFFICES ASSUME NEW e \in Links PROVE Adjacent(CompleteGraph, e[1], e[2])
    OBVIOUS
  <2>2. e[1] \in Nodes /\ e[2] \in Nodes /\ (e[1] < e[2] \/ e[2] < e[1])
    BY DEF Links, Nodes
  <2>3. <<e[1], e[2]>> \in Pairs \/ <<e[2], e[1]>> \in Pairs
    BY <2>2 DEF Pairs
  <2>4. \A a, b : <<a, b>> \in Pairs => <<a, b>> \in CompleteGraph /\ <<b, a>> \in CompleteGraph
    BY DEF CompleteGraph
  <2> QED
    BY <2>3, <2>4 DEF Adjacent
<1>4. MaxDepth \in Nat
  BY MaxDepthIsNat
<1>5. TypeOK
  <2>1. DOMAIN sepSet = {}
    BY DEF NoSets
  <2>2. depth \in 0..(MaxDepth + 1)
    BY <1>4
  <2>3. truth \subseteq Nodes \X Nodes /\ graph \subseteq {e \in Nodes \X Nodes : e[1] # e[2]}
    BY <1>1, <1>2 DEF Links
  <2> QED
    BY <2>1, <2>2, <2>3 DEF TypeOK
<1>6. Skeleton(truth) \subseteq Skeleton(graph)
  <2>1. \A a, b : Adjacent(truth, a, b) => <<a, b>> \in Links
    BY <1>1 DEF Adjacent, Links
  <2> QED
    BY <1>3, <2>1 DEF Skeleton
<1>7. DOMAIN sepSet = {p \in Pairs : ~Adjacent(graph, p[1], p[2])}
  <2>1. \A p \in Pairs : p \in Links
    BY DEF Pairs, Links, Nodes
  <2> QED
    BY <1>3, <2>1 DEF NoSets
<1> QED
  BY <1>1, <1>4, <1>5, <1>6, <1>7
     DEF PCInv, SkeletonIsRight, OpenIsUndirected, KnowledgeHolds, NoKnowledge, NoSets

-----------------------------------------------------------------------------
(* The steps *)

\* The graph of the type invariant, and the same adjacencies said pair by pair.
LEMMA GraphIsLinks == TypeOK <=> TypeOK /\ graph \in SUBSET Links /\ truth \subseteq Nodes \X Nodes
BY DEF TypeOK, Links

LEMMA SameAdjacencies ==
    ASSUME NEW g, NEW h \in GraphsOf(Skeleton(g))
    PROVE  \A a, b \in Nodes : Adjacent(h, a, b) <=> Adjacent(g, a, b)
<1>1. Skeleton(h) = Skeleton(g)
  BY DEF GraphsOf
<1>2. \A a, b \in Nodes : <<a, b>> \in Skeleton(h) <=> Adjacent(h, a, b)
  BY DEF Skeleton
<1>3. \A a, b \in Nodes : <<a, b>> \in Skeleton(g) <=> Adjacent(g, a, b)
  BY DEF Skeleton
<1> QED
  BY <1>1, <1>2, <1>3

\* Dropping pairs both ways round drops just these adjacencies.
LEMMA RemovingPairs ==
    ASSUME NEW g, NEW ps \in SUBSET Pairs
    PROVE  \A p \in Pairs : Adjacent(RemoveEdges(g, ps), p[1], p[2])
                                <=> Adjacent(g, p[1], p[2]) /\ p \notin ps
<1> SUFFICES ASSUME NEW p \in Pairs
             PROVE  Adjacent(RemoveEdges(g, ps), p[1], p[2])
                        <=> Adjacent(g, p[1], p[2]) /\ p \notin ps
  OBVIOUS
<1> DEFINE back == {<<e[2], e[1]>> : e \in ps}
<1>1. p = <<p[1], p[2]>> /\ p[1] \in Int /\ p[2] \in Int /\ p[1] < p[2]
  BY DEF Pairs, Nodes
<1>2. \A e \in ps : e = <<e[1], e[2]>> /\ e[1] \in Int /\ e[2] \in Int /\ e[1] < e[2]
  BY DEF Pairs, Nodes
<1>3. p \notin back
  BY <1>1, <1>2
<1>4. <<p[2], p[1]>> \notin ps
  BY <1>1, <1>2
<1>5. <<p[2], p[1]>> \in back <=> p \in ps
  BY <1>1, <1>2
<1>6. RemoveEdges(g, ps) = g \ (ps \cup back)
  BY DEF RemoveEdges
<1> HIDE DEF back
<1> QED
  BY <1>1, <1>3, <1>4, <1>5, <1>6 DEF Adjacent

\* What a level records of a pair: one of its separating sets.
LEMMA SeparatorsAre ==
    ASSUME TypeOK, NEW p \in Pairs, NEW S \in Separators(p)
    PROVE  S \subseteq Nodes \ {p[1], p[2]} /\ DSeparated(truth, p[1], p[2], S)
<1>1. S \in kSubset(depth, Neighbors(graph, p[1]) \ {p[2]}) /\ DSeparated(truth, p[1], p[2], S)
  BY DEF Separators, Independent
<1>2. S \subseteq Neighbors(graph, p[1]) \ {p[2]}
  BY <1>1 DEF kSubset
<1>3. Neighbors(graph, p[1]) \subseteq Nodes \ {p[1]}
  BY DEF Neighbors, Parents
<1> QED
  BY <1>1, <1>2, <1>3

\* A level removes pairs that are independent in the truth, and records why.
LEMMA SkeletonLevelKeeps == PCInv /\ SkeletonLevel => PCInv'
<1> SUFFICES ASSUME PCInv, SkeletonLevel PROVE PCInv'
  OBVIOUS
<1> DEFINE tested == {<<p, Separators(p)>> : p \in
                          {q \in Pairs : /\ q[2] \in Neighbors(graph, q[1])
                                         /\ Cardinality(Neighbors(graph, q[1])) - 1 >= depth}}
           found   == {t \in tested : t[2] # {}}
           removed == {t[1] : t \in found}
           chosen(p) == CHOOSE t \in found : t[1] = p
<1>1. /\ phase = "skeleton" /\ depth' = depth + 1
      /\ graph' = RemoveEdges(graph, removed)
      /\ sepSet' = [p \in DOMAIN sepSet \cup removed |->
                       IF p \in removed THEN FirstSet(chosen(p)[2]) ELSE sepSet[p]]
      /\ phase' = IF removed = {} \/ depth + 1 > MaxDepth THEN "colliders" ELSE "skeleton"
      /\ truth' = truth /\ open' = open /\ dk' = dk /\ shielded' = shielded
  BY DEF SkeletonLevel
<1>2. TypeOK /\ graph \in SUBSET Links
  BY GraphIsLinks DEF PCInv, SkeletonIsRight
<1>3. \A t \in found : t[1] \in Pairs /\ t = <<t[1], Separators(t[1])>> /\ t[2] # {}
  OBVIOUS
<1> HIDE DEF tested, found
<1>4. removed \in SUBSET Pairs
  BY <1>3
<1>5. ASSUME NEW p \in removed
      PROVE  /\ FirstSet(chosen(p)[2]) \subseteq Nodes \ {p[1], p[2]}
             /\ DSeparated(truth, p[1], p[2], FirstSet(chosen(p)[2]))
  <2>1. \E t \in found : t[1] = p
    OBVIOUS
  <2>2. chosen(p) \in found /\ chosen(p)[1] = p
    BY <2>1
  <2>3. chosen(p)[2] = Separators(p) /\ Separators(p) # {} /\ p \in Pairs
    BY <1>3, <2>2
  <2>4. \A S \in Separators(p) : S \subseteq Nodes \ {p[1], p[2]} /\ DSeparated(truth, p[1], p[2], S)
    BY <1>2, <2>3, SeparatorsAre
  <2>5. Separators(p) \in SUBSET SUBSET Nodes
    BY <2>4
  <2>6. FirstSet(Separators(p)) \in Separators(p)
    BY <2>3, <2>5, FirstSetIsMember
  <2> QED
    BY <2>3, <2>4, <2>6
<1> HIDE DEF removed, chosen
<1>6. DOMAIN sepSet' = DOMAIN sepSet \cup removed
  BY <1>1
<1>7. ASSUME NEW p \in DOMAIN sepSet'
      PROVE  p \in Pairs /\ sepSet'[p] \subseteq Nodes \ {p[1], p[2]}
             /\ DSeparated(truth, p[1], p[2], sepSet'[p])
  <2>1. CASE p \in removed
    BY <1>1, <1>4, <1>5, <1>6, <2>1
  <2>2. CASE p \notin removed
    <3>1. p \in DOMAIN sepSet /\ sepSet'[p] = sepSet[p]
      BY <1>1, <1>6, <2>2
    <3>2. DSeparated(truth, p[1], p[2], sepSet[p])
      BY <3>1 DEF PCInv, SkeletonIsRight, Independent
    <3> QED
      BY <1>2, <3>1, <3>2 DEF TypeOK
  <2> QED
    BY <2>1, <2>2
<1>8. \A p \in Pairs : Adjacent(graph', p[1], p[2]) <=> Adjacent(graph, p[1], p[2]) /\ p \notin removed
  BY <1>1, <1>4, RemovingPairs
<1>9. graph' \in SUBSET Links
  BY <1>1, <1>2 DEF RemoveEdges
<1>10. DOMAIN sepSet' = {p \in Pairs : ~Adjacent(graph', p[1], p[2])}
  <2>1. DOMAIN sepSet = {p \in Pairs : ~Adjacent(graph, p[1], p[2])}
    BY <1>1 DEF PCInv, SkeletonIsRight
  <2> QED
    BY <1>4, <1>6, <1>8, <2>1
<1>11. ASSUME NEW p \in Pairs, Adjacent(truth, p[1], p[2]) PROVE Adjacent(graph', p[1], p[2])
  <2>1. p = <<p[1], p[2]>> /\ p[1] \in Nodes /\ p[2] \in Nodes /\ p[1] # p[2]
    BY DEF Pairs, Nodes
  <2>2. Adjacent(graph, p[1], p[2])
    <3>1. p \in Skeleton(truth)
      BY <1>11, <2>1 DEF Skeleton
    <3>2. Skeleton(truth) \subseteq Skeleton(graph)
      BY <1>1 DEF PCInv, SkeletonIsRight
    <3> QED
      BY <3>1, <3>2 DEF Skeleton
  <2>3. p \notin removed
    BY <1>5, <1>11, <2>1, AdjacentIsDependent
  <2> QED
    BY <1>8, <2>2, <2>3
<1>12. Skeleton(truth) \subseteq Skeleton(graph')
  <2>1. SUFFICES ASSUME NEW e \in Nodes \X Nodes, Adjacent(truth, e[1], e[2])
                 PROVE  Adjacent(graph', e[1], e[2])
    BY DEF Skeleton
  <2>2. e = <<e[1], e[2]>> /\ e[1] \in Nodes /\ e[2] \in Nodes
    OBVIOUS
  <2>3. e[1] # e[2]
    <3>1. truth \in SUBSET Links
      BY TruthIsIrreflexive DEF PCInv
    <3> QED
      BY <2>1, <3>1 DEF Adjacent, Links
  <2>4. e[1] < e[2] \/ e[2] < e[1]
    BY <2>2, <2>3 DEF Nodes
  <2>5. <<e[1], e[2]>> \in Pairs \/ <<e[2], e[1]>> \in Pairs
    BY <2>2, <2>4 DEF Pairs
  <2>6. \A a, b : Adjacent(truth, a, b) => Adjacent(truth, b, a)
    BY DEF Adjacent
  <2>7. \A a, b : Adjacent(graph', a, b) => Adjacent(graph', b, a)
    BY DEF Adjacent
  <2> QED
    BY <1>11, <2>1, <2>5, <2>6, <2>7
<1>13. MaxDepth \in Nat /\ depth \in 0..MaxDepth
  BY <1>1, <1>2, MaxDepthIsNat DEF PCInv, TypeOK
<1>14. depth' \in 0..(MaxDepth + 1) /\ (phase' = "skeleton" => depth' <= MaxDepth)
  BY <1>1, <1>13
<1>15. TypeOK'
  BY <1>1, <1>2, <1>7, <1>9, <1>14 DEF TypeOK, Links
<1>16. SkeletonIsRight'
  BY <1>1, <1>7, <1>10, <1>12, <1>15 DEF SkeletonIsRight, Independent
<1> QED
  BY <1>1, <1>14, <1>16 DEF PCInv, OpenIsUndirected, KnowledgeHolds

\* No data: the empty graph.
LEMMA NoDataKeeps == PCInv /\ NoData => PCInv'
<1> SUFFICES ASSUME PCInv, NoData PROVE PCInv'
  OBVIOUS
<1>1. /\ graph' = {} /\ phase' = "empty" /\ truth' = truth /\ depth' = depth /\ sepSet' = sepSet
      /\ open' = open /\ dk' = dk /\ shielded' = shielded
  BY DEF NoData
<1>2. TypeOK'
  BY <1>1 DEF PCInv, SkeletonIsRight, TypeOK
<1>3. SkeletonIsRight'
  BY <1>1, <1>2 DEF PCInv, SkeletonIsRight, Independent
<1> QED
  BY <1>1, <1>3 DEF PCInv, OpenIsUndirected, KnowledgeHolds

\* A step of the later phases keeps all that is known of the skeleton.
LEMMA OrientingKeeps ==
    ASSUME PCInv, phase \notin {"skeleton", "empty", "done"},
           UNCHANGED <<truth, depth, sepSet, dk>>,
           phase' \in {"meek", "extend", "extended"},
           graph' \in GraphsOf(Skeleton(graph)), open' \in SUBSET Pairs, shielded' \in BOOLEAN,
           phase' = "extend" => open' = OpenPairs(graph')
    PROVE  PCInv'
<1>1. graph' \in SUBSET Links /\ Skeleton(graph') = Skeleton(graph)
  BY DEF GraphsOf
<1>2. TypeOK'
  BY <1>1 DEF PCInv, SkeletonIsRight, TypeOK, Links
<1>3. DOMAIN sepSet' = {p \in Pairs : ~Adjacent(graph', p[1], p[2])}
  <2>1. DOMAIN sepSet' = {p \in Pairs : ~Adjacent(graph, p[1], p[2])}
    BY DEF PCInv, SkeletonIsRight
  <2>2. \A p \in Pairs : p[1] \in Nodes /\ p[2] \in Nodes
    BY DEF Pairs
  <2> QED
    BY <2>1, <2>2, SameAdjacencies
<1>4. SkeletonIsRight'
  BY <1>1, <1>2, <1>3 DEF PCInv, SkeletonIsRight, Independent
<1> QED
  BY <1>4 DEF PCInv, OpenIsUndirected, KnowledgeHolds

LEMMA OrientCollidersKeeps == PCInv /\ OrientColliders => PCInv'
<1> SUFFICES ASSUME PCInv, OrientColliders PROVE PCInv'
  OBVIOUS
<1> DEFINE end == FoldLeft(VisitTriple, [bad |-> FALSE, g |-> graph], Triples)
<1>1. /\ phase = "colliders" /\ phase' = "meek" /\ graph' = end.g /\ shielded' = end.bad
      /\ UNCHANGED <<truth, depth, sepSet, dk>> /\ open' = open
  BY DEF OrientColliders
<1>2. TypeOK /\ graph \in SUBSET Links
  BY GraphIsLinks DEF PCInv, SkeletonIsRight
<1>3. graph \in GraphsOf(Skeleton(graph))
  BY <1>2 DEF GraphsOf
<1>4. end \in [bad : BOOLEAN, g : GraphsOf(Skeleton(graph))]
  BY <1>3, ColliderLoop
<1> HIDE DEF end
<1>5. graph' \in GraphsOf(Skeleton(graph)) /\ shielded' \in BOOLEAN
  BY <1>1, <1>4
<1>6. open' \in SUBSET Pairs
  BY <1>1, <1>2 DEF TypeOK
<1> QED
  BY <1>1, <1>5, <1>6, OrientingKeeps

LEMMA MeekRoundKeeps == PCInv /\ MeekRound => PCInv'
<1> SUFFICES ASSUME PCInv, MeekRound PROVE PCInv'
  OBVIOUS
<1> DEFINE one == FoldLeft(MeekR1, graph, PairSeq)
           two == FoldLeft(MeekR2, one, PairSeq)
           three == FoldLeft(MeekR3, two, PairSeq)
<1>1. /\ phase = "meek" /\ graph' = three
      /\ phase' = IF graph' = graph THEN "extend" ELSE "meek"
      /\ open' = IF graph' = graph THEN OpenPairs(graph) ELSE {}
      /\ UNCHANGED <<truth, depth, sepSet, dk>> /\ shielded' = shielded
  BY DEF MeekRound
<1>2. TypeOK /\ graph \in SUBSET Links
  BY GraphIsLinks DEF PCInv, SkeletonIsRight
<1>3. graph \in GraphsOf(Skeleton(graph))
  BY <1>2 DEF GraphsOf
<1>4. one \in GraphsOf(Skeleton(graph))
  BY <1>3, MeekR1Loop
<1> HIDE DEF one
<1>5. two \in GraphsOf(Skeleton(graph))
  BY <1>4, MeekR2Loop
<1> HIDE DEF two
<1>6. three \in GraphsOf(Skeleton(graph))
  BY <1>5, MeekR3Loop
<1> HIDE DEF three
<1>7. open' \in SUBSET Pairs /\ shielded' \in BOOLEAN
  BY <1>1, <1>2 DEF OpenPairs, TypeOK
<1>8. graph' \in GraphsOf(Skeleton(graph)) /\ (phase' = "extend" => open' = OpenPairs(graph'))
  BY <1>1, <1>6
<1> QED
  BY <1>1, <1>7, <1>8, OrientingKeeps

-----------------------------------------------------------------------------
(* The extension *)

\* A round of the extension at the sink i.
Extended(g, open1, i, h) ==
    /\ g \in SUBSET Links /\ open1 = OpenPairs(g) /\ i \in Sinks(g, open1)
    /\ h = OrientInto(g, open1, i)

\* It gives up just the edges that leave i, all of them undirected ones.
LEMMA RoundAtSink ==
    ASSUME NEW g, NEW open1, NEW i, NEW h, Extended(g, open1, i, h)
    PROVE  /\ i \in Nodes /\ h \in SUBSET Links
           /\ \A a, b : <<a, b>> \in h <=> <<a, b>> \in g /\ a # i
           /\ \A b : <<i, b>> \in g => <<b, i>> \in g
<1> DEFINE taken == {k \in Nodes : {<<i, k>>, <<k, i>>} \cap open1 # {}}
           gone == {<<i, j>> : j \in taken}
<1>1. /\ g \in SUBSET Links /\ i \in Nodes /\ h = g \ gone
      /\ \A j \in Nodes : <<i, j>> \in g => <<j, i>> \in g
  BY DEF Extended, Sinks, OrientInto
<1>2. \A a, b : <<a, b>> \in g => a \in Nodes /\ b \in Nodes /\ a # b
  BY <1>1 DEF Links
<1>3. ASSUME NEW b, <<i, b>> \in g PROVE <<i, b>> \in gone
  <2>1. b \in Nodes /\ b # i /\ <<b, i>> \in g
    BY <1>1, <1>2, <1>3
  <2>2. i < b \/ b < i
    BY <1>1, <2>1 DEF Nodes
  <2>3. <<i, b>> \in OpenPairs(g) \/ <<b, i>> \in OpenPairs(g)
    BY <1>1, <1>3, <2>1, <2>2 DEF OpenPairs, Pairs
  <2>4. b \in taken
    BY <2>1, <2>3 DEF Extended
  <2> QED
    BY <2>4
<1>4. ASSUME NEW a, NEW b, <<a, b>> \in gone PROVE a = i
  BY <1>4
<1> HIDE DEF gone
<1>5. ASSUME NEW a, NEW b PROVE <<a, b>> \in h <=> <<a, b>> \in g /\ a # i
  BY <1>1, <1>3, <1>4
<1>6. \A b : <<i, b>> \in g => <<b, i>> \in g
  BY <1>1, <1>2
<1> QED
  BY <1>1, <1>5, <1>6

LEMMA RoundKeepsAdjacencies ==
    ASSUME NEW g, NEW open1, NEW i, NEW h, Extended(g, open1, i, h)
    PROVE  h \in GraphsOf(Skeleton(g)) /\ Directed(g) \subseteq Directed(h)
<1>1. /\ h \in SUBSET Links
      /\ \A a, b : <<a, b>> \in h <=> <<a, b>> \in g /\ a # i
      /\ \A b : <<i, b>> \in g => <<b, i>> \in g
  BY RoundAtSink
<1>2. g \in SUBSET Links
  BY DEF Extended
<1>3. \A a, b : <<a, b>> \in g => a # b
  BY <1>2 DEF Links
<1>4. \A a, b : Adjacent(h, a, b) <=> Adjacent(g, a, b)
  BY <1>1, <1>3 DEF Adjacent
<1>5. Skeleton(h) = Skeleton(g)
  BY <1>4 DEF Skeleton
<1>6. ASSUME NEW e \in Directed(g) PROVE e \in Directed(h)
  <2>1. e \in g /\ <<e[2], e[1]>> \notin g /\ e = <<e[1], e[2]>>
    BY <1>2 DEF Directed, Links
  <2>2. e[1] # i
    BY <1>1, <2>1
  <2>3. e \in h /\ <<e[2], e[1]>> \notin h
    BY <1>1, <2>1, <2>2
  <2> QED
    BY <2>3 DEF Directed
<1> QED
  BY <1>1, <1>5, <1>6 DEF GraphsOf

\* The undirected edges that are left are the ones that do not touch i.
LEMMA RoundCloses ==
    ASSUME NEW g, NEW open1, NEW i, NEW h, Extended(g, open1, i, h)
    PROVE  ClosedAt(open1, i) = OpenPairs(h)
<1>1. /\ h \in SUBSET Links
      /\ \A a, b : <<a, b>> \in h <=> <<a, b>> \in g /\ a # i
      /\ \A b : <<i, b>> \in g => <<b, i>> \in g
  BY RoundAtSink
<1>2. \A p \in Pairs : p = <<p[1], p[2]>>
  BY DEF Pairs
<1>3. open1 = OpenPairs(g)
  BY DEF Extended
<1>4. ASSUME NEW p \in Pairs PROVE p \in ClosedAt(open1, i) <=> p \in OpenPairs(h)
  <2>1. p \in ClosedAt(open1, i) <=> p \in g /\ <<p[2], p[1]>> \in g /\ i \notin {p[1], p[2]}
    BY <1>3 DEF ClosedAt, OpenPairs
  <2>2. p \in OpenPairs(h) <=> p \in h /\ <<p[2], p[1]>> \in h
    BY DEF OpenPairs
  <2>3. p \in h <=> p \in g /\ p[1] # i
    BY <1>1, <1>2
  <2>4. <<p[2], p[1]>> \in h <=> <<p[2], p[1]>> \in g /\ p[2] # i
    BY <1>1
  <2> QED
    BY <2>1, <2>2, <2>3, <2>4
<1>5. ClosedAt(open1, i) \subseteq Pairs /\ OpenPairs(h) \subseteq Pairs
  BY <1>3 DEF ClosedAt, OpenPairs
<1> QED
  BY <1>4, <1>5

\* What is newly directed ends in i, and no edge leaves i any more.
LEMMA RoundStaysAcyclic ==
    ASSUME NEW g, NEW open1, NEW i, NEW h, Extended(g, open1, i, h), Acyclic(Directed(g))
    PROVE  Acyclic(Directed(h))
<1>1. /\ \A a, b : <<a, b>> \in h <=> <<a, b>> \in g /\ a # i
      /\ \A b : <<i, b>> \in g => <<b, i>> \in g
  BY RoundAtSink
<1>2. ASSUME NEW u, NEW v, <<u, v>> \in Directed(h)
      PROVE  u # i /\ (v # i => <<u, v>> \in Directed(g))
  <2>1. <<u, v>> \in h /\ <<v, u>> \notin h
    BY <1>2 DEF Directed
  <2>2. <<u, v>> \in g /\ u # i /\ (v # i => <<v, u>> \notin g)
    BY <1>1, <2>1
  <2> QED
    BY <2>2 DEF Directed
<1>3. ASSUME NEW S \in (SUBSET Nodes) \ {{}}
      PROVE  \E v \in S : \A u \in S : <<u, v>> \notin Directed(h)
  <2>1. CASE S \ {i} = {}
    <3>1. S = {i}
      BY <2>1
    <3> QED
      BY <1>2, <3>1
  <2>2. CASE S \ {i} # {}
    <3>1. S \ {i} \in (SUBSET Nodes) \ {{}}
      BY <2>2
    <3>2. PICK v \in S \ {i} : \A u \in S \ {i} : <<u, v>> \notin Directed(g)
      BY <3>1 DEF Acyclic
    <3>3. \A u \in S : <<u, v>> \notin Directed(h)
      BY <1>2, <3>2
    <3> QED
      BY <3>3
  <2> QED
    BY <2>1, <2>2
<1> QED
  BY <1>3 DEF Acyclic

\* A round of the model is one at a sink, or the last.
LEMMA ExtendRoundIs ==
    ASSUME PCInv, ExtendRound
    PROVE  /\ phase = "extend" /\ UNCHANGED <<truth, depth, sepSet, dk, shielded>>
           /\ \/ phase' = "extended" /\ graph' = graph /\ open' = open
              \/ phase' = "extend" /\ open' = ClosedAt(open, Min(Sinks(graph, open)))
                 /\ Extended(graph, open, Min(Sinks(graph, open)), graph')
<1>1. phase = "extend" /\ UNCHANGED <<truth, depth, sepSet, dk, shielded>>
  BY DEF ExtendRound
<1>2. TypeOK /\ graph \in SUBSET Links
  BY GraphIsLinks DEF PCInv, SkeletonIsRight
<1>3. open = OpenPairs(graph)
  BY <1>1 DEF PCInv, OpenIsUndirected
<1>4. CASE Sinks(graph, open) = {}
  BY <1>1, <1>4 DEF ExtendRound
<1>5. CASE Sinks(graph, open) # {}
  <2>1. Sinks(graph, open) \subseteq Nat
    BY DEF Sinks, Nodes
  <2>2. Min(Sinks(graph, open)) \in Sinks(graph, open)
    BY <1>5, <2>1, MinOfNaturals
  <2>3. /\ graph' = OrientInto(graph, open, Min(Sinks(graph, open)))
        /\ open' = ClosedAt(open, Min(Sinks(graph, open))) /\ phase' = phase
    BY <1>5 DEF ExtendRound
  <2>4. Extended(graph, open, Min(Sinks(graph, open)), graph')
    BY <1>2, <1>3, <2>2, <2>3 DEF Extended
  <2> QED
    BY <1>1, <2>3, <2>4
<1> QED
  BY <1>4, <1>5

LEMMA ExtendRoundKeeps == PCInv /\ ExtendRound => PCInv'
<1> SUFFICES ASSUME PCInv, ExtendRound PROVE PCInv'
  OBVIOUS
<1>1. phase = "extend" /\ UNCHANGED <<truth, depth, sepSet, dk, shielded>>
  BY ExtendRoundIs
<1>2. TypeOK /\ graph \in SUBSET Links
  BY GraphIsLinks DEF PCInv, SkeletonIsRight
<1>3. shielded' \in BOOLEAN /\ open \in SUBSET Pairs
  BY <1>1, <1>2 DEF TypeOK
<1>4. CASE phase' = "extended" /\ graph' = graph /\ open' = open
  <2>1. graph' \in GraphsOf(Skeleton(graph))
    BY <1>2, <1>4 DEF GraphsOf
  <2> QED
    BY <1>1, <1>3, <1>4, <2>1, OrientingKeeps
<1>5. CASE phase' = "extend" /\ open' = ClosedAt(open, Min(Sinks(graph, open)))
           /\ Extended(graph, open, Min(Sinks(graph, open)), graph')
  <2>1. graph' \in GraphsOf(Skeleton(graph))
    BY <1>5, RoundKeepsAdjacencies
  <2>2. open' = OpenPairs(graph')
    BY <1>5, RoundCloses
  <2>3. open' \in SUBSET Pairs
    BY <1>3, <1>5 DEF ClosedAt
  <2> QED
    BY <1>1, <1>3, <1>5, <2>1, <2>2, <2>3, OrientingKeeps
<1> QED
  BY <1>4, <1>5, ExtendRoundIs

LEMMA ExtendRoundKeepsEdges == PCInv /\ ExtendRound => ExtensionKeepsEdges /\ StaysAcyclic
<1> SUFFICES ASSUME PCInv, ExtendRound PROVE ExtensionKeepsEdges /\ StaysAcyclic
  OBVIOUS
<1>1. CASE phase' = "extended" /\ graph' = graph /\ open' = open
  BY <1>1 DEF ExtensionKeepsEdges, StaysAcyclic
<1>2. CASE phase' = "extend" /\ open' = ClosedAt(open, Min(Sinks(graph, open)))
           /\ Extended(graph, open, Min(Sinks(graph, open)), graph')
  <2>1. graph' \in GraphsOf(Skeleton(graph)) /\ Directed(graph) \subseteq Directed(graph')
    BY <1>2, RoundKeepsAdjacencies
  <2>2. Acyclic(Directed(graph)) => Acyclic(Directed(graph'))
    BY <1>2, RoundStaysAcyclic
  <2> QED
    BY <2>1, <2>2 DEF ExtensionKeepsEdges, StaysAcyclic, GraphsOf
<1> QED
  BY <1>1, <1>2, ExtendRoundIs

-----------------------------------------------------------------------------
(* Domain knowledge *)

\* What the loop over the required edges leaves: an edge that no requirement
\* names keeps away, and one that is required stays if its reverse is not
\* required at or after it.
Requirements(g, q, h) ==
    /\ \A e \in Nodes \X Nodes : e \notin g /\ e \notin ToSet(q) => e \notin h
    /\ \A k \in 1..Len(q) :
          (\A l \in k..Len(q) : q[l] # <<q[k][2], q[k][1]>>)
              => q[k] \in h /\ <<q[k][2], q[k][1]>> \notin h

LEMMA RequiredAre ==
    ASSUME NEW g \in SUBSET Links, NEW q \in Seq(Nodes \X Nodes),
           NEW h, h = FoldLeft(RequireEdge, g, q)
    PROVE  h \in SUBSET Links /\ Requirements(g, q, h)
<1>1. PICK f \in [0..Len(q) -> SUBSET Links] : RequiredFrom(f, g, q)
  BY RequireLoop
<1>2. f[0] = g /\ f[Len(q)] = h /\ Len(q) \in Nat /\ DOMAIN q = 1..Len(q)
  BY <1>1 DEF RequiredFrom
<1>3. ASSUME NEW j \in Nat, j + 1 <= Len(q)
      PROVE  /\ f[j + 1] = (f[j] \cup {q[j + 1]}) \ {<<q[j + 1][2], q[j + 1][1]>>}
             /\ j + 1 \in 1..Len(q)
  <2>1. j + 1 \in 1..Len(q) /\ (j + 1) - 1 = j
    BY <1>2, <1>3
  <2>2. f[j + 1] = RequireEdge(f[(j + 1) - 1], q[j + 1])
    BY <1>1, <2>1 DEF RequiredFrom
  <2> QED
    BY <2>1, <2>2 DEF RequireEdge
<1>4. h \in SUBSET Links
  BY <1>1, <1>2
<1>5. ASSUME NEW e \in Nodes \X Nodes, e \notin g, e \notin ToSet(q) PROVE e \notin h
  <2> DEFINE K == {j \in Nat : j <= Len(q) => e \notin f[j]}
  <2>1. 0 \in K
    BY <1>2, <1>5
  <2>2. ASSUME NEW j \in Nat, j \in K PROVE j + 1 \in K
    <3>1. SUFFICES ASSUME j + 1 <= Len(q) PROVE e \notin f[j + 1]
      OBVIOUS
    <3>2. e \notin f[j]
      BY <1>2, <2>2, <3>1
    <3>3. q[j + 1] # e
      BY <1>2, <1>3, <1>5, <3>1 DEF ToSet
    <3> QED
      BY <1>3, <3>1, <3>2, <3>3
  <2>3. Len(q) \in K
    <3> HIDE DEF K
    <3> QED
      BY <1>2, <2>1, <2>2, Counting
  <2> QED
    BY <1>2, <2>3
<1>6. ASSUME NEW k \in 1..Len(q), \A l \in k..Len(q) : q[l] # <<q[k][2], q[k][1]>>
      PROVE  q[k] \in h /\ <<q[k][2], q[k][1]>> \notin h
  <2> DEFINE e == q[k]
             r == <<e[2], e[1]>>
             K == {j \in Nat : k + j <= Len(q) => e \in f[k + j] /\ r \notin f[k + j]}
  <2>1. e \in Nodes \X Nodes /\ e = <<e[1], e[2]>> /\ k \in Nat /\ k <= Len(q) /\ k >= 1
    BY <1>2
  <2>2. e # r
    <3>1. k \in k..Len(q)
      BY <1>2, <2>1
    <3> QED
      BY <1>6, <3>1
  <2> HIDE DEF e
  <2>3. ASSUME NEW l \in k..Len(q)
        PROVE  /\ q[l] # r /\ <<q[l][2], q[l][1]>> # e
               /\ f[l] = (f[l - 1] \cup {q[l]}) \ {<<q[l][2], q[l][1]>>}
    <3>1. q[l] # r
      BY <1>6 DEF e
    <3>2. l \in 1..Len(q) /\ l - 1 \in Nat /\ (l - 1) + 1 = l
      BY <1>2, <2>1
    <3>3. q[l] = <<q[l][1], q[l][2]>>
      BY <1>2, <3>2
    <3>4. <<q[l][2], q[l][1]>> # e
      BY <2>1, <3>1, <3>3
    <3>5. f[l] = (f[l - 1] \cup {q[l]}) \ {<<q[l][2], q[l][1]>>}
      <4>1. PICK j \in Nat : j + 1 = l /\ l - 1 = j /\ j + 1 <= Len(q)
        BY <1>2, <3>2
      <4>2. f[j + 1] = (f[j] \cup {q[j + 1]}) \ {<<q[j + 1][2], q[j + 1][1]>>}
        BY <1>3, <4>1
      <4> QED
        BY <4>1, <4>2
    <3> QED
      BY <3>1, <3>4, <3>5
  <2>4. 0 \in K
    <3>1. k \in k..Len(q) /\ k + 0 = k
      BY <1>2, <2>1
    <3>2. f[k] = (f[k - 1] \cup {e}) \ {r}
      BY <2>3, <3>1 DEF e
    <3> QED
      BY <2>2, <3>1, <3>2
  <2>5. ASSUME NEW j \in Nat, j \in K PROVE j + 1 \in K
    <3>1. SUFFICES ASSUME k + (j + 1) <= Len(q)
                   PROVE  e \in f[k + (j + 1)] /\ r \notin f[k + (j + 1)]
      OBVIOUS
    <3>2. k + j <= Len(q) /\ k + (j + 1) \in k..Len(q) /\ (k + (j + 1)) - 1 = k + j
      BY <1>2, <2>1, <3>1
    <3>3. e \in f[k + j] /\ r \notin f[k + j]
      BY <2>5, <3>2
    <3>4. /\ q[k + (j + 1)] # r /\ <<q[k + (j + 1)][2], q[k + (j + 1)][1]>> # e
          /\ f[k + (j + 1)] = (f[(k + (j + 1)) - 1] \cup {q[k + (j + 1)]})
                                 \ {<<q[k + (j + 1)][2], q[k + (j + 1)][1]>>}
      BY <2>3, <3>2
    <3> QED
      BY <3>2, <3>3, <3>4
  <2>6. \A j \in Nat : j \in K
    <3> HIDE DEF K
    <3> QED
      BY <2>4, <2>5, Counting
  <2>7. Len(q) - k \in Nat /\ k + (Len(q) - k) = Len(q)
    BY <1>2, <2>1
  <2>8. Len(q) - k \in K
    BY <2>6, <2>7
  <2>9. e \in f[Len(q)] /\ r \notin f[Len(q)]
    BY <2>7, <2>8
  <2> QED
    BY <1>2, <2>9 DEF e
<1> QED
  BY <1>4, <1>5, <1>6 DEF Requirements

\* The graph that knowledge makes of g, edge by edge.
KnownGraph(g, k, h, required) ==
    /\ g \in SUBSET Links /\ k.forbids \subseteq Nodes \X Nodes
    /\ k.requires \in Seq(Nodes \X Nodes)
    /\ required = FoldLeft(RequireEdge, RemoveEdges(g, k.forbids), k.requires)
    /\ h = {e \in required : e[2] \notin k.roots /\ e[1] \notin k.leaves}

LEMMA ApplyKnowledgeIs ==
    ASSUME NEW g, NEW k, NEW h, h = ApplyKnowledge(g, k), g \in SUBSET Links,
           k.forbids \subseteq Nodes \X Nodes, k.requires \in Seq(Nodes \X Nodes)
    PROVE  KnownGraph(g, k, h, FoldLeft(RequireEdge, RemoveEdges(g, k.forbids), k.requires))
<1> DEFINE required == FoldLeft(RequireEdge, RemoveEdges(g, k.forbids), k.requires)
<1>1. h = {e \in {d \in required : d[2] \notin k.roots} : e[1] \notin k.leaves}
  BY DEF ApplyKnowledge
<1> HIDE DEF required
<1>2. h = {e \in required : e[2] \notin k.roots /\ e[1] \notin k.leaves}
  BY <1>1
<1> QED
  BY <1>2 DEF KnownGraph, required

\* KnowledgeHolds of the graph h.
Honoured(h, k) ==
    /\ \A e \in k.forbids :
          {e, <<e[2], e[1]>>} \cap ToSet(k.requires) = {} => ~Adjacent(h, e[1], e[2])
    /\ \A r \in k.roots : Parents(h, r) = {}
    /\ \A l \in k.leaves : Children(h, l) = {}
    /\ \A j \in DOMAIN k.requires :
          LET e == k.requires[j]
          IN  e[2] \notin k.roots /\ e[1] \notin k.leaves
              /\ (\A l \in j..Len(k.requires) : k.requires[l] # <<e[2], e[1]>>)
              => OneWay(h, e[1], e[2])

LEMMA KnownIsHonoured ==
    ASSUME NEW g, NEW k, NEW h, NEW required, KnownGraph(g, k, h, required)
    PROVE  h \in SUBSET Links /\ Honoured(h, k)
<1> DEFINE kept == RemoveEdges(g, k.forbids)
           q == k.requires
<1>1. /\ g \in SUBSET Links /\ k.forbids \subseteq Nodes \X Nodes /\ q \in Seq(Nodes \X Nodes)
      /\ required = FoldLeft(RequireEdge, kept, q)
      /\ h = {e \in required : e[2] \notin k.roots /\ e[1] \notin k.leaves}
  BY DEF KnownGraph
<1>2. kept \in SUBSET Links
  BY <1>1 DEF RemoveEdges
<1> HIDE DEF kept, q
<1>3. required \in SUBSET Links /\ Requirements(kept, q, required)
  BY <1>1, <1>2, RequiredAre
<1>4. h \in SUBSET Links /\ h \subseteq required
  BY <1>1, <1>3
<1>5. ASSUME NEW e \in k.forbids, {e, <<e[2], e[1]>>} \cap ToSet(q) = {}
      PROVE  ~Adjacent(h, e[1], e[2])
  <2>1. e \in Nodes \X Nodes /\ <<e[2], e[1]>> \in Nodes \X Nodes /\ e = <<e[1], e[2]>>
    BY <1>1
  <2>2. e \notin kept /\ <<e[2], e[1]>> \notin kept
    BY <2>1 DEF kept, RemoveEdges
  <2>3. e \notin required /\ <<e[2], e[1]>> \notin required
    BY <1>3, <1>5, <2>1, <2>2 DEF Requirements
  <2> QED
    BY <1>4, <2>1, <2>3 DEF Adjacent
<1>6. ASSUME NEW r \in k.roots PROVE Parents(h, r) = {}
  BY <1>1 DEF Parents
<1>7. ASSUME NEW l \in k.leaves PROVE Children(h, l) = {}
  BY <1>1 DEF Children
<1>8. ASSUME NEW j \in DOMAIN q, q[j][2] \notin k.roots, q[j][1] \notin k.leaves,
             \A l \in j..Len(q) : q[l] # <<q[j][2], q[j][1]>>
      PROVE  OneWay(h, q[j][1], q[j][2])
  <2>1. j \in 1..Len(q) /\ q[j] = <<q[j][1], q[j][2]>>
    BY <1>1
  <2>2. q[j] \in required /\ <<q[j][2], q[j][1]>> \notin required
    BY <1>3, <1>8, <2>1 DEF Requirements
  <2>3. q[j] \in h /\ <<q[j][2], q[j][1]>> \notin h
    BY <1>1, <1>4, <1>8, <2>2
  <2> QED
    BY <2>1, <2>3 DEF OneWay
<1>9. Honoured(h, k)
  BY <1>5, <1>6, <1>7, <1>8 DEF Honoured, q
<1> QED
  BY <1>4, <1>9

LEMMA UseKnowledgeKeeps ==
    ASSUME PCInv, NEW knowledge \in Knowledge, UseKnowledge(knowledge)
    PROVE  PCInv'
<1>1. /\ phase' = "done" /\ dk' = knowledge /\ graph' = ApplyKnowledge(graph, knowledge)
      /\ UNCHANGED <<truth, depth, sepSet, open, shielded>>
  BY DEF UseKnowledge
<1>2. TypeOK /\ graph \in SUBSET Links
  BY GraphIsLinks DEF PCInv, SkeletonIsRight
<1>3. graph' \in SUBSET Links /\ Honoured(graph', knowledge)
  BY <1>1, <1>2, KnowledgeAssumption, ApplyKnowledgeIs, KnownIsHonoured
<1>4. TypeOK'
  BY <1>1, <1>2, <1>3 DEF TypeOK, Links
<1>5. SkeletonIsRight'
  BY <1>1, <1>4 DEF PCInv, SkeletonIsRight, Independent
<1>6. KnowledgeHolds'
  BY <1>1, <1>3 DEF Honoured, KnowledgeHolds
<1> QED
  BY <1>1, <1>5, <1>6, KnowledgeAssumption DEF PCInv, OpenIsUndirected

\* Knowledge that requires nothing only cuts edges out.  What becomes directed by
\* that leaves a root or ends in a leaf, where no cycle can pass.
LEMMA CutStaysAcyclic ==
    ASSUME NEW g, NEW k, NEW h, NEW required, KnownGraph(g, k, h, required),
           k.requires = <<>>, Acyclic(Directed(g))
    PROVE  Acyclic(Directed(h))
<1> DEFINE kept == RemoveEdges(g, k.forbids)
<1>1. /\ g \in SUBSET Links /\ k.forbids \subseteq Nodes \X Nodes
      /\ required = FoldLeft(RequireEdge, kept, <<>>)
      /\ h = {e \in required : e[2] \notin k.roots /\ e[1] \notin k.leaves}
  BY DEF KnownGraph
<1>2. kept \in SUBSET Links
  BY <1>1 DEF RemoveEdges
<1>3. required = kept
  <2> DEFINE q == <<>>
  <2>1. q \in Seq(Nodes \X Nodes) /\ Len(q) = 0
    OBVIOUS
  <2> HIDE DEF q, kept
  <2>2. PICK f \in [0..Len(q) -> SUBSET Links] : RequiredFrom(f, kept, q)
    BY <1>2, <2>1, RequireLoop
  <2>3. FoldLeft(RequireEdge, kept, q) = kept
    BY <2>1, <2>2 DEF RequiredFrom
  <2> QED
    BY <1>1, <2>3 DEF q
<1>4. ASSUME NEW u, NEW v, <<u, v>> \in h
      PROVE  <<u, v>> \in g /\ v \notin k.roots /\ u \notin k.leaves
  BY <1>1, <1>3, <1>4 DEF RemoveEdges
<1>5. ASSUME NEW u, NEW v, <<u, v>> \in Directed(h), u \notin k.roots, v \notin k.leaves
      PROVE  <<u, v>> \in Directed(g)
  <2>1. <<u, v>> \in h /\ <<v, u>> \notin h
    BY <1>5 DEF Directed
  <2>2. <<v, u>> \notin kept
    BY <1>1, <1>3, <1>5, <2>1
  <2>3. <<u, v>> \in kept
    BY <1>1, <1>3, <2>1
  <2>4. \A e \in k.forbids : e = <<e[1], e[2]>>
    BY <1>1
  <2>5. <<v, u>> \notin g
    BY <2>2, <2>3, <2>4 DEF RemoveEdges
  <2> QED
    BY <1>4, <2>1, <2>5 DEF Directed
<1>6. ASSUME NEW S \in (SUBSET Nodes) \ {{}}
      PROVE  \E v \in S : \A u \in S : <<u, v>> \notin Directed(h)
  <2>1. CASE S \cap k.roots # {}
    BY <1>4, <2>1 DEF Directed
  <2>2. CASE S \cap k.roots = {} /\ S \subseteq k.leaves
    BY <1>4, <2>2 DEF Directed
  <2>3. CASE S \cap k.roots = {} /\ ~(S \subseteq k.leaves)
    <3>1. S \ k.leaves \in (SUBSET Nodes) \ {{}}
      BY <2>3
    <3>2. PICK v \in S \ k.leaves : \A u \in S \ k.leaves : <<u, v>> \notin Directed(g)
      BY <3>1 DEF Acyclic
    <3>3. ASSUME NEW u \in S PROVE <<u, v>> \notin Directed(h)
      <4>1. CASE u \in k.leaves
        BY <1>4, <4>1 DEF Directed
      <4>2. CASE u \notin k.leaves
        BY <1>5, <2>3, <3>2, <4>2
      <4> QED
        BY <4>1, <4>2
    <3> QED
      BY <3>3
  <2> QED
    BY <2>1, <2>2, <2>3
<1> QED
  BY <1>6 DEF Acyclic

LEMMA UseKnowledgeStaysAcyclic ==
    ASSUME PCInv, NEW knowledge \in Knowledge, UseKnowledge(knowledge)
    PROVE  StaysAcyclic
<1>1. dk' = knowledge /\ graph' = ApplyKnowledge(graph, knowledge)
  BY DEF UseKnowledge
<1>2. graph \in SUBSET Links
  BY GraphIsLinks DEF PCInv, SkeletonIsRight
<1>3. KnownGraph(graph, knowledge, graph',
          FoldLeft(RequireEdge, RemoveEdges(graph, knowledge.forbids), knowledge.requires))
  BY <1>1, <1>2, KnowledgeAssumption, ApplyKnowledgeIs
<1>4. knowledge.requires = <<>> /\ Acyclic(Directed(graph)) => Acyclic(Directed(graph'))
  BY <1>3, CutStaysAcyclic
<1> QED
  BY <1>1, <1>4 DEF StaysAcyclic

-----------------------------------------------------------------------------
(* The theorems *)

LEMMA PCNextInv == PCInv /\ [Next]_vars => PCInv'
<1> SUFFICES ASSUME PCInv, [Next]_vars PROVE PCInv'
  OBVIOUS
<1>1. CASE NoData
  BY <1>1, NoDataKeeps
<1>2. CASE SkeletonLevel
  BY <1>2, SkeletonLevelKeeps
<1>3. CASE OrientColliders
  BY <1>3, OrientCollidersKeeps
<1>4. CASE MeekRound
  BY <1>4, MeekRoundKeeps
<1>5. CASE ExtendRound
  BY <1>5, ExtendRoundKeeps
<1>6. ASSUME NEW knowledge \in Knowledge, UseKnowledge(knowledge) PROVE PCInv'
  BY <1>6, UseKnowledgeKeeps
<1>7. CASE UNCHANGED vars
  BY <1>7 DEF vars, PCInv, SkeletonIsRight, TypeOK, Independent, OpenIsUndirected, KnowledgeHolds
<1> QED
  BY <1>1, <1>2, <1>3, <1>4, <1>5, <1>6, <1>7 DEF Next

\* With right tests pcAlgorithm never loses an adjacency of the truth, in no
\* phase, and every pair it parts is recorded with a set that separates it.
THEOREM TheSkeletonIsRight == Spec => []SkeletonIsRight
<1>1. PCInv => SkeletonIsRight
  BY DEF PCInv
<1> QED
  BY <1>1, PCInitInv, PCNextInv, PTL DEF Spec

\* applyDomainKnowledge honours what the caller knows, whatever that is: what it
\* forbids and does not require stays apart, roots and leaves are what they are
\* said to be, and the last requirement of a pair wins.
THEOREM KnowledgeIsHonoured == Spec => []KnowledgeHolds
<1>1. PCInv => KnowledgeHolds
  BY DEF PCInv
<1> QED
  BY <1>1, PCInitInv, PCNextInv, PTL DEF Spec

LEMMA ExtensionStep == PCInv /\ [Next]_vars => [ExtensionKeepsEdges /\ StaysAcyclic]_vars
<1> SUFFICES ASSUME PCInv, Next PROVE ExtensionKeepsEdges /\ StaysAcyclic
  OBVIOUS
<1>1. CASE phase \notin {"extend", "extended"}
  BY <1>1 DEF ExtensionKeepsEdges, StaysAcyclic
<1>2. CASE phase \in {"extend", "extended"}
  <2>1. ExtendRound \/ \E knowledge \in Knowledge : UseKnowledge(knowledge)
    BY <1>2 DEF Next, NoData, SkeletonLevel, OrientColliders, MeekRound
  <2>2. CASE ExtendRound
    BY <2>2, ExtendRoundKeepsEdges
  <2>3. ASSUME NEW knowledge \in Knowledge, UseKnowledge(knowledge)
        PROVE  ExtensionKeepsEdges /\ StaysAcyclic
    <3>1. phase = "extended"
      BY <2>3 DEF UseKnowledge
    <3> QED
      BY <2>3, <3>1, UseKnowledgeStaysAcyclic DEF ExtensionKeepsEdges
  <2> QED
    BY <2>1, <2>2, <2>3
<1> QED
  BY <1>1, <1>2

\* pdag2dag keeps every adjacency and every direction it was given, and neither
\* it nor knowledge that requires no edge closes a directed cycle.
THEOREM ExtensionIsSafe == Spec => [][ExtensionKeepsEdges /\ StaysAcyclic]_vars
BY PCInitInv, PCNextInv, ExtensionStep, PTL DEF Spec
=============================================================================
