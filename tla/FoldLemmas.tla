------------------------------ MODULE FoldLemmas ------------------------------
(* Induction, extremes of sets of numbers, the recursion that the folds of  *)
(* the community modules are defined by, and what sequences made of others  *)
(* hold: the lemmas that the proofs about the discoveries share.            *)
EXTENDS Integers, FiniteSets, FiniteSetsExt, SequencesExt, FiniteSetTheorems, SequenceTheorems,
        WellFoundedInduction, TLAPS

-----------------------------------------------------------------------------
(* Numbers *)

\* Induction, for a set of numbers.
LEMMA Counting ==
    ASSUME NEW S, 0 \in S, \A n \in Nat : n \in S => n + 1 \in S
    PROVE  \A n \in Nat : n \in S
<1> DEFINE T == {n \in Nat : n \notin S}
<1>1. SUFFICES ASSUME T # {} PROVE FALSE
  BY DEF T
<1>2. IsWellFoundedOn(OpToRel(<, Nat), Nat)
  BY NatLessThanWellFounded
<1>3. T \subseteq Nat
  OBVIOUS
<1>4. PICK x \in T : \A y \in T : ~(<<y, x>> \in OpToRel(<, Nat))
  <2> HIDE DEF T
  <2> QED BY <1>1, <1>2, <1>3, WFMin
<1>5. x \in Nat /\ x \notin S /\ x # 0
  BY <1>4
<1>6. x - 1 \in Nat /\ x - 1 + 1 = x
  BY <1>5
<1>7. x - 1 \notin S
  BY <1>5, <1>6
<1>8. x - 1 \in T
  BY <1>6, <1>7
<1>9. ~(<<x - 1, x>> \in OpToRel(<, Nat))
  <2> HIDE DEF T
  <2> QED BY <1>4, <1>8
<1> QED
  BY <1>5, <1>6, <1>9 DEF OpToRel

\* A member of a set of integers that bounds it is its Max.
LEMMA MaxIs ==
    ASSUME NEW S \in SUBSET Int, NEW m \in S, \A v \in S : v <= m
    PROVE  Max(S) = m
<1>1. \A v \in S : m >= v
  OBVIOUS
<1>2. Max(S) \in S /\ \A v \in S : Max(S) >= v
  BY <1>1 DEF Max
<1>3. Max(S) \in Int /\ m \in Int
  BY <1>2
<1>4. m <= Max(S) /\ Max(S) <= m
  BY <1>2, <1>3
<1> QED
  BY <1>3, <1>4

\* A nonempty set of naturals with a bound has a Max.
LEMMA MaxExists ==
    ASSUME NEW n \in Nat, NEW S \in SUBSET (1..n), S # {}
    PROVE  Max(S) \in S /\ \A v \in S : v <= Max(S)
<1> DEFINE K == {k \in Nat : \A T \in SUBSET (1..k) :
                     T # {} => \E m \in T : \A v \in T : v <= m}
<1>1. 0 \in K
  <2>1. 1..0 = {}
    OBVIOUS
  <2> QED
    BY <2>1
<1>2. ASSUME NEW k \in Nat, k \in K PROVE k + 1 \in K
  <2>1. SUFFICES ASSUME NEW T \in SUBSET (1..(k + 1)), T # {}
                 PROVE  \E m \in T : \A v \in T : v <= m
    OBVIOUS
  <2>2. CASE k + 1 \in T
    BY <2>2
  <2>3. CASE k + 1 \notin T
    <3>1. \A v \in T : v \in 1..k
      BY <2>3
    <3>2. T \in SUBSET (1..k)
      BY <3>1
    <3> QED
      BY <1>2, <2>1, <3>2
  <2> QED
    BY <2>2, <2>3
<1>3. \A k \in Nat : k \in K
  <2> HIDE DEF K
  <2> QED
    BY <1>1, <1>2, Counting
<1>4. PICK m \in S : \A v \in S : v <= m
  BY <1>3
<1>5. S \in SUBSET Int
  OBVIOUS
<1>6. Max(S) = m
  BY <1>4, <1>5, MaxIs
<1> QED
  BY <1>4, <1>6

LEMMA MaxOfInterval ==
    ASSUME NEW k \in Nat \ {0}
    PROVE  Max(1..k) = k /\ (1..k) \ {k} = 1..(k - 1)
<1>1. k \in 1..k /\ 1..k \in SUBSET Int /\ \A v \in 1..k : v <= k
  OBVIOUS
<1>2. Max(1..k) = k
  BY <1>1, MaxIs
<1>3. \A v : v \in (1..k) \ {k} <=> v \in 1..(k - 1)
  OBVIOUS
<1> QED
  BY <1>2, <1>3

\* A nonempty set of naturals has a Min.
LEMMA MinOfNaturals ==
    ASSUME NEW S \in SUBSET Nat, S # {}
    PROVE  Min(S) \in S /\ \A v \in S : Min(S) <= v
<1>1. IsWellFoundedOn(OpToRel(<, Nat), Nat)
  BY NatLessThanWellFounded
<1>2. PICK x \in S : \A y \in S : ~(<<y, x>> \in OpToRel(<, Nat))
  BY <1>1, WFMin
<1>3. ASSUME NEW y \in S PROVE x <= y
  <2>1. x \in Nat /\ y \in Nat /\ ~(<<y, x>> \in OpToRel(<, Nat))
    BY <1>2
  <2> QED
    BY <2>1 DEF OpToRel
<1> QED
  BY <1>3 DEF Min

-----------------------------------------------------------------------------
(* Folds *)

\* The recursion over sets of indices that the folds are defined by.
Recursion(g, base, F, S) ==
    \A s \in SUBSET S : g[s] = IF s = {} THEN base ELSE F[<<Max(s), g[s \ {Max(s)}]>>]

\* It has a solution whenever its step stays in a set.
LEMMA SetRecursion ==
    ASSUME NEW n \in Nat, NEW D, NEW base \in D, NEW F \in [(1..n) \X D -> D]
    PROVE  \E g \in [SUBSET (1..n) -> D] : Recursion(g, base, F, 1..n)
<1> DEFINE Solves(g, m) == Recursion(g, base, F, 1..m)
           Solvable(m) == \E g \in [SUBSET (1..m) -> D] : Solves(g, m)
           K == {m \in Nat : m <= n => Solvable(m)}
<1>1. Solvable(0)
  <2> DEFINE g == [s \in SUBSET (1..0) |-> base]
  <2>1. 1..0 = {}
    OBVIOUS
  <2>2. g \in [SUBSET (1..0) -> D] /\ Solves(g, 0)
    BY <2>1 DEF Recursion
  <2> QED
    BY <2>2
<1>2. ASSUME NEW m \in Nat, m + 1 <= n, Solvable(m) PROVE Solvable(m + 1)
  <2>1. PICK h \in [SUBSET (1..m) -> D] : Solves(h, m)
    BY <1>2
  <2> HIDE DEF Solves
  <2> DEFINE g == [s \in SUBSET (1..(m + 1)) |->
                      IF m + 1 \in s THEN F[<<m + 1, h[s \ {m + 1}]>>] ELSE h[s]]
  <2>3. ASSUME NEW s \in SUBSET (1..(m + 1)) PROVE s \ {m + 1} \in SUBSET (1..m)
    <3>1. \A v \in s \ {m + 1} : v \in 1..m
      OBVIOUS
    <3> QED
      BY <3>1
  <2>4. ASSUME NEW s \in SUBSET (1..(m + 1)), m + 1 \notin s PROVE s \in SUBSET (1..m)
    <3>1. s \ {m + 1} = s
      BY <2>4
    <3> QED
      BY <2>3, <3>1
  <2>5. m + 1 \in 1..n
    BY <1>2
  <2>6. ASSUME NEW s \in SUBSET (1..(m + 1)) PROVE g[s] \in D
    <3>1. CASE m + 1 \in s
      <4>1. h[s \ {m + 1}] \in D
        BY <2>3
      <4>2. <<m + 1, h[s \ {m + 1}]>> \in (1..n) \X D
        BY <2>5, <4>1
      <4>3. F[<<m + 1, h[s \ {m + 1}]>>] \in D
        BY <4>2
      <4> QED
        BY <3>1, <4>3
    <3>2. CASE m + 1 \notin s
      BY <2>4, <3>2
    <3> QED
      BY <3>1, <3>2
  <2>7. g \in [SUBSET (1..(m + 1)) -> D]
    <3> HIDE DEF g
    <3>1. g = [s \in SUBSET (1..(m + 1)) |-> g[s]]
      BY DEF g
    <3> QED
      BY <2>6, <3>1
  <2>8. ASSUME NEW s \in SUBSET (1..(m + 1))
        PROVE  g[s] = IF s = {} THEN base ELSE F[<<Max(s), g[s \ {Max(s)}]>>]
    <3>1. CASE m + 1 \in s
      <4>1. s \in SUBSET Int /\ \A v \in s : v <= m + 1
        OBVIOUS
      <4>2. Max(s) = m + 1
        BY <3>1, <4>1, MaxIs
      <4>3. s \ {m + 1} \in SUBSET (1..m) /\ s \ {m + 1} \in SUBSET (1..(m + 1))
        BY <2>3
      <4>4. g[s \ {m + 1}] = h[s \ {m + 1}]
        BY <4>3
      <4>5. g[s] = F[<<m + 1, h[s \ {m + 1}]>>]
        BY <3>1
      <4> HIDE DEF g
      <4> QED
        BY <3>1, <4>2, <4>4, <4>5
    <3>2. CASE m + 1 \notin s
      <4>1. s \in SUBSET (1..m)
        BY <2>4, <3>2
      <4>2. g[s] = h[s]
        BY <3>2
      <4>3. h[s] = IF s = {} THEN base ELSE F[<<Max(s), h[s \ {Max(s)}]>>]
        BY <2>1, <4>1 DEF Solves, Recursion
      <4>4. s \ {Max(s)} \in SUBSET (1..(m + 1)) /\ m + 1 \notin s \ {Max(s)}
        BY <3>2
      <4>5. g[s \ {Max(s)}] = h[s \ {Max(s)}]
        BY <4>4
      <4> HIDE DEF g
      <4> QED
        BY <4>2, <4>3, <4>5
    <3> QED
      BY <3>1, <3>2
  <2>9. Solves(g, m + 1)
    <3> HIDE DEF g
    <3> QED
      BY <2>8 DEF Solves, Recursion
  <2> HIDE DEF g
  <2> QED
    BY <2>7, <2>9
<1> HIDE DEF Solvable
<1>3. 0 \in K
  BY <1>1
<1>4. ASSUME NEW m \in Nat, m \in K PROVE m + 1 \in K
  <2>1. m + 1 <= n => m <= n
    OBVIOUS
  <2> QED
    BY <1>2, <1>4, <2>1
<1>5. n \in K
  <2> HIDE DEF K
  <2> QED
    BY <1>3, <1>4, Counting
<1>6. Solvable(n)
  BY <1>5
<1> QED
  BY <1>6 DEF Solvable

\* The same, of a function known to be in the set only where the recursion starts.
FollowsFrom(h, D, base, F, S) ==
    \A t \in SUBSET S :
       /\ t = {} => h[t] = base
       /\ t # {} /\ h[t \ {Max(t)}] \in D => h[t] = F[<<Max(t), h[t \ {Max(t)}]>>]

\* What it passes through after each index.
Stages(f, h, base, F, n) ==
    f[0] = base /\ f[n] = h[1..n] /\ \A i \in 1..n : f[i] = F[<<i, f[i - 1]>>]

\* These are members of the set.
LEMMA Unfolding ==
    ASSUME NEW n \in Nat, NEW D, NEW base \in D, NEW F \in [(1..n) \X D -> D], NEW h,
           FollowsFrom(h, D, base, F, 1..n)
    PROVE  \E f \in [0..n -> D] : Stages(f, h, base, F, n)
<1> DEFINE f == [i \in 0..n |-> h[1..i]]
           K == {j \in Nat : j <= n => f[j] \in D}
<1>1. f[0] = base
  <2>1. 1..0 = {} /\ {} \in SUBSET (1..n)
    OBVIOUS
  <2>2. h[{}] = base
    BY <2>1 DEF FollowsFrom
  <2> QED
    BY <2>1, <2>2
<1>2. ASSUME NEW i \in 1..n, f[i - 1] \in D PROVE f[i] = F[<<i, f[i - 1]>>]
  <2>1. i \in 1..i /\ \A j \in 1..i : j \in 1..n
    OBVIOUS
  <2>2. 1..i \in SUBSET (1..n) /\ 1..i # {}
    BY <2>1
  <2>3. Max(1..i) = i /\ (1..i) \ {i} = 1..(i - 1)
    BY MaxOfInterval
  <2>4. i \in 0..n /\ i - 1 \in 0..n
    OBVIOUS
  <2>5. h[(1..i) \ {Max(1..i)}] \in D
    BY <1>2, <2>3, <2>4
  <2>6. h[1..i] = F[<<Max(1..i), h[(1..i) \ {Max(1..i)}]>>]
    BY <2>2, <2>5 DEF FollowsFrom
  <2> QED
    BY <2>3, <2>4, <2>6
<1>3. f[n] = h[1..n]
  OBVIOUS
<1> HIDE DEF f
<1>4. 0 \in K
  BY <1>1
<1>5. ASSUME NEW i \in Nat, i \in K PROVE i + 1 \in K
  <2>1. SUFFICES ASSUME i + 1 <= n PROVE f[i + 1] \in D
    OBVIOUS
  <2>2. f[i] \in D /\ i + 1 \in 1..n /\ (i + 1) - 1 = i
    BY <1>5, <2>1
  <2>3. f[i + 1] = F[<<i + 1, f[i]>>]
    BY <1>2, <2>2
  <2>4. <<i + 1, f[i]>> \in (1..n) \X D
    BY <2>2
  <2> QED
    BY <2>3, <2>4
<1>6. \A i \in Nat : i \in K
  <2> HIDE DEF K
  <2> QED
    BY <1>4, <1>5, Counting
<1>7. \A i \in 0..n : f[i] \in D
  BY <1>6
<1>8. f = [i \in 0..n |-> f[i]]
  BY DEF f
<1>9. f \in [0..n -> D]
  BY <1>7, <1>8
<1>10. \A i \in 1..n : f[i] = F[<<i, f[i - 1]>>]
  <2>1. SUFFICES ASSUME NEW i \in 1..n PROVE f[i] = F[<<i, f[i - 1]>>]
    OBVIOUS
  <2>2. i - 1 \in 0..n
    OBVIOUS
  <2> QED
    BY <1>2, <1>7, <2>2
<1> QED
  BY <1>1, <1>3, <1>9, <1>10 DEF Stages

-----------------------------------------------------------------------------
(* Sequences *)

\* The members of a concatenation are those of both parts.
LEMMA ConcatMembers ==
    ASSUME NEW D, NEW u \in Seq(D), NEW v \in Seq(D)
    PROVE  u \o v \in Seq(D) /\ ToSet(u \o v) = ToSet(u) \cup ToSet(v)
<1> DEFINE c == u \o v
<1>1. c \in Seq(D) /\ Len(c) = Len(u) + Len(v)
  BY ConcatProperties
<1>2. \A i \in 1..(Len(u) + Len(v)) : c[i] = IF i <= Len(u) THEN u[i] ELSE v[i - Len(u)]
  BY ConcatProperties
<1>3. /\ DOMAIN u = 1..Len(u) /\ DOMAIN v = 1..Len(v) /\ DOMAIN c = 1..Len(c)
      /\ Len(u) \in Nat /\ Len(v) \in Nat
  BY <1>1
<1> HIDE DEF c
<1>4. ASSUME NEW i \in DOMAIN c PROVE c[i] \in ToSet(u) \cup ToSet(v)
  <2>1. CASE i <= Len(u)
    <3>1. i \in DOMAIN u /\ c[i] = u[i]
      BY <1>1, <1>2, <1>3, <1>4, <2>1
    <3> QED
      BY <3>1 DEF ToSet
  <2>2. CASE ~(i <= Len(u))
    <3>1. i - Len(u) \in DOMAIN v /\ c[i] = v[i - Len(u)]
      BY <1>1, <1>2, <1>3, <1>4, <2>2
    <3> QED
      BY <3>1 DEF ToSet
  <2> QED
    BY <2>1, <2>2
<1>5. ASSUME NEW i \in DOMAIN u PROVE u[i] \in ToSet(c)
  <2>1. i \in DOMAIN c /\ c[i] = u[i]
    BY <1>1, <1>2, <1>3, <1>5
  <2> QED
    BY <2>1 DEF ToSet
<1>6. ASSUME NEW i \in DOMAIN v PROVE v[i] \in ToSet(c)
  <2>1. i + Len(u) \in DOMAIN c /\ ~(i + Len(u) <= Len(u)) /\ (i + Len(u)) - Len(u) = i
    BY <1>1, <1>3, <1>6
  <2>2. c[i + Len(u)] = v[i]
    BY <1>1, <1>2, <1>3, <2>1
  <2> QED
    BY <2>1, <2>2 DEF ToSet
<1>7. ToSet(c) = ToSet(u) \cup ToSet(v)
  <2>1. \A x \in ToSet(c) : x \in ToSet(u) \cup ToSet(v)
    BY <1>4 DEF ToSet
  <2>2. \A x \in ToSet(u) : x \in ToSet(c)
    BY <1>5 DEF ToSet
  <2>3. \A x \in ToSet(v) : x \in ToSet(c)
    BY <1>6 DEF ToSet
  <2> QED
    BY <2>1, <2>2, <2>3
<1> QED
  BY <1>1, <1>7 DEF c

\* FlattenSeq keeps all members and no others.
Flattening(f, seqs, n) ==
    \A i \in 1..n : f[i] = IF i = 1 THEN seqs[i] ELSE f[i - 1] \o seqs[i]

LEMMA FlattenExists ==
    ASSUME NEW D, NEW n \in Nat, NEW seqs \in [1..n -> Seq(D)]
    PROVE  \E f \in [1..n -> Seq(D)] : Flattening(f, seqs, n)
<1> DEFINE E == Seq(D)
           F == [x \in (1..n) \X E |-> x[2] \o seqs[x[1]]]
<1>1. F \in [(1..n) \X E -> E]
  <2>1. \A u \in E, v \in E : u \o v \in E
    BY ConcatProperties
  <2>2. \A x \in (1..n) \X E : x[2] \o seqs[x[1]] \in E
    BY <2>1
  <2> QED
    BY <2>2
<1>2. <<>> \in E
  OBVIOUS
<1>3. ASSUME NEW i \in 1..n, NEW x \in E PROVE F[<<i, x>>] = x \o seqs[i]
  OBVIOUS
<1>4. \A u \in E : <<>> \o u = u
  OBVIOUS
<1>5. seqs \in [1..n -> E]
  OBVIOUS
<1> HIDE DEF F, E
<1>6. PICK g \in [SUBSET (1..n) -> E] : Recursion(g, <<>>, F, 1..n)
  BY <1>1, <1>2, SetRecursion
<1> DEFINE f == [i \in 1..n |-> g[1..i]]
<1>7. ASSUME NEW i \in 1..n PROVE 1..i \in SUBSET (1..n) /\ 1..(i - 1) \in SUBSET (1..n)
  OBVIOUS
<1>8. f \in [1..n -> E]
  BY <1>6, <1>7
<1>9. ASSUME NEW i \in 1..n PROVE f[i] = IF i = 1 THEN seqs[i] ELSE f[i - 1] \o seqs[i]
  <2>1. Max(1..i) = i /\ (1..i) \ {i} = 1..(i - 1)
    BY MaxOfInterval
  <2>2. 1..i # {}
    <3>1. i \in 1..i
      OBVIOUS
    <3> QED
      BY <3>1
  <2>3. g[1..i] = F[<<Max(1..i), g[(1..i) \ {Max(1..i)}]>>]
    BY <1>6, <1>7, <2>2 DEF Recursion
  <2>4. g[1..(i - 1)] \in E
    BY <1>6, <1>7
  <2>5. f[i] = g[1..(i - 1)] \o seqs[i]
    BY <1>3, <2>1, <2>3, <2>4
  <2>6. CASE i = 1
    <3>1. 1..(i - 1) = {}
      BY <2>6
    <3>2. g[{}] = <<>>
      BY <1>6 DEF Recursion
    <3>3. seqs[i] \in E
      BY <1>5
    <3> QED
      BY <1>4, <2>5, <2>6, <3>1, <3>2, <3>3
  <2>7. CASE i # 1
    <3>1. i - 1 \in 1..n
      BY <2>7
    <3> QED
      BY <2>5, <2>7, <3>1
  <2> QED
    BY <2>6, <2>7
<1> HIDE DEF f
<1> QED
  BY <1>8, <1>9 DEF Flattening, E

LEMMA FlattenMembers ==
    ASSUME NEW D, NEW n \in Nat, NEW seqs \in [1..n -> Seq(D)]
    PROVE  /\ FlattenSeq(seqs) \in Seq(D)
           /\ ToSet(FlattenSeq(seqs)) = UNION {ToSet(seqs[i]) : i \in 1..n}
<1>1. Len(seqs) = n
  BY LenProperties, SeqDef
<1>2. CASE n = 0
  <2>1. 1..n = {}
    BY <1>2
  <2>2. FlattenSeq(seqs) = seqs
    BY <1>1, <1>2 DEF FlattenSeq
  <2>3. seqs \in [1..0 -> D]
    BY <1>2, <2>1
  <2>4. seqs \in Seq(D)
    BY <2>3, SeqDef
  <2>5. ToSet(seqs) = {}
    BY <2>1 DEF ToSet
  <2> QED
    BY <2>1, <2>2, <2>4, <2>5
<1>3. CASE n # 0
  <2> DEFINE f == CHOOSE f : f = [i \in 1..Len(seqs) |->
                                     IF i = 1 THEN seqs[i] ELSE f[i - 1] \o seqs[i]]
  <2>1. FlattenSeq(seqs) = f[n]
    BY <1>1, <1>3 DEF FlattenSeq
  <2>2. PICK g \in [1..n -> Seq(D)] : Flattening(g, seqs, n)
    BY FlattenExists
  <2>3. g = [i \in 1..n |-> IF i = 1 THEN seqs[i] ELSE g[i - 1] \o seqs[i]]
    BY <2>2 DEF Flattening
  <2>4. f = [i \in 1..n |-> IF i = 1 THEN seqs[i] ELSE f[i - 1] \o seqs[i]]
    BY <1>1, <2>3
  <2> HIDE DEF f
  <2> DEFINE Good(i) == /\ f[i] \in Seq(D)
                        /\ ToSet(f[i]) = UNION {ToSet(seqs[j]) : j \in 1..i}
             K == {i \in Nat : i + 1 <= n => Good(i + 1)}
  <2>5. Good(1)
    <3>1. f[1] = seqs[1] /\ 1..1 = {1} /\ 1 \in 1..n
      BY <1>3, <2>4
    <3>2. UNION {ToSet(seqs[j]) : j \in {1}} = ToSet(seqs[1])
      OBVIOUS
    <3> QED
      BY <3>1, <3>2
  <2>6. ASSUME NEW i \in Nat, i # 0, i + 1 <= n, Good(i) PROVE Good(i + 1)
    <3>0. i + 1 \in 1..n /\ i + 1 # 1 /\ (i + 1) - 1 = i
      BY <2>6
    <3>1. f[i + 1] = f[i] \o seqs[i + 1] /\ seqs[i + 1] \in Seq(D)
      BY <2>4, <3>0
    <3>2. f[i + 1] \in Seq(D) /\ ToSet(f[i + 1]) = ToSet(f[i]) \cup ToSet(seqs[i + 1])
      BY <2>6, <3>1, ConcatMembers
    <3>3. \A j : j \in 1..(i + 1) <=> j \in 1..i \/ j = i + 1
      BY <2>6
    <3>4. UNION {ToSet(seqs[j]) : j \in 1..(i + 1)}
             = (UNION {ToSet(seqs[j]) : j \in 1..i}) \cup ToSet(seqs[i + 1])
      BY <3>3
    <3> QED
      BY <2>6, <3>2, <3>4
  <2> HIDE DEF Good
  <2>7. 0 \in K
    BY <2>5
  <2>8. ASSUME NEW i \in Nat, i \in K PROVE i + 1 \in K
    <3>1. i + 1 \in Nat /\ i + 1 # 0 /\ ((i + 1) + 1 <= n => i + 1 <= n)
      OBVIOUS
    <3>2. (i + 1) + 1 <= n => Good(i + 1)
      BY <2>8, <3>1
    <3>3. (i + 1) + 1 <= n => Good((i + 1) + 1)
      BY <2>6, <3>1, <3>2
    <3> QED
      BY <3>1, <3>3
  <2>9. n - 1 \in K
    <3> HIDE DEF K
    <3>1. \A i \in Nat : i \in K
      BY <2>7, <2>8, Counting
    <3> QED
      BY <1>3, <3>1
  <2>10. Good(n)
    BY <1>3, <2>9
  <2> QED
    BY <2>1, <2>10 DEF Good
<1> QED
  BY <1>2, <1>3

\* SetToSeq lists a finite set.
LEMMA ListedSet ==
    ASSUME NEW S, IsFiniteSet(S)
    PROVE  /\ SetToSeq(S) \in [1..Cardinality(S) -> S]
           /\ Cardinality(S) \in Nat
           /\ ToSet(SetToSeq(S)) = S
<1> DEFINE n == Cardinality(S)
           q == SetToSeq(S)
<1>1. n \in Nat /\ ExistsBijection(1..n, S)
  BY FS_CardinalityType
<1>2. PICK b : b \in Bijection(1..n, S)
  BY <1>1 DEF ExistsBijection
<1>3. b \in [1..n -> S] /\ IsInjective(b)
  BY <1>2 DEF Bijection, Injection
<1>4. q \in [1..n -> S] /\ IsInjective(q)
  BY <1>3 DEF SetToSeq
<1> HIDE DEF q
<1>5. q \in Injection(1..n, S)
  BY <1>4 DEF Injection
<1>6. IsFiniteSet(1..n) /\ Cardinality(1..n) = n
  BY <1>1, FS_Interval
<1>7. q \in Surjection(1..n, S)
  BY <1>5, <1>6, FS_Injection
<1>8. \A x \in S : \E i \in 1..n : q[i] = x
  BY <1>7 DEF Surjection
<1>9. ToSet(q) = S
  BY <1>4, <1>8 DEF ToSet
<1> QED
  BY <1>1, <1>4, <1>9 DEF q

=============================================================================
