---------------------------- MODULE DiscoveryProofs ----------------------------
(* Streaming and distributed discovery.  What the streams decide rests on    *)
(* their latest windows, for every configuration, every stability and        *)
(* streams of any length.  The distributed discovery decides every edge by   *)
(* all its tests, however they are dealt out, and its vector clocks order    *)
(* graph versions as their histories do, for any numbers of variables,       *)
(* workers, processes and steps.                                             *)
EXTENDS DistributedDiscovery, Streaming, FoldLemmas

-----------------------------------------------------------------------------
(* Streams: the circular buffer *)

\* Where the rows of a buffer of w slots are after `total` rows: the slots before
\* idx hold the latest ones, those from idx on the ones before.
LatestRows(b, total, w) ==
    /\ b.fill <= total
    /\ b.fill < w => b.idx = b.fill /\ b.fill = total
    /\ \A s \in 0..(w - 1) : s < b.idx => b.rows[s] = total - b.idx + s + 1
    /\ \A s \in 0..(w - 1) : b.idx <= s /\ s < b.fill => b.rows[s] = total - b.idx - w + s + 1
Buffers(w) == [rows : [0..(w - 1) -> Nat], idx : 0..(w - 1), fill : 0..w]

LEMMA SlotSums ==
    ASSUME NEW total \in Int, NEW i \in Int, NEW w \in Int, NEW s \in Int
    PROVE  /\ (total + 1) - (i + 1) - w + s + 1 = total - i - w + s + 1
           /\ (total + 1) - 0 - (i + 1) + s + 1 = total - i + s + 1
OBVIOUS

LEMMA NextSlot ==
    ASSUME NEW w \in Nat \ {0}, NEW i \in 0..(w - 1)
    PROVE  (i + 1) % w = IF i + 1 = w THEN 0 ELSE i + 1
<1>1. CASE i + 1 = w
  <2>1. w % w = 0
    OBVIOUS
  <2> QED
    BY <1>1, <2>1
<1>2. CASE i + 1 # w
  <2>1. i + 1 \in 0..(w - 1)
    BY <1>2
  <2> QED
    BY <1>2, <2>1
<1> QED
  BY <1>1, <1>2

LEMMA PushTyped ==
    ASSUME engine.window \in Nat \ {0}, NEW b \in Buffers(engine.window), NEW row \in Nat
    PROVE  PushRow(b, row) \in Buffers(engine.window)
<1> DEFINE w == engine.window
<1>1. (b.idx + 1) % w \in 0..(w - 1)
  BY NextSlot DEF Buffers
<1>2. [b.rows EXCEPT ![b.idx] = row] \in [0..(w - 1) -> Nat]
  BY DEF Buffers
<1>3. (IF b.fill < w THEN b.fill + 1 ELSE b.fill) \in 0..w
  BY DEF Buffers
<1> QED
  BY <1>1, <1>2, <1>3 DEF PushRow, Buffers

\* A row more goes where the oldest one was.
LEMMA PushKeepsLatest ==
    ASSUME engine.window \in Nat \ {0}, NEW b \in Buffers(engine.window), NEW total \in Nat,
           LatestRows(b, total, engine.window)
    PROVE  LatestRows(PushRow(b, total + 1), total + 1, engine.window)
<1> DEFINE w == engine.window
           c == PushRow(b, total + 1)
<1>1. w \in Nat \ {0} /\ b.idx \in 0..(w - 1) /\ b.fill \in 0..w
      /\ b.rows \in [0..(w - 1) -> Nat]
  BY DEF Buffers
<1>2. c.idx = IF b.idx + 1 = w THEN 0 ELSE b.idx + 1
  BY <1>1, NextSlot DEF PushRow
<1>3. c.fill = IF b.fill < w THEN b.fill + 1 ELSE b.fill
  BY DEF PushRow
<1>4. c.rows[b.idx] = total + 1 /\ \A s \in 0..(w - 1) : s # b.idx => c.rows[s] = b.rows[s]
  BY <1>1 DEF PushRow
<1>5. b.fill <= total /\ (b.fill < w => b.idx = b.fill /\ b.fill = total)
  BY DEF LatestRows
<1>6. \A s \in 0..(w - 1) : s < b.idx => b.rows[s] = total - b.idx + s + 1
  BY DEF LatestRows
<1>7. \A s \in 0..(w - 1) : b.idx <= s /\ s < b.fill => b.rows[s] = total - b.idx - w + s + 1
  BY DEF LatestRows
<1> HIDE DEF w, c
<1>8. c.fill <= total + 1 /\ (c.fill < w => c.idx = c.fill /\ c.fill = total + 1)
  BY <1>1, <1>2, <1>3, <1>5
<1>9. ASSUME NEW s \in 0..(w - 1), s < c.idx
      PROVE  c.rows[s] = (total + 1) - c.idx + s + 1
  <2>1. c.idx = b.idx + 1
    BY <1>1, <1>2, <1>9
  <2>2. CASE s = b.idx
    BY <1>1, <1>4, <2>1, <2>2
  <2>3. CASE s # b.idx
    <3>1. s < b.idx
      BY <1>1, <1>9, <2>1, <2>3
    <3>2. c.rows[s] = total - b.idx + s + 1
      BY <1>4, <1>6, <2>3, <3>1
    <3> QED
      BY <1>1, <2>1, <3>2
  <2> QED
    BY <2>2, <2>3
<1>10. ASSUME NEW s \in 0..(w - 1), c.idx <= s, s < c.fill
       PROVE  c.rows[s] = (total + 1) - c.idx - w + s + 1
  <2>1. CASE b.idx + 1 = w
    <3>1. c.idx = 0
      BY <1>2, <2>1
    <3>2. CASE s = b.idx
      <4>1. s + 1 = w /\ c.rows[s] = total + 1
        BY <1>4, <2>1, <3>2
      <4>2. (total + 1) - 0 - (s + 1) + s + 1 = total + 1
        OBVIOUS
      <4> QED
        BY <3>1, <4>1, <4>2
    <3>3. CASE s # b.idx
      <4>1. s < b.idx
        BY <1>1, <2>1, <3>3
      <4>2. c.rows[s] = total - b.idx + s + 1
        BY <1>4, <1>6, <3>3, <4>1
      <4>3. total \in Int /\ b.idx \in Int /\ w \in Int /\ s \in Int
        BY <1>1
      <4>4. (total + 1) - 0 - (b.idx + 1) + s + 1 = total - b.idx + s + 1
        BY <4>3, SlotSums
      <4> QED
        BY <2>1, <3>1, <4>2, <4>4
    <3> QED
      BY <3>2, <3>3
  <2>2. CASE b.idx + 1 # w
    <3>1. c.idx = b.idx + 1
      BY <1>2, <2>2
    <3>2. b.idx < s /\ s # b.idx
      BY <1>1, <1>10, <3>1
    <3>3. b.fill = w
      BY <1>1, <1>3, <1>5, <1>10, <3>2
    <3>4. c.rows[s] = total - b.idx - w + s + 1
      BY <1>1, <1>4, <1>7, <3>2, <3>3
    <3>5. total \in Int /\ b.idx \in Int /\ w \in Int /\ s \in Int
      BY <1>1
    <3>6. (total + 1) - (b.idx + 1) - w + s + 1 = total - b.idx - w + s + 1
      BY <3>5, SlotSums
    <3> QED
      BY <3>1, <3>4, <3>6
  <2> QED
    BY <2>1, <2>2
<1> QED
  BY <1>8, <1>9, <1>10 DEF LatestRows, c, w

\* The buffer after some rows, and the buffers it passes through, one after each.
Pushed(b, seq) == FoldLeft(PushRow, b, seq)
BuffersOf(f, b, seq, k) ==
    f[0] = b /\ f[k] = Pushed(b, seq) /\ \A i \in 1..k : f[i] = PushRow(f[i - 1], seq[i])

LEMMA PushFold ==
    ASSUME engine.window \in Nat \ {0}, NEW k \in Nat, NEW b \in Buffers(engine.window),
           NEW seq \in [1..k -> Nat]
    PROVE  \E f \in [0..k -> Buffers(engine.window)] : BuffersOf(f, b, seq, k)
<1> DEFINE D == Buffers(engine.window)
           F == [x \in (1..k) \X D |-> PushRow(x[2], seq[x[1]])]
           h == CHOOSE h : h = [s \in SUBSET DOMAIN seq |->
                   IF s = {} THEN b ELSE PushRow(h[s \ {Max(s)}], seq[Max(s)])]
<1>1. Pushed(b, seq) = h[DOMAIN seq]
  BY DEF Pushed, FoldLeft, MapThenFoldSet
<1>2. F \in [(1..k) \X D -> D]
  BY PushTyped
<1>3. DOMAIN seq = 1..k /\ b \in D
  OBVIOUS
<1>4. PICK g \in [SUBSET (1..k) -> D] : Recursion(g, b, F, 1..k)
  <2> HIDE DEF F, D, h
  <2> QED
    BY <1>2, <1>3, SetRecursion
<1>5. ASSUME NEW i \in 1..k, NEW x \in D PROVE F[<<i, x>>] = PushRow(x, seq[i])
  OBVIOUS
<1>6. g = [s \in SUBSET DOMAIN seq |->
              IF s = {} THEN b ELSE PushRow(g[s \ {Max(s)}], seq[Max(s)])]
  <2>1. ASSUME NEW s \in SUBSET (1..k), s # {} PROVE g[s] = PushRow(g[s \ {Max(s)}], seq[Max(s)])
    <3>1. Max(s) \in 1..k
      BY <2>1, MaxExists
    <3>2. g[s \ {Max(s)}] \in D
      BY <1>4
    <3> HIDE DEF F, D
    <3> QED
      BY <1>4, <1>5, <2>1, <3>1, <3>2 DEF Recursion
  <2>2. g[{}] = b
    BY <1>4 DEF Recursion
  <2> QED
    BY <1>3, <1>4, <2>1, <2>2
<1>7. h = [s \in SUBSET DOMAIN seq |->
              IF s = {} THEN b ELSE PushRow(h[s \ {Max(s)}], seq[Max(s)])]
  <2> HIDE DEF F, D
  <2> QED
    BY <1>6
<1> HIDE DEF h, F, D
<1>8. FollowsFrom(h, D, b, F, 1..k)
  <2> SUFFICES ASSUME NEW t \in SUBSET (1..k)
               PROVE  /\ t = {} => h[t] = b
                      /\ t # {} /\ h[t \ {Max(t)}] \in D => h[t] = F[<<Max(t), h[t \ {Max(t)}]>>]
    BY DEF FollowsFrom
  <2>1. h[t] = IF t = {} THEN b ELSE PushRow(h[t \ {Max(t)}], seq[Max(t)])
    BY <1>3, <1>7
  <2>2. t # {} => Max(t) \in 1..k
    BY MaxExists
  <2> QED
    BY <1>5, <2>1, <2>2
<1>9. PICK f \in [0..k -> D] : Stages(f, h, b, F, k)
  BY <1>2, <1>3, <1>8, Unfolding
<1>10. \A i \in 1..k : f[i] = PushRow(f[i - 1], seq[i])
  <2>1. \A i \in 1..k : i - 1 \in 0..k
    OBVIOUS
  <2> QED
    BY <1>5, <1>9, <2>1 DEF Stages
<1> QED
  BY <1>1, <1>3, <1>9, <1>10 DEF D, Stages, BuffersOf

\* The buffer after the k rows that follow the first `total` ones.
Filled(b, total, k) == Pushed(b, [r \in 1..k |-> total + r])

\* Rows pushed one by one leave the latest of them.
LEMMA PushesKeepLatest ==
    ASSUME engine.window \in Nat \ {0}, NEW b \in Buffers(engine.window), NEW total \in Nat,
           LatestRows(b, total, engine.window), NEW k \in Nat
    PROVE  /\ Filled(b, total, k) \in Buffers(engine.window)
           /\ LatestRows(Filled(b, total, k), total + k, engine.window)
<1> DEFINE seq == [r \in 1..k |-> total + r]
           w == engine.window
<1>1. seq \in [1..k -> Nat]
  OBVIOUS
<1>2. PICK f \in [0..k -> Buffers(w)] : BuffersOf(f, b, seq, k)
  <2>1. PICK rows \in [1..k -> Nat] : rows = seq
    BY <1>1
  <2>2. \E f \in [0..k -> Buffers(engine.window)] : BuffersOf(f, b, rows, k)
    BY PushFold
  <2> HIDE DEF seq
  <2> QED
    BY <2>1, <2>2
<1>3. \A i \in 1..k : seq[i] = total + i
  OBVIOUS
<1> DEFINE K == {j \in Nat : j <= k => LatestRows(f[j], total + j, w)}
<1> HIDE DEF seq, w
<1>4. 0 \in K
  BY <1>2 DEF w, BuffersOf
<1>5. ASSUME NEW i \in Nat, i \in K PROVE i + 1 \in K
  <2>1. SUFFICES ASSUME i + 1 <= k PROVE LatestRows(f[i + 1], total + (i + 1), w)
    OBVIOUS
  <2>2. i + 1 \in 1..k /\ i \in 0..k /\ (i + 1) - 1 = i /\ i <= k
    BY <2>1
  <2>3. f[i] \in Buffers(w) /\ LatestRows(f[i], total + i, w) /\ total + i \in Nat
    BY <1>5, <2>2
  <2>4. f[i + 1] = PushRow(f[i], total + (i + 1))
    BY <1>2, <1>3, <2>2 DEF BuffersOf
  <2>5. total + (i + 1) = (total + i) + 1
    OBVIOUS
  <2>6. PICK t \in Nat : t = total + i
    BY <2>3
  <2>7. LatestRows(PushRow(f[i], t + 1), t + 1, w)
    BY <2>3, <2>6, PushKeepsLatest DEF w
  <2> QED
    BY <2>4, <2>5, <2>6, <2>7
<1>6. k \in K
  <2> HIDE DEF K
  <2> QED
    BY <1>4, <1>5, Counting
<1>7. f[k] \in Buffers(w) /\ LatestRows(f[k], total + k, w)
  BY <1>2, <1>6
<1> QED
  BY <1>2, <1>7 DEF seq, w, Filled, BuffersOf

\* The slots that hold a row hold the latest ones, as many as there are slots.
LEMMA LatestRowsHeld ==
    ASSUME NEW w \in Nat \ {0}, NEW b \in Buffers(w), NEW total \in Nat, LatestRows(b, total, w)
    PROVE  {b.rows[s] : s \in 0..(b.fill - 1)} = (total - b.fill + 1)..total
<1> DEFINE held == {b.rows[s] : s \in 0..(b.fill - 1)}
<1>1. PICK i \in Nat, n \in Nat, rows \in [0..(w - 1) -> Nat] :
        i = b.idx /\ n = b.fill /\ rows = b.rows /\ i < w /\ n <= w
  BY DEF Buffers
<1>2. n <= total /\ (n < w => i = n /\ n = total)
  BY <1>1 DEF LatestRows
<1>3. \A s \in 0..(w - 1) : s < i => rows[s] = total - i + s + 1
  BY <1>1 DEF LatestRows
<1>4. \A s \in 0..(w - 1) : i <= s /\ s < n => rows[s] = total - i - w + s + 1
  BY <1>1 DEF LatestRows
<1>5. i < w /\ n <= w
  BY <1>1
<1>6. ASSUME NEW s \in 0..(n - 1) PROVE rows[s] \in (total - n + 1)..total
  <2>1. s \in 0..(w - 1) /\ s < n
    BY <1>5
  <2>2. CASE s < i
    <3>1. rows[s] = total - i + s + 1
      BY <1>3, <2>1, <2>2
    <3>2. n = w \/ (n = i /\ n = total)
      BY <1>2, <1>5
    <3>3. total - i + s + 1 \in (total - n + 1)..total
      BY <1>2, <1>5, <2>2, <3>2
    <3> QED
      BY <3>1, <3>3
  <2>3. CASE i <= s
    <3>1. n = w
      BY <1>2, <1>5, <2>3
    <3>2. rows[s] = total - i - w + s + 1
      BY <1>4, <2>1, <2>3
    <3>3. total - i - w + s + 1 \in Int
      OBVIOUS
    <3>4. s < w /\ s - i >= 0
      BY <2>3, <3>1
    <3>5. total - w + 1 <= total - i - w + s + 1
      BY <3>4
    <3>6. total - i - w + s + 1 <= total
      BY <3>4
    <3> QED
      BY <3>1, <3>2, <3>3, <3>5, <3>6
  <2> QED
    BY <2>2, <2>3
<1>7. ASSUME NEW r \in (total - n + 1)..total PROVE \E s \in 0..(n - 1) : rows[s] = r
  <2>1. CASE total - i < r
    <3>1. PICK s \in Int : s = r - total + i - 1
      OBVIOUS
    <3>2. 0 <= s /\ s < i
      BY <2>1, <3>1
    <3>3. n = w \/ i = n
      BY <1>2, <1>5
    <3>4. s \in 0..(w - 1) /\ s \in 0..(n - 1)
      BY <1>5, <3>2, <3>3
    <3>5. total - i + s + 1 = r
      BY <3>1
    <3>6. rows[s] = r
      BY <1>3, <3>2, <3>4, <3>5
    <3> QED
      BY <3>4, <3>6
  <2>2. CASE r <= total - i
    <3>1. n = w
      BY <1>2, <1>5, <2>2
    <3>2. PICK s \in Int : s = r - total + i + w - 1
      OBVIOUS
    <3>3. total - w + 1 <= r
      BY <3>1
    <3>4. i <= s
      BY <3>2, <3>3
    <3>5. s < w
      BY <2>2, <3>2
    <3>6. s \in 0..(w - 1) /\ s \in 0..(n - 1) /\ s < n
      BY <3>1, <3>4, <3>5
    <3>7. total - i - w + s + 1 = r
      BY <3>2
    <3>8. rows[s] = r
      BY <1>4, <3>4, <3>6, <3>7
    <3> QED
      BY <3>6, <3>8
  <2>3. total - i \in Int /\ r \in Int
    OBVIOUS
  <2> QED
    BY <2>1, <2>2, <2>3
<1>8. held = {rows[s] : s \in 0..(n - 1)}
  BY <1>1
<1>9. {rows[s] : s \in 0..(n - 1)} = (total - n + 1)..total
  BY <1>6, <1>7
<1> QED
  BY <1>1, <1>8, <1>9

-----------------------------------------------------------------------------
(* The window of the pipeline *)

\* The whole rows of a window are rows of it.
LEMMA CleanRows ==
    ASSUME NEW n \in Nat, NEW R, NEW seq \in [1..n -> R]
    PROVE  FoldLeft(KeepWhole, <<>>, seq) \in Seq(R)
<1> DEFINE D == Seq(R)
           F == [x \in (1..n) \X D |-> KeepWhole(x[2], seq[x[1]])]
           h == CHOOSE h : h = [s \in SUBSET DOMAIN seq |->
                   IF s = {} THEN <<>> ELSE KeepWhole(h[s \ {Max(s)}], seq[Max(s)])]
<1>1. FoldLeft(KeepWhole, <<>>, seq) = h[DOMAIN seq]
  BY DEF FoldLeft, MapThenFoldSet
<1>2. F \in [(1..n) \X D -> D]
  BY DEF KeepWhole
<1>3. DOMAIN seq = 1..n /\ <<>> \in D
  OBVIOUS
<1>4. PICK g \in [SUBSET (1..n) -> D] : Recursion(g, <<>>, F, 1..n)
  <2> HIDE DEF F, D, h
  <2> QED
    BY <1>2, <1>3, SetRecursion
<1>5. ASSUME NEW i \in 1..n, NEW x \in D PROVE F[<<i, x>>] = KeepWhole(x, seq[i])
  OBVIOUS
<1>6. g = [s \in SUBSET DOMAIN seq |->
              IF s = {} THEN <<>> ELSE KeepWhole(g[s \ {Max(s)}], seq[Max(s)])]
  <2>1. ASSUME NEW s \in SUBSET (1..n), s # {}
        PROVE  g[s] = KeepWhole(g[s \ {Max(s)}], seq[Max(s)])
    <3>1. Max(s) \in 1..n
      BY <2>1, MaxExists
    <3>2. g[s \ {Max(s)}] \in D
      BY <1>4
    <3> HIDE DEF F, D
    <3> QED
      BY <1>4, <1>5, <2>1, <3>1, <3>2 DEF Recursion
  <2>2. g[{}] = <<>>
    BY <1>4 DEF Recursion
  <2> HIDE DEF F, D
  <2> QED
    BY <1>3, <1>4, <2>1, <2>2
<1>7. h = [s \in SUBSET DOMAIN seq |->
              IF s = {} THEN <<>> ELSE KeepWhole(h[s \ {Max(s)}], seq[Max(s)])]
  <2> HIDE DEF F, D
  <2> QED
    BY <1>6
<1> HIDE DEF h, F, D
<1>8. FollowsFrom(h, D, <<>>, F, 1..n)
  <2> SUFFICES ASSUME NEW t \in SUBSET (1..n)
               PROVE  /\ t = {} => h[t] = <<>>
                      /\ t # {} /\ h[t \ {Max(t)}] \in D => h[t] = F[<<Max(t), h[t \ {Max(t)}]>>]
    BY DEF FollowsFrom
  <2>1. h[t] = IF t = {} THEN <<>> ELSE KeepWhole(h[t \ {Max(t)}], seq[Max(t)])
    BY <1>3, <1>7
  <2>2. t # {} => Max(t) \in 1..n
    BY MaxExists
  <2> QED
    BY <1>5, <2>1, <2>2
<1>9. PICK f \in [0..n -> D] : Stages(f, h, <<>>, F, n)
  BY <1>2, <1>3, <1>8, Unfolding
<1> QED
  BY <1>1, <1>3, <1>9 DEF D, Stages

-----------------------------------------------------------------------------
(* The verdicts on a pair *)

Ends(q, v, k) ==
    {t \in k..Len(v) : \A u \in (t - k + 1)..t : (q \in v[u]) = (q \in v[t])}
Agreed(q, v, k) == Ends(q, v, k) # {} /\ q \in v[Max(Ends(q, v, k))]

\* What a count of c says when the committed graph has the pair adjacent (adj) or
\* not: the last c verdicts speak against it, the one before them for it, and the
\* last k verdicts in a row that agree are for it.
Counted(q, adj, c, v, k) ==
    /\ c \in 0..(k - 1) /\ c <= Len(v)
    /\ \A u \in DOMAIN v : Len(v) - c < u => (q \in v[u] <=> ~adj)
    /\ c < Len(v) => (q \in v[Len(v) - c] <=> adj)
    /\ Agreed(q, v, k) <=> adj

Unanimous(q, v, k) ==
    /\ Len(v) >= k
    /\ \A u \in (Len(v) - k + 1)..Len(v) : (q \in v[u]) = (q \in v[Len(v)])

\* A verdict more: either the last k agree with it, or what had been agreed stays.
LEMMA AgreedAfter ==
    ASSUME NEW S, NEW v \in Seq(S), NEW s \in S, NEW k \in Nat \ {0}, NEW q,
           NEW V, V = Append(v, s)
    PROVE  Agreed(q, V, k) <=> IF Unanimous(q, V, k) THEN q \in s ELSE Agreed(q, v, k)
<1>1. PICK n \in Nat : /\ n = Len(v) /\ Len(V) = n + 1 /\ V[n + 1] = s
                       /\ \A u \in 1..n : V[u] = v[u]
  OBVIOUS
<1> DEFINE E == Ends(q, v, k)
           F == Ends(q, V, k)
<1>2. E \subseteq 1..n /\ F \subseteq 1..(n + 1)
  BY <1>1 DEF Ends
<1>3. ASSUME NEW t \in 1..n PROVE t \in F <=> t \in E
  <2>1. t \in k..n <=> t \in k..(n + 1)
    BY <1>1
  <2>2. ASSUME t \in k..n PROVE \A u \in (t - k + 1)..t : u \in 1..n
    BY <1>1, <2>2
  <2>3. ASSUME t \in k..n
        PROVE  (\A u \in (t - k + 1)..t : (q \in v[u]) = (q \in v[t]))
                  <=> (\A u \in (t - k + 1)..t : (q \in V[u]) = (q \in V[t]))
    BY <1>1, <2>2, <2>3
  <2> QED
    BY <1>1, <2>1, <2>3 DEF Ends
<1>4. n + 1 \in F <=> Unanimous(q, V, k)
  <2>1. n + 1 \in k..Len(V) <=> n + 1 >= k
    BY <1>1
  <2> QED
    BY <1>1, <2>1 DEF Ends, Unanimous
<1> HIDE DEF E, F
<1>5. ASSUME n + 1 \in F PROVE Agreed(q, V, k) <=> q \in s
  <2>1. F \in SUBSET Int /\ \A t \in F : t <= n + 1
    BY <1>2
  <2>2. Max(F) = n + 1
    BY <1>5, <2>1, MaxIs
  <2> QED
    BY <1>1, <1>5, <2>2 DEF Agreed, F
<1>6. ASSUME n + 1 \notin F PROVE Agreed(q, V, k) <=> Agreed(q, v, k)
  <2>1. \A t \in F : t \in 1..n
    BY <1>2, <1>6
  <2>2. F = E
    BY <1>2, <1>3, <2>1
  <2>3. ASSUME E # {} PROVE V[Max(E)] = v[Max(E)]
    <3>1. Max(E) \in 1..n
      BY <1>2, <2>3, MaxExists
    <3> QED
      BY <1>1, <3>1
  <2> QED
    BY <2>2, <2>3 DEF Agreed, E, F
<1> QED
  BY <1>4, <1>5, <1>6

\* A verdict that agrees starts the count anew.
LEMMA AgreeingVerdict ==
    ASSUME NEW S, NEW v \in Seq(S), NEW s \in S, NEW k \in Nat \ {0}, NEW q, NEW adj \in BOOLEAN,
           NEW c, Counted(q, adj, c, v, k), q \in s <=> adj
    PROVE  Counted(q, adj, 0, Append(v, s), k)
<1> DEFINE V == Append(v, s)
<1>2. PICK n \in Nat : n = Len(v) /\ Len(V) = n + 1 /\ V[n + 1] = s
  OBVIOUS
<1>3. Agreed(q, v, k) <=> adj
  BY DEF Counted
<1>4. Agreed(q, V, k) <=> adj
  BY <1>3, AgreedAfter
<1>5. 0 \in 0..(k - 1) /\ 0 <= Len(V) /\ \A u \in DOMAIN V : ~(Len(V) - 0 < u)
  OBVIOUS
<1>6. Len(V) - 0 = n + 1
  BY <1>2
<1> QED
  BY <1>2, <1>4, <1>5, <1>6 DEF Counted

\* A verdict against the graph is counted while there are fewer than k of them.
LEMMA DisagreeingVerdict ==
    ASSUME NEW S, NEW v \in Seq(S), NEW s \in S, NEW k \in Nat \ {0}, NEW q, NEW adj \in BOOLEAN,
           NEW c, Counted(q, adj, c, v, k), q \in s <=> ~adj, c + 1 < k
    PROVE  Counted(q, adj, c + 1, Append(v, s), k)
<1> DEFINE V == Append(v, s)
<1>2. PICK n \in Nat : /\ n = Len(v) /\ Len(V) = n + 1 /\ V[n + 1] = s
                       /\ \A u \in 1..n : V[u] = v[u]
  OBVIOUS
<1>3. c \in 0..(k - 1) /\ c <= n /\ (Agreed(q, v, k) <=> adj)
  BY <1>2 DEF Counted
<1>4. \A u \in 1..n : n - c < u => (q \in v[u] <=> ~adj)
  BY <1>2 DEF Counted
<1>5. c < n => (q \in v[n - c] <=> adj)
  BY <1>2 DEF Counted
<1>6. ~Unanimous(q, V, k)
  <2>1. SUFFICES ASSUME Unanimous(q, V, k) PROVE FALSE
    OBVIOUS
  <2>2. n + 1 >= k
    BY <1>2, <2>1 DEF Unanimous
  <2>3. c < n /\ n - c \in 1..n /\ n - c \in (n + 1 - k + 1)..(n + 1)
    BY <1>3, <2>2
  <2>4. (q \in V[n - c]) = (q \in s)
    BY <1>2, <2>1, <2>3 DEF Unanimous
  <2>5. V[n - c] = v[n - c]
    BY <1>2, <2>3
  <2> QED
    BY <1>5, <2>3, <2>4, <2>5
<1>7. Agreed(q, V, k) <=> adj
  <2>1. Agreed(q, V, k) <=> IF Unanimous(q, V, k) THEN q \in s ELSE Agreed(q, v, k)
    BY AgreedAfter
  <2> QED
    BY <1>3, <1>6, <2>1
<1>8. c + 1 \in 0..(k - 1) /\ c + 1 <= n + 1
  BY <1>3
<1>9. ASSUME NEW u \in DOMAIN V, Len(V) - (c + 1) < u PROVE q \in V[u] <=> ~adj
  <2>1. u \in 1..(n + 1) /\ n - c < u
    BY <1>2, <1>3, <1>9
  <2>2. CASE u = n + 1
    BY <1>2, <2>2
  <2>3. CASE u # n + 1
    <3>1. u \in 1..n
      BY <2>1, <2>3
    <3> QED
      BY <1>2, <1>4, <2>1, <3>1
  <2> QED
    BY <2>2, <2>3
<1>10. ASSUME c + 1 < Len(V) PROVE q \in V[Len(V) - (c + 1)] <=> adj
  <2>1. c < n /\ Len(V) - (c + 1) = n - c /\ n - c \in 1..n
    BY <1>2, <1>3, <1>10
  <2> QED
    BY <1>2, <1>5, <2>1
<1> QED
  BY <1>2, <1>7, <1>8, <1>9, <1>10 DEF Counted

\* The k-th of them in a row turns the graph.
LEMMA DecidingVerdict ==
    ASSUME NEW S, NEW v \in Seq(S), NEW s \in S, NEW k \in Nat \ {0}, NEW q, NEW adj \in BOOLEAN,
           NEW c, Counted(q, adj, c, v, k), q \in s <=> ~adj, c + 1 >= k,
           NEW now \in BOOLEAN, now <=> ~adj
    PROVE  Counted(q, now, 0, Append(v, s), k)
<1> DEFINE V == Append(v, s)
<1>2. PICK n \in Nat : /\ n = Len(v) /\ Len(V) = n + 1 /\ V[n + 1] = s
                       /\ \A u \in 1..n : V[u] = v[u]
  OBVIOUS
<1>3. c \in 0..(k - 1) /\ c <= n
  BY <1>2 DEF Counted
<1>4. \A u \in 1..n : n - c < u => (q \in v[u] <=> ~adj)
  BY <1>2 DEF Counted
<1>5. c = k - 1 /\ n + 1 >= k
  BY <1>3
<1>6. ASSUME NEW u \in (n + 1 - k + 1)..(n + 1) PROVE (q \in V[u]) = (q \in s)
  <2>1. CASE u = n + 1
    BY <1>2, <2>1
  <2>2. CASE u # n + 1
    <3>1. u \in 1..n /\ n - c < u
      BY <1>5, <2>2
    <3> QED
      BY <1>2, <1>4, <3>1
  <2> QED
    BY <2>1, <2>2
<1>7. Agreed(q, V, k) <=> now
  <2>1. Agreed(q, V, k) <=> IF Unanimous(q, V, k) THEN q \in s ELSE Agreed(q, v, k)
    BY AgreedAfter
  <2>2. Unanimous(q, V, k)
    BY <1>2, <1>5, <1>6 DEF Unanimous
  <2> QED
    BY <2>1, <2>2
<1>8. 0 \in 0..(k - 1) /\ 0 <= Len(V) /\ \A u \in DOMAIN V : ~(Len(V) - 0 < u)
  OBVIOUS
<1>9. Len(V) - 0 = n + 1
  BY <1>2
<1> QED
  BY <1>2, <1>7, <1>8, <1>9 DEF Counted

-----------------------------------------------------------------------------
(* Streams: the inductive invariant *)

CircularBuffer == [rows |-> buffer, idx |-> bufferIdx, fill |-> bufferFill]

StreamTypes ==
    /\ engine \in Engines /\ pipeline \in Pipelines
    /\ totalObs \in Nat /\ pointCount \in Nat
    /\ CircularBuffer \in Buffers(engine.window)
    /\ pendingAdditions \in [Pairs -> Int] /\ pendingRemovals \in [Pairs -> Int]
    /\ verdicts \in Seq(SUBSET (Nodes \X Nodes))
    /\ points \in Seq([at : Nat, whole : BOOLEAN])

BufferIsLatest == LatestRows(CircularBuffer, totalObs, engine.window)

\* The count that could turn a pair is that of the latest verdicts against the
\* graph; the other one is zero.
CountsAreOfVerdicts ==
    engine.stability > 0 =>
        \A q \in Pairs, adj \in BOOLEAN :
            (adj <=> Adjacent(graph, q[1], q[2])) =>
                /\ (IF adj THEN pendingAdditions[q] ELSE pendingRemovals[q]) = 0
                /\ Counted(q, adj, IF adj THEN pendingRemovals[q] ELSE pendingAdditions[q],
                           verdicts, engine.stability)

\* The points buffered are the latest, in order.
PointsAreLatest ==
    /\ Len(points) <= pointCount
    /\ \A i \in DOMAIN points : points[i].at = pointCount - Len(points) + i

ResultIsOfWindow ==
    \A r \in DOMAIN emitted.rows :
        emitted.rows[r] \in (pointCount - pipeline.window + 1)..pointCount

StreamInv ==
    StreamTypes /\ BufferIsLatest /\ CountsAreOfVerdicts /\ PointsAreLatest /\ ResultIsOfWindow

LEMMA StreamInitInv ==
    ASSUME NEW c \in Engines, NEW p \in Pipelines, StreamInit(c, p)
    PROVE  StreamInv
<1>1. c.window \in Nat \ {0} /\ c.stability \in Int
  BY StreamAssumption
<1>2. CircularBuffer \in Buffers(engine.window)
  BY <1>1 DEF StreamInit, CircularBuffer, Buffers
<1>3. StreamTypes
  BY <1>2 DEF StreamTypes, StreamInit
<1>4. BufferIsLatest
  BY <1>1 DEF BufferIsLatest, LatestRows, CircularBuffer, StreamInit
<1>5. CountsAreOfVerdicts
  <2>1. SUFFICES ASSUME engine.stability > 0, NEW q \in Pairs, NEW adj \in BOOLEAN,
                        adj <=> Adjacent(graph, q[1], q[2])
                 PROVE  /\ (IF adj THEN pendingAdditions[q] ELSE pendingRemovals[q]) = 0
                        /\ Counted(q, adj, IF adj THEN pendingRemovals[q] ELSE pendingAdditions[q],
                                   verdicts, engine.stability)
    BY DEF CountsAreOfVerdicts
  <2>2. Ends(q, <<>>, engine.stability) = {}
    <3>1. Len(<<>>) = 0
      OBVIOUS
    <3> QED
      BY <1>1, <2>1, <3>1 DEF Ends, StreamInit
  <2>3. ~adj
    BY <2>1 DEF StreamInit, Adjacent
  <2>4. Counted(q, adj, 0, verdicts, engine.stability)
    <3>1. Len(<<>>) = 0 /\ DOMAIN <<>> = {} /\ verdicts = <<>>
      BY DEF StreamInit
    <3>2. 0 \in 0..(engine.stability - 1)
      BY <1>1, <2>1 DEF StreamInit
    <3>3. ~Agreed(q, verdicts, engine.stability)
      BY <2>2, <3>1 DEF Agreed
    <3> QED
      BY <2>3, <3>1, <3>2, <3>3 DEF Counted
  <2>5. pendingAdditions[q] = 0
    BY DEF StreamInit
  <2>6. pendingRemovals[q] = 0
    BY DEF StreamInit
  <2> QED
    BY <2>3, <2>4, <2>5, <2>6
<1>6. PointsAreLatest
  BY DEF PointsAreLatest, StreamInit
<1>7. ResultIsOfWindow
  BY DEF ResultIsOfWindow, StreamInit, None
<1> QED
  BY <1>3, <1>4, <1>5, <1>6, <1>7 DEF StreamInv

\* Removing and adding edges changes the adjacency of the pairs named, only.
LEMMA PairAdjacency ==
    ASSUME NEW g, NEW dropped \in SUBSET Pairs, NEW added \in SUBSET Pairs, NEW q \in Pairs
    PROVE  Adjacent(RemoveEdges(g, dropped) \cup added, q[1], q[2])
              <=> (Adjacent(g, q[1], q[2]) /\ q \notin dropped) \/ q \in added
<1>1. PICK a \in Nodes, b \in Nodes : q = <<a, b>> /\ a < b
  BY DEF Pairs
<1>2. a \in Int /\ b \in Int /\ ~(b < a)
  BY <1>1, NAssumption DEF Nodes
<1>3. ASSUME NEW p \in Pairs PROVE p = <<p[1], p[2]>> /\ p[1] < p[2]
  BY DEF Pairs
<1>4. <<b, a>> \notin Pairs
  <2>1. SUFFICES ASSUME <<b, a>> \in Pairs PROVE FALSE
    OBVIOUS
  <2>2. <<b, a>>[1] < <<b, a>>[2]
    BY <1>3, <2>1
  <2> QED
    BY <1>2, <2>2
<1> DEFINE back == {<<e[2], e[1]>> : e \in dropped}
<1>5. <<a, b>> \notin back
  <2>1. SUFFICES ASSUME NEW e \in dropped, <<a, b>> = <<e[2], e[1]>> PROVE FALSE
    OBVIOUS
  <2>2. e = <<b, a>>
    BY <1>3, <2>1
  <2> QED
    BY <1>4, <2>2
<1>6. <<b, a>> \in back <=> <<a, b>> \in dropped
  <2>1. ASSUME <<b, a>> \in back PROVE <<a, b>> \in dropped
    <3>1. PICK e \in dropped : <<b, a>> = <<e[2], e[1]>>
      BY <2>1
    <3>2. e = <<a, b>>
      BY <1>3, <3>1
    <3> QED
      BY <3>2
  <2>2. ASSUME <<a, b>> \in dropped PROVE <<b, a>> \in back
    <3>1. <<b, a>> = <<<<a, b>>[2], <<a, b>>[1]>>
      OBVIOUS
    <3> QED
      BY <2>2, <3>1
  <2> QED
    BY <2>1, <2>2
<1> HIDE DEF back
<1>7. RemoveEdges(g, dropped) = g \ (dropped \cup back)
  BY DEF RemoveEdges, back
<1>8. <<b, a>> \notin dropped /\ <<b, a>> \notin added
  BY <1>4
<1>9. q = <<a, b>> /\ q[1] = a /\ q[2] = b
  BY <1>1
<1> QED
  BY <1>5, <1>6, <1>7, <1>8, <1>9 DEF Adjacent

\* A discovery iteration keeps the counts.
LEMMA DiscoveryKeepsCounts ==
    ASSUME StreamTypes, CountsAreOfVerdicts, NEW fill, RunDiscoveryIteration(fill),
           engine' = engine
    PROVE  /\ pendingAdditions' \in [Pairs -> Int] /\ pendingRemovals' \in [Pairs -> Int]
           /\ verdicts' \in Seq(SUBSET (Nodes \X Nodes))
           /\ CountsAreOfVerdicts'
<1>1. CASE UNCHANGED <<graph, pendingAdditions, pendingRemovals, changeCount, verdicts>>
  BY <1>1 DEF StreamTypes, CountsAreOfVerdicts
<1>2. ASSUME NEW found, StabilityCheck(found), verdicts' = Append(verdicts, Skeleton(found))
      PROVE  /\ pendingAdditions' \in [Pairs -> Int] /\ pendingRemovals' \in [Pairs -> Int]
             /\ verdicts' \in Seq(SUBSET (Nodes \X Nodes))
             /\ CountsAreOfVerdicts'
  <2> DEFINE k == engine.stability
             have(q) == Adjacent(graph, q[1], q[2])
             want(q) == Adjacent(found, q[1], q[2])
             adds    == {q \in Pairs : ~have(q) /\ want(q)}
             drops   == {q \in Pairs : have(q) /\ ~want(q)}
             added   == {q \in adds : pendingAdditions[q] + 1 >= k}
             dropped == {q \in drops : pendingRemovals[q] + 1 >= k}
             S       == SUBSET (Nodes \X Nodes)
             s       == Skeleton(found)
  <2>1. /\ graph' = RemoveEdges(graph, dropped) \cup added
        /\ pendingAdditions' = [q \in Pairs |-> IF q \in adds \ added
                                                THEN pendingAdditions[q] + 1 ELSE 0]
        /\ pendingRemovals' = [q \in Pairs |-> IF q \in drops \ dropped
                                               THEN pendingRemovals[q] + 1 ELSE 0]
    BY <1>2 DEF StabilityCheck
  <2>2. s \in S /\ verdicts \in Seq(S) /\ verdicts' = Append(verdicts, s)
    BY <1>2 DEF Skeleton, StreamTypes
  <2>3. k \in Int
    BY StreamAssumption DEF StreamTypes
  <2>4. ASSUME NEW q \in Pairs PROVE q \in s <=> want(q)
    BY DEF Skeleton, Pairs
  <2>5. dropped \in SUBSET Pairs /\ added \in SUBSET Pairs
    OBVIOUS
  <2>6. ASSUME NEW q \in Pairs
        PROVE  Adjacent(graph', q[1], q[2]) <=> (have(q) /\ q \notin dropped) \/ q \in added
    <3> HIDE DEF dropped, added, have
    <3>1. Adjacent(RemoveEdges(graph, dropped) \cup added, q[1], q[2])
              <=> (Adjacent(graph, q[1], q[2]) /\ q \notin dropped) \/ q \in added
      BY <2>5, PairAdjacency
    <3> QED
      BY <2>1, <3>1 DEF have
  <2>7. pendingAdditions' \in [Pairs -> Int] /\ pendingRemovals' \in [Pairs -> Int]
    BY <2>1 DEF StreamTypes
  <2>8. verdicts' \in Seq(S)
    BY <2>2
  <2>9. CountsAreOfVerdicts'
    <3>1. SUFFICES ASSUME k > 0, NEW q \in Pairs, NEW now \in BOOLEAN,
                          now <=> Adjacent(graph', q[1], q[2])
                   PROVE  /\ (IF now THEN pendingAdditions'[q] ELSE pendingRemovals'[q]) = 0
                          /\ Counted(q, now, IF now THEN pendingRemovals'[q]
                                             ELSE pendingAdditions'[q], verdicts', k)
      BY DEF CountsAreOfVerdicts
    <3>2. PICK adj \in BOOLEAN : adj <=> have(q)
      OBVIOUS
    <3> DEFINE c == IF adj THEN pendingRemovals[q] ELSE pendingAdditions[q]
    <3>3. Counted(q, adj, c, verdicts, k)
      BY <3>1, <3>2 DEF CountsAreOfVerdicts
    <3>4. k \in Nat \ {0}
      BY <2>3, <3>1
    <3>5. q \in s <=> want(q)
      BY <2>4
    <3>6. /\ q \in adds <=> ~adj /\ want(q)
          /\ q \in drops <=> adj /\ ~want(q)
          /\ q \in added <=> ~adj /\ want(q) /\ c + 1 >= k
          /\ q \in dropped <=> adj /\ ~want(q) /\ c + 1 >= k
      BY <3>2
    <3>7. pendingAdditions'[q] = IF q \in adds /\ q \notin added
                                 THEN pendingAdditions[q] + 1 ELSE 0
      BY <2>1
    <3>8. pendingRemovals'[q] = IF q \in drops /\ q \notin dropped
                                THEN pendingRemovals[q] + 1 ELSE 0
      BY <2>1
    <3>9. Adjacent(graph', q[1], q[2]) <=> (adj /\ q \notin dropped) \/ q \in added
      BY <2>6, <3>2
    <3>10. c \in Int
      BY <2>7 DEF StreamTypes
    <3> HIDE DEF adds, drops, added, dropped, have, want, s, S, k
    <3> HIDE DEF c
    <3>11. ASSUME q \in s <=> adj
           PROVE  /\ now = adj /\ pendingAdditions'[q] = 0 /\ pendingRemovals'[q] = 0
                  /\ Counted(q, now, 0, verdicts', k)
      <4>1. Counted(q, adj, 0, verdicts', k)
        <5>1. Counted(q, adj, 0, Append(verdicts, s), k)
          BY <2>2, <3>3, <3>4, <3>11, AgreeingVerdict
        <5> QED
          BY <2>2, <5>1
      <4>2. q \notin adds /\ q \notin drops /\ q \notin added /\ q \notin dropped
        BY <3>5, <3>6, <3>11
      <4>3. now = adj
        BY <3>1, <3>9, <4>2
      <4> QED
        BY <3>7, <3>8, <4>1, <4>2, <4>3
    <3>12. ASSUME q \in s <=> ~adj, c + 1 < k
           PROVE  /\ now = adj
                  /\ (IF adj THEN pendingAdditions'[q] ELSE pendingRemovals'[q]) = 0
                  /\ (IF adj THEN pendingRemovals'[q] ELSE pendingAdditions'[q]) = c + 1
                  /\ Counted(q, now, c + 1, verdicts', k)
      <4>1. Counted(q, adj, c + 1, verdicts', k)
        <5>1. Counted(q, adj, c + 1, Append(verdicts, s), k)
          BY <2>2, <3>3, <3>4, <3>12, DisagreeingVerdict
        <5> QED
          BY <2>2, <5>1
      <4>2. ~(c + 1 >= k)
        BY <3>4, <3>10, <3>12
      <4>3. /\ q \notin added /\ q \notin dropped
            /\ q \in adds <=> ~adj
            /\ q \in drops <=> adj
        BY <3>5, <3>6, <3>12, <4>2
      <4>4. now = adj
        BY <3>1, <3>9, <4>3
      <4> QED
        BY <3>7, <3>8, <4>1, <4>3, <4>4 DEF c
    <3>13. ASSUME q \in s <=> ~adj, c + 1 >= k
           PROVE  /\ pendingAdditions'[q] = 0 /\ pendingRemovals'[q] = 0
                  /\ Counted(q, now, 0, verdicts', k)
      <4>1. /\ q \in adds <=> q \in added
            /\ q \in drops <=> q \in dropped
            /\ q \in added <=> ~adj
            /\ q \in dropped <=> adj
        BY <3>5, <3>6, <3>13
      <4>2. now <=> ~adj
        BY <3>1, <3>9, <4>1
      <4>3. Counted(q, now, 0, verdicts', k)
        <5>1. Counted(q, now, 0, Append(verdicts, s), k)
          BY <2>2, <3>3, <3>4, <3>13, <4>2, DecidingVerdict
        <5> QED
          BY <2>2, <5>1
      <4> QED
        BY <3>7, <3>8, <4>1, <4>3
    <3>14. c + 1 < k \/ c + 1 >= k
      BY <3>4, <3>10
    <3> QED
      BY <3>11, <3>12, <3>13, <3>14
  <2> QED
    BY <2>7, <2>8, <2>9
<1> QED
  BY <1>1, <1>2 DEF RunDiscoveryIteration

\* A batch fills the buffer and may be followed by a discovery.
LEMMA UpdateKeepsInv ==
    ASSUME StreamInv, NEW k \in BatchSizes, Update(k)
    PROVE  StreamInv'
<1> DEFINE filled == Filled(CircularBuffer, totalObs, k)
           w == engine.window
<1>1. /\ totalObs' = totalObs + k
      /\ buffer' = filled.rows /\ bufferIdx' = filled.idx /\ bufferFill' = filled.fill
      /\ \/ RunDiscoveryIteration(filled.fill)
         \/ UNCHANGED <<graph, pendingAdditions, pendingRemovals, changeCount, verdicts>>
      /\ UNCHANGED <<engine, pipelineVars>>
  BY DEF Update, CircularBuffer, Filled, Pushed
<1>2. k \in Nat /\ w \in Nat \ {0} /\ totalObs \in Nat
  BY StreamAssumption DEF StreamInv, StreamTypes
<1>3. CircularBuffer \in Buffers(w) /\ LatestRows(CircularBuffer, totalObs, w)
  BY DEF StreamInv, StreamTypes, BufferIsLatest
<1>4. filled \in Buffers(w) /\ LatestRows(filled, totalObs + k, w)
  <2>1. PICK b : b = CircularBuffer
    OBVIOUS
  <2>2. PICK total \in Nat : total = totalObs
    BY <1>2
  <2>3. /\ engine.window \in Nat \ {0} /\ b \in Buffers(engine.window)
        /\ LatestRows(b, total, engine.window) /\ k \in Nat
    BY <1>2, <1>3, <2>1, <2>2
  <2>4. /\ Filled(b, total, k) \in Buffers(engine.window)
        /\ LatestRows(Filled(b, total, k), total + k, engine.window)
    BY <2>3, PushesKeepLatest
  <2> QED
    BY <2>1, <2>2, <2>4
<1> HIDE DEF filled
<1>5. CircularBuffer' = filled
  BY <1>1, <1>4 DEF CircularBuffer, Buffers
<1>6. UNCHANGED <<engine, pipeline, pointCount, points, emitted>>
  BY <1>1 DEF pipelineVars
<1>7. /\ pendingAdditions' \in [Pairs -> Int] /\ pendingRemovals' \in [Pairs -> Int]
      /\ verdicts' \in Seq(SUBSET (Nodes \X Nodes))
      /\ CountsAreOfVerdicts'
  <2>1. ASSUME RunDiscoveryIteration(filled.fill)
        PROVE  /\ pendingAdditions' \in [Pairs -> Int] /\ pendingRemovals' \in [Pairs -> Int]
               /\ verdicts' \in Seq(SUBSET (Nodes \X Nodes))
               /\ CountsAreOfVerdicts'
    BY <1>6, <2>1, DiscoveryKeepsCounts DEF StreamInv
  <2>2. ASSUME UNCHANGED <<graph, pendingAdditions, pendingRemovals, changeCount, verdicts>>
        PROVE  /\ pendingAdditions' \in [Pairs -> Int] /\ pendingRemovals' \in [Pairs -> Int]
               /\ verdicts' \in Seq(SUBSET (Nodes \X Nodes))
               /\ CountsAreOfVerdicts'
    BY <1>6, <2>2 DEF StreamInv, StreamTypes, CountsAreOfVerdicts
  <2> QED
    BY <1>1, <2>1, <2>2
<1>8. StreamTypes'
  BY <1>1, <1>2, <1>4, <1>5, <1>6, <1>7 DEF StreamInv, StreamTypes
<1>9. BufferIsLatest'
  BY <1>1, <1>4, <1>5, <1>6 DEF BufferIsLatest
<1>10. PointsAreLatest' /\ ResultIsOfWindow'
  BY <1>6 DEF StreamInv, PointsAreLatest, ResultIsOfWindow
<1> QED
  BY <1>7, <1>8, <1>9, <1>10 DEF StreamInv

LEMMA RecomputeKeepsInv ==
    ASSUME StreamInv, ForceRecompute
    PROVE  StreamInv'
<1>1. UNCHANGED <<engine, buffer, bufferIdx, bufferFill, totalObs, pipeline, pointCount, points,
                  emitted>>
  BY DEF ForceRecompute, pipelineVars
<1>2. /\ pendingAdditions' \in [Pairs -> Int] /\ pendingRemovals' \in [Pairs -> Int]
      /\ verdicts' \in Seq(SUBSET (Nodes \X Nodes))
      /\ CountsAreOfVerdicts'
  BY <1>1, DiscoveryKeepsCounts DEF ForceRecompute, StreamInv
<1>3. CircularBuffer' = CircularBuffer
  BY <1>1 DEF CircularBuffer
<1>4. StreamTypes'
  BY <1>1, <1>2, <1>3 DEF StreamInv, StreamTypes
<1>5. BufferIsLatest'
  BY <1>1, <1>3 DEF StreamInv, BufferIsLatest
<1>6. PointsAreLatest' /\ ResultIsOfWindow'
  BY <1>1 DEF StreamInv, PointsAreLatest, ResultIsOfWindow
<1> QED
  BY <1>2, <1>4, <1>5, <1>6 DEF StreamInv

\* The points of a window are numbered as they came, up to the last one.
LEMMA WindowRows ==
    ASSUME NEW w \in Nat \ {0}, NEW count \in Nat, NEW P, NEW kept \in Seq(P),
           \A i \in DOMAIN kept : kept[i].at = count - Len(kept) + i
    PROVE  LET n     == Len(kept)
               rows  == SubSeq(kept, n - LeastOf(w, n) + 1, n)
               clean == FoldLeft(KeepWhole, <<>>, rows)
           IN  \A r \in DOMAIN clean : clean[r].at \in (count - w + 1)..count
<1> DEFINE n     == Len(kept)
           m     == LeastOf(w, n)
           rows  == SubSeq(kept, n - m + 1, n)
           R     == {p \in P : p.at \in (count - w + 1)..count}
           clean == FoldLeft(KeepWhole, <<>>, rows)
<1>1. n \in Nat /\ m \in 0..n /\ m <= w
  BY DEF LeastOf
<1>2. \A i \in 1..n : kept[i] \in P /\ kept[i].at = count - n + i
  OBVIOUS
<1> HIDE DEF m
<1>3. rows = [i \in 1..m |-> kept[i + (n - m)]]
  <2>1. Len(rows) = m /\ \A i \in 1..m : rows[i] = kept[n - m + 1 + i - 1]
    BY <1>1
  <2>2. DOMAIN rows = 1..m /\ rows = [i \in DOMAIN rows |-> rows[i]]
    BY <1>1
  <2>3. \A i \in 1..m : n - m + 1 + i - 1 = i + (n - m)
    BY <1>1
  <2> QED
    BY <2>1, <2>2, <2>3
<1>4. ASSUME NEW i \in 1..m PROVE kept[i + (n - m)] \in R
  <2>1. i + (n - m) \in 1..n
    BY <1>1
  <2>2. kept[i + (n - m)] \in P /\ kept[i + (n - m)].at = count - n + (i + (n - m))
    BY <1>2, <2>1
  <2>3. count - n + (i + (n - m)) \in (count - w + 1)..count
    BY <1>1
  <2> QED
    BY <2>2, <2>3
<1>5. rows \in [1..m -> R]
  BY <1>3, <1>4
<1> HIDE DEF rows, R, n
<1>6. clean \in Seq(R)
  BY <1>1, <1>5, CleanRows
<1>7. \A r \in DOMAIN clean : clean[r] \in R
  <2> HIDE DEF clean
  <2> QED
    BY <1>6
<1> QED
  BY <1>7 DEF R, rows, n, m

LEMMA IngestKeepsInv ==
    ASSUME StreamInv, NEW whole \in BOOLEAN, Ingest(whole)
    PROVE  StreamInv'
<1> DEFINE P    == [at : Nat, whole : BOOLEAN]
           at   == pointCount + 1
           new  == [at |-> at, whole |-> whole]
           all  == Append(points, new)
           kept == IF Len(all) > pipeline.history THEN Tail(all) ELSE all
<1>1. /\ pointCount' = at /\ points' = kept
      /\ ProcessWindow(kept) \/ emitted' = None
      /\ pipeline' = pipeline /\ UNCHANGED engineVars
  BY DEF Ingest
<1>2. UNCHANGED <<engine, buffer, bufferIdx, bufferFill, totalObs, graph, pendingAdditions,
                  pendingRemovals, changeCount, verdicts>>
  BY <1>1 DEF engineVars
<1>3. pointCount \in Nat /\ points \in Seq(P) /\ new \in P /\ at \in Nat
      /\ pipeline.window \in Nat \ {0} /\ pipeline.history \in Nat
  BY StreamAssumption DEF StreamInv, StreamTypes
<1>4. Len(points) <= pointCount
      /\ \A i \in DOMAIN points : points[i].at = pointCount - Len(points) + i
  BY DEF StreamInv, PointsAreLatest
<1>5. all \in Seq(P) /\ Len(all) = Len(points) + 1 /\ Len(all) <= at
      /\ \A i \in DOMAIN all : all[i].at = at - Len(all) + i
  <2>1. PICK n \in Nat : n = Len(points)
    BY <1>3
  <2>2. all \in Seq(P) /\ Len(all) = n + 1 /\ all[n + 1] = new /\ \A i \in 1..n : all[i] = points[i]
    BY <1>3, <2>1
  <2>3. new.at = at
    OBVIOUS
  <2>4. ASSUME NEW i \in DOMAIN all PROVE all[i].at = at - Len(all) + i
    <3>1. i \in 1..(n + 1)
      BY <2>2
    <3> HIDE DEF all, new
    <3>2. CASE i = n + 1
      BY <1>3, <2>2, <2>3, <3>2
    <3>3. CASE i # n + 1
      <4>0. i \in 1..n
        BY <3>1, <3>3
      <4>1. i \in 1..n /\ all[i] = points[i] /\ i \in DOMAIN points
        BY <1>3, <2>1, <2>2, <4>0
      <4>2. all[i].at = pointCount - n + i
        BY <1>4, <2>1, <4>1
      <4>3. pointCount - n + i = at - (n + 1) + i
        BY <1>3, <3>1
      <4> QED
        BY <2>2, <4>2, <4>3
    <3> QED
      BY <3>2, <3>3
  <2> QED
    BY <1>3, <1>4, <2>1, <2>2, <2>4
<1> HIDE DEF P, at, all
<1>6. kept \in Seq(P) /\ Len(kept) <= at /\ \A i \in DOMAIN kept : kept[i].at = at - Len(kept) + i
  <2>1. CASE Len(all) > pipeline.history
    <3>1. PICK n \in Nat : n = Len(points) /\ Len(all) = n + 1
      BY <1>3, <1>5
    <3>2. Tail(all) \in Seq(P) /\ Len(Tail(all)) = n /\ \A i \in 1..n : Tail(all)[i] = all[i + 1]
      BY <1>5, <3>1
    <3>3. ASSUME NEW i \in DOMAIN Tail(all) PROVE Tail(all)[i].at = at - Len(Tail(all)) + i
      <4>1. i \in 1..n /\ i + 1 \in DOMAIN all
        BY <1>5, <3>1, <3>2
      <4>2. Tail(all)[i].at = at - (n + 1) + (i + 1)
        BY <1>5, <3>1, <3>2, <4>1
      <4> QED
        BY <1>3, <3>2, <4>1, <4>2
    <3>4. Len(Tail(all)) <= at
      BY <1>3, <1>5, <3>1, <3>2
    <3> QED
      BY <2>1, <3>2, <3>3, <3>4
  <2>2. CASE ~(Len(all) > pipeline.history)
    BY <1>5, <2>2
  <2> QED
    BY <2>1, <2>2
<1> HIDE DEF kept
<1>7. PointsAreLatest'
  BY <1>1, <1>6 DEF PointsAreLatest
<1>8. ResultIsOfWindow'
  <2>1. CASE emitted' = None
    BY <2>1 DEF ResultIsOfWindow, None
  <2>2. ASSUME ProcessWindow(kept), emitted' # None PROVE ResultIsOfWindow'
    <3> DEFINE n     == Len(kept)
               rows  == SubSeq(kept, n - LeastOf(pipeline.window, n) + 1, n)
               clean == FoldLeft(KeepWhole, <<>>, rows)
    <3>1. emitted'.rows = [r \in DOMAIN clean |-> clean[r].at]
      BY <2>2 DEF ProcessWindow
    <3>2. PICK w \in Nat \ {0} : w = pipeline.window
      BY <1>3
    <3>3. PICK count \in Nat : count = at
      BY <1>3
    <3>4. \A i \in DOMAIN kept : kept[i].at = count - Len(kept) + i
      BY <1>6, <3>3
    <3>5. LET m == Len(kept)
              rs == SubSeq(kept, m - LeastOf(w, m) + 1, m)
              cl == FoldLeft(KeepWhole, <<>>, rs)
          IN  \A r \in DOMAIN cl : cl[r].at \in (count - w + 1)..count
      BY <1>6, <3>4, WindowRows
    <3>6. \A r \in DOMAIN clean : clean[r].at \in (count - w + 1)..count
      BY <3>2, <3>5
    <3> HIDE DEF clean
    <3> QED
      BY <1>1, <3>1, <3>2, <3>3, <3>6 DEF ResultIsOfWindow
  <2> QED
    BY <1>1, <2>1, <2>2
<1>9. StreamTypes'
  <2>1. CircularBuffer' = CircularBuffer
    BY <1>2 DEF CircularBuffer
  <2> QED
    BY <1>1, <1>2, <1>3, <1>6, <2>1 DEF StreamInv, StreamTypes, P
<1>10. BufferIsLatest' /\ CountsAreOfVerdicts'
  BY <1>2 DEF StreamInv, BufferIsLatest, CountsAreOfVerdicts, CircularBuffer
<1> QED
  BY <1>7, <1>8, <1>9, <1>10 DEF StreamInv

LEMMA StreamStepInv ==
    ASSUME StreamInv, [OnlineNext \/ PipelineNext]_streamVars
    PROVE  StreamInv'
<1>1. CASE ForceRecompute
  BY <1>1, RecomputeKeepsInv
<1>2. ASSUME NEW k \in BatchSizes, Update(k) PROVE StreamInv'
  BY <1>2, UpdateKeepsInv
<1>3. ASSUME NEW whole \in BOOLEAN, Ingest(whole) PROVE StreamInv'
  BY <1>3, IngestKeepsInv
<1>4. CASE UNCHANGED streamVars
  <2>1. CircularBuffer' = CircularBuffer
    BY <1>4 DEF streamVars, engineVars, CircularBuffer
  <2>2. UNCHANGED <<engine, totalObs, graph, pendingAdditions, pendingRemovals, verdicts,
                    pipeline, pointCount, points, emitted>>
    BY <1>4 DEF streamVars, engineVars, pipelineVars
  <2>3. StreamTypes' /\ BufferIsLatest'
    BY <2>1, <2>2 DEF StreamInv, StreamTypes, BufferIsLatest
  <2>4. CountsAreOfVerdicts' /\ PointsAreLatest' /\ ResultIsOfWindow'
    BY <2>2 DEF StreamInv, CountsAreOfVerdicts, PointsAreLatest, ResultIsOfWindow
  <2> QED
    BY <2>3, <2>4 DEF StreamInv
<1> QED
  BY <1>1, <1>2, <1>3, <1>4 DEF OnlineNext, PipelineNext

\* The counts say what the last verdicts that agreed said.
LEMMA StreamInvDecides == StreamInv => WindowsDecide
<1> SUFFICES ASSUME StreamInv PROVE WindowsDecide
  OBVIOUS
<1>1. ASSUME engine.stability > 0, NEW q \in Pairs
      PROVE  Adjacent(graph, q[1], q[2]) <=> LastAgreed(q)
  <2>1. PICK adj \in BOOLEAN : adj <=> Adjacent(graph, q[1], q[2])
    OBVIOUS
  <2>2. Agreed(q, verdicts, engine.stability) <=> adj
    BY <1>1, <2>1 DEF StreamInv, CountsAreOfVerdicts, Counted
  <2>3. LastAgreed(q) <=> Agreed(q, verdicts, engine.stability)
    BY DEF LastAgreed, Agreed, Ends
  <2> QED
    BY <2>1, <2>2, <2>3
<1>2. {buffer[s] : s \in 0..(bufferFill - 1)} = (totalObs - bufferFill + 1)..totalObs
  <2>1. engine.window \in Nat \ {0} /\ totalObs \in Nat
        /\ CircularBuffer \in Buffers(engine.window)
        /\ LatestRows(CircularBuffer, totalObs, engine.window)
    BY StreamAssumption DEF StreamInv, StreamTypes, BufferIsLatest
  <2>2. PICK b : b = CircularBuffer
    OBVIOUS
  <2>3. PICK total \in Nat, w \in Nat \ {0} : total = totalObs /\ w = engine.window
    BY <2>1
  <2>4. {b.rows[s] : s \in 0..(b.fill - 1)} = (total - b.fill + 1)..total
    BY <2>1, <2>2, <2>3, LatestRowsHeld
  <2>5. b.rows = buffer /\ b.fill = bufferFill
    BY <2>2 DEF CircularBuffer
  <2> QED
    BY <2>3, <2>4, <2>5
<1> QED
  BY <1>1, <1>2 DEF WindowsDecide, StreamInv, ResultIsOfWindow

-----------------------------------------------------------------------------
(* Theorems on the streams *)

\* The types, the place of every row and point, and the counts hold throughout.
THEOREM StreamsAreCounted == StreamSpec => []StreamInv
<1>1. (\E c \in Engines, p \in Pipelines : StreamInit(c, p)) => StreamInv
  BY StreamInitInv
<1>2. StreamInv /\ [OnlineNext \/ PipelineNext]_streamVars => StreamInv'
  BY StreamStepInv
<1> QED
  BY <1>1, <1>2, PTL DEF StreamSpec

\* Adjacency is decided by the last windows in a row that agree, the buffer holds
\* the latest rows and a result is made of rows of its window (update and
\* applyStabilityCheck of streaming-discovery.ts, ingest of streaming.ts), for
\* every window, stability and length of the stream.
THEOREM StreamsRestOnTheirWindows == StreamSpec => []WindowsDecide
<1>1. StreamSpec => []StreamInv
  BY StreamsAreCounted
<1> QED
  BY <1>1, StreamInvDecides, PTL

-----------------------------------------------------------------------------
(* Pairs of variables *)

\* Numbers below V * V are the pairs of numbers below V.
LEMMA Division ==
    ASSUME NEW V \in Nat, V # 0, NEW a \in Nat
    PROVE  /\ a % V \in 0..(V - 1)
           /\ a \div V \in Nat
           /\ a = V * (a \div V) + (a % V)
OBVIOUS

LEMMA QuotientBound ==
    ASSUME NEW V \in Nat, NEW q \in Nat, NEW r \in Nat, V * q + r < V * V
    PROVE  q < V
<1>1. SUFFICES ASSUME q >= V PROVE FALSE
  OBVIOUS
<1>2. V * q >= V * V
  BY <1>1
<1> QED
  BY <1>2

LEMMA QuotientUnique ==
    ASSUME NEW V \in Nat, NEW q \in Nat, NEW r \in 0..(V - 1),
           NEW s \in Nat, NEW t \in 0..(V - 1), V * q + r = V * s + t
    PROVE  q = s /\ r = t
<1>1. ASSUME q < s PROVE FALSE
  <2>1. V * (q + 1) <= V * s
    BY <1>1
  <2>2. V * (q + 1) = V * q + V
    OBVIOUS
  <2>3. V * q \in Nat /\ V * s \in Nat
    OBVIOUS
  <2> QED
    BY <2>1, <2>2, <2>3
<1>2. ASSUME s < q PROVE FALSE
  <2>1. V * (s + 1) <= V * q
    BY <1>2
  <2>2. V * (s + 1) = V * s + V
    OBVIOUS
  <2>3. V * q \in Nat /\ V * s \in Nat
    OBVIOUS
  <2> QED
    BY <2>1, <2>2, <2>3
<1>3. q = s
  BY <1>1, <1>2
<1>4. V * q \in Nat /\ V * q = V * s
  BY <1>3
<1> QED
  BY <1>3, <1>4

LEMMA PairBound ==
    ASSUME NEW V \in Nat, NEW i \in 0..(V - 1), NEW j \in 0..(V - 1)
    PROVE  V * j + i \in Nat /\ V * j + i < V * V
<1>1. V * j <= V * (V - 1)
  OBVIOUS
<1>2. V * (V - 1) = V * V - V
  OBVIOUS
<1>3. V * j \in Nat /\ V * V \in Nat
  OBVIOUS
<1> QED
  BY <1>1, <1>2, <1>3

LEMMA PairsOfIndices ==
    ASSUME NEW V \in Nat
    PROVE  /\ V * V \in Nat
           /\ \A p \in 1..(V * V) : (p - 1) % V \in 0..(V - 1) /\ (p - 1) \div V \in 0..(V - 1)
           /\ \A i \in 0..(V - 1), j \in 0..(V - 1) : \E p \in 1..(V * V) :
                 (p - 1) % V = i /\ (p - 1) \div V = j
<1>1. V * V \in Nat
  OBVIOUS
<1>2. CASE V = 0
  <2>1. V * V = 0 /\ 1..0 = {} /\ 0..(V - 1) = {}
    BY <1>2
  <2> QED
    BY <1>1, <2>1
<1>3. CASE V # 0
  <2>1. ASSUME NEW p \in 1..(V * V)
        PROVE  (p - 1) % V \in 0..(V - 1) /\ (p - 1) \div V \in 0..(V - 1)
    <3>1. p - 1 \in Nat /\ p - 1 < V * V
      BY <1>1
    <3>2. PICK q \in Nat : q = (p - 1) \div V
      BY <1>3, <3>1, Division
    <3>3. PICK r \in 0..(V - 1) : r = (p - 1) % V
      BY <1>3, <3>1, Division
    <3>4. p - 1 = V * q + r
      BY <1>3, <3>1, <3>2, <3>3, Division
    <3>5. q < V
      BY <3>1, <3>4, QuotientBound
    <3> QED
      BY <3>2, <3>3, <3>5
  <2>2. ASSUME NEW i \in 0..(V - 1), NEW j \in 0..(V - 1)
        PROVE  \E p \in 1..(V * V) : (p - 1) % V = i /\ (p - 1) \div V = j
    <3>1. PICK a \in Nat : a = V * j + i
      BY PairBound
    <3>2. a < V * V
      BY <3>1, PairBound
    <3>3. PICK q \in Nat : q = a \div V
      BY <1>3, Division
    <3>4. PICK r \in 0..(V - 1) : r = a % V
      BY <1>3, Division
    <3>5. V * q + r = V * j + i
      BY <1>3, <3>1, <3>3, <3>4, Division
    <3>6. j \in Nat
      OBVIOUS
    <3>7. q = j /\ r = i
      BY <3>5, <3>6, QuotientUnique
    <3>8. a + 1 \in 1..(V * V) /\ (a + 1) - 1 = a
      BY <1>1, <3>2
    <3> QED
      BY <3>3, <3>4, <3>7, <3>8
  <2> QED
    BY <1>1, <2>1, <2>2
<1> QED
  BY <1>2, <1>3

-----------------------------------------------------------------------------
(* partitionCITasks *)

\* The conditioning sets of an edge, and its tests.
CondSetsOf(i, j) == {R \in SUBSET (Vars \ {i, j}) : Cardinality(R) <= MaxCondVars}
TestsOf(i, j, lag) == {Task(i, j, lag, S) : S \in CondSetsOf(i, j)}
TaskSet == [source : Vars, target : Vars, lag : 0..TauMax, condSet : SUBSET Vars]
LagsOf(i, j) == IF i = j THEN 1..TauMax ELSE 0..TauMax
EdgeSet == {e \in Vars \X Vars \X (0..TauMax) : e[1] # e[2] \/ e[3] > 0}

\* The tests of an edge with conditioning sets of one size.
LEMMA TasksOfSize ==
    ASSUME NEW i \in Vars, NEW j \in Vars, NEW lag \in 0..TauMax, NEW size \in Nat
    PROVE  LET sets  == CondSets(i, j, size)
               tasks == [k \in DOMAIN sets |-> Task(i, j, lag, sets[k])]
           IN  /\ tasks \in Seq(TaskSet)
               /\ ToSet(tasks) = {Task(i, j, lag, S) : S \in kSubset(size, Vars \ {i, j})}
<1> DEFINE K == kSubset(size, Vars \ {i, j})
           sets == CondSets(i, j, size)
           tasks == [k \in DOMAIN sets |-> Task(i, j, lag, sets[k])]
<1>1. IsFiniteSet(K)
  <2>1. IsFiniteSet(Vars)
    BY DistributedAssumption, FS_Interval DEF Vars
  <2>2. Vars \ {i, j} \in SUBSET Vars
    OBVIOUS
  <2>3. IsFiniteSet(Vars \ {i, j})
    BY <2>1, <2>2, FS_Subset
  <2>4. IsFiniteSet(SUBSET (Vars \ {i, j}))
    BY <2>3, FS_SUBSET
  <2>5. K \in SUBSET (SUBSET (Vars \ {i, j}))
    BY DEF kSubset
  <2> HIDE DEF K
  <2> QED
    BY <2>4, <2>5, FS_Subset
<1>2. PICK n \in Nat : sets \in [1..n -> K] /\ ToSet(sets) = K
  <2> HIDE DEF K
  <2>1. sets = SetToSeq(K)
    BY DEF CondSets, K
  <2> QED
    BY <1>1, <2>1, ListedSet
<1>3. \A S \in K : Task(i, j, lag, S) \in TaskSet
  BY DEF kSubset, Task, TaskSet
<1> HIDE DEF K, sets
<1>4. tasks \in [1..n -> TaskSet]
  BY <1>2, <1>3
<1>5. tasks \in Seq(TaskSet)
  BY <1>4, SeqDef
<1>6. ToSet(tasks) = {Task(i, j, lag, S) : S \in K}
  BY <1>2 DEF ToSet
<1> QED
  BY <1>5, <1>6 DEF K, sets

LEMMA TasksOfEdge ==
    ASSUME NEW i \in Vars, NEW j \in Vars, NEW lag \in 0..TauMax
    PROVE  /\ TasksOf(i, j, lag) \in Seq(TaskSet)
           /\ ToSet(TasksOf(i, j, lag)) = TestsOf(i, j, lag)
<1> DEFINE bySize == [size \in 1..(MaxCondVars + 1) |->
                         LET sets == CondSets(i, j, size - 1)
                         IN  [k \in DOMAIN sets |-> Task(i, j, lag, sets[k])]]
           n == MaxCondVars + 1
           K(size) == kSubset(size, Vars \ {i, j})
<1>1. TasksOf(i, j, lag) = FlattenSeq(bySize)
  BY DEF TasksOf
<1>2. n \in Nat /\ MaxCondVars \in Nat
  BY DistributedAssumption
<1>3. ASSUME NEW size \in 1..n
      PROVE  /\ bySize[size] \in Seq(TaskSet)
             /\ ToSet(bySize[size]) = {Task(i, j, lag, S) : S \in K(size - 1)}
  <2> DEFINE sets == CondSets(i, j, size - 1)
             tasks == [k \in DOMAIN sets |-> Task(i, j, lag, sets[k])]
  <2>1. size - 1 \in Nat
    BY <1>2
  <2>2. /\ tasks \in Seq(TaskSet)
        /\ ToSet(tasks) = {Task(i, j, lag, S) : S \in K(size - 1)}
    BY <2>1, TasksOfSize
  <2>3. bySize[size] = tasks
    OBVIOUS
  <2> HIDE DEF sets, tasks, bySize, K
  <2> QED
    BY <2>2, <2>3
<1>4. bySize \in [1..n -> Seq(TaskSet)]
  <2>1. bySize = [size \in 1..n |-> bySize[size]]
    OBVIOUS
  <2> HIDE DEF bySize, n
  <2> QED
    BY <1>3, <2>1
<1> HIDE DEF bySize, n, K
<1>5. /\ FlattenSeq(bySize) \in Seq(TaskSet)
      /\ ToSet(FlattenSeq(bySize)) = UNION {ToSet(bySize[size]) : size \in 1..n}
  <2>1. n \in Nat
    BY <1>2
  <2> QED
    BY <1>4, <2>1, FlattenMembers
<1>6. ASSUME NEW R \in SUBSET (Vars \ {i, j})
      PROVE  R \in CondSetsOf(i, j) <=> \E size \in 1..n : R \in K(size - 1)
  <2>1. IsFiniteSet(Vars)
    BY DistributedAssumption, FS_Interval DEF Vars
  <2>2. R \in SUBSET Vars
    OBVIOUS
  <2>3. PICK c \in Nat : c = Cardinality(R)
    BY <2>1, <2>2, FS_Subset, FS_CardinalityType
  <2>4. c <= MaxCondVars <=> \E size \in 1..n : c = size - 1
    <3>1. ASSUME c <= MaxCondVars PROVE \E size \in 1..n : c = size - 1
      <4>1. c + 1 \in 1..n /\ (c + 1) - 1 = c
        BY <1>2, <3>1 DEF n
      <4> QED
        BY <4>1
    <3>2. ASSUME NEW size \in 1..n, c = size - 1 PROVE c <= MaxCondVars
      BY <1>2, <3>2 DEF n
    <3> QED
      BY <3>1, <3>2
  <2>5. R \in CondSetsOf(i, j) <=> c <= MaxCondVars
    BY <2>3 DEF CondSetsOf
  <2>6. \A size \in 1..n : R \in K(size - 1) <=> c = size - 1
    BY <2>3 DEF K, kSubset
  <2> QED
    BY <2>4, <2>5, <2>6
<1>7. \A size : K(size) \subseteq SUBSET (Vars \ {i, j})
  BY DEF K, kSubset
<1>8. CondSetsOf(i, j) \subseteq SUBSET (Vars \ {i, j})
  BY DEF CondSetsOf
<1>9. UNION {ToSet(bySize[size]) : size \in 1..n} = TestsOf(i, j, lag)
  <2>1. ASSUME NEW size \in 1..n, NEW x \in ToSet(bySize[size]) PROVE x \in TestsOf(i, j, lag)
    <3>1. PICK S \in K(size - 1) : x = Task(i, j, lag, S)
      BY <1>3
    <3>2. S \in CondSetsOf(i, j)
      BY <1>6, <1>7
    <3> QED
      BY <3>1, <3>2 DEF TestsOf
  <2>2. ASSUME NEW x \in TestsOf(i, j, lag) PROVE \E size \in 1..n : x \in ToSet(bySize[size])
    <3>1. PICK S \in CondSetsOf(i, j) : x = Task(i, j, lag, S)
      BY DEF TestsOf
    <3>2. PICK size \in 1..n : S \in K(size - 1)
      BY <1>6, <1>8
    <3> QED
      BY <1>3, <3>1, <3>2
  <2> QED
    BY <2>1, <2>2
<1> QED
  BY <1>1, <1>5, <1>9

LEMMA LagsListed ==
    ASSUME NEW i \in Vars, NEW j \in Vars
    PROVE  \E m \in Nat : /\ Lags(i, j) \in [1..m -> 0..TauMax]
                          /\ ToSet(Lags(i, j)) = LagsOf(i, j)
<1>1. TauMax \in Nat
  BY DistributedAssumption
<1>2. CASE i = j
  <2>1. Lags(i, j) = [l \in 1..TauMax |-> l] /\ LagsOf(i, j) = 1..TauMax
    BY <1>2 DEF Lags, LagsOf
  <2>2. Lags(i, j) \in [1..TauMax -> 0..TauMax]
    BY <1>1, <2>1
  <2>3. ToSet(Lags(i, j)) = 1..TauMax
    BY <2>1 DEF ToSet
  <2> QED
    BY <1>1, <2>1, <2>2, <2>3
<1>3. CASE i # j
  <2>1. Lags(i, j) = [l \in 1..(TauMax + 1) |-> l - 1] /\ LagsOf(i, j) = 0..TauMax
    BY <1>3 DEF Lags, LagsOf
  <2>2. Lags(i, j) \in [1..(TauMax + 1) -> 0..TauMax]
    BY <1>1, <2>1
  <2>3. ASSUME NEW x \in 0..TauMax PROVE x \in ToSet(Lags(i, j))
    <3>1. x + 1 \in 1..(TauMax + 1) /\ Lags(i, j)[x + 1] = x
      BY <1>1, <2>1
    <3> QED
      BY <2>1, <3>1 DEF ToSet
  <2>4. ASSUME NEW x \in ToSet(Lags(i, j)) PROVE x \in 0..TauMax
    BY <2>2 DEF ToSet
  <2>5. ToSet(Lags(i, j)) = 0..TauMax
    BY <2>3, <2>4
  <2>6. TauMax + 1 \in Nat
    BY <1>1
  <2> QED
    BY <2>1, <2>2, <2>5, <2>6
<1> QED
  BY <1>2, <1>3

\* The tests of a pair of variables, at every lag.
TasksOfPair(i, j) ==
    LET lags == Lags(i, j) IN FlattenSeq([l \in DOMAIN lags |-> TasksOf(i, j, lags[l])])

LEMMA PairMembers ==
    ASSUME NEW i \in Vars, NEW j \in Vars
    PROVE  /\ TasksOfPair(i, j) \in Seq(TaskSet)
           /\ ToSet(TasksOfPair(i, j)) = UNION {TestsOf(i, j, lag) : lag \in LagsOf(i, j)}
<1> DEFINE lags == Lags(i, j)
           byLag == [l \in DOMAIN lags |-> TasksOf(i, j, lags[l])]
<1>1. PICK m \in Nat : lags \in [1..m -> 0..TauMax] /\ ToSet(lags) = LagsOf(i, j)
  BY LagsListed
<1>2. TasksOfPair(i, j) = FlattenSeq(byLag)
  BY DEF TasksOfPair
<1> HIDE DEF lags
<1>3. ASSUME NEW l \in 1..m
      PROVE  byLag[l] \in Seq(TaskSet) /\ ToSet(byLag[l]) = TestsOf(i, j, lags[l])
  <2>1. lags[l] \in 0..TauMax /\ byLag[l] = TasksOf(i, j, lags[l])
    BY <1>1
  <2> QED
    BY <2>1, TasksOfEdge
<1>4. byLag \in [1..m -> Seq(TaskSet)]
  BY <1>1, <1>3
<1> HIDE DEF byLag
<1>5. /\ FlattenSeq(byLag) \in Seq(TaskSet)
      /\ ToSet(FlattenSeq(byLag)) = UNION {ToSet(byLag[l]) : l \in 1..m}
  BY <1>4, FlattenMembers
<1>6. UNION {ToSet(byLag[l]) : l \in 1..m} = UNION {TestsOf(i, j, lag) : lag \in LagsOf(i, j)}
  <2>1. \A l \in 1..m : lags[l] \in LagsOf(i, j)
    BY <1>1 DEF ToSet
  <2>2. \A lag \in LagsOf(i, j) : \E l \in 1..m : lags[l] = lag
    BY <1>1 DEF ToSet
  <2> QED
    BY <1>3, <2>1, <2>2
<1> QED
  BY <1>2, <1>5, <1>6

\* The tasks of a discovery are all tests of all edges.
LEMMA TasksMembers ==
    /\ Tasks \in Seq(TaskSet)
    /\ ToSet(Tasks) = UNION {TestsOf(e[1], e[2], e[3]) : e \in EdgeSet}
<1> DEFINE n == Variables * Variables
           first(p) == (p - 1) % Variables
           second(p) == (p - 1) \div Variables
           byPair == [p \in 1..n |-> TasksOfPair(first(p), second(p))]
<1>1. Tasks = FlattenSeq(byPair)
  BY DEF Tasks, TasksOfPair
<1>2. /\ n \in Nat
      /\ \A p \in 1..n : first(p) \in Vars /\ second(p) \in Vars
      /\ \A i \in Vars, j \in Vars : \E p \in 1..n : first(p) = i /\ second(p) = j
  BY DistributedAssumption, PairsOfIndices DEF Vars
<1>3. ASSUME NEW p \in 1..n
      PROVE  /\ byPair[p] \in Seq(TaskSet)
             /\ ToSet(byPair[p]) = UNION {TestsOf(first(p), second(p), lag) :
                                             lag \in LagsOf(first(p), second(p))}
  <2>1. first(p) \in Vars /\ second(p) \in Vars
    BY <1>2
  <2>2. byPair[p] = TasksOfPair(first(p), second(p))
    OBVIOUS
  <2> HIDE DEF byPair, first, second
  <2> QED
    BY <2>1, <2>2, PairMembers
<1>4. byPair \in [1..n -> Seq(TaskSet)]
  <2>1. byPair = [p \in 1..n |-> byPair[p]]
    OBVIOUS
  <2> HIDE DEF byPair
  <2> QED
    BY <1>3, <2>1
<1> HIDE DEF byPair, n, first, second
<1>5. /\ FlattenSeq(byPair) \in Seq(TaskSet)
      /\ ToSet(FlattenSeq(byPair)) = UNION {ToSet(byPair[p]) : p \in 1..n}
  BY <1>2, <1>4, FlattenMembers
<1>6. ASSUME NEW i \in Vars, NEW j \in Vars, NEW lag
      PROVE  lag \in LagsOf(i, j) <=> lag \in 0..TauMax /\ (i # j \/ lag # 0)
  BY DistributedAssumption DEF LagsOf
<1>7. ASSUME NEW p \in 1..n, NEW t \in ToSet(byPair[p])
      PROVE  \E e \in EdgeSet : t \in TestsOf(e[1], e[2], e[3])
  <2>1. PICK lag \in LagsOf(first(p), second(p)) : t \in TestsOf(first(p), second(p), lag)
    BY <1>3
  <2>2. lag \in 0..TauMax /\ (first(p) # second(p) \/ lag # 0)
    BY <1>2, <1>6
  <2>3. <<first(p), second(p), lag>> \in EdgeSet
    BY <1>2, <2>2, DistributedAssumption DEF EdgeSet
  <2> QED
    BY <2>1, <2>3
<1>8. ASSUME NEW e \in EdgeSet, NEW t \in TestsOf(e[1], e[2], e[3])
      PROVE  \E p \in 1..n : t \in ToSet(byPair[p])
  <2>1. e[1] \in Vars /\ e[2] \in Vars /\ e[3] \in 0..TauMax /\ (e[1] # e[2] \/ e[3] # 0)
    BY DistributedAssumption DEF EdgeSet
  <2>2. e[3] \in LagsOf(e[1], e[2])
    BY <1>6, <2>1
  <2>3. PICK p \in 1..n : first(p) = e[1] /\ second(p) = e[2]
    BY <1>2, <2>1
  <2> QED
    BY <1>3, <2>2, <2>3
<1>9. UNION {ToSet(byPair[p]) : p \in 1..n} = UNION {TestsOf(e[1], e[2], e[3]) : e \in EdgeSet}
  BY <1>7, <1>8
<1> QED
  BY <1>1, <1>5, <1>9

-----------------------------------------------------------------------------
(* partitionToBatches *)

\* With workers there is one with the shortest queue.
LEMMA ShortestIsWorker ==
    ASSUME NEW queues \in Seq(Nat), NEW count \in Nat \ {0}
    PROVE  Shortest(queues, count) \in 0..(count - 1)
<1> DEFINE load(w) == Cardinality({u \in DOMAIN queues : queues[u] = w})
           loads == {load(w) : w \in 0..(count - 1)}
           least == {w \in 0..(count - 1) : \A v \in 0..(count - 1) : load(w) <= load(v)}
<1>1. ASSUME NEW w PROVE load(w) \in Nat
  <2>1. IsFiniteSet(DOMAIN queues)
    <3>1. DOMAIN queues = 1..Len(queues) /\ Len(queues) \in Nat
      OBVIOUS
    <3> QED
      BY <3>1, FS_Interval
  <2>2. {u \in DOMAIN queues : queues[u] = w} \in SUBSET DOMAIN queues
    OBVIOUS
  <2> QED
    BY <2>1, <2>2, FS_Subset, FS_CardinalityType
<1>2. Shortest(queues, count) = Min(least)
  BY DEF Shortest
<1> HIDE DEF load
<1>3. 0 \in 0..(count - 1)
  OBVIOUS
<1>4. loads \in SUBSET Nat /\ loads # {}
  BY <1>1, <1>3
<1>5. PICK m \in loads : \A l \in loads : m <= l
  BY <1>4, MinOfNaturals
<1>6. PICK w \in 0..(count - 1) : load(w) = m
  BY <1>5
<1>7. w \in least
  BY <1>5, <1>6
<1>8. least \in SUBSET Nat /\ least # {}
  BY <1>7
<1>9. Min(least) \in least
  <2> HIDE DEF least
  <2> QED
    BY <1>8, MinOfNaturals
<1> QED
  BY <1>2, <1>9

\* The least loaded strategy deals out all tasks.
LEMMA AllDealtOut ==
    ASSUME NEW D, NEW tasks \in Seq(D), NEW count \in Nat, count # 0 \/ tasks = <<>>
    PROVE  DOMAIN LeastLoaded(tasks, count) = DOMAIN tasks
<1> DEFINE n == Len(tasks)
           Q == Seq(Nat)
           F == [x \in (1..n) \X Q |-> Append(x[2], Shortest(x[2], count))]
           h == CHOOSE h : h = [s \in SUBSET DOMAIN tasks |->
                   IF s = {} THEN <<>>
                   ELSE Append(h[s \ {Max(s)}], Shortest(h[s \ {Max(s)}], count))]
<1>1. LeastLoaded(tasks, count) = h[DOMAIN tasks]
  BY DEF LeastLoaded, FoldLeft, MapThenFoldSet
<1>2. n \in Nat /\ DOMAIN tasks = 1..n
  OBVIOUS
<1>3. ASSUME NEW i \in 1..n, NEW q \in Q PROVE Append(q, Shortest(q, count)) \in Q
  <2>1. count \in Nat \ {0}
    <3>1. tasks # <<>>
      BY <1>3
    <3> QED
      BY <3>1
  <2>2. Shortest(q, count) \in Nat
    BY <2>1, ShortestIsWorker
  <2> QED
    BY <2>2
<1>4. F \in [(1..n) \X Q -> Q] /\ <<>> \in Q
  <2>1. \A x \in (1..n) \X Q : Append(x[2], Shortest(x[2], count)) \in Q
    BY <1>3
  <2> QED
    BY <2>1
<1>5. ASSUME NEW i \in 1..n, NEW q \in Q PROVE F[<<i, q>>] = Append(q, Shortest(q, count))
  OBVIOUS
<1> HIDE DEF n
<1>6. PICK g \in [SUBSET (1..n) -> Q] : Recursion(g, <<>>, F, 1..n)
  <2> HIDE DEF F, Q, h
  <2> QED
    BY <1>2, <1>4, SetRecursion
<1>7. g = [s \in SUBSET DOMAIN tasks |->
              IF s = {} THEN <<>>
              ELSE Append(g[s \ {Max(s)}], Shortest(g[s \ {Max(s)}], count))]
  <2>1. ASSUME NEW s \in SUBSET (1..n), s # {}
        PROVE  g[s] = Append(g[s \ {Max(s)}], Shortest(g[s \ {Max(s)}], count))
    <3>1. Max(s) \in 1..n
      BY <1>2, <2>1, MaxExists
    <3>2. g[s \ {Max(s)}] \in Q
      BY <1>6
    <3> HIDE DEF F, Q
    <3> QED
      BY <1>5, <1>6, <2>1, <3>1, <3>2 DEF Recursion
  <2>2. g[{}] = <<>>
    BY <1>6 DEF Recursion
  <2> QED
    BY <1>2, <1>6, <2>1, <2>2
<1>8. h = [s \in SUBSET DOMAIN tasks |->
              IF s = {} THEN <<>>
              ELSE Append(h[s \ {Max(s)}], Shortest(h[s \ {Max(s)}], count))]
  <2> HIDE DEF F, Q
  <2> QED
    BY <1>7
<1> HIDE DEF h, F, Q
<1>9. FollowsFrom(h, Q, <<>>, F, 1..n)
  <2> SUFFICES ASSUME NEW t \in SUBSET (1..n)
               PROVE  /\ t = {} => h[t] = <<>>
                      /\ t # {} /\ h[t \ {Max(t)}] \in Q => h[t] = F[<<Max(t), h[t \ {Max(t)}]>>]
    BY DEF FollowsFrom
  <2>1. h[t] = IF t = {} THEN <<>> ELSE Append(h[t \ {Max(t)}], Shortest(h[t \ {Max(t)}], count))
    BY <1>2, <1>8
  <2>2. t # {} => Max(t) \in 1..n
    BY <1>2, MaxExists
  <2> QED
    BY <1>5, <2>1, <2>2
<1>10. PICK f \in [0..n -> Q] : Stages(f, h, <<>>, F, n)
  BY <1>2, <1>4, <1>9, Unfolding
<1> DEFINE K == {i \in Nat : i <= n => Len(f[i]) = i}
<1>11. 0 \in K
  BY <1>10 DEF Stages
<1>12. ASSUME NEW i \in Nat, i \in K PROVE i + 1 \in K
  <2>1. SUFFICES ASSUME i + 1 <= n PROVE Len(f[i + 1]) = i + 1
    OBVIOUS
  <2>2. i + 1 \in 1..n /\ (i + 1) - 1 = i /\ i \in 0..n
    BY <1>2, <2>1
  <2>3. f[i] \in Q /\ Len(f[i]) = i
    BY <1>2, <1>12, <2>1, <2>2
  <2>4. f[i + 1] = Append(f[i], Shortest(f[i], count))
    BY <1>5, <1>10, <2>2, <2>3 DEF Stages
  <2>5. Append(f[i], Shortest(f[i], count)) \in Q
    BY <1>3, <2>2, <2>3
  <2> QED
    BY <2>3, <2>4, <2>5 DEF Q
<1>13. n \in K
  <2> HIDE DEF K
  <2> QED
    BY <1>2, <1>11, <1>12, Counting
<1>14. f[n] \in Q /\ Len(f[n]) = n
  BY <1>2, <1>13
<1> QED
  BY <1>1, <1>2, <1>10, <1>14 DEF Stages, Q

\* Under every strategy the batches hold all tasks, no more.
LEMMA ResultsComplete ==
    ASSUME setup \in Setups, setup.count # 0 \/ Tasks = <<>>
    PROVE  Results = ToSet(Tasks)
<1> DEFINE tasks == Tasks
           queues == WorkersOf(tasks)
<1>1. tasks \in Seq(TaskSet)
  BY TasksMembers
<1> HIDE DEF tasks
<1>2. setup.strategy \in {"round-robin", "least-loaded", "partition-aware"} /\ setup.count \in Nat
  BY DistributedAssumption
<1>3. DOMAIN queues = DOMAIN tasks
  <2>1. CASE setup.strategy = "round-robin"
    BY <2>1 DEF WorkersOf, RoundRobin
  <2>2. CASE setup.strategy = "least-loaded"
    <3>1. queues = LeastLoaded(tasks, setup.count)
      BY <2>2 DEF WorkersOf
    <3>2. setup.count # 0 \/ tasks = <<>>
      BY DEF tasks
    <3> HIDE DEF queues
    <3> QED
      BY <1>1, <1>2, <3>1, <3>2, AllDealtOut
  <2>3. CASE setup.strategy = "partition-aware"
    BY <2>3 DEF WorkersOf, PartitionAware
  <2> QED
    BY <1>2, <2>1, <2>2, <2>3
<1> HIDE DEF queues
<1>4. Batches = {[worker |-> w,
                  tasks |-> {tasks[t] : t \in {u \in DOMAIN queues : queues[u] = w}}] :
                     w \in ToSet(queues)}
  BY DEF Batches, tasks, queues
<1>5. ASSUME NEW b \in Batches, NEW t \in b.tasks PROVE t \in ToSet(tasks)
  BY <1>3, <1>4 DEF ToSet
<1>6. ASSUME NEW u \in DOMAIN tasks PROVE \E b \in Batches : tasks[u] \in b.tasks
  <2> DEFINE b == [worker |-> queues[u],
                   tasks |-> {tasks[t] : t \in {v \in DOMAIN queues : queues[v] = queues[u]}}]
  <2>1. queues[u] \in ToSet(queues)
    BY <1>3 DEF ToSet
  <2>2. b \in Batches
    BY <1>4, <2>1
  <2>3. tasks[u] \in b.tasks
    BY <1>3
  <2> QED
    BY <2>2, <2>3
<1>7. UNION {b.tasks : b \in Batches} = ToSet(tasks)
  BY <1>5, <1>6 DEF ToSet
<1> QED
  BY <1>7 DEF Results, tasks

\* What is merged is what all tests of each edge say.
LEMMA MergedOfAllTests ==
    ASSUME setup \in Setups, setup.count # 0 \/ Tasks = <<>>, NEW data
    PROVE  Merged(data) = {e \in EdgeSet : KeepEdge(data, TestsOf(e[1], e[2], e[3]))}
<1> DEFINE tests(e) == TestsOf(e[1], e[2], e[3])
           results == Results
<1>1. results = UNION {tests(e) : e \in EdgeSet}
  BY ResultsComplete, TasksMembers
<1>2. \A e \in EdgeSet : e = <<e[1], e[2], e[3]>>
  BY DEF EdgeSet
<1>3. \A e : \A t \in tests(e) : EdgeOf(t) = <<e[1], e[2], e[3]>>
  BY DEF TestsOf, Task, EdgeOf
<1>4. \A e \in EdgeSet : tests(e) # {}
  <2>1. \A i, j : {} \in CondSetsOf(i, j)
    BY DistributedAssumption, FS_EmptySet DEF CondSetsOf
  <2> QED
    BY <2>1 DEF TestsOf
<1>5. Merged(data) = {e \in {EdgeOf(t) : t \in results} :
                         KeepEdge(data, {t \in results : EdgeOf(t) = e})}
  BY DEF Merged
<1> HIDE DEF tests, results
<1>6. {EdgeOf(t) : t \in results} = EdgeSet
  BY <1>1, <1>2, <1>3, <1>4
<1>7. ASSUME NEW e \in EdgeSet PROVE {t \in results : EdgeOf(t) = e} = tests(e)
  BY <1>1, <1>2, <1>3
<1>8. Merged(data) = {e \in EdgeSet : KeepEdge(data, tests(e))}
  BY <1>5, <1>6, <1>7
<1> QED
  BY <1>8 DEF tests

-----------------------------------------------------------------------------
(* The coordinator *)

DistInv == setup \in Setups /\ PartitionIsInvisible

\* The merge reads nothing that changes but the data.
LEMMA SameMerge ==
    ASSUME NEW CONSTANT ts, setup' = setup, NEW CONSTANT data, dataset' = data
    PROVE  KeepEdge(dataset, ts)' = KeepEdge(data, ts)
BY DEF KeepEdge, FisherMethod, WeightedMean, MajorityVote, FastPath

LEMMA RunDiscoveryInvisible ==
    ASSUME DistInv, NEW data \in Datasets, RunDiscovery(data)
    PROVE  DistInv'
<1>1. setup \in Setups /\ setup' = setup /\ dataset' = data
  BY DEF DistInv, RunDiscovery
<1>2. CASE setup.count = 0 /\ Tasks # <<>>
  <2>1. decisions'.outcome # "edges"
    BY <1>2 DEF RunDiscovery, Decided
  <2> QED
    BY <1>1, <2>1 DEF DistInv, PartitionIsInvisible
<1>3. CASE ~(setup.count = 0 /\ Tasks # <<>>)
  <2>1. decisions'.edges = Merged(data)
    BY <1>3 DEF RunDiscovery, Decided
  <2>2. Merged(data) = {e \in EdgeSet : KeepEdge(data, TestsOf(e[1], e[2], e[3]))}
    BY <1>1, <1>3, MergedOfAllTests
  <2>3. \A e \in EdgeSet : KeepEdge(dataset, TestsOf(e[1], e[2], e[3]))'
                              = KeepEdge(data, TestsOf(e[1], e[2], e[3]))
    BY <1>1, SameMerge
  <2>4. decisions'.edges = {e \in EdgeSet : KeepEdge(dataset, TestsOf(e[1], e[2], e[3]))'}
    BY <2>1, <2>2, <2>3
  <2>5. PartitionIsInvisible'
    BY <2>4 DEF PartitionIsInvisible, EdgeSet, TestsOf, CondSetsOf
  <2> QED
    BY <1>1, <2>5 DEF DistInv
<1> QED
  BY <1>2, <1>3

\* The other steps leave the decisions and what they rest on.
LEMMA RestInvisible ==
    ASSUME DistInv, UNCHANGED <<setup, decisions, dataset>>
    PROVE  DistInv'
<1>1. ASSUME NEW CONSTANT ts PROVE KeepEdge(dataset, ts)' = KeepEdge(dataset, ts)
  BY DEF KeepEdge, FisherMethod, WeightedMean, MajorityVote, FastPath
<1> QED
  BY <1>1 DEF DistInv, PartitionIsInvisible

LEMMA DistStepInvisible == DistInv /\ [DistNext]_distVars => DistInv'
<1> SUFFICES ASSUME DistInv, [DistNext]_distVars PROVE DistInv'
  OBVIOUS
<1>1. ASSUME NEW data \in Datasets, RunDiscovery(data) PROVE DistInv'
  BY <1>1, RunDiscoveryInvisible
<1>2. ASSUME NEW p \in Processes, NEW q \in Processes, Sync(p, q) PROVE DistInv'
  BY <1>2, RestInvisible DEF Sync
<1>3. ASSUME NEW p \in Processes, PublishVersion(p) PROVE DistInv'
  BY <1>3, RestInvisible DEF PublishVersion
<1>4. CASE UNCHANGED distVars
  BY <1>4, RestInvisible DEF distVars
<1> QED
  BY <1>1, <1>2, <1>3, <1>4 DEF DistNext

\* For any data, numbers of variables and lags, and setups: the edges a discovery
\* returns are those that the merge of all their tests keeps, whatever the number
\* of workers and however partitionToBatches dealt the tests out to them.
THEOREM TestsAreAllMerged == DistSpec => []PartitionIsInvisible
<1>1. (\E s \in Setups : DistInit(s)) => DistInv
  <2> SUFFICES ASSUME NEW s \in Setups, DistInit(s) PROVE DistInv
    OBVIOUS
  <2>1. decisions.outcome # "edges" /\ setup = s
    BY DEF DistInit, Decided
  <2> QED
    BY <2>1 DEF DistInv, PartitionIsInvisible
<1>2. DistInv /\ [DistNext]_distVars => DistInv'
  BY DistStepInvisible
<1>3. DistInv => PartitionIsInvisible
  BY DEF DistInv
<1> QED
  BY <1>1, <1>2, <1>3, PTL DEF DistSpec

-----------------------------------------------------------------------------
(* The vector clocks *)

Clock == [Processes -> Nat]

ClockTypes ==
    /\ clocks \in [Processes -> Clock]
    /\ events \in [Processes -> Nat]
    /\ past \in [Processes -> SUBSET (Processes \X Nat)]

\* Nobody counts more advances of a process than it made, and itself all of them.
OwnEntries ==
    \A p, q \in Processes : clocks[p][q] <= events[q] /\ clocks[q][q] = events[q]

\* Every clock, also that of a version, tells the history exactly.
HistoriesAreSeen ==
    /\ \A p \in Processes : past[p] = Seen(clocks[p])
    /\ \A v \in published : v.clock \in Clock /\ v.past = Seen(v.clock) /\ v.made = TRUE

ClockInv == ClockTypes /\ OwnEntries /\ HistoriesAreSeen

\* Seen is monotone both ways: clocks dominate as histories include.
LEMMA SeenOrder ==
    ASSUME NEW a \in Clock, NEW b \in Clock
    PROVE  (\A p \in Processes : b[p] >= a[p]) <=> Seen(a) \subseteq Seen(b)
<1>1. ASSUME \A p \in Processes : b[p] >= a[p] PROVE Seen(a) \subseteq Seen(b)
  <2>1. SUFFICES ASSUME NEW e \in Seen(a) PROVE e \in Seen(b)
    OBVIOUS
  <2>2. e \in Processes \X Nat /\ 1 <= e[2] /\ e[2] <= a[e[1]]
    BY DEF Seen
  <2>3. e[1] \in Processes /\ e[2] \in Nat
    BY <2>2
  <2>4. a[e[1]] \in Nat /\ b[e[1]] \in Nat /\ b[e[1]] >= a[e[1]]
    BY <1>1, <2>3 DEF Clock
  <2>5. e[2] <= b[e[1]]
    BY <2>2, <2>3, <2>4
  <2> QED
    BY <2>2, <2>5 DEF Seen
<1>2. ASSUME Seen(a) \subseteq Seen(b), NEW p \in Processes PROVE b[p] >= a[p]
  <2>1. a[p] \in Nat /\ b[p] \in Nat
    BY DEF Clock
  <2>2. CASE a[p] = 0
    BY <2>1, <2>2
  <2>3. CASE a[p] # 0
    <3>1. 1 <= a[p] /\ a[p] <= a[p]
      BY <2>1, <2>3
    <3>2. <<p, a[p]>> \in Seen(a)
      BY <2>1, <3>1 DEF Seen
    <3>3. <<p, a[p]>> \in Seen(b)
      BY <1>2, <3>2
    <3> QED
      BY <2>1, <3>3 DEF Seen
  <2> QED
    BY <2>2, <2>3
<1> QED
  BY <1>1, <1>2

\* The merged clock has seen what either has.
LEMMA SeenMerge ==
    ASSUME NEW a \in Clock, NEW b \in Clock
    PROVE  MergeClocks(a, b) \in Clock /\ Seen(MergeClocks(a, b)) = Seen(a) \cup Seen(b)
<1>1. MergeClocks(a, b) \in Clock
  BY DEF MergeClocks, Clock
<1>2. ASSUME NEW e \in Processes \X Nat
      PROVE  e[2] <= MergeClocks(a, b)[e[1]] <=> e[2] <= a[e[1]] \/ e[2] <= b[e[1]]
  <2>1. e[1] \in Processes /\ e[2] \in Nat /\ a[e[1]] \in Nat /\ b[e[1]] \in Nat
    BY DEF Clock
  <2>2. MergeClocks(a, b)[e[1]] = IF a[e[1]] >= b[e[1]] THEN a[e[1]] ELSE b[e[1]]
    BY <2>1 DEF MergeClocks
  <2> QED
    BY <2>1, <2>2
<1> QED
  BY <1>1, <1>2 DEF Seen

\* Advancing its own entry adds one event to what a clock has seen.
LEMMA SeenAdvance ==
    ASSUME NEW a \in Clock, NEW p \in Processes
    PROVE  /\ [a EXCEPT ![p] = @ + 1] \in Clock
           /\ Seen([a EXCEPT ![p] = @ + 1]) = Seen(a) \cup {<<p, a[p] + 1>>}
<1> DEFINE b == [a EXCEPT ![p] = @ + 1]
<1>1. a[p] \in Nat /\ b \in Clock /\ b[p] = a[p] + 1
  BY DEF Clock
<1>2. \A q \in Processes : q # p => b[q] = a[q]
  BY DEF Clock
<1>3. ASSUME NEW q \in Processes, NEW n \in Nat
      PROVE  <<q, n>> \in Seen(b) <=> <<q, n>> \in Seen(a) \cup {<<p, a[p] + 1>>}
  <2>1. CASE q # p
    BY <1>2, <2>1 DEF Seen
  <2>2. CASE q = p
    <3>1. 1 <= n /\ n <= a[p] + 1 <=> (1 <= n /\ n <= a[p]) \/ n = a[p] + 1
      BY <1>1
    <3> QED
      BY <1>1, <2>2, <3>1 DEF Seen
  <2> QED
    BY <2>1, <2>2
<1>4. Seen(b) \subseteq Processes \X Nat /\ Seen(a) \cup {<<p, a[p] + 1>>} \subseteq Processes \X Nat
  BY <1>1 DEF Seen
<1>5. Seen(b) = Seen(a) \cup {<<p, a[p] + 1>>}
  <2> DEFINE X == Seen(b)
             Y == Seen(a) \cup {<<p, a[p] + 1>>}
  <2>1. X \subseteq Processes \X Nat /\ Y \subseteq Processes \X Nat
    BY <1>4
  <2>2. \A q \in Processes, n \in Nat : <<q, n>> \in X <=> <<q, n>> \in Y
    BY <1>3
  <2> HIDE DEF X, Y
  <2>3. X = Y
    BY <2>1, <2>2
  <2> QED
    BY <2>3 DEF X, Y
<1> QED
  BY <1>1, <1>5

LEMMA ClockInitInv == ClockInit => ClockInv
<1> SUFFICES ASSUME ClockInit PROVE ClockInv
  OBVIOUS
<1>1. ClockTypes /\ OwnEntries
  BY DEF ClockInit, ClockTypes, OwnEntries, Zero, Clock
<1>2. Seen(Zero) = {}
  BY DEF Seen, Zero
<1> QED
  BY <1>1, <1>2 DEF ClockInit, ClockInv, HistoriesAreSeen

\* An advance of any set of processes, as after a discovery, keeps the invariant.
LEMMA AdvanceInv ==
    ASSUME ClockInv, NEW S \in SUBSET Processes, Advance(S), published' = published
    PROVE  ClockInv'
<1> USE DEF ClockInv
<1>1. \A p \in Processes : clocks[p] \in Clock /\ events[p] \in Nat
  BY DEF ClockTypes
<1>2. ASSUME NEW p \in Processes
      PROVE  clocks'[p] = IF p \in S THEN [clocks[p] EXCEPT ![p] = @ + 1] ELSE clocks[p]
  BY DEF Advance
<1>3. ASSUME NEW p \in Processes
      PROVE  events'[p] = IF p \in S THEN events[p] + 1 ELSE events[p]
  BY DEF Advance
<1>4. ASSUME NEW p \in Processes
      PROVE  past'[p] = IF p \in S THEN past[p] \cup {<<p, events[p] + 1>>} ELSE past[p]
  BY DEF Advance
<1>5. ASSUME NEW p \in Processes PROVE clocks'[p] \in Clock
  BY <1>1, <1>2, SeenAdvance
<1>6. ASSUME NEW p \in Processes PROVE past'[p] = Seen(clocks'[p])
  <2>1. past[p] = Seen(clocks[p]) /\ clocks[p][p] = events[p]
    BY DEF HistoriesAreSeen, OwnEntries
  <2>2. CASE p \in S
    <3>1. past'[p] = Seen(clocks[p]) \cup {<<p, clocks[p][p] + 1>>}
      BY <1>4, <2>1, <2>2
    <3>2. Seen([clocks[p] EXCEPT ![p] = @ + 1]) = Seen(clocks[p]) \cup {<<p, clocks[p][p] + 1>>}
      BY <1>1, SeenAdvance
    <3>3. clocks'[p] = [clocks[p] EXCEPT ![p] = @ + 1]
      BY <1>2, <2>2
    <3> QED
      BY <3>1, <3>2, <3>3
  <2>3. CASE p \notin S
    BY <1>2, <1>4, <2>1, <2>3
  <2> QED
    BY <2>2, <2>3
<1>7. ClockTypes'
  <2>1. clocks' \in [Processes -> Clock]
    <3>1. clocks' = [p \in Processes |-> clocks'[p]]
      BY DEF Advance
    <3> QED
      BY <1>5, <3>1
  <2>2. events' \in [Processes -> Nat]
    BY <1>1 DEF Advance
  <2>3. past' \in [Processes -> SUBSET (Processes \X Nat)]
    <3>1. past' = [p \in Processes |-> past'[p]]
      BY DEF Advance
    <3>2. \A p \in Processes : past'[p] \in SUBSET (Processes \X Nat)
      BY <1>6 DEF Seen
    <3> QED
      BY <3>1, <3>2
  <2> QED
    BY <2>1, <2>2, <2>3 DEF ClockTypes
<1>8. OwnEntries'
  <2>1. SUFFICES ASSUME NEW p \in Processes, NEW q \in Processes
                 PROVE  clocks'[p][q] <= events'[q] /\ clocks'[q][q] = events'[q]
    BY DEF OwnEntries
  <2>2. /\ clocks[p][q] \in Nat /\ clocks[q][q] \in Nat /\ events[q] \in Nat
        /\ clocks[p][q] <= events[q] /\ clocks[q][q] = events[q]
    BY <1>1 DEF OwnEntries, Clock
  <2>3. clocks'[q][q] = IF q \in S THEN clocks[q][q] + 1 ELSE clocks[q][q]
    BY <1>1, <1>2 DEF Clock
  <2>4. clocks'[p][q] = IF p \in S /\ p = q THEN clocks[p][q] + 1 ELSE clocks[p][q]
    BY <1>1, <1>2 DEF Clock
  <2> QED
    BY <1>3, <2>2, <2>3, <2>4
<1>9. HistoriesAreSeen'
  BY <1>6 DEF HistoriesAreSeen
<1> QED
  BY <1>7, <1>8, <1>9

LEMMA SyncInv ==
    ASSUME ClockInv, NEW p \in Processes, NEW q \in Processes, SyncClock(p, q)
    PROVE  ClockInv'
<1> USE DEF ClockInv
<1> DEFINE m == MergeClocks(clocks[p], clocks[q])
<1>1. clocks[p] \in Clock /\ clocks[q] \in Clock
  BY DEF ClockTypes
<1>2. m \in Clock /\ Seen(m) = past[p] \cup past[q]
  BY <1>1, SeenMerge DEF HistoriesAreSeen
<1>3. clocks' = [clocks EXCEPT ![p] = m] /\ past' = [past EXCEPT ![p] = @ \cup past[q]]
      /\ published' = published /\ events' = events
  BY DEF SyncClock
<1>4. ClockTypes'
  <2>1. past[p] \cup past[q] \in SUBSET (Processes \X Nat)
    BY DEF ClockTypes
  <2> QED
    BY <1>2, <1>3, <2>1 DEF ClockTypes
<1>5. OwnEntries'
  <2>1. SUFFICES ASSUME NEW r \in Processes, NEW s \in Processes
                 PROVE  clocks'[r][s] <= events[s] /\ clocks'[s][s] = events[s]
    BY <1>3 DEF OwnEntries
  <2>2. /\ clocks[p][s] <= events[s] /\ clocks[q][s] <= events[s]
        /\ clocks[r][s] <= events[s] /\ clocks[s][s] = events[s]
    BY DEF OwnEntries
  <2>3. events[s] \in Nat /\ clocks[p][s] \in Nat /\ clocks[q][s] \in Nat
    BY DEF ClockTypes, Clock
  <2>4. m[s] = IF clocks[p][s] >= clocks[q][s] THEN clocks[p][s] ELSE clocks[q][s]
    BY DEF MergeClocks
  <2>5. m[s] <= events[s] /\ (s = p => m[s] = events[s])
    BY <2>2, <2>3, <2>4
  <2>6. /\ clocks'[r] = IF r = p THEN m ELSE clocks[r]
        /\ clocks'[s] = IF s = p THEN m ELSE clocks[s]
    BY <1>3 DEF ClockTypes
  <2> QED
    BY <2>2, <2>5, <2>6
<1>6. HistoriesAreSeen'
  <2>1. ASSUME NEW r \in Processes PROVE past'[r] = Seen(clocks'[r])
    <3>1. /\ clocks'[r] = IF r = p THEN m ELSE clocks[r]
          /\ past'[r] = IF r = p THEN past[p] \cup past[q] ELSE past[r]
      BY <1>3 DEF ClockTypes
    <3> QED
      BY <1>2, <3>1 DEF HistoriesAreSeen
  <2> QED
    BY <1>3, <2>1 DEF HistoriesAreSeen
<1> QED
  BY <1>4, <1>5, <1>6

LEMMA PublishInv ==
    ASSUME ClockInv, NEW p \in Processes, Publish(p)
    PROVE  ClockInv'
<1> USE DEF ClockInv
<1>1. clocks' = clocks /\ past' = past /\ events' = events
  BY DEF Publish
<1>2. clocks[p] \in Clock /\ past[p] = Seen(clocks[p])
  BY DEF ClockTypes, HistoriesAreSeen
<1>3. \A v \in published' : v.clock \in Clock /\ v.past = Seen(v.clock) /\ v.made = TRUE
  BY <1>2 DEF Publish, HistoriesAreSeen
<1> QED
  BY <1>1, <1>3 DEF ClockTypes, OwnEntries, HistoriesAreSeen

LEMMA ClockNextInv == ClockInv /\ [ClockNext]_clockVars => ClockInv'
<1> SUFFICES ASSUME ClockInv, [ClockNext]_clockVars PROVE ClockInv'
  OBVIOUS
<1>1. CASE UNCHANGED clockVars
  BY <1>1 DEF clockVars, ClockInv, ClockTypes, OwnEntries, HistoriesAreSeen
<1>2. ASSUME NEW S \in SUBSET Processes, Advance(S) /\ UNCHANGED published PROVE ClockInv'
  BY <1>2, AdvanceInv
<1>3. ASSUME NEW p \in Processes, NEW q \in Processes, SyncClock(p, q) PROVE ClockInv'
  BY <1>3, SyncInv
<1>4. ASSUME NEW p \in Processes, Publish(p) PROVE ClockInv'
  BY <1>4, PublishInv
<1> QED
  BY <1>1, <1>2, <1>3, <1>4 DEF ClockNext

\* compareClocks against the histories, for any two clocks.
LEMMA CompareSeen ==
    ASSUME NEW a \in Clock, NEW b \in Clock
    PROVE  /\ CompareClocks(a, b) \in {"equal", "after"} <=> Seen(b) \subseteq Seen(a)
           /\ CompareClocks(a, b) \in {"equal", "before"} <=> Seen(a) \subseteq Seen(b)
<1>1. (\A p \in Processes : b[p] >= a[p]) <=> Seen(a) \subseteq Seen(b)
  BY SeenOrder
<1>2. (\A p \in Processes : a[p] >= b[p]) <=> Seen(b) \subseteq Seen(a)
  BY SeenOrder
<1> QED
  BY <1>1, <1>2 DEF CompareClocks

LEMMA ClockInvResolves == ClockInv => ConflictsAreResolved
<1> SUFFICES ASSUME ClockInv, NEW a \in published, NEW b \in published
             PROVE  LET kept == ResolveGraphConflict(a, b)
                    IN  /\ kept = NoVersion <=> ~(a.past \subseteq b.past) /\ ~(b.past \subseteq a.past)
                        /\ kept.made => a.past \cup b.past = kept.past
  BY DEF ConflictsAreResolved
<1> DEFINE order == CompareClocks(a.clock, b.clock)
<1>1. /\ a.clock \in Clock /\ a.past = Seen(a.clock) /\ a.made = TRUE
      /\ b.clock \in Clock /\ b.past = Seen(b.clock) /\ b.made = TRUE
  BY DEF ClockInv, HistoriesAreSeen
<1>2. /\ order \in {"equal", "after"} <=> b.past \subseteq a.past
      /\ order \in {"equal", "before"} <=> a.past \subseteq b.past
  BY <1>1, CompareSeen
<1>3. a # NoVersion /\ b # NoVersion /\ NoVersion.made = FALSE
  BY <1>1 DEF NoVersion
<1>4. CASE order = "before"
  <2>1. ResolveGraphConflict(a, b) = b
    BY <1>4 DEF ResolveGraphConflict
  <2>2. a.past \subseteq b.past
    BY <1>2, <1>4
  <2> QED
    BY <1>3, <2>1, <2>2
<1>5. CASE order \in {"equal", "after"}
  <2>1. ResolveGraphConflict(a, b) = a
    BY <1>5 DEF ResolveGraphConflict
  <2>2. b.past \subseteq a.past
    BY <1>2, <1>5
  <2> QED
    BY <1>3, <2>1, <2>2
<1>6. CASE order \notin {"before", "equal", "after"}
  <2>1. ResolveGraphConflict(a, b) = NoVersion
    BY <1>6 DEF ResolveGraphConflict
  <2>2. ~(a.past \subseteq b.past) /\ ~(b.past \subseteq a.past)
    BY <1>2, <1>6
  <2> QED
    BY <1>3, <2>1, <2>2
<1> QED
  BY <1>4, <1>5, <1>6

\* For any processes: versions compare as their histories do, so that the one
\* kept has seen all that the other has.
THEOREM ConflictsResolved == ClockSpec => []ConflictsAreResolved
<1>1. ClockInit => ClockInv
  BY ClockInitInv
<1>2. ClockInv /\ [ClockNext]_clockVars => ClockInv'
  BY ClockNextInv
<1>3. ClockInv => ConflictsAreResolved
  BY ClockInvResolves
<1> QED
  BY <1>1, <1>2, <1>3, PTL DEF ClockSpec

\* The coordinator, its workers and what they exchange only ever advance, merge
\* and publish clocks: the distributed discovery implements VersionClocks.
THEOREM DiscoveryKeepsClocks == DistSpec => ClockSpec
<1>1. (\E s \in Setups : DistInit(s)) => ClockInit
  BY DEF DistInit
<1>2. [DistNext]_distVars => [ClockNext]_clockVars
  <2> SUFFICES ASSUME [DistNext]_distVars PROVE [ClockNext]_clockVars
    OBVIOUS
  <2>1. ASSUME NEW data \in Datasets, RunDiscovery(data) PROVE [ClockNext]_clockVars
    <3> DEFINE S == {Coordinator} \cup {Worker(b.worker) : b \in Batches}
    <3>1. CASE UNCHANGED clockVars
      BY <3>1
    <3>2. CASE ~(setup.count = 0 /\ Tasks # <<>>)
      <4>1. Advance(S) /\ published' = published
        BY <2>1, <3>2 DEF RunDiscovery
      <4> HIDE DEF S
      <4>2. Advance(S \cap Processes)
        BY <4>1 DEF Advance
      <4>3. S \cap Processes \in SUBSET Processes
        OBVIOUS
      <4> QED
        BY <4>1, <4>2, <4>3 DEF ClockNext
    <3> QED
      BY <2>1, <3>1, <3>2 DEF RunDiscovery
  <2>2. ASSUME NEW p \in Processes, NEW q \in Processes, Sync(p, q) PROVE [ClockNext]_clockVars
    BY <2>2 DEF Sync, ClockNext
  <2>3. ASSUME NEW p \in Processes, PublishVersion(p) PROVE [ClockNext]_clockVars
    BY <2>3 DEF PublishVersion, ClockNext
  <2>4. CASE UNCHANGED distVars
    BY <2>4 DEF distVars
  <2> QED
    BY <2>1, <2>2, <2>3, <2>4 DEF DistNext
<1> QED
  BY <1>1, <1>2, PTL DEF DistSpec, ClockSpec
=============================================================================
