----------------------------- MODULE LinearAlgebra -----------------------------
(* The solvers, regressions and correlations of core/math.ts over exact        *)
(* fractions.  A threshold of 1e-12 is zero, and the fast paths that call       *)
(* ubique compute the same from the same input.  A correlation is kept as its   *)
(* square with its sign, which is a fraction where the correlation is not.      *)
EXTENDS Integers, Sequences, FiniteSets, SequencesExt, FiniteSetsExt

-----------------------------------------------------------------------------
(* Fractions <<n, d>> in lowest terms; NaN and the infinities, which no         *)
(* operation makes finite again, are one value.                                 *)

Undefined == <<0, 0>>
GreatestDivisor[p \in Nat \X Nat] ==
    IF p[2] = 0 THEN p[1] ELSE GreatestDivisor[<<p[2], p[1] % p[2]>>]
Magnitude(n) == IF n < 0 THEN -n ELSE n
Fraction(n, d) ==
    IF d = 0 THEN Undefined
    ELSE LET c == GreatestDivisor[<<Magnitude(n), Magnitude(d)>>]
         IN  IF d < 0 THEN <<-(n \div c), (-d) \div c>> ELSE <<n \div c, d \div c>>
Whole(n) == <<n, 1>>
Zero  == Whole(0)
Unity == Whole(1)
IsDefined(a) == a[2] # 0
Common(m, n) == GreatestDivisor[<<Magnitude(m), Magnitude(n)>>]
\* Reduced before they are multiplied, so that the products stay small.
Plus(a, b) ==
    IF a = Zero THEN b ELSE IF b = Zero THEN a
    ELSE IF ~IsDefined(a) \/ ~IsDefined(b) THEN Undefined
    ELSE LET c == Common(a[2], b[2])
         IN  Fraction(a[1] * (b[2] \div c) + b[1] * (a[2] \div c), a[2] * (b[2] \div c))
Times(a, b) ==
    IF ~IsDefined(a) \/ ~IsDefined(b) THEN Undefined
    ELSE IF a = Zero \/ b = Zero THEN Zero
    ELSE LET c == Common(a[1], b[2])
             d == Common(b[1], a[2])
         IN  <<(a[1] \div c) * (b[1] \div d), (a[2] \div d) * (b[2] \div c)>>
Minus(a)    == <<-a[1], a[2]>>
Less(a, b)  == Plus(a, Minus(b))
Over(a, b) ==
    IF ~IsDefined(b) \/ b = Zero THEN Undefined
    ELSE Times(a, IF b[1] < 0 THEN <<-b[2], -b[1]>> ELSE <<b[2], b[1]>>)
Size(a)     == <<Magnitude(a[1]), a[2]>>
IsBelow(a, b) ==
    /\ IsDefined(a) /\ IsDefined(b)
    /\ LET c == Common(a[2], b[2])
       IN  a[1] * (b[2] \div c) < b[1] * (a[2] \div c)
Lesser(a, b)  == IF IsBelow(b, a) THEN b ELSE a
Greater(a, b) == IF IsBelow(a, b) THEN b ELSE a
\* The sequence itself; its elements are computed once, not at every use.
Listed(seq) == seq \o <<>>
SumOf(seq)  == LET upto[i \in 0..Len(seq)] == IF i = 0 THEN Zero ELSE Plus(upto[i - 1], seq[i])
               IN  upto[Len(seq)]
Dot(u, v)   == LET upto[i \in 0..Len(u)] == IF i = 0 THEN Zero ELSE Plus(upto[i - 1], Times(u[i], v[i]))
               IN  upto[Len(u)]
Average(seq) == Over(SumOf(seq), Whole(Len(seq)))
SignedSquare(a) == Times(a, Size(a))
Upto(n) == Listed([i \in 1..n |-> i])
Wholes(row) == Listed([i \in DOMAIN row |-> Whole(row[i])])
Column(rows, c) == Listed([r \in DOMAIN rows |-> rows[r][c]])
Select(seq, test) == [i \in 1..Cardinality(test) |-> seq[SetToSortSeq(test, <)[i]]]

-----------------------------------------------------------------------------
(* Linear equations *)

\* The pivot is the first row from `col` on with the greatest entry there.
PivotRow(a, col) ==
    CHOOSE r \in col..Len(a) :
        \A s \in col..Len(a) :
            /\ ~IsBelow(Size(a[r][col]), Size(a[s][col]))
            /\ s < r => IsBelow(Size(a[s][col]), Size(a[r][col]))
Swapped(a, i, j) == [a EXCEPT ![i] = a[j], ![j] = a[i]]
Without(row, pivot, col) ==
    LET f == Over(row[col], pivot[col])
    IN  Listed([j \in DOMAIN row |-> IF j < col THEN row[j] ELSE Less(row[j], Times(f, pivot[j]))])
EliminateBelow(a, col) ==
    LET s == Swapped(a, col, PivotRow(a, col))
    IN  IF s[col][col] = Zero THEN s
        ELSE Listed([r \in DOMAIN s |-> IF r <= col THEN s[r] ELSE Without(s[r], s[col], col)])
Augmented(A, b) == Listed([r \in DOMAIN A |-> Append(A[r], b[r])])
Triangular(A, b) == FoldLeft(EliminateBelow, Augmented(A, b), Upto(Len(A)))
BackSubstitute(a) ==
    FoldRight(LAMBDA row, x :
                  LET i == Len(a) - Len(x)
                  IN  <<Over(Less(Last(row), Dot(SubSeq(row, i + 1, Len(a)), x)), row[i])>> \o x,
              a, <<>>)
IsSingularTriangle(a) == \E i \in DOMAIN a : a[i][i] = Zero

\* A column without a pivot is skipped and divides by zero in the end.
SolveLinear(A, b) == BackSubstitute(Triangular(A, b))
NoSolution == [singular |-> TRUE, solution |-> <<>>]
SolveLinearSafe(A, b) ==
    LET t == Triangular(A, b)
    IN  IF IsSingularTriangle(t) THEN NoSolution
        ELSE [singular |-> FALSE, solution |-> BackSubstitute(t)]
\* The squares on Cholesky's diagonal are the pivots of an elimination that
\* never swaps rows; <<>> stands for null.
SolveLinearCholesky(A, b) ==
    LET step(a, col) == IF a[col][col] = Zero THEN a
                        ELSE Listed([r \in DOMAIN a |-> IF r <= col THEN a[r] ELSE Without(a[r], a[col], col)])
        t == FoldLeft(step, Augmented(A, b), Upto(Len(A)))
    IN  IF \E i \in DOMAIN t : ~IsBelow(Zero, t[i][i]) THEN <<>> ELSE BackSubstitute(t)

-----------------------------------------------------------------------------
(* Inverses *)

JordanStep(a, col) ==
    LET s == Swapped(a, col, PivotRow(a, col))
        pivot == Listed([j \in DOMAIN s[col] |-> IF j < col THEN s[col][j] ELSE Over(s[col][j], s[col][col])])
    IN  IF s[col][col] = Zero THEN s
        ELSE Listed([r \in DOMAIN s |-> IF r = col THEN pivot ELSE Without(s[r], pivot, col)])
Unit(n) == [r \in 1..n |-> Listed([c \in 1..n |-> IF r = c THEN Unity ELSE Zero])]
InvertMatrix(m) ==
    LET n == Len(m)
        aug == Listed([r \in 1..n |-> m[r] \o Unit(n)[r]])
        end == FoldLeft(JordanStep, aug, Upto(n))
    IN  Listed([r \in 1..n |-> SubSeq(end[r], n + 1, 2 * n)])
\* The first column without a pivot ends the elimination.
IsMatrixSingular(m) ==
    LET step(run, col) ==
            IF run.singular \/ run.a[PivotRow(run.a, col)][col] = Zero
            THEN [run EXCEPT !.singular = TRUE]
            ELSE [run EXCEPT !.a = JordanStep(run.a, col)]
    IN  FoldLeft(step, [a |-> m, singular |-> FALSE], Upto(Len(m))).singular

-----------------------------------------------------------------------------
(* Regression and correlation *)

NormalMatrix(X) ==
    Listed([a \in DOMAIN X[1] |-> Listed([b \in DOMAIN X[1] |-> Dot(Column(X, a), Column(X, b))])])
NormalVector(X, y) == Listed([a \in DOMAIN X[1] |-> Dot(Column(X, a), y)])
SolveOLS(X, y) ==
    IF X = <<>> \/ X[1] = <<>> THEN <<>> ELSE SolveLinear(NormalMatrix(X), NormalVector(X, y))

\* fisherZTest without a precomputed matrix: (n - 1) times each covariance.
Scatter(data, i, j) ==
    LET n == Len(data)
    IN  Less(Dot(Column(data, i), Column(data, j)),
             Over(Times(SumOf(Column(data, i)), SumOf(Column(data, j))), Whole(n)))
CovarianceOf(data, cols) ==
    Listed([a \in DOMAIN cols |-> Listed([b \in DOMAIN cols |-> Scatter(data, cols[a], cols[b])])])
PartialCorrelationFromCov(cov, i, j) ==
    IF Len(cov) = 2
    THEN IF IsBelow(Zero, cov[i][i]) /\ IsBelow(Zero, cov[j][j])
         THEN Over(SignedSquare(cov[i][j]), Times(cov[i][i], cov[j][j])) ELSE Zero
    ELSE LET p == InvertMatrix(cov)
             d == Size(Times(p[i][i], p[j][j]))
         IN  IF d = Zero THEN Zero
             ELSE Greater(Whole(-1), Lesser(Unity, Over(Minus(SignedSquare(p[i][j])), d)))
\* The correlation, clipped below 1, is turned into a p-value that falls with
\* it, which is 1 when n = |S| + 3; with fewer rows it is not a number, and so
\* neither below nor above any level.
FisherSeesDependence(data, i, j, cond, critical) ==
    LET free == Len(data) - Len(cond) - 3
        rho  == PartialCorrelationFromCov(CovarianceOf(data, <<i, j>> \o cond), 1, 2)
    IN  free > 0 /\ IsBelow(critical, Size(rho))

\* The products below the diagonal are summed, and the zeros above it are then
\* copied over them: with several regressors each is fitted alone.  There is
\* no intercept, and a regressor that is zero throughout gets no weight.
ComputeResiduals(data, target, cond) ==
    LET beta(c) == LET norm == Dot(Column(data, c), Column(data, c))
                   IN  IF norm = Zero THEN Zero
                       ELSE Over(Dot(Column(data, c), Column(data, target)), norm)
        slopes == Listed([k \in DOMAIN cond |-> beta(cond[k])])
    IN  Listed([r \in DOMAIN data |->
            Less(data[r][target], Dot(slopes, [k \in DOMAIN cond |-> data[r][cond[k]]]))])
CorrelationOf(x, y) ==
    LET n == Whole(Len(x))
        moment(u, v) == Less(Times(n, Dot(u, v)), Times(SumOf(u), SumOf(v)))
        d == Times(moment(x, x), moment(y, y))
    IN  IF d = Zero THEN Undefined ELSE Over(SignedSquare(moment(x, y)), d)
PartialCorrelationRaw(data, i, j, cond) ==
    IF cond = <<>> THEN CorrelationOf(Column(data, i), Column(data, j))
    ELSE CorrelationOf(ComputeResiduals(data, i, cond), ComputeResiduals(data, j, cond))

\* chiSquareTest up to its p-value: Undefined stands for the early return of 1.
ChiSquare(observed) ==
    LET rows == DOMAIN observed
        cols == DOMAIN observed[1]
        inRow(i) == SumOf(observed[i])
        inCol(j) == SumOf(Column(observed, j))
        all == SumOf([i \in rows |-> inRow(i)])
        cell(i, j) == LET e == Over(Times(inRow(i), inCol(j)), all)
                          d == Less(observed[i][j], e)
                      IN  IF e = Zero THEN Zero ELSE Over(Times(d, d), e)
    IN  IF Len(observed) < 2 \/ Len(observed[1]) < 2 \/ all = Zero THEN Undefined
        ELSE SumOf([i \in rows |-> SumOf([j \in cols |-> cell(i, j)])])

-----------------------------------------------------------------------------
(* Combinations: a stack of prefixes, the next one to extend on top. *)

RECURSIVE ExtendPrefixes(_, _, _, _)
ExtendPrefixes(arr, k, stack, result) ==
    IF stack = <<>> THEN result
    ELSE LET top  == Last(stack)
             rest == Front(stack)
             push == [i \in 1..(Len(arr) - top.start) |->
                         LET at == Len(arr) + 1 - i
                         IN  [start |-> at, current |-> Append(top.current, arr[at])]]
         IN  IF Len(top.current) = k THEN ExtendPrefixes(arr, k, rest, Append(result, top.current))
             ELSE ExtendPrefixes(arr, k, rest \o push, result)
Combinations(arr, k) ==
    IF k = 0 THEN <<<<>>>>
    ELSE IF Len(arr) < k THEN <<>>
    ELSE ExtendPrefixes(arr, k, <<[start |-> 0, current |-> <<>>]>>, <<>>)
===============================================================================
