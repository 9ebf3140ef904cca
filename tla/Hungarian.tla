------------------------------ MODULE Hungarian ------------------------------
(***************************************************************************)
(* The assignment solver of mics/hungarian.py.  A matrix is a function on  *)
(* cells <<row, column>>; starred and primed are sets of cells, row_cov    *)
(* and col_cov sets of rows and columns.  Costs are integers: rounding is  *)
(* not modelled.                                                           *)
(***************************************************************************)
EXTENDS Integers, FiniteSets, FiniteSetsExt, SequencesExt, Functions

CONSTANT Big  \* _BIG

Cells(n) == (1 .. n) \X (1 .. n)

Row(S, i) == {c \in S : c[1] = i}
Col(S, j) == {c \in S : c[2] = j}

Before(c, e) == c[1] < e[1] \/ (c[1] = e[1] /\ c[2] < e[2])

\* Steps 1 and 2: subtract the row minima, then the column minima.
Reduced(C, n) ==
  LET byRow == [c \in Cells(n) |-> C[c] - Min({C[e] : e \in Row(Cells(n), c[1])})]
  IN  [c \in Cells(n) |-> byRow[c] - Min({byRow[e] : e \in Col(Cells(n), c[2])})]

\* Step 3: star the zeros, in reading order, that share no row or column with one
\* that is starred already.
StarZeros(C, n) ==
  LET Star(S, c) ==
        IF C[c] = 0 /\ Row(S, c[1]) \cup Col(S, c[2]) = {} THEN S \cup {c} ELSE S
  IN  FoldLeft(Star, {}, [k \in 1 .. n * n |-> <<1 + (k - 1) \div n, 1 + ((k - 1) % n)>>])

Uncovered(n, rowCov, colCov) == {c \in Cells(n) : c[1] \notin rowCov /\ c[2] \notin colCov}

\* Mutant: the covered columns keep their values.
AdjustWithoutColumns(C, n, rowCov, colCov) ==
  LET minval == Min({C[c] : c \in Uncovered(n, rowCov, colCov)})
  IN  [c \in Cells(n) |-> C[c] - (IF c[1] \notin rowCov THEN minval ELSE 0)]

\* Step 6: lower the uncovered rows and raise the covered columns by the least
\* uncovered value.
Adjust(C, n, rowCov, colCov) ==
  LET minval == Min({C[c] : c \in Uncovered(n, rowCov, colCov)})
  IN  [c \in Cells(n) |-> C[c] - (IF c[1] \notin rowCov THEN minval ELSE 0)
                               + (IF c[2] \in colCov THEN minval ELSE 0)]

\* The path of primes and stars that starts at the prime c.
RECURSIVE PathFrom(_, _, _)
PathFrom(starred, primed, c) ==
  {c} \cup UNION {{s} \cup PathFrom(starred, primed, CHOOSE p \in Row(primed, s[1]) : TRUE) :
                    s \in Col(starred, c[2])}

\* Step 5: the primes of the path take the place of its stars.
Augment(starred, primed, c) == SymDiff(starred, PathFrom(starred, primed, c))

\* The loop.  Step 4 looks for the first uncovered zero.
RECURSIVE Search(_, _, _, _, _, _)
Search(C, n, starred, primed, rowCov, colCov) ==
  LET zeros == {c \in Uncovered(n, rowCov, colCov) : C[c] = 0}
      z == CHOOSE c \in zeros : \A e \in zeros \ {c} : Before(c, e)
      star == Row(starred, z[1])
      Restart(S) == Search(C, n, S, {}, {}, {e[2] : e \in S})
  IN IF Cardinality({e[2] : e \in starred}) = n THEN starred
     ELSE IF zeros = {} THEN Search(Adjust(C, n, rowCov, colCov), n, starred, primed, rowCov, colCov)
     ELSE IF star = {} THEN Restart(Augment(starred, primed \cup {z}, z))
     ELSE Search(C, n, starred, primed \cup {z}, rowCov \cup {z[1]}, colCov \ {e[2] : e \in star})

Munkres(C, n) ==
  LET start == Reduced(C, n)
      stars == StarZeros(start, n)
  IN  Search(start, n, stars, {}, {}, {e[2] : e \in stars})

\* The pairs for a cost matrix of the given rows and columns: it is padded to a
\* square with Big, and padded pairs are dropped.
Solve(cost, rows, cols) ==
  LET n == Max({rows, cols})
      padded == [c \in Cells(n) |-> IF c \in DOMAIN cost THEN cost[c] ELSE Big]
  IN  {c \in Munkres(padded, n) : c \in DOMAIN cost /\ 2 * cost[c] < Big}

-----------------------------------------------------------------------------

\* The reference: the cheapest of all ways to give every row a column of its own,
\* or every column a row if there are fewer.
Total(cost, S) == MapThenSumSet(LAMBDA c : cost[c], S)

Pairings(rows, cols) ==
  IF rows <= cols
  THEN {{<<i, f[i]>> : i \in 1 .. rows} : f \in Injection(1 .. rows, 1 .. cols)}
  ELSE {{<<f[j], j>> : j \in 1 .. cols} : f \in Injection(1 .. cols, 1 .. rows)}

IsOptimal(cost, rows, cols) ==
  LET S == Solve(cost, rows, cols)
  IN  /\ S \in Pairings(rows, cols)
      /\ Total(cost, S) = Min({Total(cost, P) : P \in Pairings(rows, cols)})

=============================================================================
