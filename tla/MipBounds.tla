------------------------------ MODULE MipBounds ------------------------------
(***************************************************************************)
(* What the tree learns about bounds, coefficients and conflicts before it *)
(* branches: implied bounds, coefficient tightening, parity, propagation,  *)
(* probing and the clique table of src/src/mip.c.  It is about the rows,   *)
(* boxes and points of a mixed integer model, which come first.            *)
(*                                                                         *)
(* A value v stands for the number v / Grid, so that a relaxation may end  *)
(* at a fraction.  A model is a record with                                *)
(*   n            its columns are 1 .. n                                   *)
(*   lo, hi       the bounds, -Inf and Inf where there is none             *)
(*   int, semi    the columns that are integer, and semicontinuous         *)
(*   rows         a sequence of [a, scale, lo, hi, ind, on]: the row is    *)
(*                (a / scale) x, and it holds always if ind = 0 and else   *)
(*                where column ind is on                                   *)
(*   cost         a fraction <<p, q>> for each column                      *)
(* A cut [c, lo] says that c x >= lo.                                      *)
(*                                                                         *)
(* The code's tolerances are left out: numbers are exact, and a bound of a *)
(* continuous column is rounded outwards to the grid where the code moves  *)
(* it outwards by the tolerance.                                           *)
(***************************************************************************)
EXTENDS Integers, FiniteSetsExt, SequencesExt

CONSTANTS
    Grid, Inf,
    Passes          \* at most so many passes over the rows

ASSUME GridAssumption == Grid \in Nat \ {0}

Finite(v) == v # Inf /\ v # -Inf
Abs(v) == IF v < 0 THEN -v ELSE v
Larger(u, v) == IF u < v THEN v ELSE u
Smaller(u, v) == IF u < v THEN u ELSE v

\* The least whole number of grid steps that is at least p / q, q > 0.
Up(p, q) == -((-p) \div q)

Cols(m) == 1 .. m.n
Rows(m) == 1 .. Len(m.rows)

\* The columns in order, to fold over.
InOrder(n) == [j \in 1 .. n |-> j]

\* A function on 1 .. n, as the sequence of its values: evaluated once.
Listed(f) == SubSeq(f, 1, Len(f))

Whole(v) == v % Grid = 0
FloorOf(v) == Grid * (v \div Grid)
CeilOf(v) == Grid * Up(v, Grid)
Fractional(m, x) == {j \in m.int : ~Whole(x[j])}

Dot(a, v) == MapThenSumSet(LAMBDA j : a[j] * v[j], DOMAIN a)

Holds(r, v) ==
    LET act == Dot(r.a, v) IN
    /\ r.lo = -Inf \/ r.lo <= act
    /\ r.hi = Inf \/ act <= r.hi

InBox(b, v) == \A j \in DOMAIN v : b.lo[j] <= v[j] /\ v[j] <= b.hi[j]

CutHolds(k, v) == Dot(k.c, v) >= k.lo

\* jm_semi: zero, or between the bounds.
ColumnHolds(m, j, x) ==
    /\ \/ m.lo[j] <= x /\ x <= m.hi[j]
       \/ j \in m.semi /\ x = 0
    /\ j \in m.int => Whole(x)

RowAsked(r, v) == r.ind = 0 \/ v[r.ind] = Grid * r.on

\* A point of the model itself.
IsPoint(m, v) ==
    /\ \A j \in Cols(m) : ColumnHolds(m, j, v[j])
    /\ \A i \in Rows(m) : RowAsked(m.rows[i], v) => Holds(m.rows[i], v)

\* The points of the model on the grid, not past w on either side.
PointsWithin(m, w) ==
    {v \in [Cols(m) -> -w .. w] : IsPoint(m, v)}

IsBinary(m, b, j) == j \in m.int /\ b.lo[j] = 0 /\ b.hi[j] = Grid
Support(r) == {j \in DOMAIN r.a : r.a[j] # 0}

\* The two one-sided readings of a row: a x <= rhs.
Minus(a) == Listed([j \in DOMAIN a |-> -a[j]])
Sides(r) ==
    (IF Finite(r.hi) THEN {[a |-> r.a, rhs |-> r.hi]} ELSE {}) \cup
    (IF Finite(r.lo) THEN {[a |-> Minus(r.a), rhs |-> -r.lo]} ELSE {})

\* A cut without the factor its numbers have in common.
RECURSIVE Gcd(_, _)
Gcd(p, q) == IF q = 0 THEN p ELSE Gcd(q, p % q)
Cut(c, lo) ==
    LET d == Listed(c)
        g == FoldLeft(LAMBDA p, v : Gcd(p, Abs(v)), Abs(lo), d)
    IN IF g = 0 THEN [c |-> d, lo |-> lo]
       ELSE [c |-> Listed([j \in DOMAIN d |-> d[j] \div g]), lo |-> lo \div g]

\* The box with these ends.
Boxed(m, Lo(_), Hi(_)) ==
    [lo |-> Listed([j \in Cols(m) |-> Lo(j)]),
     hi |-> Listed([j \in Cols(m) |-> Hi(j)])]

\* A cut as a row of the relaxation.
CutRow(k) ==
    [a |-> k.c, scale |-> 1, lo |-> k.lo, hi |-> Inf, ind |-> 0, on |-> 0]

\* apply_indicators: a row waits until its column is fixed where it asks.
Fixed(b, j) == b.lo[j] = b.hi[j]
Applied(r, b) ==
    IF r.ind = 0 THEN r
    ELSE IF Fixed(b, r.ind) /\ b.lo[r.ind] = Grid * r.on THEN r
    ELSE [r EXCEPT !.lo = -Inf, !.hi = Inf]

-----------------------------------------------------------------------------
(* Bounds, coefficients and conflicts.                                       *)

LowEnd(a, b, j) == IF a[j] > 0 THEN b.lo[j] ELSE b.hi[j]
HighEnd(a, b, j) == IF a[j] > 0 THEN b.hi[j] ELSE b.lo[j]

\* The least and the largest activity of the columns J, -Inf and Inf when an
\* end that counts is infinite.
Least(a, b, J) ==
    IF \E j \in J : a[j] # 0 /\ ~Finite(LowEnd(a, b, j)) THEN -Inf
    ELSE MapThenSumSet(LAMBDA j : IF a[j] = 0 THEN 0
                                  ELSE a[j] * LowEnd(a, b, j), J)
Most(a, b, J) ==
    IF \E j \in J : a[j] # 0 /\ ~Finite(HighEnd(a, b, j)) THEN Inf
    ELSE MapThenSumSet(LAMBDA j : IF a[j] = 0 THEN 0
                                  ELSE a[j] * HighEnd(a, b, j), J)

\* What one side a x <= rhs says of column j, given the box for the others.
SideBound(m, s, b, j) ==
    LET rest == Least(s.a, b, DOMAIN s.a \ {j})
        room == s.rhs - rest
        q == Abs(s.a[j])
        whole == j \in m.int
    IN IF rest = -Inf \/ s.a[j] = 0 THEN {}
       ELSE IF s.a[j] > 0
       THEN {[up |-> TRUE,
              v |-> IF whole THEN Grid * (room \div (q * Grid))
                    ELSE Up(room, q)]}
       ELSE {[up |-> FALSE,
              v |-> IF whole THEN Grid * Up(-room, q * Grid)
                    ELSE (-room) \div q]}

Implied(m, r, b, j) == UNION {SideBound(m, s, b, j) : s \in Sides(r)}
UpperOf(m, r, b, j) ==
    Min({Inf} \cup {k.v : k \in {t \in Implied(m, r, b, j) : t.up}})
LowerOf(m, r, b, j) ==
    Max({-Inf} \cup {k.v : k \in {t \in Implied(m, r, b, j) : ~t.up}})

Speaks(r) == r.ind = 0 /\ Sides(r) # {}

\* implied_box: a pass of one row; a bound that would cross the other stays.
ImpliedRow(m, b, r) ==
    LET Upper(j) == LET u == UpperOf(m, r, b, j)
                    IN IF u < b.hi[j] /\ ~(u < b.lo[j]) THEN u ELSE b.hi[j]
        Lower(j) == LET l == LowerOf(m, r, b, j)
                    IN IF l > b.lo[j] /\ ~(l > Upper(j)) THEN l ELSE b.lo[j]
    IN IF Speaks(r) THEN Boxed(m, Lower, Upper) ELSE b

ImpliedBox(m, rows, b) ==
    LET Pass(c, p) == FoldLeft(LAMBDA d, r : ImpliedRow(m, d, r), c, rows)
    IN  FoldLeft(Pass, b, InOrder(Passes))

\* tighten_coefficients: an integer column keeps its box unless the implied
\* one fixes it; a semicontinuous one always keeps it.
FixedByRows(m, b, c) ==
    {j \in m.int \ m.semi : c.lo[j] = c.hi[j] /\ b.lo[j] # b.hi[j]}
BoxAfter(m, b, c) ==
    LET fixed == FixedByRows(m, b, c)
    IN Boxed(m, LAMBDA j : IF j \in fixed THEN c.lo[j] ELSE b.lo[j],
                LAMBDA j : IF j \in fixed THEN c.hi[j] ELSE b.hi[j])

\* The box the coefficients are judged by: implied bounds for the continuous
\* columns only.
JudgedBy(m, b, c) ==
    LET d == BoxAfter(m, b, c)
    IN Boxed(m, LAMBDA j : IF j \in m.int THEN d.lo[j] ELSE c.lo[j],
                LAMBDA j : IF j \in m.int THEN d.hi[j] ELSE c.hi[j])

\* One coefficient of s.a x <= s.rhs, whose largest activity is s.top: where
\* the row is slack by d with the column at one, the coefficient shrinks.
TightenStep(m, b, s, j) ==
    LET d == s.rhs - (s.top - Abs(s.a[j]) * Grid)
    IN IF ~IsBinary(m, b, j) \/ d <= 0 \/ Abs(s.a[j]) * Grid <= d THEN s
       ELSE IF s.a[j] > 0
       THEN [s EXCEPT !.a[j] = @ - d \div Grid, !.rhs = @ - d, !.top = @ - d]
       ELSE [s EXCEPT !.a[j] = @ + d \div Grid]

\* A row with Grid times its coefficients, or as it was where that is whole.
Reduced(r) ==
    IF /\ \A j \in DOMAIN r.a : r.a[j] % Grid = 0
       /\ ~Finite(r.lo) \/ r.lo % Grid = 0
       /\ ~Finite(r.hi) \/ r.hi % Grid = 0
    THEN [r EXCEPT !.a = Listed([j \in DOMAIN r.a |-> r.a[j] \div Grid]),
                   !.lo = IF Finite(@) THEN @ \div Grid ELSE @,
                   !.hi = IF Finite(@) THEN @ \div Grid ELSE @]
    ELSE [r EXCEPT !.scale = @ * Grid]

TightenRow(m, b, r) ==
    LET s == CHOOSE t \in Sides(r) : TRUE
        g == [a |-> Listed([j \in DOMAIN s.a |-> Grid * s.a[j]]),
              rhs |-> Grid * s.rhs, top |-> 0]
        t == FoldLeft(LAMBDA u, j : TightenStep(m, b, u, j),
                      [g EXCEPT !.top = Most(g.a, b, DOMAIN g.a)],
                      InOrder(m.n))
    IN IF \/ r.ind # 0 \/ Cardinality(Sides(r)) # 1
          \/ Most(s.a, b, DOMAIN s.a) = Inf \/ t.a = g.a
       THEN r
       ELSE Reduced(IF Finite(r.hi) THEN [r EXCEPT !.a = t.a, !.hi = t.rhs]
                    ELSE [r EXCEPT !.a = Minus(t.a), !.lo = -t.rhs])

------------------------------------------------------------------------------
(* parity_fix: the equality rows over binaries, read modulo two.             *)

Odd(v) == v % 2 = 1
OddValue(v) == Odd(v \div Grid)

ParityRow(m, b, r) ==
    /\ r.lo = r.hi /\ Finite(r.lo) /\ Whole(r.lo)
    /\ r.scale = 1 /\ r.ind = 0
    /\ \A j \in Support(r) :
          /\ j \in m.int \ m.semi
          /\ Odd(r.a[j]) => b.lo[j] = b.hi[j] \/ IsBinary(m, b, j)
    /\ \E j \in Support(r) : ~Odd(r.a[j])

OddFree(b, r) == {j \in Support(r) : Odd(r.a[j]) /\ b.lo[j] # b.hi[j]}
OddFixed(b, r) ==
    {j \in Support(r) : Odd(r.a[j]) /\ b.lo[j] = b.hi[j] /\ OddValue(b.lo[j])}

RightParity(b, r) == OddValue(r.lo) # Odd(Cardinality(OddFixed(b, r)))

\* What the sum of the rows in S says: the columns left, and their parity.
Summed(b, rows, S) ==
    [cols |-> {j \in UNION {OddFree(b, rows[i]) : i \in S} :
                 Odd(Cardinality({i \in S : j \in OddFree(b, rows[i])}))},
     odd |-> Odd(Cardinality({i \in S : RightParity(b, rows[i])}))]

\* Elimination over two elements finds every sum with one column, and one
\* with none whose parity is odd.
Sums(m, rows, b) ==
    LET P == {i \in DOMAIN rows : ParityRow(m, b, rows[i])}
    IN {Summed(b, rows, S) : S \in SUBSET P}
ParityContradicts(m, rows, b) ==
    [cols |-> {}, odd |-> TRUE] \in Sums(m, rows, b)
ParityBox(m, rows, b) ==
    LET S == Sums(m, rows, b)
        One(j) == [cols |-> {j}, odd |-> TRUE] \in S
        Zero(j) == [cols |-> {j}, odd |-> FALSE] \in S
    IN Boxed(m, LAMBDA j : IF One(j) THEN Grid
                           ELSE IF Zero(j) THEN 0 ELSE b.lo[j],
                LAMBDA j : IF Zero(j) THEN 0
                           ELSE IF One(j) THEN Grid ELSE b.hi[j])

------------------------------------------------------------------------------
(* propagate_bounds: the integer columns' bounds from the model's own rows.  *)

RowDead(b, r) ==
    \E s \in Sides(r) :
        LET l == Least(s.a, b, DOMAIN s.a) IN l # -Inf /\ l > s.rhs

PropagateRow(m, b, r) ==
    LET c == Boxed(m, LAMBDA j : IF j \in m.int
                                 THEN Larger(b.lo[j], LowerOf(m, r, b, j))
                                 ELSE b.lo[j],
                      LAMBDA j : IF j \in m.int
                                 THEN Smaller(b.hi[j], UpperOf(m, r, b, j))
                                 ELSE b.hi[j])
    IN IF b.dead \/ ~Speaks(r) THEN b
       ELSE [lo |-> c.lo, hi |-> c.hi,
             dead |-> RowDead(b, r) \/ \E j \in m.int : c.lo[j] > c.hi[j]]

\* passes: how often the rows are gone through.
Propagate(m, b, passes) ==
    FoldLeft(LAMBDA c, p : FoldLeft(LAMBDA d, r : PropagateRow(m, d, r), c,
                                    m.rows),
             [lo |-> b.lo, hi |-> b.hi, dead |-> FALSE], InOrder(passes))

------------------------------------------------------------------------------
(* Literals, conflicts and the clique table.                                 *)

\* A literal: the binary j is v.
Lit(j, v) == <<j, v>>
Not(l) == <<l[1], 1 - l[2]>>

\* probe_conflicts: with j at v, binary k has one value, so the other one
\* conflicts with j at v.
ProbeEdges(m, lp, j, v, b) ==
    {{Lit(j, v), Lit(k, 1 - b.lo[k] \div Grid)} :
       k \in {h \in m.int \ {j} : Fixed(b, h) /\ IsBinary(m, lp, h)}}

\* Fault: the intersection of what the two values imply.
ProbeMoves_Both(m, lp, p, q) ==
    Boxed(m, LAMBDA j : IF j \in m.int
                        THEN Larger(lp.lo[j], Larger(p.lo[j], q.lo[j]))
                        ELSE lp.lo[j],
             LAMBDA j : IF j \in m.int
                        THEN Smaller(lp.hi[j], Smaller(p.hi[j], q.hi[j]))
                        ELSE lp.hi[j])

\* probe_bound_moves: the hull of what the two values leave.
ProbeMoves(m, lp, p, q) ==
    Boxed(m, LAMBDA j : IF j \in m.int
                        THEN Larger(lp.lo[j], Smaller(p.lo[j], q.lo[j]))
                        ELSE lp.lo[j],
             LAMBDA j : IF j \in m.int
                        THEN Smaller(lp.hi[j], Larger(p.hi[j], q.hi[j]))
                        ELSE lp.hi[j])

\* The relaxation's bounds become b; the tree's box follows where they moved.
MoveTo(m, s, b) ==
    LET Moves(k) == b.lo[k] # s.lp.lo[k] \/ b.hi[k] # s.lp.hi[k]
    IN [s EXCEPT !.lp = b,
          !.box = Boxed(m,
                     LAMBDA k : IF Moves(k) THEN b.lo[k] ELSE s.box.lo[k],
                     LAMBDA k : IF Moves(k) THEN b.hi[k] ELSE s.box.hi[k])]

\* What is learned of column j from the boxes its two values lead to.
Learn(m, s, j, zero, one) ==
    IF zero.dead /\ one.dead THEN [s EXCEPT !.dead = TRUE]
    ELSE IF zero.dead THEN MoveTo(m, s, ProbeMoves(m, s.lp, one, one))
    ELSE IF one.dead THEN MoveTo(m, s, ProbeMoves(m, s.lp, zero, zero))
    ELSE [MoveTo(m, s, ProbeMoves(m, s.lp, one, zero)) EXCEPT
            !.edges = @ \cup ProbeEdges(m, s.lp, j, 0, zero)
                        \cup ProbeEdges(m, s.lp, j, 1, one)]

\* One column probed; s = [lp, box, edges, dead].
ProbeColumn(m, s, j) ==
    LET At(v) == Propagate(m, [lo |-> [s.lp.lo EXCEPT ![j] = v * Grid],
                               hi |-> [s.lp.hi EXCEPT ![j] = v * Grid]],
                           Passes)
    IN IF s.dead \/ Fixed(s.lp, j) THEN s
       ELSE Learn(m, s, j, At(0), At(1))

\* Two literals of one side of a row over binaries that do not fit together.
\* A column with a negative coefficient counts complemented.
Weight(s, j) == Abs(s.a[j])
Lits(s, j) == Lit(j, IF s.a[j] > 0 THEN 1 ELSE 0)
Capacity(s) ==
    s.rhs + Grid * MapThenSumSet(LAMBDA j : IF s.a[j] < 0 THEN -s.a[j] ELSE 0,
                                 DOMAIN s.a)
Knapsacks(m, b, rows) ==
    UNION {{s \in Sides(rows[i]) : Capacity(s) >= 0} :
             i \in {h \in DOMAIN rows :
                      \A j \in Support(rows[h]) : IsBinary(m, b, j)}}
InSide(s) == {j \in DOMAIN s.a : s.a[j] # 0}
RowEdges(m, b, rows) ==
    UNION {{{Lits(s, j), Lits(s, k)} :
              <<j, k>> \in {e \in InSide(s) \X InSide(s) :
                              /\ e[1] < e[2]
                              /\ Grid * (Weight(s, e[1]) + Weight(s, e[2]))
                                    > Capacity(s)}} :
             s \in Knapsacks(m, b, rows)}

\* Fault: what conflicts with a true literal becomes true.
Follow_SameLiteral(edges, T) ==
    T \cup {k \in UNION edges : \E t \in T : {t, k} \in edges /\ t # k}

\* clique_fix: what the fixed binaries imply through the table.
Follow(edges, T) ==
    T \cup {Not(k) : k \in {l \in UNION edges :
                              \E t \in T : {t, l} \in edges /\ t # l}}
TrueLits(m, b) ==
    {Lit(j, b.lo[j] \div Grid) : j \in {k \in m.int : Fixed(b, k)
                                           /\ b.lo[k] \in {0, Grid}}}
CliqueClosure(m, edges, b) ==
    FoldLeft(LAMBDA T, k : Follow(edges, T), TrueLits(m, b), InOrder(2 * m.n))
CliqueDead(m, edges, b) ==
    \E l \in CliqueClosure(m, edges, b) :
        \/ Not(l) \in CliqueClosure(m, edges, b)
        \/ Grid * l[2] < b.lo[l[1]] \/ Grid * l[2] > b.hi[l[1]]
CliqueBox(m, edges, b) ==
    LET T == CliqueClosure(m, edges, b)
    IN Boxed(m, LAMBDA j : IF Lit(j, 1) \in T THEN Grid ELSE b.lo[j],
                LAMBDA j : IF Lit(j, 0) \in T THEN 0 ELSE b.hi[j])
==============================================================================
