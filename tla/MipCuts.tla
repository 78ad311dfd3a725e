------------------------------- MODULE MipCuts -------------------------------
(***************************************************************************)
(* The cutting planes of src/src/mip.c: what each separator makes of the   *)
(* rows, a box and the relaxation's point.  A separator is the set of the  *)
(* cuts it may find; where the code ranks its candidates by a measure of   *)
(* their depth, every candidate is in the set.  A cut may be scaled by a   *)
(* positive number: the code's cut is a multiple of the one here.          *)
(***************************************************************************)
EXTENDS MipBounds

CONSTANTS
    Pivots,         \* the multiples of a column a tableau row is tried for
    Weights,        \* the multipliers of the rows in it
    AggSteps,       \* MIP_MIR_AGGREGATE: rows added to one row at most
    Divisors        \* a rounding's divisor is a coefficient over one of these


\* cut_finish and cutbuf_push: a cut is kept if it has a coefficient, if x
\* does not satisfy it, and if the box reaches it.
Reach(k, b) == Most(k.c, b, DOMAIN k.c)
Useful(k, b, x) ==
    /\ \E j \in DOMAIN k.c : k.c[j] # 0
    /\ Reach(k, b) = Inf \/ k.lo <= Reach(k, b)
    /\ ~CutHolds(k, x)
Finished(K, b, x) == {k \in K : Useful(k, b, x)}
Violated(K, x) == {k \in K : ~CutHolds(k, x)}

------------------------------------------------------------------------------
(* gomory_round.  A tableau row of an integer column j at a fraction says    *)
(* q x_j = sum t_i (row i) + sum s_k x_k, and every row and column with a    *)
(* multiplier is nonbasic, at one of its bounds.                             *)

RowAt(r, x) == Dot(r.a, x)
AtBounds(lo, hi, v) == {s \in {"lower", "upper"} :
                          v = IF s = "lower" THEN lo ELSE hi}

\* The columns' multipliers that go with the rows' multipliers t.
ColMultiplier(rows, q, t, j, k) ==
    (IF k = j THEN q ELSE 0)
        - MapThenSumSet(LAMBDA i : t[i] * rows[i].a[k], DOMAIN t)

TableauRows(m, rows, b, x, j) ==
    LET tight == {i \in DOMAIN rows :
                    AtBounds(rows[i].lo, rows[i].hi, RowAt(rows[i], x)) # {}}
        atBound == {k \in Cols(m) : AtBounds(b.lo[k], b.hi[k], x[k]) # {}}
    IN {w \in [q : Pivots,
               t : UNION {[S -> Weights \ {0}] : S \in SUBSET tight}] :
          \A k \in Cols(m) \ atBound : ColMultiplier(rows, w.q, w.t, j, k) = 0}

\* The coefficient of a nonbasic with tableau entry P / q, over the fraction
\* f of x_j, times q f (Grid - f) / Grid: of an integer column and else.
GomoryInt(P, q, f) ==
    IF (P % q) * Grid <= f * q THEN (P % q) * (Grid - f)
    ELSE (q - (P % q)) * f
GomoryReal(P, f) == IF P >= 0 THEN P * (Grid - f) ELSE (-P) * f

GomoryCut(m, rows, b, x, j, w) ==
    LET f == x[j] % Grid
        colSide(k) == IF x[k] = b.lo[k] THEN "lower" ELSE "upper"
        rowSide(i) ==
            IF RowAt(rows[i], x) = rows[i].lo THEN "lower" ELSE "upper"
        sign(s) == IF s = "lower" THEN 1 ELSE -1
        entry(k) == -ColMultiplier(rows, w.q, w.t, j, k)
        colWeight(k) ==
            IF entry(k) = 0 THEN 0
            ELSE sign(colSide(k)) *
                 (IF k \in m.int /\ Whole(x[k])
                  THEN GomoryInt(sign(colSide(k)) * entry(k), w.q, f)
                  ELSE GomoryReal(sign(colSide(k)) * entry(k), f))
        rowWeight(i) ==
            sign(rowSide(i)) * GomoryReal(-sign(rowSide(i)) * w.t[i], f)
        c == Listed([k \in Cols(m) |->
                colWeight(k) + MapThenSumSet(
                    LAMBDA i : rowWeight(i) * rows[i].a[k], DOMAIN w.t)])
    IN Cut(c, w.q * f * (Grid - f)
                + MapThenSumSet(LAMBDA k : colWeight(k) * x[k], Cols(m))
                + MapThenSumSet(LAMBDA i : rowWeight(i) * RowAt(rows[i], x),
                                DOMAIN w.t))

GomoryCuts(m, rows, b, x) ==
    Finished({GomoryCut(m, rows, b, x, jw[1], jw[2]) :
                jw \in UNION {{j} \X TableauRows(m, rows, b, x, j) :
                                j \in Fractional(m, x)}}, b, x)

------------------------------------------------------------------------------
(* cover_round and clique_round: rows over binaries.  A column with a        *)
(* negative coefficient counts complemented, so that all weights are         *)
(* positive.                                                                 *)

LitValue(l, x) == IF l[2] = 1 THEN x[l[1]] ELSE Grid - x[l[1]]
SideLit(s, j) == Lits(s, j)
ItemsOf(s, J) == Grid * MapThenSumSet(LAMBDA j : Weight(s, j), J)

\* The items before j: by what is missing to one per weight, then by column.
EarlierItem(s, x, j, k) ==
    LET short(h) == Grid - LitValue(SideLit(s, h), x)
        p == short(k) * Weight(s, j)
        q == short(j) * Weight(s, k)
    IN p < q \/ (p = q /\ k < j)
CoverOf(s, x) ==
    {j \in InSide(s) :
       ItemsOf(s, {k \in InSide(s) : EarlierItem(s, x, j, k)}) <= Capacity(s)}

\* How many of the heaviest members of the cover fit in the weight of k.
Lift(s, C, k) ==
    Cardinality({h \in 1 .. Cardinality(C) :
                   Max({ItemsOf(s, S) : S \in kSubset(h, C)})
                      <= Grid * Weight(s, k)})
Extend(s, C, k) ==
    IF \A j \in C : Weight(s, j) <= Weight(s, k) THEN 1 ELSE 0

\* sum alpha l <= rhs over the literals of a side, as a cut.
LiteralCut(m, L, alpha, rhs) ==
    Cut([j \in Cols(m) |->
           MapThenSumSet(LAMBDA l : IF l[1] # j THEN 0
                                    ELSE IF l[2] = 1 THEN -alpha[l]
                                    ELSE alpha[l], L)],
        Grid * (MapThenSumSet(LAMBDA l : IF l[2] = 1 THEN 0 ELSE alpha[l], L)
                  - rhs))

CoverCut(m, s, x, lifted) ==
    LET C == CoverOf(s, x)
        alpha(j) == IF j \in C THEN 1
                    ELSE IF lifted THEN Lift(s, C, j) ELSE Extend(s, C, j)
        L == {SideLit(s, j) : j \in InSide(s)}
    IN LiteralCut(m, L, [l \in L |-> alpha(l[1])], Cardinality(C) - 1)

CoverCuts(m, rows, b, x) ==
    Violated({CoverCut(m, s, x, lifted) :
                s \in {t \in Knapsacks(m, b, rows) :
                         ItemsOf(t, InSide(t)) > Capacity(t)},
                lifted \in BOOLEAN}, x)

\* Cliques of the table with more than one of value at x.
CliqueCuts(m, edges, x) ==
    LET L == UNION edges
        cliques == {Q \in SUBSET L :
                      /\ Cardinality(Q) > 1
                      /\ \A k, l \in Q : k # l => {k, l} \in edges}
    IN Violated({LiteralCut(m, Q, [l \in Q |-> 1], 1) : Q \in cliques}, x)

------------------------------------------------------------------------------
(* zero_half_round: up to three sides of integer rows, halved; a column with *)
(* an odd sum is made even by the nearer of its bounds.                      *)

HalfSides(m, rows, x) ==
    UNION {{[i |-> i, a |-> s.a, rhs |-> s.rhs,
             slack |-> Larger(0, s.rhs - Dot(s.a, x))] :
              s \in {t \in Sides(rows[i]) : Whole(t.rhs)}} :
             i \in {h \in DOMAIN rows :
                      /\ rows[h].scale = 1
                      /\ Support(rows[h]) \subseteq m.int}}

\* The bound that evens out column j, if it has one: how far x is from it,
\* what it adds to the right side, and its sign.
EvenBounds(m, b, x, j) ==
    IF j \notin m.int THEN {}
    ELSE (IF Finite(b.hi[j])
          THEN {[slack |-> b.hi[j] - x[j], rhs |-> b.hi[j], sign |-> 1]}
          ELSE {}) \cup
         (IF Finite(b.lo[j])
          THEN {[slack |-> x[j] - b.lo[j], rhs |-> -b.lo[j], sign |-> -1]}
          ELSE {})
Nearest(E) ==
    CHOOSE e \in E : \A f \in E : \/ e.slack < f.slack
                                  \/ e.slack = f.slack /\ e.sign >= f.sign

\* floor(v / 2) of a whole v.
HalfDown(v) == FloorOf(v \div 2)

HalfCut(m, b, x, T) ==
    LET sum == Listed([j \in Cols(m) |-> MapThenSumSet(LAMBDA t : t.a[j], T)])
        odd == {j \in Cols(m) : Odd(sum[j])}
        even(j) == Nearest(EvenBounds(m, b, x, j))
        rhs == MapThenSumSet(LAMBDA t : t.rhs, T)
                 + MapThenSumSet(LAMBDA j : even(j).rhs, odd)
        cost == MapThenSumSet(LAMBDA t : t.slack, T)
                  + MapThenSumSet(LAMBDA j : Larger(0, even(j).slack), odd)
    IN IF \E j \in odd : EvenBounds(m, b, x, j) = {} THEN {}
       ELSE IF cost >= Grid \/ ~OddValue(rhs) THEN {}
       ELSE {Cut([j \in Cols(m) |->
                    -((sum[j] + (IF j \in odd THEN even(j).sign ELSE 0))
                        \div 2)], -HalfDown(rhs))}

ZeroHalfCuts(m, rows, b, x) ==
    LET near == {s \in HalfSides(m, rows, x) : s.slack < Grid}
    IN {k \in UNION {HalfCut(m, b, x, T) :
                       T \in {U \in SUBSET near :
                                /\ Cardinality(U) \in 1 .. 3
                                /\ \A s, t \in U : s # t => s.i # t.i}} :
          \E j \in Cols(m) : k.c[j] # 0}
------------------------------------------------------------------------------
(* flow_cover_round: a row x <= b of columns from zero, some of which a row  *)
(* of two entries bounds by a binary: a x_j + c y <= 0.                      *)

\* The ratios of the models' variable bounds are whole.
VariableBounds(m, rows, b) ==
    UNION {{[j |-> j, y |-> y, u |-> (-s.a[y]) \div s.a[j]] :
              <<s, j, y>> \in {e \in Sides(rows[i]) \X Cols(m) \X Cols(m) :
                                 /\ Support(rows[i]) = {e[2], e[3]}
                                 /\ e[1].rhs = 0
                                 /\ Cardinality(Sides(rows[i])) = 1
                                 /\ e[1].a[e[2]] > 0 /\ e[1].a[e[3]] < 0
                                 /\ IsBinary(m, b, e[3])}} : i \in DOMAIN rows}

FlowBound(m, rows, b, lp, j) ==
    LET V == {v \in VariableBounds(m, rows, b) : v.j = j /\ lp.lo[j] = 0}
        u == Min({v.u : v \in V})
    IN IF V = {} THEN [y |-> 0, u |-> lp.hi[j]]
       ELSE [y |-> (CHOOSE v \in V : v.u = u).y,
             u |-> Smaller(lp.hi[j], Grid * u)]

\* One side of a row; at[j] = [y, u]: column j is at most u, and zero where
\* its binary y, if it has one, is.
FlowCut(m, s, at, x) ==
    LET plus == {j \in DOMAIN s.a : s.a[j] > 0}
        minus == {j \in DOMAIN s.a : s.a[j] < 0}
        U(j) == Abs(s.a[j]) * at[j].u
        V(y) == IF y = 0 THEN Grid ELSE x[y]
        key(j) == U(j) * (Grid - V(at[j].y)) - Grid * s.a[j] * x[j]
        Before(j, k) == key(k) < key(j) \/ (key(k) = key(j) /\ k < j)
        C == {j \in plus :
                MapThenSumSet(U, {k \in plus : Before(j, k)}) <= s.rhs}
        lambda == MapThenSumSet(U, C) - s.rhs
        lifted == {j \in C : at[j].y # 0 /\ U(j) > lambda}
        bounded == {j \in minus : at[j].y # 0 /\ U(j) > lambda}
        own(j) == IF j \in C \cup (minus \ bounded) THEN Grid * s.a[j] ELSE 0
        byBinary(k) ==
            MapThenSumSet(LAMBDA j : IF at[j].y = k THEN lambda - U(j) ELSE 0,
                          lifted)
            - MapThenSumSet(LAMBDA j : IF at[j].y = k THEN lambda ELSE 0,
                            bounded)
    IN IF plus = {} \/ lambda <= 0 THEN {}
       ELSE {Cut([k \in Cols(m) |-> -(own(k) + byBinary(k))],
                 Grid * (MapThenSumSet(LAMBDA j : U(j) - lambda, lifted)
                           - s.rhs))}

FlowCuts(m, rows, b, lp, x) ==
    LET at == Listed([j \in Cols(m) |-> FlowBound(m, rows, b, lp, j)])
        fits(i) == \A j \in Support(rows[i]) : lp.lo[j] = 0
        closed(s) == \A j \in DOMAIN s.a : s.a[j] > 0 => at[j].u # Inf
    IN Violated(UNION {UNION {FlowCut(m, s, at, x) :
                                s \in {t \in Sides(rows[i]) : closed(t)}} :
                         i \in {h \in DOMAIN rows : fits(h)}}, x)

------------------------------------------------------------------------------
(* hull_round: the deepest cut for the integer points of one row in the box, *)
(* here every cut with coefficients -1, 0 and 1 and the largest value it has *)
(* over those points.                                                        *)

RowPoints(r, b, J) ==
    {v \in [J -> UNION {{Grid * z : z \in (CeilOf(b.lo[j]) \div Grid) ..
                                           (b.hi[j] \div Grid)} : j \in J}] :
       /\ \A j \in J : b.lo[j] <= v[j] /\ v[j] <= b.hi[j]
       /\ LET act == MapThenSumSet(LAMBDA j : r.a[j] * v[j], J)
          IN (r.lo = -Inf \/ r.lo <= act) /\ (r.hi = Inf \/ act <= r.hi)}

HullRow(m, r, b, x) ==
    LET J == Support(r) IN
    /\ Cardinality(J) > 1
    /\ \A j \in J : j \in m.int /\ Finite(b.lo[j]) /\ Finite(b.hi[j])
    /\ J \cap Fractional(m, x) # {}

HullCuts(m, rows, b, lp, x) ==
    Finished(UNION {
        LET J == Support(rows[i])
            P == RowPoints(rows[i], b, J)
            value(p, v) == MapThenSumSet(LAMBDA j : p[j] * v[j], J)
        IN IF P = {} THEN {}
           ELSE {Cut([j \in Cols(m) |-> IF j \in J THEN -p[j] ELSE 0],
                     -Max({value(p, v) : v \in P})) : p \in [J -> {-1, 0, 1}]} :
        i \in {h \in DOMAIN rows : HullRow(m, rows[h], b, x)}}, lp, x)

------------------------------------------------------------------------------
(* mir_side and cmir_side: a side shifted to bounds of its columns, divided  *)
(* by delta and rounded.  A continuous column may also be shifted to a       *)
(* variable bound, which adds to its binary.  The code takes the nearer      *)
(* bound, or the one the coefficient's sign asks for, and tries flips.       *)

\* cmir_bounds: variable bounds of the continuous columns.
MirBounds(m, rows, b) ==
    UNION {{[j |-> j, y |-> y, v |-> (-s.a[y]) \div s.a[j],
             kind |-> IF s.a[j] > 0 THEN "vub" ELSE "vlb"] :
              <<s, j, y>> \in {e \in Sides(rows[i]) \X Cols(m) \X Cols(m) :
                                 /\ Support(rows[i]) = {e[2], e[3]}
                                 /\ e[2] # e[3]
                                 /\ e[1].rhs = 0 /\ rows[i].ind = 0
                                 /\ e[2] \notin m.int
                                 /\ IsBinary(m, b, e[3])}} :
             i \in DOMAIN rows}

Shifts(m, B, b, j) ==
    (IF Finite(b.lo[j]) THEN {[kind |-> "lower", y |-> 0, v |-> b.lo[j]]}
     ELSE {}) \cup
    (IF Finite(b.hi[j]) THEN {[kind |-> "upper", y |-> 0, v |-> b.hi[j]]}
     ELSE {}) \cup
    {[kind |-> e.kind, y |-> e.y, v |-> e.v] : e \in {f \in B : f.j = j}}

FromBelow(h) == h.kind \in {"lower", "vlb"}

MirReal(A) == Smaller(0, A)

\* floor(A) + max(0, frac(A) - f) / (1 - f), times M - f; one is M.
MirInt(A, f, M) == (A \div M) * (M - f) + Larger(0, (A % M) - f)

\* What the integer columns of s = [a, rhs, scale] weigh after the shifts
\* to[j], and the right side that is left.
Shifted(m, s, to) ==
    Listed([j \in Cols(m) |-> s.a[j] + MapThenSumSet(
        LAMBDA k : IF to[k].y = j THEN s.a[k] * to[k].v ELSE 0,
        DOMAIN to \ m.int)])
LeftOf(m, s, to, g) ==
    s.rhs - MapThenSumSet(
        LAMBDA k : IF to[k].y # 0 THEN 0
                   ELSE (IF k \in m.int THEN g[k] ELSE s.a[k]) * to[k].v,
        DOMAIN to)

\* Rounded after a division by d[1] / d[2].
MirCut(m, s, to, g, d) ==
    LET J == DOMAIN to
        M == d[1] * Grid
        B == d[2] * LeftOf(m, s, to, g)
        f == B % M
        up(j) == IF FromBelow(to[j]) THEN 1 ELSE -1
        w == Listed([j \in Cols(m) |->
                IF j \notin J THEN 0
                ELSE IF j \in m.int
                THEN up(j) * MirInt(up(j) * g[j] * d[2] * Grid, f, M)
                ELSE up(j) * MirReal(up(j) * s.a[j] * d[2] * Grid)])
        c == Listed([j \in Cols(m) |-> w[j] - MapThenSumSet(
                LAMBDA k : IF to[k].y = j THEN w[k] * to[k].v ELSE 0, J)])
        rhs == Grid * (M - f) * (B \div M) + MapThenSumSet(
                 LAMBDA j : IF to[j].y = 0 THEN w[j] * to[j].v ELSE 0, J)
    IN IF f = 0 THEN {} ELSE {Cut([j \in Cols(m) |-> -c[j]], -rhs)}

Deltas(m, s, g, x) ==
    {<<s.scale, 1>>} \cup
    {<<Abs(g[j]), q>> : j \in {k \in Fractional(m, x) : g[k] # 0},
                        q \in Divisors}

\* The columns a side shifts: its own, and the binaries it may pick up.
MirCuts(m, s, B, b, x) ==
    LET own == {j \in DOMAIN s.a : s.a[j] # 0}
        J == own \cup {e.y : e \in {f \in B : f.j \in own}}
        S == [j \in J |-> Shifts(m, B, b, j)]
    IN UNION {LET g == Shifted(m, s, to)
              IN UNION {MirCut(m, s, to, g, d) : d \in Deltas(m, s, g, x)} :
                to \in {h \in [J -> UNION {S[j] : j \in J}] :
                          \A j \in J : h[j] \in S[j]}}

Scaled(r, s) == [a |-> s.a, rhs |-> s.rhs, scale |-> r.scale]
ScaledSides(r) == {Scaled(r, s) : s \in Sides(r)}

MirRound(m, rows, B, b, lp, x) ==
    Finished(UNION {UNION {MirCuts(m, s, B, b, x) :
                             s \in ScaledSides(rows[i])} : i \in DOMAIN rows},
             lp, x)

\* A row taken away p times: from its lower side if p > 0.
OtherSide(r, p) == IF p > 0 THEN r.lo ELSE r.hi

\* mir_aggregate_round: a continuous column strictly between its bounds is
\* eliminated with a row not used yet; e = [s, used, picked].
Eliminations(m, rows, b, x, e) ==
    UNION {LET r == rows[ij[1]]
               c == r.a[ij[2]]
               p == e.s.a[ij[2]] * (IF c > 0 THEN 1 ELSE -1)
               side == OtherSide(r, p)
           IN IF ~Finite(side) THEN {}
              ELSE {[used |-> e.used \cup {ij[1]},
                     picked |-> e.picked \cup {ij[2]},
                     s |-> [a |-> Listed([k \in DOMAIN e.s.a |->
                                     Abs(c) * e.s.a[k] - p * r.a[k]]),
                            rhs |-> Abs(c) * e.s.rhs - p * side,
                            scale |-> e.s.scale * Abs(c)]]} :
           ij \in {h \in (DOMAIN rows \ e.used)
                           \X (Cols(m) \ (m.int \cup e.picked)) :
                     /\ e.s.a[h[2]] # 0 /\ rows[h[1]].a[h[2]] # 0
                     /\ b.lo[h[2]] < x[h[2]] /\ x[h[2]] < b.hi[h[2]]}}

Aggregated(m, rows, b, x) ==
    LET single == {[s |-> s, used |-> {i}, picked |-> {}] :
                     <<i, s>> \in UNION {{i} \X ScaledSides(rows[i]) :
                                           i \in DOMAIN rows}}
        Next1(L) == UNION {Eliminations(m, rows, b, x, e) : e \in L}
        level == [k \in 1 .. AggSteps |->
                    FoldLeft(LAMBDA L, i : Next1(L), single, InOrder(k))]
    IN {e.s : e \in UNION {level[k] : k \in 1 .. AggSteps}}

AggregateCuts(m, rows, B, b, lp, x) ==
    Finished(UNION {MirCuts(m, s, B, b, x) : s \in Aggregated(m, rows, b, x)},
             lp, x)
==============================================================================
