------------------------------ MODULE ReducedSolve -----------------------------
(***************************************************************************)
(* The life of a linear solve around the simplex (src/src/simplex.c):      *)
(* presolve (Presolve.tla), the aggregator (src/src/aggregate.c), a solve  *)
(* of what is left, and the way back to the model: aggregator first, then  *)
(* the stack of reductions, then the basis the next solve starts from.     *)
(*                                                                         *)
(* The simplex is what it promises: a basis of what it was given, optimal  *)
(* or with a certificate, or any basis when it was stopped.                *)
(***************************************************************************)
EXTENDS Presolve

CONSTANTS
    AggRowMax, AggFillMax, AggPasses,   \* aggregate.c:11-29
    Multipliers,    \* bound: the entries of a certificate or a ray
    MaxSolves,      \* bound: solves of one model object
    Edits(_)        \* what a program can be when it is solved again

VARIABLES
    g,          \* the program the aggregator leaves, and its records
    ans,        \* the answer the model has
    solves

aggVars == <<g, ans, solves>>
vars == <<m, start, solCol, node, pc, at, round, changed, s, g, ans, solves>>

NotRun == [status |-> "NOT_RUN", basisOk |-> FALSE]

Cold(lp) == [lp |-> lp, recs |-> << >>]

Init ==
    /\ m \in Models /\ start = NoStart /\ solCol = << >>
    /\ node \in BOOLEAN
    /\ pc = "rows" /\ at = 1 /\ round = 1 /\ changed = FALSE
    /\ s = Fresh(m) /\ g = Cold(m) /\ ans = NotRun /\ solves = 1

------------------------------------------------------------------------------
(* The aggregator.                                                           *)

MidStart == IF s.gaveUp THEN start ELSE ReducedStart
Warm == start # NoStart

Mark(i, j) == (Cardinality(ColRows(g.lp, j)) - 1)
              * (Cardinality(RowCols(g.lp, i)) - 1)
KeptFree(i, j) ==
    LET box == ImpliedBox(g.lp, i, j)
    IN  /\ Finite(g.lp.cl[j]) => box[1] >= g.lp.cl[j]
        /\ Finite(g.lp.cu[j]) => box[2] <= g.lp.cu[j]

\* The columns row i can be solved for. The code takes the first of them in
\* the row's list, whose order depends on the fill so far: any of them here.
Pivots(i) ==
    LET J == RowCols(g.lp, i)
        able == {j \in J :
                   /\ Warm => /\ MidStart.col[j] = "BASIC"
                              /\ MidStart.row[i] # "BASIC"
                   /\ \A k \in J :
                        2 * Abs(g.lp.a[i][j]) >= Abs(g.lp.a[i][k])
                   /\ Mark(i, j) <= AggFillMax /\ KeptFree(i, j)}
    IN  IF /\ i \in g.lp.rows /\ Equality(g.lp, i)
           /\ Cardinality(J) \in 2 .. AggRowMax /\ Cardinality(g.lp.cols) > 1
        THEN {j \in able : \A k \in able : Mark(i, j) <= Mark(i, k)}
        ELSE {}

Substituted(lp, i, j) ==
    LET a == lp.a[i][j]
        y == Over(lp.cost[j], a)
        R == ColRows(lp, j) \ {i}
        J == RowCols(lp, i) \ {j}
        f(r) == Over(lp.a[r][j], a)
        Shifted(b) == [r \in DOMAIN b |->
                         IF r \in R THEN Minus(b[r], f(r) * lp.rl[i]) ELSE b[r]]
    IN  [lp EXCEPT
           !.rows = @ \ {i}, !.cols = @ \ {j},
           !.rl = Shifted(@), !.ru = Shifted(@),
           !.offset = @ + y * lp.rl[i],
           !.cost = [k \in DOMAIN @ |->
                       IF k \in J THEN @[k] - y * lp.a[i][k] ELSE @[k]],
           !.a = [r \in DOMAIN @ |-> [k \in DOMAIN @[r] |->
                    IF r \in R /\ k \in J
                    THEN @[r][k] - f(r) * lp.a[i][k] ELSE @[r][k]]]]

Substitute(i, j) ==
    /\ pc = "aggregate" /\ i >= at /\ j \in Pivots(i)
    /\ \A h \in at .. i - 1 : Pivots(h) = {}
    /\ g' = [lp |-> Substituted(g.lp, i, j),
             recs |-> Append(g.recs,
                [i |-> i, j |-> j, coef |-> g.lp.a[i][j],
                 rhs |-> g.lp.rl[i], cost |-> g.lp.cost[j],
                 row |-> [k \in RowCols(g.lp, i) \ {j} |-> g.lp.a[i][k]],
                 col |-> [r \in ColRows(g.lp, j) \ {i} |-> g.lp.a[r][j]]])]
    /\ at' = i + 1 /\ changed' = TRUE
    /\ UNCHANGED <<m, start, solCol, node, pc, round, s, ans, solves>>

EndOfAggregation ==
    /\ pc = "aggregate" /\ \A i \in m.rows : i >= at => Pivots(i) = {}
    /\ at' = 1 /\ changed' = FALSE
    /\ IF changed /\ round < AggPasses
       THEN round' = round + 1 /\ UNCHANGED pc
       ELSE pc' = "simplex" /\ UNCHANGED round
    /\ UNCHANGED <<m, start, solCol, node, s, g, ans, solves>>

\* jm_aggregate_expand on a solved program, last record first.
AggUndo(o, rec) ==
    LET J == DOMAIN rec.row
        R == DOMAIN rec.col
    IN  [o EXCEPT
           !.x[rec.j] = Over(rec.rhs - Sum(J, LAMBDA k : rec.row[k] * o.x[k]),
                             rec.coef),
           !.y[rec.i] = Over(rec.cost - Sum(R, LAMBDA r : rec.col[r] * o.y[r]),
                             rec.coef),
           !.d[rec.j] = 0, !.cs[rec.j] = "BASIC", !.rs[rec.i] = "AT_LOWER"]
AggUndone(red) ==
    LET On(f, S, T, rest) == [k \in T |-> IF k \in S THEN f[k] ELSE rest]
        full == [red EXCEPT !.x = On(@, g.lp.cols, m.cols, 0),
                            !.d = On(@, g.lp.cols, m.cols, 0),
                            !.cs = On(@, g.lp.cols, m.cols, "STALE"),
                            !.y = On(@, g.lp.rows, m.rows, 0),
                            !.rs = On(@, g.lp.rows, m.rows, "STALE")]
        o == FoldLeft(AggUndo, full, Reverse(g.recs))
    IN  [o EXCEPT !.act = [i \in m.rows |-> Activity(s.lp, i, o.x)]]

\* The same for a certificate, a ray and a basis.
AggFarkas(y, rec) ==
    [y EXCEPT ![rec.i] = Over(-Sum(DOMAIN rec.col,
                                   LAMBDA r : rec.col[r] * y[r]), rec.coef)]
AggRay(d, rec) ==
    [d EXCEPT ![rec.j] = Over(-Sum(DOMAIN rec.row,
                                   LAMBDA k : rec.row[k] * d[k]), rec.coef)]
AggBasis(st, rec) ==
    [st EXCEPT !.col[rec.j] = "BASIC", !.row[rec.i] = "AT_LOWER"]

------------------------------------------------------------------------------
(* What the simplex answers.                                                 *)

Det(M) ==
    CASE Len(M) = 0 -> 1
      [] Len(M) = 1 -> M[1][1]
      [] Len(M) = 2 -> M[1][1] * M[2][2] - M[1][2] * M[2][1]
      [] Len(M) = 3 ->
           M[1][1] * (M[2][2] * M[3][3] - M[2][3] * M[3][2])
           - M[1][2] * (M[2][1] * M[3][3] - M[2][3] * M[3][1])
           + M[1][3] * (M[2][1] * M[3][2] - M[2][2] * M[3][1])
Listing(S) == SetToSortSeq(S, <)
Place(q, k) == CHOOSE n \in DOMAIN q : q[n] = k
Part(lp, I, K) ==
    LET r == Listing(I) c == Listing(K)
    IN  [n \in DOMAIN r |-> [l \in DOMAIN c |-> lp.a[r[n]][c[l]]]]
Cramer(M, b) ==
    [k \in DOMAIN M |->
       Over(Det([n \in DOMAIN M |-> [M[n] EXCEPT ![k] = b[n]]]), Det(M))]

\* The columns K are basic and the rows I are not.
Bases(lp) ==
    {p \in (SUBSET lp.cols) \X (SUBSET lp.rows) :
        /\ Cardinality(p[1]) = Cardinality(p[2])
        /\ \A i \in p[2] : Finite(lp.rl[i]) \/ Finite(lp.ru[i])
        /\ Det(Part(lp, p[2], p[1])) # 0}

\* The statuses a place off the basis can have, by the sign of its multiplier.
Sides(lo, hi, q) ==
    {c \in {"AT_LOWER", "AT_UPPER", "FREE"} :
        CASE c = "AT_LOWER" -> Finite(lo) /\ q >= 0
          [] c = "AT_UPPER" -> Finite(hi) /\ q <= 0
          [] c = "FREE" -> ~Finite(lo) /\ ~Finite(hi) /\ q = 0}
SideOf(c, lo, hi) == CASE c = "AT_LOWER" -> lo [] c = "AT_UPPER" -> hi
                       [] OTHER -> 0
Duals(lp, K, I) ==
    LET r == Listing(I) c == Listing(K)
        y == Cramer([l \in DOMAIN c |-> [n \in DOMAIN r |-> lp.a[r[n]][c[l]]]],
                    [l \in DOMAIN c |-> lp.cost[c[l]]])
    IN  [i \in lp.rows |-> IF i \in I THEN y[Place(r, i)] ELSE 0]
Point(lp, K, I, cs, rs) ==
    LET r == Listing(I) c == Listing(K)
        out == [j \in lp.cols |-> IF j \in K THEN 0
                                  ELSE SideOf(cs[j], lp.cl[j], lp.cu[j])]
        x == Cramer(Part(lp, I, K),
                    [n \in DOMAIN r |-> SideOf(rs[r[n]], lp.rl[r[n]],
                                               lp.ru[r[n]])
                                        - Activity(lp, r[n], out)])
    IN  [j \in lp.cols |-> IF j \in K THEN x[Place(c, j)] ELSE out[j]]
Feasible(lp, x) ==
    /\ \A j \in lp.cols : x[j] >= lp.cl[j] /\ x[j] <= lp.cu[j]
    /\ \A i \in lp.rows : /\ Activity(lp, i, x) >= lp.rl[i]
                          /\ Activity(lp, i, x) <= lp.ru[i]

Assigned(S, In(_)) ==
    {f \in [S -> {"BASIC", "AT_LOWER", "AT_UPPER", "FREE"}] :
        \A k \in S : f[k] \in In(k)}
Statuses(lp, p, y, d) ==
    Assigned(lp.cols, LAMBDA j : IF j \in p[1] THEN {"BASIC"}
                                ELSE Sides(lp.cl[j], lp.cu[j], d[j]))
    \X Assigned(lp.rows, LAMBDA i : IF i \in p[2]
                                   THEN Sides(lp.rl[i], lp.ru[i], y[i])
                                   ELSE {"BASIC"})
Zero(S) == [k \in S |-> 0]

AnyBasis(lp) ==
    UNION {Statuses(lp, p, Zero(lp.rows), Zero(lp.cols)) : p \in Bases(lp)}

OptimalAt(lp, p) ==
    LET y == Duals(lp, p[1], p[2])
        d == [j \in lp.cols |->
                lp.cost[j] - Sum(lp.rows, LAMBDA i : lp.a[i][j] * y[i])]
        Of(c) == LET x == Point(lp, p[1], p[2], c[1], c[2])
                 IN  [x |-> x, d |-> d, y |-> y, cs |-> c[1], rs |-> c[2],
                      act |-> [i \in lp.rows |-> Activity(lp, i, x)]]
        Signed(q) == [k \in DOMAIN q |-> lp.sigma * q[k]]
    IN  {o \in {Of(c) : c \in Statuses(lp, p, Signed(y), Signed(d))} :
            Feasible(lp, o.x)}
OptimalAnswers(lp) == UNION {OptimalAt(lp, p) : p \in Bases(lp)}

HasPoint(lp) ==
    \E p \in Bases(lp) :
      \E c \in Statuses(lp, p, Zero(lp.rows), Zero(lp.cols)) :
        Feasible(lp, Point(lp, p[1], p[2], c[1], c[2]))

\* y shows that no point of the boxes meets the rows.
IsFarkas(lp, y) ==
    LET w == [j \in lp.cols |-> Sum(lp.rows, LAMBDA i : lp.a[i][j] * y[i])]
    IN  /\ \A i \in lp.rows : y[i] # 0 =>
               Finite(IF y[i] > 0 THEN lp.rl[i] ELSE lp.ru[i])
        /\ \A j \in lp.cols : w[j] # 0 =>
               Finite(IF w[j] > 0 THEN lp.cu[j] ELSE lp.cl[j])
        /\ Sum(lp.rows, LAMBDA i : IF y[i] = 0 THEN 0 ELSE
                          y[i] * (IF y[i] > 0 THEN lp.rl[i] ELSE lp.ru[i]))
           > Sum(lp.cols, LAMBDA j : IF w[j] = 0 THEN 0 ELSE
                          w[j] * (IF w[j] > 0 THEN lp.cu[j] ELSE lp.cl[j]))
\* d leaves every box and row side it moves towards infinitely far away.
IsRay(lp, d) ==
    LET Open(v, lo, hi) == (v > 0 => ~Finite(hi)) /\ (v < 0 => ~Finite(lo))
    IN  /\ \A j \in lp.cols : Open(d[j], lp.cl[j], lp.cu[j])
        /\ \A i \in lp.rows : Open(Activity(lp, i, d), lp.rl[i], lp.ru[i])
        /\ lp.sigma * Sum(lp.cols, LAMBDA j : lp.cost[j] * d[j]) < 0

------------------------------------------------------------------------------
(* The life of a solve.                                                      *)

\* Not everything died and something did.
Leaves(next) ==
    /\ pc' = next /\ at' = 1 /\ round' = 1 /\ changed' = FALSE
    /\ UNCHANGED <<m, start, solCol, node, ans, solves>>

\* An empty column the objective has no end on: presolve forgets what it did,
\* except the stack.
GiveUp ==
    /\ GivesUp /\ Leaves("rest")
    /\ s' = [Fresh(m) EXCEPT !.arena = s.arena, !.gaveUp = TRUE]
    /\ UNCHANGED g
EndOfReductions ==
    /\ ReductionsEnd /\ (s.lp.cols # {} \/ s.arena = << >>)
    /\ Leaves("rest") /\ UNCHANGED <<s, g>>

\* A start that is not a basis of what is left is not aggregated.
ToTheSimplex ==
    /\ pc = "rest"
    /\ g' = Cold(s.lp)
    /\ Leaves(IF \/ node
                 \/ Warm /\ Basics(MidStart, s.lp) # Cardinality(s.lp.rows)
              THEN "simplex" ELSE "aggregate")
    /\ UNCHANGED s

Answers(a, st, x) ==
    /\ ans' = a /\ start' = st /\ solCol' = x
    /\ pc' = "done"
    /\ UNCHANGED <<m, node, at, round, changed, s, g, solves>>

Optimal(o, rest) ==
    LET value == m.offset + Sum(m.cols, LAMBDA j : m.cost[j] * o.x[j])
    IN  Answers([status |-> "OPTIMAL", basisOk |-> TRUE, o |-> o,
                 value |-> value, rest |-> rest],
                [col |-> o.cs, row |-> o.rs], o.x)
NoPoint(y, basisOk, st) ==
    Answers([status |-> "INFEASIBLE", basisOk |-> basisOk, farkas |-> y],
            st, Zero(m.cols))

\* Every column died; a row may be left, with nothing in it.
SolvedByPresolve ==
    /\ ReductionsEnd /\ s.lp.cols = {} /\ s.arena # << >>
    /\ Optimal(Undone(s.arena, FromNothing), s.lp.offset)

InfeasibleByPresolve(i) ==
    /\ Unreachable(i)
    /\ NoPoint(LiftedFarkas(s.arena, [Zero(m.rows) EXCEPT ![i] = RowProof(i)]),
               FALSE, start)

\* What the simplex answers goes back through the aggregator and the stack,
\* when either of them changed the model.
Stack == IF s.gaveUp /\ g.recs = << >> THEN << >> ELSE s.arena
BackToModel(st) == RestoredBasis(Stack, FoldLeft(AggBasis, st, g.recs))
Widened(f, S) == [k \in S |-> IF k \in DOMAIN f THEN f[k] ELSE 0]
Basis(c) ==
    [col |-> [j \in m.cols |-> IF j \in g.lp.cols THEN c[1][j] ELSE "STALE"],
     row |-> [i \in m.rows |-> IF i \in g.lp.rows THEN c[2][i] ELSE "STALE"]]

SimplexOptimal ==
    /\ pc = "simplex"
    /\ \E o \in OptimalAnswers(g.lp) :
         Optimal(Undone(Stack, FromReduced(AggUndone(o))),
                 g.lp.offset + Sum(g.lp.cols, LAMBDA j : g.lp.cost[j] * o.x[j]))

SimplexInfeasible ==
    /\ pc = "simplex" /\ ~HasPoint(g.lp)
    /\ \E y \in {f \in [g.lp.rows -> Multipliers] : IsFarkas(g.lp, f)},
          c \in AnyBasis(g.lp) :
            LET mid == FoldLeft(AggFarkas, Widened(y, m.rows), Reverse(g.recs))
            IN  NoPoint(LiftedFarkas(Stack, mid), TRUE, BackToModel(Basis(c)))

SimplexUnbounded ==
    /\ pc = "simplex" /\ HasPoint(g.lp)
    /\ \E d \in {f \in [g.lp.cols -> Multipliers] : IsRay(g.lp, f)},
          c \in AnyBasis(g.lp) :
            LET mid == FoldLeft(AggRay, Widened(d, m.cols), Reverse(g.recs))
            IN  Answers([status |-> "UNBOUNDED", basisOk |-> TRUE,
                         ray |-> LiftedRay(Stack, mid)],
                        BackToModel(Basis(c)), Zero(m.cols))

\* A limit or a callback.
SimplexStopped ==
    /\ pc = "simplex"
    /\ \E c \in AnyBasis(g.lp) :
         Answers([status |-> "STOPPED", basisOk |-> TRUE],
                 BackToModel(Basis(c)), Zero(m.cols))

\* The next solve of the same object, some of whose costs, boxes and sides
\* changed: the start stays.
SolveAgain ==
    /\ pc = "done" /\ solves < MaxSolves
    /\ m' \in Edits(m)
    /\ node' \in BOOLEAN
    /\ pc' = "rows" /\ at' = 1 /\ round' = 1 /\ changed' = FALSE
    /\ s' = Fresh(m') /\ g' = Cold(m') /\ ans' = NotRun
    /\ solves' = solves + 1
    /\ UNCHANGED <<start, solCol>>

Reduce == Reduction /\ UNCHANGED <<m, start, solCol, node, aggVars>>

Next ==
    \/ Reduce \/ GiveUp \/ EndOfReductions \/ ToTheSimplex
    \/ \E i \in m.rows : \/ InfeasibleByPresolve(i)
                         \/ \E j \in m.cols : Substitute(i, j)
    \/ EndOfAggregation
    \/ SolvedByPresolve
    \/ SimplexOptimal \/ SimplexInfeasible \/ SimplexUnbounded
    \/ SimplexStopped
    \/ SolveAgain

Spec == Init /\ [][Next]_vars

------------------------------------------------------------------------------
(* Properties.                                                               *)

\* A postsolved optimum is one of the model: a point of its own boxes and rows,
\* activities that are the rows', duals and reduced costs that belong together
\* and have the signs of an optimum, and the value the reduced model ended at.
\* A model presolve gave up on has none.
AnswerHolds ==
    ans.status = "OPTIMAL" =>
        LET o == ans.o
            Signed(v, lo, hi, q) == (v # lo => q <= 0) /\ (v # hi => q >= 0)
        IN  /\ Feasible(m, o.x)
            /\ \A i \in m.rows :
                 /\ o.act[i] = Activity(m, i, o.x)
                 /\ Signed(o.act[i], m.rl[i], m.ru[i], m.sigma * o.y[i])
            /\ \A j \in m.cols :
                 /\ o.d[j] = ReducedCost(m.cost[j], j, o.y)
                 /\ Signed(o.x[j], m.cl[j], m.cu[j], m.sigma * o.d[j])
            /\ ans.value = ans.rest
            /\ ~s.gaveUp

\* The basis of an optimum is the optimum's: as many basic columns as rows off
\* the basis, their matrix not singular, every place off the basis where its
\* status says, no dual in it.  Any solve that ends with a basis leaves the
\* model a whole one, and a start the aggregator took reaches the simplex whole.
BasisHolds ==
    /\ ans.basisOk /\ ~s.gaveUp => Basics(start, m) = Cardinality(m.rows)
    /\ pc = "simplex" /\ Warm /\ g.recs # << >> =>
           Basics(MidStart, g.lp) = Cardinality(g.lp.rows)
    /\ ans.status = "OPTIMAL" =>
        LET o == ans.o
            K == {j \in m.cols : o.cs[j] = "BASIC"}
            R == {i \in m.rows : o.rs[i] # "BASIC"}
            AtSide(v, c, lo, hi, q) == \/ v = SideOf(c, lo, hi)
                                       \/ q = 0 /\ v \in {lo, hi}
        IN  /\ Det(Part(m, R, K)) # 0
            /\ \A j \in m.cols :
                 IF j \in K THEN o.d[j] = 0
                 ELSE AtSide(o.x[j], o.cs[j], m.cl[j], m.cu[j], o.d[j])
            /\ \A i \in m.rows :
                 IF i \in R THEN AtSide(o.act[i], o.rs[i], m.rl[i], m.ru[i],
                                       o.y[i])
                 ELSE o.y[i] = 0

\* A certificate of what was left, and presolve's own, is one of the model.
CertificateHolds ==
    /\ ans.status = "INFEASIBLE" /\ ~s.gaveUp => IsFarkas(m, ans.farkas)
    /\ ans.status = "UNBOUNDED" /\ ~s.gaveUp => IsRay(m, ans.ray)
=============================================================================
