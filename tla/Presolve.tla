------------------------------- MODULE Presolve -------------------------------
(***************************************************************************)
(* Presolve (src/src/presolve.c): the rounds of reductions over a linear   *)
(* program, the stack they leave, and how postsolve undoes the stack on an *)
(* answer, a certificate or a basis of what was left.                      *)
(*                                                                         *)
(* A linear program is a record with                                       *)
(*   rows, cols    the indices that are there: the code's maps from the    *)
(*                 reduced model to the model are the identity here        *)
(*   a             a[i][j], the matrix                                     *)
(*   cl, cu, cost  of the columns; rl, ru of the rows                      *)
(*   sigma         1 to minimise, -1 to maximise                           *)
(*   offset        the objective's constant                                *)
(* Numbers are exact, so every tolerance is 0 and a margin is strictness;  *)
(* boxes are not inverted and the matrix has no entry that is zero.        *)
(***************************************************************************)
EXTENDS Integers, FiniteSetsExt, SequencesExt, TLC

CONSTANTS
    Inf,
    Stale,          \* what an array holds where nothing was written yet
    Models,         \* the programs that are solved
    MaxRounds,      \* JM_PRESOLVE_ROUNDS
    Unit            \* values, costs and multipliers are in 1/Unit

Finite(v) == v # Inf /\ v # -Inf
Abs(v) == IF v < 0 THEN -v ELSE v
Larger(u, v) == IF u < v THEN v ELSE u
Smaller(u, v) == IF u < v THEN u ELSE v

\* With an infinite operand as the code's doubles have it.
Times(k, v) == CASE k = 0 -> 0
                 [] Finite(v) -> k * v
                 [] OTHER -> IF (k > 0) = (v > 0) THEN Inf ELSE -Inf
Minus(u, v) == CASE ~Finite(u) -> u
                 [] Finite(v) -> u - v
                 [] OTHER -> -v
Over(v, k) ==
    IF ~Finite(v) THEN Times(k, v)
    ELSE LET n == IF k < 0 THEN -v ELSE v
         IN  IF n % Abs(k) = 0 THEN n \div Abs(k)
             ELSE Assert(FALSE, "a quotient that is not whole")

Sum(S, Of(_)) == MapThenSumSet(Of, S)

\* Evaluated once.
Listed(f) == Tail(<<0>> \o f)

RowCols(lp, i) == {j \in lp.cols : lp.a[i][j] # 0}
ColRows(lp, j) == {i \in lp.rows : lp.a[i][j] # 0}
FreeCol(lp, j) == ~Finite(lp.cl[j]) /\ ~Finite(lp.cu[j])

\* The activity a row has at least, and at most, from the columns J.
LeastAct(lp, i, J) ==
    LET End(j) == IF lp.a[i][j] > 0 THEN lp.cl[j] ELSE lp.cu[j]
    IN  IF \E j \in J : ~Finite(End(j)) THEN -Inf
        ELSE Sum(J, LAMBDA j : lp.a[i][j] * End(j))
MostAct(lp, i, J) ==
    LET End(j) == IF lp.a[i][j] > 0 THEN lp.cu[j] ELSE lp.cl[j]
    IN  IF \E j \in J : ~Finite(End(j)) THEN Inf
        ELSE Sum(J, LAMBDA j : lp.a[i][j] * End(j))

------------------------------------------------------------------------------
(* The reductions.                                                           *)

VARIABLES
    m,          \* the model
    start,      \* its starting basis, or NoStart
    solCol,     \* sol_col, what the last solve left
    node,       \* cfg.node_solve
    pc,         \* the pass, or what follows
    at,         \* the next row or column of the pass
    round, changed,
    s           \* the program being reduced, with what presolve keeps on it

NoStart == [col |-> << >>, row |-> << >>]

\* lp: the live rows and columns and their current numbers; frozen: row_frozen;
\* pending: col_pending_dual; colDeg, rowDeg: counters, never recounted.
Fresh(lp) ==
    [lp |-> lp, frozen |-> {}, pending |-> {},
     colDeg |-> [j \in lp.cols |-> Cardinality(ColRows(lp, j))],
     rowDeg |-> [i \in lp.rows |-> Cardinality(RowCols(lp, i))],
     arena |-> << >>, gaveUp |-> FALSE]

TheCol(i) == Min(RowCols(s.lp, i))
TheRow(j) == Min(ColRows(s.lp, j))

\* What a row with one column left says of the column.
ImpliedLo(i, j) ==
    Over(IF s.lp.a[i][j] > 0 THEN s.lp.rl[i] ELSE s.lp.ru[i], s.lp.a[i][j])
ImpliedHi(i, j) ==
    Over(IF s.lp.a[i][j] > 0 THEN s.lp.ru[i] ELSE s.lp.rl[i], s.lp.a[i][j])

RowKind(i) ==
    CASE i \notin s.lp.rows \ s.frozen \/ s.rowDeg[i] > 1 -> "none"
      [] s.rowDeg[i] = 0 ->
           IF s.lp.rl[i] > 0 \/ s.lp.ru[i] < 0 THEN "unreachable" ELSE "empty"
      [] OTHER ->
           LET j == TheCol(i) IN
           IF s.colDeg[j] = 1 /\ s.lp.cost[j] = 0 /\ FreeCol(s.lp, j)
           THEN "free"
           ELSE IF Larger(ImpliedLo(i, j), s.lp.cl[j]) >
                      Smaller(ImpliedHi(i, j), s.lp.cu[j])
           THEN "clash" ELSE "singleton"

\* ps_empty_col_value; Inf when the objective has no end on it.
RestAt(lo, hi, c) ==
    CASE c > 0 -> IF Finite(lo) THEN lo ELSE Inf
      [] c < 0 -> IF Finite(hi) THEN hi ELSE Inf
      [] Finite(lo) -> lo
      [] Finite(hi) -> hi
      [] OTHER -> 0
EmptyValue(j) == RestAt(s.lp.cl[j], s.lp.cu[j], m.sigma * s.lp.cost[j])

\* What equality row i says of column j, when the others are in their boxes.
ImpliedBox(lp, i, j) ==
    LET a == lp.a[i][j]
        J == RowCols(lp, i) \ {j}
        low == Minus(lp.rl[i], MostAct(lp, i, J))
        high == Minus(lp.rl[i], LeastAct(lp, i, J))
    IN  IF a > 0 THEN <<Over(low, a), Over(high, a)>>
        ELSE <<Over(high, a), Over(low, a)>>
Equality(lp, i) == Finite(lp.rl[i]) /\ lp.rl[i] = lp.ru[i]

\* The one row of column j keeps it off its bounds.
ImpliedFree(j) ==
    /\ Cardinality(ColRows(m, j)) = 1 /\ s.colDeg[j] = 1
    /\ \E i \in ColRows(m, j) \cap (s.lp.rows \ s.frozen) :
         LET box == ImpliedBox(s.lp, i, j)
         IN  /\ Equality(m, i) /\ Equality(s.lp, i)
             /\ Finite(s.lp.cl[j]) => box[1] > s.lp.cl[j]
             /\ Finite(s.lp.cu[j]) => box[2] < s.lp.cu[j]

HeldByStart(j) == node /\ start # NoStart /\ start.col[j] = "BASIC"

ColKind(j) ==
    CASE j \notin s.lp.cols -> "none"
      [] s.lp.cl[j] = s.lp.cu[j] /\ ~HeldByStart(j) -> "fixed"
      [] s.colDeg[j] = 0 ->
           IF EmptyValue(j) = Inf THEN "unbounded" ELSE "empty"
      [] /\ s.colDeg[j] = 1 /\ s.lp.cost[j] = 0 /\ FreeCol(s.lp, j)
         /\ TheRow(j) \notin s.frozen /\ s.rowDeg[TheRow(j)] = 1 -> "free"
      [] s.colDeg[j] = 1 /\ s.lp.cost[j] = 0 /\ ~FreeCol(s.lp, j) ->
           "singleton"
      [] OTHER -> IF ImpliedFree(j) THEN "implied" ELSE "none"

\* A row that its columns cannot reach, reach in one way, or cannot leave.
TooHigh(i) == Finite(s.lp.ru[i]) /\
              LeastAct(s.lp, i, RowCols(s.lp, i)) > s.lp.ru[i]
TooLow(i) == Finite(s.lp.rl[i]) /\
             MostAct(s.lp, i, RowCols(s.lp, i)) < s.lp.rl[i]
ForcesHi(i) == Finite(s.lp.ru[i]) /\
               LeastAct(s.lp, i, RowCols(s.lp, i)) >= s.lp.ru[i]
ForcesLo(i) == Finite(s.lp.rl[i]) /\
               MostAct(s.lp, i, RowCols(s.lp, i)) <= s.lp.rl[i]
WantsLo(i, j) == (s.lp.a[i][j] > 0) = ForcesHi(i)
AtOwnBounds(i) ==
    \A j \in RowCols(s.lp, i) :
        /\ j \notin s.pending
        /\ IF WantsLo(i, j) THEN s.lp.cl[j] = m.cl[j] ELSE s.lp.cu[j] = m.cu[j]

SideKind(i) ==
    CASE i \notin s.lp.rows \ s.frozen \/ s.rowDeg[i] < 2 -> "none"
      [] TooHigh(i) \/ TooLow(i) -> "unreachable"
      [] (ForcesHi(i) \/ ForcesLo(i)) /\ AtOwnBounds(i) -> "forcing"
      [] /\ LeastAct(s.lp, i, RowCols(s.lp, i)) >= s.lp.rl[i]
         /\ MostAct(s.lp, i, RowCols(s.lp, i)) <= s.lp.ru[i] -> "redundant"
      [] OTHER -> "none"

\* The first place of the pass, from where it is, at which something applies.
Turn(pass, Kind(_), last, k, kind) ==
    /\ pc = pass /\ k >= at
    /\ Kind(k) = kind
    /\ \A h \in at .. k - 1 : Kind(h) = "none"

RowTurn(i, kind) == Turn("rows", RowKind, m.rows, i, kind)
ColTurn(j, kind) == Turn("cols", ColKind, m.cols, j, kind)
SideTurn(i, kind) == Turn("sides", SideKind, m.rows, i, kind)

Push(t, rec) == [t EXCEPT !.arena = Append(@, rec)]
DropRow(t, i) == [t EXCEPT !.lp.rows = @ \ {i}]
DropCol(t, j) == [t EXCEPT !.lp.cols = @ \ {j}]
DownBy(deg, S) == [k \in DOMAIN deg |-> IF k \in S THEN deg[k] - 1 ELSE deg[k]]

\* A column leaves at a value, for the rows that are live to do without it.
Fix(t, j, v, coef) ==
    LET R == ColRows(t.lp, j)
        Shifted(b) == [i \in DOMAIN b |->
                         IF i \in R THEN Minus(b[i], t.lp.a[i][j] * v)
                         ELSE b[i]]
    IN  Push([DropCol(t, j) EXCEPT
                !.lp.rl = Shifted(@), !.lp.ru = Shifted(@),
                !.lp.offset = @ + t.lp.cost[j] * v,
                !.rowDeg = DownBy(@, R)],
             [tag |-> "FIXED_COL", j |-> j, value |-> v,
              cost |-> t.lp.cost[j], coef |-> coef])

presolveVars == <<pc, at, round, changed, s>>
fixed == <<m, start, solCol, node>>

Reduces(k, t) ==
    /\ s' = t /\ at' = k + 1 /\ changed' = TRUE
    /\ UNCHANGED <<pc, round>>

EmptyRow(i) ==
    /\ RowTurn(i, "empty")
    /\ Reduces(i, Push(DropRow(s, i), [tag |-> "EMPTY_ROW", i |-> i]))

\* A free column in a row of its own.
FreeRec(i, j) == [tag |-> "FREE_COL_SINGLETON", i |-> i, j |-> j,
                  coef |-> s.lp.a[i][j], lo |-> s.lp.rl[i], hi |-> s.lp.ru[i]]
FreePair(k, i, j) == Reduces(k, Push(DropCol(DropRow(s, i), j), FreeRec(i, j)))
FreeRow(i) == RowTurn(i, "free") /\ FreePair(i, i, TheCol(i))
FreeColumn(j) == ColTurn(j, "free") /\ FreePair(j, TheRow(j), j)

SingletonRow(i) ==
    /\ RowTurn(i, "singleton")
    /\ LET j == TheCol(i)
           lo == Larger(ImpliedLo(i, j), s.lp.cl[j])
           hi == Smaller(ImpliedHi(i, j), s.lp.cu[j])
       IN  Reduces(i, Push(
             [DropRow(s, i) EXCEPT !.lp.cl[j] = lo, !.lp.cu[j] = hi,
                                   !.colDeg[j] = @ - 1,
                                   !.pending = @ \cup {j}],
             [tag |-> "SINGLETON_ROW", i |-> i, j |-> j,
              coef |-> s.lp.a[i][j], lo |-> lo, hi |-> hi,
              tightensLo |-> ImpliedLo(i, j) > s.lp.cl[j],
              tightensHi |-> ImpliedHi(i, j) < s.lp.cu[j]]))

FixedCol(j) ==
    /\ ColTurn(j, "fixed")
    /\ Reduces(j, Fix(s, j, s.lp.cl[j], 0))

EmptyCol(j) ==
    /\ ColTurn(j, "empty")
    /\ Reduces(j, Push(
         [DropCol(s, j) EXCEPT !.lp.offset = @ + s.lp.cost[j] * EmptyValue(j)],
         [tag |-> "EMPTY_COL", j |-> j, value |-> EmptyValue(j),
          cost |-> s.lp.cost[j], coef |-> 0]))

\* The row takes the column's place: it has room for what the column can do,
\* and no other reduction touches it again.
SingletonCol(j) ==
    /\ ColTurn(j, "singleton")
    /\ LET i == TheRow(j)
           a == s.lp.a[i][j]
           ends == {Times(a, s.lp.cl[j]), Times(a, s.lp.cu[j])}
       IN  Reduces(j, Push(
             [DropCol(s, j) EXCEPT !.lp.rl[i] = Minus(@, Max(ends)),
                                   !.lp.ru[i] = Minus(@, Min(ends)),
                                   !.rowDeg[i] = @ - 1,
                                   !.frozen = @ \cup {i}],
             [tag |-> "SINGLETON_COL", i |-> i, j |-> j, coef |-> a,
              lo |-> s.lp.cl[j], hi |-> s.lp.cu[j],
              rowLo |-> s.lp.rl[i], rowHi |-> s.lp.ru[i]]))

\* The equality row says what the column is, and goes with it.
ImpliedFreeCol(j) ==
    /\ ColTurn(j, "implied")
    /\ LET i == TheRow(j)
           b == s.lp.rl[i]
           y == Over(s.lp.cost[j], s.lp.a[i][j])
           J == RowCols(s.lp, i) \ {j}
       IN  Reduces(j, Push(
             [DropCol(DropRow(s, i), j) EXCEPT
                !.lp.cost = [k \in DOMAIN @ |->
                    IF k \in J THEN @[k] - y * s.lp.a[i][k] ELSE @[k]],
                !.lp.offset = @ + y * b,
                !.colDeg = DownBy(@, J)],
             [tag |-> "IMPLIED_FREE_COL", i |-> i, j |-> j,
              coef |-> s.lp.a[i][j], value |-> b, cost |-> s.lp.cost[j]]))

\* The row can be met in one way only: each of its columns at a bound.
ForcingRow(i) ==
    /\ SideTurn(i, "forcing")
    /\ LET J == RowCols(s.lp, i)
           Step(t, j) == Fix(t, j, IF WantsLo(i, j) THEN s.lp.cl[j]
                                   ELSE s.lp.cu[j], s.lp.a[i][j])
       IN  Reduces(i, Push(
             DropRow(FoldLeft(Step, s, SetToSortSeq(J, <)), i),
             [tag |-> "FORCING_ROW", i |-> i, n |-> Cardinality(J),
              hi |-> ForcesHi(i)]))

RedundantRow(i) ==
    /\ SideTurn(i, "redundant")
    /\ Reduces(i, Push(
         [DropRow(s, i) EXCEPT !.colDeg = DownBy(@, RowCols(s.lp, i))],
         [tag |-> "REDUNDANT_ROW", i |-> i]))

\* From one pass to the next, and round again while something changes.
Pass(pass, Kind(_), S, next) ==
    /\ pc = pass /\ \A k \in S : k >= at => Kind(k) = "none"
    /\ pc' = next /\ at' = 1
    /\ UNCHANGED <<round, changed, s>>
EndOfRows == Pass("rows", RowKind, m.rows, "cols")
EndOfCols == Pass("cols", ColKind, m.cols, "sides")

RoundCap == Smaller(MaxRounds, Cardinality(m.rows) + Cardinality(m.cols) + 1)
EndOfRound ==
    /\ pc = "sides"
    /\ \A i \in m.rows : i >= at => SideKind(i) = "none"
    /\ at' = 1 /\ changed' = FALSE
    /\ IF changed /\ round < RoundCap
       THEN pc' = "rows" /\ round' = round + 1
       ELSE pc' = "frozen" /\ UNCHANGED round
    /\ UNCHANGED s

Reduction ==
    \/ \E i \in m.rows : \/ EmptyRow(i) \/ FreeRow(i) \/ SingletonRow(i)
                         \/ ForcingRow(i) \/ RedundantRow(i)
    \/ \E j \in m.cols : \/ FixedCol(j) \/ EmptyCol(j) \/ FreeColumn(j)
                         \/ SingletonCol(j) \/ ImpliedFreeCol(j)
    \/ EndOfRows \/ EndOfCols \/ EndOfRound

\* The multiplier of a row that proves there is no point.
RowProof(i) ==
    LET up == CASE RowKind(i) = "unreachable" -> s.lp.rl[i] > 0
                [] RowKind(i) = "clash" ->
                     (ImpliedLo(i, TheCol(i)) > s.lp.cu[TheCol(i)])
                       = (s.lp.a[i][TheCol(i)] > 0)
                [] OTHER -> ~TooHigh(i)
    IN  IF up THEN Unit ELSE -Unit
Unreachable(i) ==
    \/ RowTurn(i, "unreachable") \/ RowTurn(i, "clash")
    \/ SideTurn(i, "unreachable")
    \/ /\ pc = "frozen" /\ i \in s.lp.rows \cap s.frozen
       /\ TooHigh(i) \/ TooLow(i)
       /\ \A h \in s.lp.rows \cap s.frozen :
              h < i => ~TooHigh(h) /\ ~TooLow(h)
GivesUp == \E j \in m.cols : ColTurn(j, "unbounded")
ReductionsEnd ==
    /\ pc = "frozen"
    /\ \A i \in s.lp.rows \cap s.frozen : ~TooHigh(i) /\ ~TooLow(i)

------------------------------------------------------------------------------
(* Postsolve: an answer is a record with x, d, cs (value, reduced cost and    *)
(* status of the columns) and act, y, rs (activity, dual, status of the rows).*)

Activity(lp, i, x) == Sum(lp.cols, LAMBDA j : lp.a[i][j] * x[j])
ReducedCost(c, j, y) == c - Sum(m.rows, LAMBDA i : m.a[i][j] * y[i])
Column(j, v) == [i \in m.rows |-> m.a[i][j] * v]
Added(u, v) == [k \in DOMAIN u |-> u[k] + v[k]]

FixedStatus(j, v, dc) ==
    CASE m.cl[j] = m.cu[j] -> IF dc < 0 THEN "AT_UPPER" ELSE "AT_LOWER"
      [] FreeCol(m, j) -> "FREE"
      [] OTHER -> IF v = m.cu[j] THEN "AT_UPPER" ELSE "AT_LOWER"

\* Column j stands at v, and every row of the model has its share of it.
Stands(o, j, v, d, cs) ==
    [o EXCEPT !.x[j] = v, !.d[j] = d, !.cs[j] = cs,
              !.act = Added(@, Column(j, v))]
RowIs(o, i, y, rs) == [o EXCEPT !.y[i] = y, !.rs[i] = rs]

UndoFixed(o, rec) ==
    LET j == rec.j
        d == ReducedCost(rec.cost, j, o.y)
        cs == IF rec.coef = 0 THEN FixedStatus(j, rec.value, m.sigma * d)
              ELSE o.cs[j]
    IN  Stands(o, j, rec.value, IF cs = "BASIC" THEN 0 ELSE d, cs)

\* A column at a bound the row gave it hands its reduced cost to the row.
UndoSingletonRow(o, rec) ==
    LET i == rec.i
        j == rec.j
        dc == m.sigma * o.d[j]
        Up == rec.lo = rec.hi => dc >= 0
        Down == rec.lo = rec.hi => dc <= 0
        own == (o.x[j] = m.cl[j] /\ Up) \/ (o.x[j] = m.cu[j] /\ Down)
        atLo == rec.tightensLo /\ o.x[j] = rec.lo /\ Up
        atHi == rec.tightensHi /\ o.x[j] = rec.hi /\ Down
        r == [o EXCEPT !.act[i] = rec.coef * o.x[j]]
    IN  IF o.cs[j] # "BASIC" /\ ~own /\ (atLo \/ atHi)
        THEN RowIs([r EXCEPT !.d[j] = 0, !.cs[j] = "BASIC"], i,
                   Over(o.d[j], rec.coef),
                   IF atLo = (rec.coef > 0) THEN "AT_LOWER" ELSE "AT_UPPER")
        ELSE RowIs(r, i, 0, "BASIC")

\* The column takes what the row has of it, or the row is at a side and the
\* column at the bound that side stands for.
UndoSingletonCol(o, rec) ==
    LET i == rec.i
        j == rec.j
        To(side) == Over(Minus(side, o.act[i]), rec.coef)
        wantLo == Larger(rec.lo,
                         To(IF rec.coef > 0 THEN rec.rowLo ELSE rec.rowHi))
        wantHi == Smaller(rec.hi,
                          To(IF rec.coef > 0 THEN rec.rowHi ELSE rec.rowLo))
        low == IF rec.coef > 0 THEN "AT_LOWER" ELSE "AT_UPPER"
        high == IF rec.coef > 0 THEN "AT_UPPER" ELSE "AT_LOWER"
        p == CASE o.rs[i] = low -> <<rec.hi, "AT_UPPER", o.rs[i]>>
               [] o.rs[i] = high -> <<rec.lo, "AT_LOWER", o.rs[i]>>
               [] wantLo = rec.lo /\ Finite(rec.lo) ->
                    <<rec.lo, "AT_LOWER", o.rs[i]>>
               [] wantLo = -Inf /\ wantHi # rec.hi -> <<wantHi, "BASIC", high>>
               [] wantLo = -Inf \/ wantLo >= rec.hi ->
                    <<rec.hi, "AT_UPPER", o.rs[i]>>
               [] OTHER -> <<wantLo, "BASIC", low>>
        d == -rec.coef * o.y[i]
        cs == IF m.cl[j] = m.cu[j] /\ p[2] # "BASIC"
              THEN FixedStatus(j, p[1], m.sigma * d) ELSE p[2]
    IN  [Stands(o, j, p[1], d, cs) EXCEPT !.rs[i] = p[3]]

UndoFree(o, rec) ==
    LET side == CASE Finite(rec.lo) -> rec.lo
                  [] Finite(rec.hi) -> rec.hi
                  [] OTHER -> 0
        v == Over(side, rec.coef)
    IN  RowIs(Stands(o, rec.j, v, 0, IF v = 0 THEN "FREE" ELSE "BASIC"),
              rec.i, 0, CASE v = 0 -> "BASIC"
                          [] Finite(rec.lo) -> "AT_LOWER"
                          [] OTHER -> "AT_UPPER")

UndoImpliedFree(o, rec) ==
    RowIs(Stands(o, rec.j, Over(rec.value - o.act[rec.i], rec.coef),
                 0, "BASIC"),
          rec.i, Over(rec.cost, rec.coef), "AT_LOWER")

\* The row's dual is the least that leaves every column it fixed a reduced
\* cost of the right sign; the column it leaves none becomes basic.
UndoForcing(stack, o, r) ==
    LET rec == stack[r]
        i == rec.i
        T == 1 .. rec.n
        fix(t) == stack[r - t]
        Status(u, t) ==
            FixedStatus(fix(t).j, fix(t).value,
                        m.sigma * ReducedCost(fix(t).cost, fix(t).j, u.y))
        lim == [t \in T |->
                  m.sigma * Over(ReducedCost(fix(t).cost, fix(t).j, o.y),
                                 fix(t).coef)]
        least == IF rec.hi THEN Min({lim[t] : t \in T})
                 ELSE Max({lim[t] : t \in T})
        y == IF rec.hi THEN Smaller(least, 0) ELSE Larger(least, 0)
        pick == IF y = 0 THEN {} ELSE {Min({t \in T : lim[t] = least})}
        dual == RowIs(o, i, m.sigma * y,
                      CASE y = 0 -> "BASIC"
                        [] rec.hi -> "AT_UPPER"
                        [] OTHER -> "AT_LOWER")
        Turned(t) == IF t \in pick THEN "BASIC" ELSE Status(dual, t)
    IN  [dual EXCEPT !.cs = [j \in DOMAIN @ |->
            IF \E t \in T : fix(t).j = j
            THEN Turned(CHOOSE t \in T : fix(t).j = j) ELSE @[j]]]

Undo(stack, o, r) ==
    LET rec == stack[r]
    IN  CASE rec.tag \in {"FIXED_COL", "EMPTY_COL"} -> UndoFixed(o, rec)
          [] rec.tag = "EMPTY_ROW" ->
               RowIs([o EXCEPT !.act[rec.i] = 0], rec.i, 0, "BASIC")
          [] rec.tag = "SINGLETON_ROW" -> UndoSingletonRow(o, rec)
          [] rec.tag = "SINGLETON_COL" -> UndoSingletonCol(o, rec)
          [] rec.tag = "FREE_COL_SINGLETON" -> UndoFree(o, rec)
          [] rec.tag = "IMPLIED_FREE_COL" -> UndoImpliedFree(o, rec)
          [] rec.tag = "REDUNDANT_ROW" -> RowIs(o, rec.i, 0, "BASIC")
          [] rec.tag = "FORCING_ROW" -> UndoForcing(stack, o, r)

Indices(stack) == [r \in DOMAIN stack |-> r]
\* Fault: the stack is undone in the order it was made.
LastFirst_Forward(stack) == Indices(stack)
LastFirst(stack) == Reverse(Indices(stack))

Undone(stack, o) ==
    FoldLeft(LAMBDA u, r : Undo(stack, u, r), o, LastFirst(stack))

\* What the replay starts from: what was left has its answer, and the rows
\* that died what the columns that were left give them.
FromReduced(red) ==
    [x  |-> [j \in m.cols |-> IF j \in s.lp.cols THEN red.x[j] ELSE Stale],
     d  |-> [j \in m.cols |-> IF j \in s.lp.cols THEN red.d[j] ELSE Stale],
     cs |-> [j \in m.cols |-> IF j \in s.lp.cols THEN red.cs[j] ELSE "STALE"],
     act |-> [i \in m.rows |->
                IF i \in s.lp.rows THEN red.act[i]
                ELSE Sum(s.lp.cols, LAMBDA j : m.a[i][j] * red.x[j])],
     y  |-> [i \in m.rows |-> IF i \in s.lp.rows THEN red.y[i] ELSE 0],
     rs |-> [i \in m.rows |-> IF i \in s.lp.rows THEN red.rs[i] ELSE "STALE"]]

\* Nothing was left: the two statuses begin at BASIC.
FromNothing ==
    [x |-> [j \in m.cols |-> Stale], d |-> [j \in m.cols |-> Stale],
     cs |-> [j \in m.cols |-> "BASIC"], act |-> [i \in m.rows |-> 0],
     y |-> [i \in m.rows |-> 0], rs |-> [i \in m.rows |-> "BASIC"]]

------------------------------------------------------------------------------
(* Certificates.                                                             *)

\* Fault: the box the model has.
FinalBox_Own(stack, j) == <<m.cl[j], m.cu[j]>>

FinalBox(stack, j) ==
    LET Of(rec) == rec.tag \in {"SINGLETON_ROW", "FIXED_COL", "EMPTY_COL"}
                   /\ rec.j = j
        last == {r \in DOMAIN stack : Of(stack[r])}
    IN  IF last = {} THEN <<m.cl[j], m.cu[j]>>
        ELSE LET rec == stack[Max(last)]
             IN  IF rec.tag = "SINGLETON_ROW" THEN <<rec.lo, rec.hi>>
                 ELSE <<rec.value, rec.value>>

Weight(y, j) == -ReducedCost(0, j, y)

\* l.y: the certificate; l.absorbed: columns whose bound a row answered for.
LiftSingletonRow(stack, l, rec) ==
    LET g == Weight(l.y, rec.j)
        box == FinalBox(stack, rec.j)
        owns == IF g > 0
                THEN /\ box[2] # m.cu[rec.j]
                     /\ rec.tightensHi /\ rec.hi = box[2]
                ELSE /\ box[1] # m.cl[rec.j]
                     /\ rec.tightensLo /\ rec.lo = box[1]
    IN  IF rec.j \notin l.absorbed /\ g # 0 /\ owns
        THEN [y |-> [l.y EXCEPT ![rec.i] = Over(-g, rec.coef)],
              absorbed |-> l.absorbed \cup {rec.j}]
        ELSE l
LiftForcing(stack, l, r) ==
    LET rec == stack[r]
        lims == {Over(-Weight(l.y, stack[r - t].j), stack[r - t].coef) :
                    t \in 1 .. rec.n}
        y == IF rec.hi THEN Smaller(Min(lims), 0) ELSE Larger(Max(lims), 0)
    IN  [l EXCEPT !.y[rec.i] = y]
LiftRow(stack, l, r) ==
    CASE stack[r].tag = "SINGLETON_ROW" -> LiftSingletonRow(stack, l, stack[r])
      [] stack[r].tag = "FORCING_ROW" -> LiftForcing(stack, l, r)
      [] OTHER -> l
LiftedFarkas(stack, y) ==
    FoldLeft(LAMBDA l, r : LiftRow(stack, l, r), [y |-> y, absorbed |-> {}],
             LastFirst(stack)).y

\* l.d: the ray; l.move: what it moves the rows by.
LiftCol(l, rec) ==
    LET by == l.move[rec.i]
        dj == Over(-by, rec.coef)
        side == IF by > 0 THEN m.ru[rec.i] ELSE m.rl[rec.i]
        open == IF dj > 0 THEN m.cu[rec.j] ELSE m.cl[rec.j]
    IN  IF \/ by = 0 \/ Finite(open)
           \/ rec.tag = "SINGLETON_COL" /\ ~Finite(side)
        THEN l
        ELSE [d |-> [l.d EXCEPT ![rec.j] = dj],
              move |-> Added(l.move, Column(rec.j, dj))]
ColTags == {"SINGLETON_COL", "IMPLIED_FREE_COL", "FREE_COL_SINGLETON"}
LiftedRay(stack, d) ==
    FoldLeft(LAMBDA l, r : IF stack[r].tag \in ColTags THEN LiftCol(l, stack[r])
                           ELSE l,
             [d |-> d, move |-> [i \in m.rows |-> Activity(m, i, d)]],
             LastFirst(stack)).d

------------------------------------------------------------------------------
(* Bases: what a solve of what is left starts from, and what a solve that    *)
(* did not end leaves the model with.                                        *)

Basics(st, lp) == Cardinality({j \in lp.cols : st.col[j] = "BASIC"})
                  + Cardinality({i \in lp.rows : st.row[i] = "BASIC"})

FreedRow(i) ==
    /\ ~Finite(s.lp.rl[i]) /\ ~Finite(s.lp.ru[i])
    /\ Finite(m.rl[i]) \/ Finite(m.ru[i])
\* A row at a side stands for its column at the bound it gave it, and so does
\* a basic column that the last answer has at a bound.
MapSingletonRow(st, rec) ==
    LET rst == start.row[rec.i]
        held == CASE rst = "AT_LOWER" ->
                       IF rec.coef > 0 THEN "AT_LOWER" ELSE "AT_UPPER"
                  [] rst = "AT_UPPER" ->
                       IF rec.coef > 0 THEN "AT_UPPER" ELSE "AT_LOWER"
                  [] start.col[rec.j] = "BASIC" /\ solCol # << >> ->
                       CASE solCol[rec.j] = s.lp.cl[rec.j] -> "AT_LOWER"
                         [] solCol[rec.j] = s.lp.cu[rec.j] -> "AT_UPPER"
                         [] OTHER -> st.col[rec.j]
                  [] OTHER -> st.col[rec.j]
    IN  IF rec.tag = "SINGLETON_ROW" /\ rec.j \in s.lp.cols
        THEN [st EXCEPT !.col[rec.j] = held] ELSE st
\* Rows whose basic column died take its place, when that makes the count.
Repaired(st) ==
    LET short == Cardinality(s.lp.rows) - Basics(st, s.lp)
        Heir(r) == LET rec == s.arena[r] IN
                   /\ rec.tag = "SINGLETON_COL" /\ rec.i \in s.lp.rows
                   /\ start.col[rec.j] = "BASIC" /\ st.row[rec.i] # "BASIC"
        heirs == {r \in DOMAIN s.arena : Heir(r)}
        first == {r \in heirs : \A q \in heirs :
                                  s.arena[q].i = s.arena[r].i => r <= q}
        taken == {s.arena[r].i : r \in
                    {r \in first : Cardinality({q \in first : q < r}) < short}}
    IN  IF Cardinality(first) < short THEN st
        ELSE [st EXCEPT !.row = [i \in DOMAIN @ |->
                                   IF i \in taken THEN "BASIC" ELSE @[i]]]
ReducedStart ==
    IF start = NoStart THEN NoStart
    ELSE Repaired(FoldLeft(MapSingletonRow,
           [start EXCEPT !.row = [i \in DOMAIN @ |->
              IF i \in s.lp.rows /\ FreedRow(i) THEN "BASIC" ELSE @[i]]],
           s.arena))

\* Fault: the row that went with its column stays basic.
Restore_RowStays(st, rec) ==
    CASE rec.tag = "FREE_COL_SINGLETON" -> [st EXCEPT !.col[rec.j] = "FREE"]
      [] rec.tag = "IMPLIED_FREE_COL" -> [st EXCEPT !.col[rec.j] = "BASIC"]
      [] OTHER -> st

Restore(st, rec) ==
    CASE rec.tag = "FREE_COL_SINGLETON" -> [st EXCEPT !.col[rec.j] = "FREE"]
      [] rec.tag = "IMPLIED_FREE_COL" ->
           [st EXCEPT !.col[rec.j] = "BASIC", !.row[rec.i] = "AT_LOWER"]
      [] rec.tag = "SINGLETON_ROW" ->
           IF (rec.tightensLo \/ rec.tightensHi) /\ st.col[rec.j] # "BASIC"
           THEN [st EXCEPT !.col[rec.j] = "BASIC",
                           !.row[rec.i] = IF rec.tightensHi THEN "AT_UPPER"
                                          ELSE "AT_LOWER"]
           ELSE [st EXCEPT !.row[rec.i] = "BASIC"]
      [] OTHER -> st
RestoredBasis(stack, st) ==
    FoldLeft(Restore,
             [col |-> [j \in m.cols |-> IF j \in s.lp.cols THEN st.col[j]
                                        ELSE "AT_LOWER"],
              row |-> [i \in m.rows |-> IF i \in s.lp.rows THEN st.row[i]
                                        ELSE "BASIC"]],
             stack)
=============================================================================
