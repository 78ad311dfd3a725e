-------------------------------- MODULE LpFile --------------------------------
(***************************************************************************)
(* LP format: jaos_write_lp (src/src/write.c) and jaos_read_lp             *)
(* (src/src/lpfmt.c).  A file is the sequence of its parts; the columns    *)
(* have no section of their own, so the reader numbers them as it meets    *)
(* their names.  A name the format cannot say is spelled another way, and  *)
(* a row with two bounds is two rows joined by a comment.                  *)
(***************************************************************************)
EXTENDS FileTerms

CONSTANT Unspeakable   \* names that jm_lp_name_ok refuses

LpNameOk(s) == s \notin Unspeakable

LpCurvedRange(c) == c.q # {} /\ c.lo # c.up /\ Finite(c.lo) /\ Finite(c.up)

LpRefuses(m) ==
    \/ Len(m.cones) > 0
    \/ \E i \in Rows(m) : LET c == m.rows[i] IN
          \/ LpCurvedRange(c)
          \/ c.lo = Inf \/ c.up = -Inf \/ c.lo > c.up
    \/ \E j \in Cols(m) : m.cols[j].lo = Inf \/ m.cols[j].up = -Inf
    \/ ~NamesUnique(m)

\* lp_substitute: the base with as many underscores as make it free.
LpSubstitute(taken, base) ==
    LET tries == <<base, base \o "_", base \o "__", base \o "___">>
    IN  tries[SelectInSeq(tries, LAMBDA s : s \notin taken)]

\* lp_spell_names: the names of the objective, the columns and the rows as
\* the file says them.  Each substitute is taken from then on.
LpSpelled(m) ==
    LET n == NumCol(m)
        all == <<ObjName(m)>> \o [j \in Cols(m) |-> ColName(m, j)]
                 \o [i \in Rows(m) |-> RowName(m, i)]
        base(k) == IF k = 1 THEN "obj"
                   ELSE IF k <= n + 1 THEN "c" \o ToString(k - 1)
                   ELSE "r" \o ToString(k - n - 1)
        Step(r, k) ==
            LET s == IF LpNameOk(all[k]) THEN all[k]
                     ELSE LpSubstitute(r.taken, base(k))
            IN  [taken |-> r.taken \cup {s}, names |-> Append(r.names, s)]
        names == FoldLeft(Step, [taken |-> {s \in ToSet(all) : LpNameOk(s)},
                                 names |-> << >>],
                          [k \in 1 .. Len(all) |-> k]).names
    IN  [m EXCEPT !.obj = names[1],
                  !.cols = [j \in Cols(m) |->
                              [@[j] EXCEPT !.name = names[j + 1]]],
                  !.rows = [i \in Rows(m) |->
                              [@[i] EXCEPT !.name = names[n + i + 1]]]]

LpRanged(c) == c.lo # c.up /\ c.lo # -Inf /\ c.up # Inf

\* Fault: the name of an upper side is not checked against the model's.
LpRangeNames_Unchecked(m) ==
    [i \in Rows(m) |->
       IF LpRanged(m.rows[i]) THEN m.rows[i].name \o "_hi" ELSE ""]

\* lp_range_names: the name of the upper side of each ranged row.
LpRangeNames(m) ==
    LET Step(r, i) ==
            IF ~LpRanged(m.rows[i]) THEN [r EXCEPT !.hi = Append(@, "")]
            ELSE LET s == LpSubstitute(r.taken, m.rows[i].name \o "_hi")
                 IN  [taken |-> r.taken \cup {s}, hi |-> Append(r.hi, s)]
        taken == {m.obj} \cup {m.cols[j].name : j \in Cols(m)}
                   \cup {m.rows[i].name : i \in Rows(m)}
    IN  FoldLeft(Step, [taken |-> taken, hi |-> << >>],
                 [i \in Rows(m) |-> i]).hi

LpTerms(m, coef, kept) ==
    LET js == Ascending(kept)
    IN  [k \in 1 .. Len(js) |-> <<m.cols[js[k]].name, coef[js[k]]>>]

\* A quadratic part in brackets: a row's halves its squares, the objective's
\* (over 2) doubles its products.
LpQuads(m, q, overTwo) ==
    LET ts == SetToSeq(q)
        Coef(t) == IF overTwo THEN IF t[1] = t[2] THEN t[3] ELSE 2 * t[3]
                   ELSE IF t[1] = t[2] THEN t[3] \div 2 ELSE t[3]
    IN  [k \in 1 .. Len(ts) |->
           <<m.cols[ts[k][1]].name, m.cols[ts[k][2]].name, Coef(ts[k])>>]

\* lp_row: an empty row is written with a zero term on the first column.
LpRow(m, i, label, rel, rhs) ==
    LET c == m.rows[i]
        empty == c.q = {} /\ \A j \in Cols(m) : c.coef[j] = 0
        kept == {j \in Cols(m) : c.coef[j] # 0 \/ (empty /\ j = 1)}
    IN  [label |-> label,
         ind |-> IF c.ind = 0 THEN << >> ELSE <<m.cols[c.ind].name, c.on>>,
         lin |-> LpTerms(m, c.coef, kept),
         quad |-> LpQuads(m, c.q, FALSE), rel |-> rel, rhs |-> rhs]

LpRows(m, i, hi) ==
    LET c == m.rows[i]
    IN  IF LpRanged(c)
        THEN <<LpRow(m, i, c.name, ">=", c.lo), LpRow(m, i, hi, "<=", c.up)>>
        ELSE IF c.lo = c.up THEN <<LpRow(m, i, c.name, "=", c.lo)>>
        ELSE IF c.lo = -Inf /\ c.up # Inf
             THEN <<LpRow(m, i, c.name, "<=", c.up)>>
        ELSE <<LpRow(m, i, c.name, ">=", c.lo)>>

LpBoundLines(c) ==
    CASE c.lo = 0 /\ c.up = Inf -> << >>
      [] c.lo = -Inf /\ c.up = Inf -> <<<<"free", c.name, 0, 0>>>>
      [] c.lo = c.up -> <<<<"=", c.name, c.lo, c.lo>>>>
      [] c.up = Inf -> <<<<">=", c.name, c.lo, 0>>>>
      [] OTHER -> <<<<"<=<=", c.name, c.lo, c.up>>>>

\* lp_write_body, of the model under its spelled names.
LpWrite(orig) ==
    LET m == LpSpelled(orig)
        hi == LpRangeNames(m)
        ranged == Ascending({i \in Rows(m) : LpRanged(m.rows[i])})
        Names(S) == LET js == Ascending(S)
                    IN  [k \in 1 .. Len(js) |-> m.cols[js[k]].name]
    IN  [ranges |-> [k \in 1 .. Len(ranged) |->
                       <<m.rows[ranged[k]].name, hi[ranged[k]]>>],
         sense |-> m.sense, obj |-> m.obj,
         lin |-> LpTerms(m, [j \in Cols(m) |-> m.cols[j].cost], Cols(m)),
         quad |-> LpQuads(m, m.q, TRUE), offset |-> m.offset,
         rows |-> FlattenSeq([i \in Rows(m) |-> LpRows(m, i, hi[i])]),
         bounds |-> FlattenSeq([j \in Cols(m) |-> LpBoundLines(m.cols[j])]),
         general |-> Names({j \in Cols(m) : m.cols[j].int}),
         semi |-> Names({j \in Cols(m) : m.cols[j].semi}),
         sos |-> [k \in 1 .. Len(m.sos) |->
                    [type |-> m.sos[k].type,
                     mem |-> [t \in 1 .. Len(m.sos[k].mem) |->
                                <<m.cols[m.sos[k].mem[t][1]].name,
                                  m.sos[k].mem[t][2]>>]]]]

---------------------------------------------------------------------------
\* Reading.

\* get_or_create_col: the names in the order the reader meets them.
LpColumns(f) ==
    LET firsts(ts) == [k \in 1 .. Len(ts) |-> ts[k][1]]
        pairs(ts) == FlattenSeq([k \in 1 .. Len(ts) |->
                                   <<ts[k][1], ts[k][2]>>])
        row(r) == (IF r.ind = << >> THEN << >> ELSE <<r.ind[1]>>)
                    \o firsts(r.lin) \o pairs(r.quad)
        met == firsts(f.lin) \o pairs(f.quad)
                 \o FlattenSeq([k \in 1 .. Len(f.rows) |-> row(f.rows[k])])
                 \o [k \in 1 .. Len(f.bounds) |-> f.bounds[k][2]]
                 \o f.general \o f.semi
                 \o FlattenSeq([k \in 1 .. Len(f.sos) |->
                                  firsts(f.sos[k].mem)])
        Step(names, s) == IF s \in ToSet(names) THEN names
                          ELSE Append(names, s)
    IN  FoldLeft(Step, << >>, met)

LpSum(ts, name) ==
    LET Add(v, t) == IF t[1] = name THEN v + t[2] ELSE v
    IN  FoldLeft(Add, 0, ts)

\* parse_quadratic and set_row_quads: a part over 2 halves its products, a
\* row's doubles its squares; the larger index comes first.
LpReadQuads(names, ts, overTwo) ==
    LET at(s) == SelectInSeq(names, LAMBDA n : n = s)
        square(v) == IF overTwo THEN v ELSE 2 * v
        product(v) == IF overTwo THEN v \div 2 ELSE v
        term(t) == LET h == at(t[1])
                       k == at(t[2])
                   IN  IF h = k THEN <<h, k, square(t[3])>>
                       ELSE IF h < k THEN <<k, h, product(t[3])>>
                       ELSE <<h, k, product(t[3])>>
    IN  {term(ts[k]) : k \in 1 .. Len(ts)}

LpReadRow(names, r) ==
    LET at(s) == SelectInSeq(names, LAMBDA n : n = s)
    IN  [name |-> r.label,
         lo |-> IF r.rel = "<=" THEN -Inf ELSE r.rhs,
         up |-> IF r.rel = ">=" THEN Inf ELSE r.rhs,
         coef |-> [j \in 1 .. Len(names) |-> LpSum(r.lin, names[j])],
         q |-> LpReadQuads(names, r.quad, FALSE),
         ind |-> IF r.ind = << >> THEN 0 ELSE at(r.ind[1]),
         on |-> IF r.ind = << >> THEN 0 ELSE r.ind[2]]

\* same_row: the same terms under the same indicator.
LpSameRow(a, b) == a.coef = b.coef /\ a.ind = b.ind /\ a.on = b.on

\* fold_ranges: two rows a comment joins become one when both are straight
\* and the rest of them agrees.  Where two rows share a name the later is
\* found.
LpFold(rows, ranges) ==
    LET at(rs, s) == SelectLastInSeq(rs, LAMBDA r : r.name = s)
        Joins(a, b) ==
            /\ a.q = {} /\ b.q = {}
            /\ Finite(a.lo) /\ a.up = Inf /\ b.lo = -Inf /\ Finite(b.up)
            /\ a.lo < b.up
            /\ LpSameRow(a, b)
        Step(rs, g) ==
            LET a == at(rs, g[1])
                b == at(rs, g[2])
            IN  IF a # 0 /\ b # 0 /\ a # b /\ Joins(rs[a], rs[b])
                THEN RemoveAt([rs EXCEPT ![a].up = rs[b].up], b) ELSE rs
    IN  FoldLeft(Step, rows, ranges)

LpBound(c, l) ==
    CASE l[1] = "free" -> [c EXCEPT !.lo = -Inf, !.up = Inf]
      [] l[1] = "=" -> [c EXCEPT !.lo = l[3], !.up = l[3]]
      [] l[1] = ">=" -> [c EXCEPT !.lo = l[3]]
      [] OTHER -> [c EXCEPT !.lo = l[3], !.up = l[4]]

\* parse: the columns, their bounds and sections, the rows folded.
LpParse(f) ==
    LET names == LpColumns(f)
        at(s) == SelectInSeq(names, LAMBDA n : n = s)
        fresh == [j \in 1 .. Len(names) |->
                    [name |-> names[j], lo |-> 0, up |-> Inf,
                     cost |-> LpSum(f.lin, names[j]),
                     int |-> names[j] \in ToSet(f.general),
                     semi |-> names[j] \in ToSet(f.semi)]]
        Bound(cs, l) == [cs EXCEPT ![at(l[2])] = LpBound(@, l)]
        rows == [k \in 1 .. Len(f.rows) |-> LpReadRow(names, f.rows[k])]
    IN  [sense |-> f.sense, offset |-> f.offset, obj |-> f.obj,
         cols |-> FoldLeft(Bound, fresh, f.bounds),
         rows |-> LpFold(rows, f.ranges),
         q |-> LpReadQuads(names, f.quad, TRUE),
         sos |-> [k \in 1 .. Len(f.sos) |->
                    [type |-> f.sos[k].type,
                     mem |-> [t \in 1 .. Len(f.sos[k].mem) |->
                                <<at(f.sos[k].mem[t][1]),
                                  f.sos[k].mem[t][2]>>]]],
         cones |-> << >>]

\* The file has no labels or names the reader cannot take; an indicator's
\* column is an integer; a set has members, none twice and no weight twice;
\* only ">= -inf" says that a row is free.
LpReads(f) ==
    /\ \A k \in 1 .. Len(f.rows) : LET r == f.rows[k] IN
         /\ r.ind # << >> => r.ind[1] \in ToSet(f.general)
         /\ ~Finite(r.rhs) => r.rel = ">=" /\ r.rhs = -Inf
    /\ \A k \in 1 .. Len(f.sos) : LET mem == f.sos[k].mem IN
         /\ mem # << >>
         /\ \A t, u \in 1 .. Len(mem) :
              t # u => mem[t][1] # mem[u][1] /\ mem[t][2] # mem[u][2]
    /\ ToSet(LpColumns(f)) \cap Unspeakable = {}

LpRead(f) == IF LpReads(f) THEN Read(LpParse(f)) ELSE Refused

\* The promise for LP: the same model, under the spelled names.
LpExpects(m) == LpSpelled(m)
=============================================================================
