------------------------------- MODULE MpsFile -------------------------------
(***************************************************************************)
(* MPS: jaos_write_mps (src/src/write.c) and jaos_read_mps (src/src/mps.c).*)
(* A file is a record of sections, each a sequence of lines in the order   *)
(* they are written; the reader takes the lines of a section one at a time *)
(* and finds rows and columns by name.                                     *)
(***************************************************************************)
EXTENDS FileTerms

CONSTANT NoRange   \* a row without a RANGES line

Marker == "'MARKER'"

\* The first tokens rd_sos_line takes for a header: two letters, S and the
\* type, in either case.
SosHead1 == {"S1", "s1"}
SosHead2 == {"S2", "s2"}

\* mps_row_kind and range_form: the type, the right-hand side and the range.
\* Of the two forms of a range the first always holds for whole numbers.
MpsRowKind(c) ==
    CASE c.lo = -Inf /\ c.up = Inf -> <<"N", 0, NoRange>>
      [] c.lo = c.up /\ Finite(c.lo) -> <<"E", c.lo, NoRange>>
      [] c.lo = -Inf /\ Finite(c.up) -> <<"L", c.up, NoRange>>
      [] c.up = Inf /\ Finite(c.lo) -> <<"G", c.lo, NoRange>>
      [] OTHER -> <<"G", c.lo, c.up - c.lo>>

MpsRowHasNoKind(c) ==
    \/ c.lo = c.up /\ ~Finite(c.lo)
    \/ c.lo = Inf \/ c.up = -Inf
    \/ c.lo > c.up

MpsRefuses(m) ==
    \/ \E i \in Rows(m) : MpsRowHasNoKind(m.rows[i])
    \/ \E j \in Cols(m) : m.cols[j].lo = Inf \/ m.cols[j].up = -Inf
    \/ ~NamesUnique(m)
    \/ ObjName(m) = Marker
    \/ \E i \in Rows(m) : RowName(m, i) = Marker

\* Found only while the bounds are written, with the file open.
MpsFailsInBounds(m) == \E j \in Cols(m) : m.cols[j].semi /\ m.cols[j].up = Inf

\* The COLUMNS lines of a column: a marker where the integers start or end,
\* the objective's entry (always there for an empty column), the rows'.
MpsColumnLines(m, j) ==
    LET before == j > 1 /\ m.cols[j - 1].int
        rows == Ascending({i \in Rows(m) : m.rows[i].coef[j] # 0})
        name == ColName(m, j)
    IN  (IF m.cols[j].int # before
         THEN <<[marker |-> IF m.cols[j].int THEN "INTORG" ELSE "INTEND"]>>
         ELSE << >>)
        \o (IF m.cols[j].cost # 0 \/ rows = << >>
            THEN <<[marker |-> "", col |-> name, row |-> ObjName(m),
                    v |-> m.cols[j].cost]>>
            ELSE << >>)
        \o [k \in 1 .. Len(rows) |->
              [marker |-> "", col |-> name, row |-> RowName(m, rows[k]),
               v |-> m.rows[rows[k]].coef[j]]]

\* The BOUNDS lines of a column.
MpsBoundLines(c, name) ==
    IF c.semi
    THEN (IF c.lo = -Inf THEN <<<<"MI", name, 0>>>>
          ELSE IF c.lo # 0 THEN <<<<"LO", name, c.lo>>>> ELSE << >>)
         \o <<<<IF c.int THEN "SI" ELSE "SC", name, c.up>>>>
    ELSE IF c.lo = 0 /\ c.up = Inf
         THEN IF c.int THEN <<<<"PL", name, 0>>>> ELSE << >>
    ELSE IF c.lo = -Inf /\ c.up = Inf THEN <<<<"FR", name, 0>>>>
    ELSE IF c.lo = c.up THEN <<<<"FX", name, c.lo>>>>
    ELSE (IF c.lo = -Inf THEN <<<<"MI", name, 0>>>>
          ELSE IF c.lo # 0 \/ c.up < 0 THEN <<<<"LO", name, c.lo>>>>
          ELSE << >>)
         \o (IF c.up # Inf THEN <<<<"UP", name, c.up>>>> ELSE << >>)

\* QUADOBJ gives a pair once; QCMATRIX gives it twice, at half the value.
MpsQuadLines(m) ==
    LET terms == SetToSeq(m.q)
    IN  [k \in 1 .. Len(terms) |-> <<ColName(m, terms[k][1]),
                                     ColName(m, terms[k][2]), terms[k][3]>>]

MpsQcLines(m, q) ==
    {<<ColName(m, t[1]), ColName(m, t[2]), t[3] \div 2>> : t \in q}
      \cup {<<ColName(m, t[2]), ColName(m, t[1]), t[3] \div 2>> : t \in q}

MpsSosLines(m, set) ==
    <<<<IF set.type = 1 THEN "S1" ELSE "S2", 0>>>>
      \o [t \in 1 .. Len(set.mem) |-> <<ColName(m, set.mem[t][1]),
                                        set.mem[t][2]>>]

MpsWrite(m) ==
    LET kind == [i \in Rows(m) |-> MpsRowKind(m.rows[i])]
        rhs == Ascending({i \in Rows(m) : kind[i][1] # "N" /\ kind[i][2] # 0})
        rng == Ascending({i \in Rows(m) : kind[i][3] # NoRange})
        qc == Ascending({i \in Rows(m) : m.rows[i].q # {}})
        ind == Ascending({i \in Rows(m) : m.rows[i].ind # 0})
        marked == NumCol(m) > 0 /\ m.cols[NumCol(m)].int
    IN  [objsense |-> m.sense,
         rows |-> <<<<"N", ObjName(m)>>>>
                    \o [i \in Rows(m) |-> <<kind[i][1], RowName(m, i)>>],
         columns |-> FlattenSeq([j \in Cols(m) |-> MpsColumnLines(m, j)])
                       \o IF marked THEN <<[marker |-> "INTEND"]>> ELSE << >>,
         rhs |-> (IF m.offset # 0 THEN <<<<ObjName(m), -m.offset>>>> ELSE << >>)
                   \o [k \in 1 .. Len(rhs) |->
                         <<RowName(m, rhs[k]), kind[rhs[k]][2]>>],
         ranges |-> [k \in 1 .. Len(rng) |->
                       <<RowName(m, rng[k]), kind[rng[k]][3]>>],
         bounds |-> FlattenSeq([j \in Cols(m) |->
                       MpsBoundLines(m.cols[j], ColName(m, j))]),
         quadobj |-> MpsQuadLines(m),
         qcmatrix |-> [k \in 1 .. Len(qc) |->
                         [row |-> RowName(m, qc[k]),
                          lines |-> MpsQcLines(m, m.rows[qc[k]].q)]],
         csection |-> [k \in 1 .. Len(m.cones) |->
                         [type |-> m.cones[k].type,
                          mem |-> [t \in 1 .. Len(m.cones[k].mem) |->
                                     ColName(m, m.cones[k].mem[t])]]],
         sos |-> FlattenSeq([k \in 1 .. Len(m.sos) |->
                               MpsSosLines(m, m.sos[k])]),
         indicators |-> [k \in 1 .. Len(ind) |->
                           <<RowName(m, ind[k]),
                             ColName(m, m.rows[ind[k]].ind),
                             m.rows[ind[k]].on>>]]

---------------------------------------------------------------------------
\* Reading.  A name no line has declared stops the read.

MpsRowAt(rows, name) == SelectInSeq(rows, LAMBDA l : l[2] = name)
MpsColAt(cols, name) == SelectInSeq(cols, LAMBDA c : c.name = name)

\* rd_rows_line: the first N row is the objective.
MpsObjRow(f) == SelectInSeq(f.rows, LAMBDA l : l[1] = "N")
MpsRowLines(f) == RemoveAt(f.rows, MpsObjRow(f))
MpsRowsUnique(f) ==
    \A i, h \in 1 .. Len(f.rows) : f.rows[i][2] = f.rows[h][2] => i = h

\* rd_columns_line: a line of the column before goes on with it, any other
\* name starts a column and must be new.
MpsColumn(f, r, l) ==
    LET rows == MpsRowLines(f)
        last == Len(r.cols)
        mine == last > 0 /\ r.cols[last].name = l.col
        cols == IF mine THEN r.cols
                ELSE Append(r.cols,
                       [name |-> l.col, cost |-> 0, lo |-> 0, up |-> Inf,
                        int |-> r.intorg, semi |-> FALSE, set |-> FALSE,
                        coef |-> [i \in 1 .. Len(rows) |-> 0]])
        at == MpsRowAt(rows, l.row)
    IN  [r EXCEPT
           !.bad = @ \/ (~mine /\ MpsColAt(r.cols, l.col) > 0)
                     \/ (at = 0 /\ l.row # f.rows[MpsObjRow(f)][2]),
           !.cols = [cols EXCEPT
                       ![Len(cols)] =
                         IF at = 0 THEN [@ EXCEPT !.cost = l.v]
                         ELSE [@ EXCEPT !.coef[at] = l.v]]]

MpsColumnLine(f, r, l) ==
    IF l.row = Marker
    THEN [r EXCEPT !.intorg = l.marker = "INTORG", !.bad = @ \/ l.marker = ""]
    ELSE MpsColumn(f, r, l)

MpsColumns(f) ==
    LET line(l) == IF l.marker = "" THEN l
                   ELSE [marker |-> l.marker, col |-> "MARKER", row |-> Marker,
                         v |-> 0]
        Step(r, l) == MpsColumnLine(f, r, line(l))
    IN  FoldLeft(Step, [bad |-> FALSE, intorg |-> FALSE, cols |-> << >>],
                 f.columns)

\* rd_bounds_line: a negative UP drops a lower bound nobody has set.
MpsBound(c, type, v) ==
    CASE type = "UP" -> [c EXCEPT !.up = v,
                                  !.lo = IF v < 0 /\ ~c.set THEN -Inf ELSE @]
      [] type = "LO" -> [c EXCEPT !.lo = v, !.set = TRUE]
      [] type = "FX" -> [c EXCEPT !.lo = v, !.up = v, !.set = TRUE]
      [] type = "FR" -> [c EXCEPT !.lo = -Inf, !.up = Inf, !.set = TRUE]
      [] type = "MI" -> [c EXCEPT !.lo = -Inf, !.set = TRUE]
      [] type = "PL" -> [c EXCEPT !.up = Inf]
      [] OTHER -> [c EXCEPT !.up = v, !.semi = TRUE,
                            !.int = @ \/ type = "SI"]

MpsBounds(f, r) ==
    LET Step(s, l) ==
            LET at == MpsColAt(s.cols, l[2])
            IN  IF at = 0 THEN [s EXCEPT !.bad = TRUE]
                ELSE [s EXCEPT !.cols[at] = MpsBound(@, l[1], l[3])]
    IN  FoldLeft(Step, r, f.bounds)

\* rd_vector_line and the end of the read: a row's bounds from its type, its
\* right-hand side and its range.
MpsVector(f, lines, name, none) ==
    LET at == SelectInSeq(lines, LAMBDA l : l[1] = name)
    IN  IF at = 0 THEN none ELSE lines[at][2]

MpsVectorsKnown(f) ==
    \A lines \in {f.rhs, f.ranges} : \A k \in 1 .. Len(lines) :
        MpsRowAt(f.rows, lines[k][1]) > 0

Size(v) == IF v < 0 THEN -v ELSE v

MpsRowBounds(type, b, rg) ==
    CASE type = "L" -> <<IF rg = NoRange THEN -Inf ELSE b - Size(rg), b>>
      [] type = "G" -> <<b, IF rg = NoRange THEN Inf ELSE b + Size(rg)>>
      [] type = "E" -> IF rg = NoRange THEN <<b, b>>
                       ELSE IF rg >= 0 THEN <<b, b + rg>> ELSE <<b + rg, b>>
      [] OTHER -> <<-Inf, Inf>>

\* rd_quad_line and rd_qc_line: a pair with the larger index first.
MpsPair(cols, l, v) ==
    LET h == MpsColAt(cols, l[1])
        k == MpsColAt(cols, l[2])
    IN  IF h < k THEN <<k, h, v>> ELSE <<h, k, v>>

\* rd_finish_conic: the two halves of a pair agree and make one term.
MpsRowQuad(f, cols, name) ==
    UNION {{MpsPair(cols, l, 2 * l[3]) : l \in f.qcmatrix[k].lines} :
           k \in {h \in 1 .. Len(f.qcmatrix) : f.qcmatrix[h].row = name}}

\* rd_sos_line: a line whose first token looks like a header is one.
MpsSosLine(cols, r, l) ==
    LET at == MpsColAt(cols, l[1])
        n == Len(r.sos)
    IN  IF l[1] \in SosHead1 \cup SosHead2
        THEN [r EXCEPT !.sos = Append(@, [type |-> IF l[1] \in SosHead1
                                                   THEN 1 ELSE 2,
                                          mem |-> << >>])]
        ELSE IF n = 0 \/ at = 0 THEN [r EXCEPT !.bad = TRUE]
        ELSE [r EXCEPT !.sos[n].mem = Append(@, <<at, l[2]>>)]

\* Each set has members, none of them twice, and no weight twice.
MpsSos(f, cols) ==
    LET Step(r, l) == MpsSosLine(cols, r, l)
        r == FoldLeft(Step, [bad |-> FALSE, sos |-> << >>], f.sos)
        whole(set) ==
            /\ set.mem # << >>
            /\ \A t, u \in 1 .. Len(set.mem) : t # u =>
                 /\ set.mem[t][1] # set.mem[u][1]
                 /\ set.mem[t][2] # set.mem[u][2]
    IN  [r EXCEPT !.bad = @ \/ \E k \in 1 .. Len(r.sos) : ~whole(r.sos[k])]

\* rd_indicator_line, and that the column an indicator names is an integer.
MpsIndicator(f, cols, name) ==
    LET at == SelectInSeq(f.indicators, LAMBDA l : l[1] = name)
    IN  IF at = 0 THEN <<0, 0>>
        ELSE <<MpsColAt(cols, f.indicators[at][2]), f.indicators[at][3]>>

MpsIndicatorsHold(f, cols) ==
    \A k \in 1 .. Len(f.indicators) :
        /\ MpsRowAt(MpsRowLines(f), f.indicators[k][1]) > 0
        /\ LET j == MpsColAt(cols, f.indicators[k][2])
           IN  j > 0 /\ cols[j].int

MpsBuild(f, cols, sos) ==
    LET rows == MpsRowLines(f)
        bounds(i) == MpsRowBounds(rows[i][1],
                                  MpsVector(f, f.rhs, rows[i][2], 0),
                                  MpsVector(f, f.ranges, rows[i][2], NoRange))
        ind(i) == MpsIndicator(f, cols, rows[i][2])
        obj == f.rows[MpsObjRow(f)][2]
    IN  [sense |-> f.objsense, offset |-> -MpsVector(f, f.rhs, obj, 0),
         obj |-> obj,
         cols |-> [j \in 1 .. Len(cols) |->
                     [name |-> cols[j].name, lo |-> cols[j].lo,
                      up |-> cols[j].up, cost |-> cols[j].cost,
                      int |-> cols[j].int, semi |-> cols[j].semi]],
         rows |-> [i \in 1 .. Len(rows) |->
                     [name |-> rows[i][2], lo |-> bounds(i)[1],
                      up |-> bounds(i)[2],
                      coef |-> [j \in 1 .. Len(cols) |-> cols[j].coef[i]],
                      q |-> MpsRowQuad(f, cols, rows[i][2]),
                      ind |-> ind(i)[1], on |-> ind(i)[2]]],
         q |-> {MpsPair(cols, f.quadobj[k], f.quadobj[k][3]) :
                k \in 1 .. Len(f.quadobj)},
         sos |-> sos,
         cones |-> [k \in 1 .. Len(f.csection) |->
                      [type |-> f.csection[k].type,
                       mem |-> [t \in 1 .. Len(f.csection[k].mem) |->
                                  MpsColAt(cols, f.csection[k].mem[t])]]]]

MpsRead(f) ==
    LET r == MpsBounds(f, MpsColumns(f))
        s == MpsSos(f, r.cols)
    IN  IF /\ MpsRowsUnique(f) /\ MpsVectorsKnown(f)
           /\ ~r.bad /\ ~s.bad /\ MpsIndicatorsHold(f, r.cols)
        THEN Read(MpsBuild(f, r.cols, s.sos)) ELSE Refused

MpsExpects(m) == Named(m)
=============================================================================
