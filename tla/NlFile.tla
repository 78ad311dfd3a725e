------------------------------- MODULE NlFile --------------------------------
(***************************************************************************)
(* AMPL's .nl format: jaos_write_nl (src/src/write.c) and jaos_read_nl     *)
(* (src/src/nl.c).  The format puts the continuous columns first, then the *)
(* binary and then the other integer ones; the names go into two files     *)
(* beside the .nl file, one for the columns and one for the rows and the   *)
(* objective.                                                              *)
(***************************************************************************)
EXTENDS FileTerms

NlBinary(m, j) == m.cols[j].int /\ m.cols[j].lo = 0 /\ m.cols[j].up = 1
NlGeneralInteger(m, j) == m.cols[j].int /\ ~NlBinary(m, j)
NlContinuous(m, j) == ~m.cols[j].int

NlRefuses(m) ==
    \/ Len(m.sos) > 0
    \/ HasConic(m)
    \/ HasSemi(m)
    \/ HasIndicator(m)
    \/ HasQuadratic(m)
    \/ ~NamesUnique(m)

\* The columns in the order of the file: order[k] is the k-th one's index.
NlOrder(m) ==
    Ascending({j \in Cols(m) : NlContinuous(m, j)})
        \o Ascending({j \in Cols(m) : NlBinary(m, j)})
        \o Ascending({j \in Cols(m) : NlGeneralInteger(m, j)})

\* nl_bound_line: a bound's type and the numbers behind it.
NlBoundLine(lo, up) ==
    CASE lo = -Inf /\ up = Inf -> <<3>>
      [] lo = up -> <<4, lo>>
      [] lo = -Inf -> <<1, up>>
      [] up = Inf -> <<2, lo>>
      [] OTHER -> <<0, lo, up>>

\* nl_bounds: the two bounds a line gives.
NlBounds(line) ==
    CASE line[1] = 3 -> <<-Inf, Inf>>
      [] line[1] = 4 -> <<line[2], line[2]>>
      [] line[1] = 1 -> <<-Inf, line[2]>>
      [] line[1] = 2 -> <<line[2], Inf>>
      [] OTHER -> <<line[2], line[3]>>

\* The .nl file itself.  pos is the inverse of order.
NlBody(m) ==
    LET order == NlOrder(m)
        pos == [j \in Cols(m) |-> SelectInSeq(order, LAMBDA h : h = j)]
    IN  [nvar |-> NumCol(m), ncon |-> NumRow(m),
         nbv |-> Cardinality({j \in Cols(m) : NlBinary(m, j)}),
         niv |-> Cardinality({j \in Cols(m) : NlGeneralInteger(m, j)}),
         sense |-> m.sense, offset |-> m.offset,
         r |-> [i \in Rows(m) |-> NlBoundLine(m.rows[i].lo, m.rows[i].up)],
         b |-> [k \in Cols(m) |-> NlBoundLine(m.cols[order[k]].lo,
                                              m.cols[order[k]].up)],
         J |-> [i \in Rows(m) |-> {<<pos[j], m.rows[i].coef[j]>> :
                                   j \in {h \in Cols(m) :
                                          m.rows[i].coef[h] # 0}}],
         G |-> {<<pos[j], m.cols[j].cost>> :
                j \in {h \in Cols(m) : m.cols[h].cost # 0}}]

\* nl_names_file: the names of the columns in the file's order, and those of
\* the rows with the objective's last.
NlColFile(m) == [k \in Cols(m) |-> ColName(m, NlOrder(m)[k])]
NlRowFile(m) == [k \in 1 .. NumRow(m) + 1 |->
                   IF k <= NumRow(m) THEN RowName(m, k) ELSE ObjName(m)]

\* The value an entry set gives an index, zero where it has none: an entry
\* given twice is summed.
NlAt(entries, k) ==
    MapThenSumSet(LAMBDA e : e[2], {e \in entries : e[1] = k})

\* nl_segments and nl_build: the last nbv + niv columns are the integer ones.
NlParse(f) ==
    LET lo(line) == NlBounds(line)[1]
        up(line) == NlBounds(line)[2]
    IN  [sense |-> f.sense, offset |-> f.offset, obj |-> NoName,
         cols |-> [j \in 1 .. f.nvar |->
                     [name |-> NoName, lo |-> lo(f.b[j]), up |-> up(f.b[j]),
                      cost |-> NlAt(f.G, j),
                      int |-> j > f.nvar - f.nbv - f.niv, semi |-> FALSE]],
         rows |-> [i \in 1 .. f.ncon |->
                     [name |-> NoName, lo |-> lo(f.r[i]), up |-> up(f.r[i]),
                      coef |-> [j \in 1 .. f.nvar |-> NlAt(f.J[i], j)],
                      q |-> {}, ind |-> 0, on |-> 0]],
         q |-> {}, sos |-> << >>, cones |-> << >>]

\* nl_names: a side file that is missing or short gives no names.
NlTakeNames(m, col, row) ==
    LET full(names, n) == Len(names) >= n
    IN  [m EXCEPT
           !.cols = [j \in Cols(m) |->
                       [@[j] EXCEPT !.name = IF full(col, NumCol(m))
                                             THEN col[j] ELSE NoName]],
           !.rows = [i \in Rows(m) |->
                       [@[i] EXCEPT !.name = IF full(row, NumRow(m) + 1)
                                             THEN row[i] ELSE NoName]],
           !.obj = IF full(row, NumRow(m) + 1)
                   THEN row[NumRow(m) + 1] ELSE NoName]

NlRead(f) == Read(NlTakeNames(NlParse(f.nl), f.col, f.row))

\* The promise for .nl: the same model with the columns in the file's order.
NlExpects(m) ==
    LET order == NlOrder(m)
        n == Named(m)
    IN  [n EXCEPT !.cols = [k \in Cols(m) |-> @[order[k]]],
                  !.rows = [i \in Rows(m) |->
                    [@[i] EXCEPT !.coef = [k \in Cols(m) |-> @[order[k]]]]]]
=============================================================================
