------------------------------- MODULE OsilFile ------------------------------
(***************************************************************************)
(* OSiL: jaos_write_osil (src/src/write.c) and jaos_read_osil              *)
(* (src/src/osil.c).  A bound the file leaves out has the format's default *)
(* value; a form's entry is the coefficient of the product, so a square is *)
(* halved on the way out and doubled on the way in; a bound of magnitude   *)
(* OSIL_INF or more is infinite.                                           *)
(***************************************************************************)
EXTENDS FileTerms

CONSTANTS OsilInf,   \* OSIL_INF, 1e30: at most Huge
          Absent     \* an attribute the element does not have

OsilRefuses(m) ==
    \/ Len(m.sos) > 0
    \/ Len(m.cones) > 0
    \/ HasIndicator(m)
    \/ ~NamesUnique(m)

\* The attribute of a bound: none where it has the default.
OsilBound(v, dflt) == IF v = dflt THEN Absent ELSE v

\* o_bound with x_bound_num.
OsilReadBound(s, dflt) ==
    IF s = Absent THEN dflt
    ELSE IF s >= OsilInf THEN Inf ELSE IF s <= -OsilInf THEN -Inf ELSE s

OsilType(c) ==
    IF c.semi THEN IF c.int THEN "D" ELSE "S" ELSE IF c.int THEN "I" ELSE "C"

\* A quadratic term as the file says it, owner 0 being the objective.
OsilTerm(owner, t) ==
    [idx |-> owner, one |-> t[1], two |-> t[2],
     coef |-> IF t[1] = t[2] THEN t[3] \div 2 ELSE t[3]]

\* The matrix by columns: start, row indices and values.
OsilColumn(m, j) == Ascending({i \in Rows(m) : m.rows[i].coef[j] # 0})

OsilColumnEntries(m, j) ==
    [k \in 1 .. Len(OsilColumn(m, j)) |->
       [row |-> OsilColumn(m, j)[k],
        value |-> m.rows[OsilColumn(m, j)[k]].coef[j]]]
OsilMatrix(m) ==
    LET el[j \in 0 .. NumCol(m)] ==
            IF j = 0 THEN << >> ELSE el[j - 1] \o OsilColumnEntries(m, j)
    IN  el

OsilWrite(m) ==
    [var |-> [j \in Cols(m) |->
                [name |-> ColName(m, j), type |-> OsilType(m.cols[j]),
                 lb |-> OsilBound(m.cols[j].lo, 0),
                 ub |-> OsilBound(m.cols[j].up, Inf)]],
     obj |-> [name |-> ObjName(m), maxOrMin |-> m.sense,
              constant |-> m.offset,
              coef |-> {<<j, m.cols[j].cost>> :
                        j \in {h \in Cols(m) : m.cols[h].cost # 0}}],
     con |-> [i \in Rows(m) |->
                [name |-> RowName(m, i), lb |-> OsilBound(m.rows[i].lo, -Inf),
                 ub |-> OsilBound(m.rows[i].up, Inf)]],
     start |-> [j \in 0 .. NumCol(m) |-> Len(OsilMatrix(m)[j])],
     el |-> OsilMatrix(m)[NumCol(m)],
     qTerm |-> {OsilTerm(0, t) : t \in m.q}
               \cup UNION {{OsilTerm(i, t) : t \in m.rows[i].q} :
                           i \in Rows(m)}]

\* o_qterm: the terms of one owner.
OsilQuads(f, owner) ==
    {<<t.one, t.two, IF t.one = t.two THEN 2 * t.coef ELSE t.coef>> :
     t \in {x \in f.qTerm : x.idx = owner}}

\* o_matrix: the value of a row in a column's stretch of the entries.
OsilValue(f, i, j) ==
    MapThenSumSet(LAMBDA k : f.el[k].value,
                  {k \in f.start[j - 1] + 1 .. f.start[j] : f.el[k].row = i})

\* o_var_one, o_con_one, o_obj, o_coef and o_build.
OsilParse(f) ==
    [sense |-> f.obj.maxOrMin, offset |-> f.obj.constant, obj |-> f.obj.name,
     cols |-> [j \in 1 .. Len(f.var) |->
                 [name |-> f.var[j].name,
                  lo |-> OsilReadBound(f.var[j].lb, 0),
                  up |-> OsilReadBound(f.var[j].ub, Inf),
                  cost |-> MapThenSumSet(LAMBDA e : e[2],
                                         {e \in f.obj.coef : e[1] = j}),
                  int |-> f.var[j].type \in {"I", "D"},
                  semi |-> f.var[j].type \in {"S", "D"}]],
     rows |-> [i \in 1 .. Len(f.con) |->
                 [name |-> f.con[i].name,
                  lo |-> OsilReadBound(f.con[i].lb, -Inf),
                  up |-> OsilReadBound(f.con[i].ub, Inf),
                  coef |-> [j \in 1 .. Len(f.var) |-> OsilValue(f, i, j)],
                  q |-> OsilQuads(f, i), ind |-> 0, on |-> 0]],
     q |-> OsilQuads(f, 0), sos |-> << >>, cones |-> << >>]

OsilRead(f) == Read(OsilParse(f))

OsilExpects(m) == Named(m)
=============================================================================
