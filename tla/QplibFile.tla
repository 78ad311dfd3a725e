------------------------------ MODULE QplibFile ------------------------------
(***************************************************************************)
(* QPLIB: jaos_write_qplib (src/src/write.c) and jaos_read_qplib           *)
(* (src/src/qplib.c).  A quadratic form is written as the lower triangle of*)
(* the symmetric matrix Q of 1/2 x'Qx, so an entry off the diagonal is     *)
(* doubled on the way out and halved on the way in.  The file says which   *)
(* number stands for infinity; a bound that large or larger is infinite.   *)
(***************************************************************************)
EXTENDS FileTerms

CONSTANTS QplibInf,      \* QPLIB_INF, 1e20: at most Huge
          CommentNames   \* names with '#' or '!', or that start with '%'

QplibNameIsAComment(s) == s \in CommentNames

QplibRefuses(m) ==
    \/ Len(m.sos) > 0
    \/ Len(m.cones) > 0
    \/ HasSemi(m)
    \/ HasIndicator(m)
    \/ \E j \in Cols(m) : QplibNameIsAComment(ColName(m, j))
    \/ \E i \in Rows(m) : QplibNameIsAComment(RowName(m, i))
    \/ ~NamesUnique(m)

\* The three letters of the problem type.
QplibKind(m) ==
    LET ints == {j \in Cols(m) : m.cols[j].int}
    IN  <<IF m.q = {} THEN "L"
          ELSE IF \E t \in m.q : t[1] # t[2] THEN "C" ELSE "D",
          IF ints = {} THEN "C" ELSE IF ints = Cols(m) THEN "I" ELSE "G",
          IF HasRowQuadratic(m) THEN "Q"
          ELSE IF NumRow(m) > 0 THEN "L" ELSE "B">>

\* qplib_num and q_value: infinity as the file spells it, and back.
QplibNum(v) == IF v = Inf THEN QplibInf ELSE IF v = -Inf THEN -QplibInf ELSE v
QplibValue(inf, v) == IF v >= inf THEN Inf ELSE IF v <= -inf THEN -Inf ELSE v

\* most_common and qplib_vector: a default and the entries that differ.
MostCommon(s, a, b) ==
    LET count(v) == Cardinality({k \in 1 .. Len(s) : s[k] = v})
    IN  IF count(b) > count(a) THEN b ELSE a

QplibVector(s, dflt) ==
    [dflt |-> QplibNum(dflt),
     entries |-> {<<k, QplibNum(s[k])>> :
                  k \in {h \in 1 .. Len(s) : s[h] # dflt}}]

\* q_vector: bounds go through q_value, other vectors do not.
QplibRead(v, n) ==
    [k \in 1 .. n |->
       LET own == {e \in v.entries : e[1] = k}
       IN  IF own = {} THEN v.dflt ELSE (CHOOSE e \in own : TRUE)[2]]
QplibBounds(f, v, n) ==
    [k \in 1 .. n |-> QplibValue(f.inf, QplibRead(v, n)[k])]

QplibEntry(t) == IF t[1] = t[2] THEN t ELSE <<t[1], t[2], 2 * t[3]>>

QplibWrite(m) ==
    LET lows(s) == [k \in 1 .. Len(s) |-> s[k].lo]
        ups(s) == [k \in 1 .. Len(s) |-> s[k].up]
        kind == QplibKind(m)
    IN  [kind |-> kind, sense |-> m.sense, nvar |-> NumCol(m),
         ncon |-> NumRow(m), offset |-> m.offset, inf |-> QplibInf,
         q |-> {QplibEntry(t) : t \in m.q},
         cost |-> QplibVector([j \in Cols(m) |-> m.cols[j].cost], 0),
         rq |-> [i \in Rows(m) |-> {QplibEntry(t) : t \in m.rows[i].q}],
         a |-> {<<e[1], e[2], m.rows[e[1]].coef[e[2]]>> :
                e \in {c \in Rows(m) \X Cols(m) :
                       m.rows[c[1]].coef[c[2]] # 0}},
         rl |-> QplibVector(lows(m.rows), MostCommon(lows(m.rows), -Inf, 0)),
         ru |-> QplibVector(ups(m.rows), MostCommon(ups(m.rows), Inf, 0)),
         cl |-> QplibVector(lows(m.cols), MostCommon(lows(m.cols), 0, -Inf)),
         cu |-> QplibVector(ups(m.cols), MostCommon(ups(m.cols), Inf, 1)),
         type |-> IF kind[2] = "G" THEN {j \in Cols(m) : m.cols[j].int} ELSE {},
         cname |-> [j \in Cols(m) |-> ColName(m, j)],
         rname |-> [i \in Rows(m) |-> RowName(m, i)]]

\* Reading a pair: halved off the diagonal.
QplibTerm(t) == IF t[1] = t[2] THEN t ELSE <<t[1], t[2], t[3] \div 2>>

\* q_parse and q_build: the type's letters say which sections the file has.
\* The objective's name is not carried.
QplibParse(f) ==
    LET cl == QplibBounds(f, f.cl, f.nvar)
        cu == QplibBounds(f, f.cu, f.nvar)
        rl == QplibBounds(f, f.rl, f.ncon)
        ru == QplibBounds(f, f.ru, f.ncon)
        cost == QplibRead(f.cost, f.nvar)
        a(i, j) == MapThenSumSet(LAMBDA e : e[3],
                                 {e \in f.a : e[1] = i /\ e[2] = j})
    IN  [sense |-> f.sense, offset |-> f.offset, obj |-> NoName,
         cols |-> [j \in 1 .. f.nvar |->
                     [name |-> f.cname[j], lo |-> cl[j], up |-> cu[j],
                      cost |-> cost[j], semi |-> FALSE,
                      int |-> \/ f.kind[2] = "I"
                              \/ (f.kind[2] = "G" /\ j \in f.type)]],
         rows |-> [i \in 1 .. f.ncon |->
                     [name |-> f.rname[i], lo |-> rl[i], up |-> ru[i],
                      coef |-> [j \in 1 .. f.nvar |-> a(i, j)],
                      q |-> IF f.kind[3] = "Q"
                            THEN {QplibTerm(t) : t \in f.rq[i]} ELSE {},
                      ind |-> 0, on |-> 0]],
         q |-> IF f.kind[1] = "L" THEN {} ELSE {QplibTerm(t) : t \in f.q},
         sos |-> << >>, cones |-> << >>]

QplibReadFile(f) == Read(QplibParse(f))

\* The promise for QPLIB: the same model, under a positional objective name.
QplibExpects(m) == [Named(m) EXCEPT !.obj = NoName]
=============================================================================
