------------------------------- MODULE CbfFile -------------------------------
(***************************************************************************)
(* The Conic Benchmark Format: jaos_write_cbf (src/src/write.c) and        *)
(* jaos_read_cbf (src/src/cbf.c).  A file says that x lies in a product of *)
(* cones (VAR) and that Ax + b lies in another (CON).  A column goes into  *)
(* the cone its bounds are and any other bound becomes a constraint, so a  *)
(* model comes back as an equivalent one; a constraint block in a second-  *)
(* order cone comes back as a cone over the columns it picks, or over new  *)
(* free columns fixed by equality rows.                                    *)
(***************************************************************************)
EXTENDS FileTerms

WrongInfinity(c) == c.lo = Inf \/ c.up = -Inf

CbfRefuses(m) ==
    \/ HasQuadratic(m)
    \/ HasRowQuadratic(m)
    \/ Len(m.sos) > 0
    \/ HasSemi(m)
    \/ HasIndicator(m)
    \/ \E j \in Cols(m) : WrongInfinity(m.cols[j])
    \/ \E i \in Rows(m) : WrongInfinity(m.rows[i])

CbfDomain(c) ==
    CASE c.lo = 0 /\ c.up = 0 -> "L="
      [] c.lo = 0 /\ c.up = Inf -> "L+"
      [] c.lo = -Inf /\ c.up = 0 -> "L-"
      [] OTHER -> "F"

\* The constraints a pair of bounds becomes; item says whose bounds they are.
CbfBounds(item, c) ==
    IF Finite(c.lo) /\ c.lo = c.up
    THEN <<[kind |-> "L=", item |-> item, b |-> -c.lo]>>
    ELSE (IF Finite(c.lo) THEN <<[kind |-> "L+", item |-> item, b |-> -c.lo]>>
                          ELSE << >>)
         \o (IF Finite(c.up)
             THEN <<[kind |-> "L-", item |-> item, b |-> -c.up]>>
             ELSE << >>)

\* A row without a finite bound is one free constraint.
CbfOfRow(m, i) ==
    IF ~Finite(m.rows[i].lo) /\ ~Finite(m.rows[i].up)
    THEN <<[kind |-> "F", item |-> <<"row", i>>, b |-> 0]>>
    ELSE CbfBounds(<<"row", i>>, m.rows[i])

\* Fault: a column in (-inf, 0] gets no constraint, as if its cone said it.
CbfOfCol_TakesNegative(m, j) ==
    IF CbfDomain(m.cols[j]) # "F" \/ m.cols[j].lo = -Inf THEN << >>
    ELSE CbfBounds(<<"col", j>>, m.cols[j])

\* A column whose bounds are a cone, or that is free, needs no constraint.
CbfOfCol(m, j) ==
    IF CbfDomain(m.cols[j]) # "F"
       \/ (~Finite(m.cols[j].lo) /\ ~Finite(m.cols[j].up))
    THEN << >>
    ELSE CbfBounds(<<"col", j>>, m.cols[j])

CbfOfCone(cone) ==
    [t \in 1 .. Len(cone.mem) |->
       [kind |-> IF cone.type = "rotated" THEN "QR" ELSE "Q",
        item |-> <<"col", cone.mem[t]>>, b |-> 0]]

CbfLinear(m) ==
    FlattenSeq([i \in Rows(m) |-> CbfOfRow(m, i)])
        \o FlattenSeq([j \in Cols(m) |-> CbfOfCol(m, j)])
CbfConic(m) == FlattenSeq([k \in 1 .. Len(m.cones) |-> CbfOfCone(m.cones[k])])

\* Blocks of one kind next to each other; a cone is a block of its own.
CbfRunsFrom(kinds) ==
    LET runs[t \in 1 .. Len(kinds) + 1] ==
            IF t > Len(kinds) THEN << >>
            ELSE IF runs[t + 1] # << >> /\ runs[t + 1][1].kind = kinds[t]
            THEN <<[runs[t + 1][1] EXCEPT !.dim = @ + 1]>> \o Tail(runs[t + 1])
            ELSE <<[kind |-> kinds[t], dim |-> 1]>> \o runs[t + 1]
    IN  runs
CbfRuns(kinds) == CbfRunsFrom(kinds)[1]

CbfKinds(con) == [t \in 1 .. Len(con) |-> con[t].kind]

CbfEntries(m, con, t) ==
    IF con[t].item[1] = "col" THEN {<<t, con[t].item[2], 1>>}
    ELSE {<<t, j, m.rows[con[t].item[2]].coef[j]>> :
          j \in {h \in Cols(m) : m.rows[con[t].item[2]].coef[h] # 0}}

CbfWrite(m) ==
    LET con == CbfLinear(m) \o CbfConic(m)
    IN  [sense |-> m.sense, nvar |-> NumCol(m), ncon |-> Len(con),
         var |-> CbfRuns([j \in Cols(m) |-> CbfDomain(m.cols[j])]),
         int |-> {j \in Cols(m) : m.cols[j].int},
         con |-> CbfRuns(CbfKinds(CbfLinear(m)))
                   \o [k \in 1 .. Len(m.cones) |->
                         [kind |-> CbfOfCone(m.cones[k])[1].kind,
                          dim |-> Len(m.cones[k].mem)]],
         obj |-> {<<j, m.cols[j].cost>> :
                  j \in {h \in Cols(m) : m.cols[h].cost # 0}},
         offset |-> m.offset,
         a |-> UNION {CbfEntries(m, con, t) : t \in 1 .. Len(con)},
         b |-> {<<t, con[t].b>> : t \in {u \in 1 .. Len(con) : con[u].b # 0}}]

---------------------------------------------------------------------------
\* Reading.

CbfSecondOrder(kind) == kind \in {"Q", "QR"}

\* Where block k starts: the entries before it.
CbfBase(blocks, k) == MapThenSumSet(LAMBDA h : blocks[h].dim, 1 .. k - 1)

CbfBlockOf(blocks, i) ==
    CHOOSE k \in 1 .. Len(blocks) :
        CbfBase(blocks, k) < i /\ i <= CbfBase(blocks, k) + blocks[k].dim

\* cb_blocks and cb_parse: the header's counts hold, a rotated cone has two
\* members, an index is in range, and nothing is given twice.
CbfParses(f) ==
    /\ CbfBase(f.var, Len(f.var) + 1) = f.nvar
    /\ CbfBase(f.con, Len(f.con) + 1) = f.ncon
    /\ \A k \in 1 .. Len(f.var) : f.var[k].kind = "QR" => f.var[k].dim >= 2
    /\ \A k \in 1 .. Len(f.con) : f.con[k].kind = "QR" => f.con[k].dim >= 2
    /\ \A e \in f.a : e[1] \in 1 .. f.ncon /\ e[2] \in 1 .. f.nvar
    /\ \A e, g \in f.a : e[1] = g[1] /\ e[2] = g[2] => e = g
    /\ \A e \in f.b : e[1] \in 1 .. f.ncon
    /\ \A e, g \in f.b : e[1] = g[1] => e = g

CbfAt(entries, k) ==
    MapThenSumSet(LAMBDA e : e[2], {e \in entries : e[1] = k})

CbfOnes(f, i) == {e \in f.a : e[1] = i /\ e[3] # 0}

\* A second-order block that only picks columns, each once.
CbfDirect(f, k) ==
    LET block == CbfBase(f.con, k) + 1 .. CbfBase(f.con, k) + f.con[k].dim
    IN  /\ CbfSecondOrder(f.con[k].kind)
        /\ \A i \in block :
             /\ Cardinality(CbfOnes(f, i)) = 1
             /\ \A e \in CbfOnes(f, i) : e[3] = 1
             /\ CbfAt(f.b, i) = 0
        /\ \A i, h \in block : i # h =>
             \A e \in CbfOnes(f, i), g \in CbfOnes(f, h) : e[2] # g[2]

\* cb_build: the constraints that become rows, those that get a new column,
\* and the model.
CbfRowsOf(f) ==
    Ascending({i \in 1 .. f.ncon : ~CbfDirect(f, CbfBlockOf(f.con, i))})
CbfAuxOf(f) ==
    Ascending({i \in 1 .. f.ncon :
               LET k == CbfBlockOf(f.con, i)
               IN  CbfSecondOrder(f.con[k].kind) /\ ~CbfDirect(f, k)})

CbfColumn(f, j) ==
    LET kind == f.var[CbfBlockOf(f.var, j)].kind
    IN  [name |-> NoName, cost |-> CbfAt(f.obj, j), int |-> j \in f.int,
         semi |-> FALSE,
         lo |-> IF kind \in {"L+", "L="} THEN 0 ELSE -Inf,
         up |-> IF kind \in {"L-", "L="} THEN 0 ELSE Inf]

CbfFreeColumn == [name |-> NoName, cost |-> 0, int |-> FALSE, semi |-> FALSE,
                  lo |-> -Inf, up |-> Inf]

CbfRow(f, i) ==
    LET kind == f.con[CbfBlockOf(f.con, i)].kind
        rhs == -CbfAt(f.b, i)
        aux == CbfAuxOf(f)
        own(j) == MapThenSumSet(LAMBDA e : e[3],
                                {e \in f.a : e[1] = i /\ e[2] = j})
    IN  [name |-> NoName, q |-> {}, ind |-> 0, on |-> 0,
         lo |-> IF kind \in {"L-", "F"} THEN -Inf ELSE rhs,
         up |-> IF kind \in {"L+", "F"} THEN Inf ELSE rhs,
         coef |-> [j \in 1 .. f.nvar + Len(aux) |->
                     IF j <= f.nvar THEN own(j)
                     ELSE IF aux[j - f.nvar] = i THEN -1 ELSE 0]]

CbfConeType(kind) == IF kind = "QR" THEN "rotated" ELSE "quadratic"

CbfVarCone(f, k) ==
    [type |-> CbfConeType(f.var[k].kind),
     mem |-> [t \in 1 .. f.var[k].dim |-> CbfBase(f.var, k) + t]]

CbfConCone(f, k) ==
    LET base == CbfBase(f.con, k)
        picked(i) == (CHOOSE e \in CbfOnes(f, i) : TRUE)[2]
        new(i) == f.nvar + SelectInSeq(CbfAuxOf(f), LAMBDA h : h = i)
    IN  [type |-> CbfConeType(f.con[k].kind),
         mem |-> [t \in 1 .. f.con[k].dim |->
                    IF CbfDirect(f, k) THEN picked(base + t)
                    ELSE new(base + t)]]

CbfBuild(f) ==
    LET rows == CbfRowsOf(f)
        cones(blocks) == Ascending({k \in 1 .. Len(blocks) :
                                    CbfSecondOrder(blocks[k].kind)})
        vc == cones(f.var)
        cc == cones(f.con)
    IN  [sense |-> f.sense, offset |-> f.offset, obj |-> NoName,
         cols |-> [j \in 1 .. f.nvar + Len(CbfAuxOf(f)) |->
                     IF j <= f.nvar THEN CbfColumn(f, j) ELSE CbfFreeColumn],
         rows |-> [r \in 1 .. Len(rows) |-> CbfRow(f, rows[r])],
         q |-> {}, sos |-> << >>,
         cones |-> [k \in 1 .. Len(vc) |-> CbfVarCone(f, vc[k])]
                     \o [k \in 1 .. Len(cc) |-> CbfConCone(f, cc[k])]]

CbfRead(f) == IF CbfParses(f) THEN Read(CbfBuild(f)) ELSE Refused

---------------------------------------------------------------------------
\* What a model and what a file mean: the points they admit.

InCone(type, z) ==
    LET sq(S) == MapThenSumSet(LAMBDA t : z[t] * z[t], S)
    IN  IF type = "rotated"
        THEN z[1] >= 0 /\ z[2] >= 0 /\ 2 * z[1] * z[2] >= sq(3 .. Len(z))
        ELSE z[1] >= 0 /\ z[1] * z[1] >= sq(2 .. Len(z))

Between(c, v) == (c.lo = -Inf \/ c.lo <= v) /\ (c.up = Inf \/ v <= c.up)

Dot(coef, x) == MapThenSumSet(LAMBDA j : coef[j] * x[j], 1 .. Len(coef))

\* The linear and conic part of a model at a point.
Admits(m, x) ==
    /\ \A j \in Cols(m) : Between(m.cols[j], x[j])
    /\ \A i \in Rows(m) : Between(m.rows[i], Dot(m.rows[i].coef, x))
    /\ \A k \in 1 .. Len(m.cones) :
         InCone(m.cones[k].type,
                [t \in 1 .. Len(m.cones[k].mem) |-> x[m.cones[k].mem[t]]])

\* A point of a model with the columns a file's cones add: each has the value
\* of the affine expression it stands for.
CbfLift(f, x) ==
    LET value(i) == CbfAt(f.b, i)
                    + MapThenSumSet(LAMBDA e : e[3] * x[e[2]],
                                    {e \in f.a : e[1] = i})
        aux == CbfAuxOf(f)
    IN  x \o [t \in 1 .. Len(aux) |-> value(aux[t])]

\* The format's own meaning: x in the cones of VAR, Ax + b in those of CON.
CbfSays(f, x) ==
    LET value(i) == CbfAt(f.b, i)
                    + MapThenSumSet(LAMBDA e : e[3] * x[e[2]],
                                    {e \in f.a : e[1] = i})
        inDomain(kind, z) ==
            CASE kind = "F" -> TRUE
              [] kind = "L+" -> \A t \in 1 .. Len(z) : z[t] >= 0
              [] kind = "L-" -> \A t \in 1 .. Len(z) : z[t] <= 0
              [] kind = "L=" -> \A t \in 1 .. Len(z) : z[t] = 0
              [] OTHER -> InCone(CbfConeType(kind), z)
    IN  /\ \A k \in 1 .. Len(f.var) :
             inDomain(f.var[k].kind,
                      [t \in 1 .. f.var[k].dim |-> x[CbfBase(f.var, k) + t]])
        /\ \A k \in 1 .. Len(f.con) :
             inDomain(f.con[k].kind, [t \in 1 .. f.con[k].dim |->
                                        value(CbfBase(f.con, k) + t)])

\* The promise for CBF: a model with the same points, costs and integers.
CbfEquivalent(m, k, f, Points) ==
    /\ m.sense = k.sense /\ m.offset = k.offset
    /\ \A j \in Cols(m) : /\ m.cols[j].cost = k.cols[j].cost
                          /\ m.cols[j].int = k.cols[j].int
    /\ \A x \in Points : Admits(m, x) <=> Admits(k, CbfLift(f, x))
=============================================================================
