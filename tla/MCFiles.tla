------------------------------- MODULE MCFiles --------------------------------
(***************************************************************************)
(* The instance of Files: families of models of two or three columns and   *)
(* up to two rows, each varying what one part of the formats tells apart.  *)
(***************************************************************************)
EXTENDS Files

c_Inf == 1000
c_Huge == 900

Col(name, lo, up, cost) ==
    [name |-> name, lo |-> lo, up |-> up, cost |-> cost, int |-> FALSE,
     semi |-> FALSE]
Row(name, lo, up, coef) ==
    [name |-> name, lo |-> lo, up |-> up, coef |-> coef, q |-> {},
     ind |-> 0, on |-> 0]

X == Col("x", 0, Inf, 1)
Y == Col(NoName, -1, 2, 0)
A == Row("a", -Inf, 2, <<1, -1>>)

Base == [sense |-> "min", offset |-> 0, obj |-> NoName, cols |-> <<X, Y>>,
         rows |-> <<A>>, q |-> {}, sos |-> << >>, cones |-> << >>]

\* Every kind of bounds a column can have, crossing ones and a wrong infinity
\* among them, with integrality, a semi-continuous mark and a cost.
ColumnBounds ==
    {<<0, Inf>>, <<-Inf, Inf>>, <<-Inf, 2>>, <<-Inf, 0>>, <<-Inf, -1>>,
     <<0, 0>>, <<2, 2>>, <<1, Inf>>, <<-1, 1>>, <<0, 1>>, <<0, 2>>,
     <<-2, -1>>, <<0, -1>>, <<2, 1>>, <<Inf, Inf>>}

OfColumns ==
    {[Base EXCEPT !.cols[1] = [@ EXCEPT !.lo = b[1], !.up = b[2],
                                        !.int = i, !.semi = s, !.cost = c],
                  !.cols[2].int = h] :
     b \in ColumnBounds, i \in BOOLEAN, s \in BOOLEAN, c \in {0, 3},
     h \in BOOLEAN}

\* Every kind of row, straight or curved, empty, and with an indicator.
RowBounds ==
    {<<-Inf, Inf>>, <<1, 1>>, <<0, 0>>, <<-Inf, 2>>, <<1, Inf>>, <<-1, 3>>,
     <<2, 1>>, <<Inf, Inf>>}

OfRows ==
    {[Base EXCEPT !.cols = <<[X EXCEPT !.int = TRUE, !.up = 1], Y>>,
                  !.rows = <<[A EXCEPT !.lo = b[1], !.up = b[2], !.coef = c,
                                       !.q = q, !.ind = i[1], !.on = i[2]],
                             Row(NoName, -1, 1, <<0, 1>>)>>] :
     b \in RowBounds, c \in {<<0, 0>>, <<1, -1>>, <<0, 2>>},
     q \in {{}, {<<1, 1, 2>>}, {<<2, 1, 4>>, <<2, 2, -2>>}},
     i \in {<<0, 0>>, <<1, 0>>, <<1, 1>>}}

\* Names that meet: a positional name given to another column, a name LP
\* cannot say, the substitutes LP would use, the name of the upper side of a
\* ranged row, a comment sign, the MPS marker.
ColumnNames ==
    {NoName, "C2", "free", "c1", "c2", "obj", "a_hi", "a#b", "'MARKER'"}
OfNames ==
    {[Base EXCEPT !.cols = <<[X EXCEPT !.name = n], [Y EXCEPT !.name = o]>>,
                  !.rows = <<Row(r, -1, 2, <<1, 1>>),
                             Row(s, 0, 1, <<1, 0>>)>>,
                  !.obj = w] :
     n \in ColumnNames, o \in {NoName, "free", "c1", "y"},
     r \in {"a", "free", "c2"}, s \in {NoName, "a_hi", "r1", "'MARKER'"},
     w \in {NoName, "free", "a_hi"}}

\* Quadratic objectives, sets, cones, the offset and the sense.
Cone(type, mem) == [type |-> type, mem |-> mem]
OfShapes ==
    {[Base EXCEPT !.cols = <<X, Y, Col("z", 0, Inf, -2)>>,
                  !.rows[1].coef = <<1, 0, -1>>, !.q = q, !.sos = s,
                  !.cones = k, !.offset = o, !.sense = w] :
     q \in {{}, {<<1, 1, 2>>}, {<<2, 1, -2>>, <<3, 3, 4>>}},
     s \in {<< >>, <<[type |-> 1, mem |-> <<<<2, 1>>, <<1, 3>>>>],
                     [type |-> 2, mem |-> <<<<1, 1>>, <<2, 2>>, <<3, 3>>>>]>>},
     k \in {<< >>, <<Cone("quadratic", <<3, 1, 2>>)>>,
            <<Cone("rotated", <<1, 3, 2>>), Cone("quadratic", <<3, 1>>)>>},
     o \in {0, -3}, w \in {"min", "max"}}

c_Models == OfColumns \cup OfRows \cup OfNames \cup OfShapes

c_Older == [Base EXCEPT !.cols = <<Col("old1", 0, 1, 1), Col("old2", 0, 1, 1)>>,
                        !.rows = <<Row("oldr", 0, 1, <<1, 1>>)>>,
                        !.obj = "oldobj"]

\* Cones over affine expressions: x + 1 in front of 2y, a pick beside another
\* block, a pick with coefficient two, a column picked twice, cones in VAR.
Block(kind, dim) == [kind |-> kind, dim |-> dim]
File(var, con, a, b) ==
    [sense |-> "min", offset |-> 0, obj |-> {<<1, 1>>}, int |-> {},
     nvar |-> CbfBase(var, Len(var) + 1), ncon |-> CbfBase(con, Len(con) + 1),
     var |-> var, con |-> con, a |-> a, b |-> b]
c_Foreign ==
    {File(<<Block("F", 2)>>, <<Block("Q", 2)>>,
          {<<1, 1, 1>>, <<2, 2, 2>>}, {<<1, 1>>}),
     File(<<Block("F", 2)>>, <<Block("Q", 2), Block("L-", 1)>>,
          {<<1, 2, 1>>, <<2, 1, 1>>, <<3, 1, 1>>}, {<<3, -1>>}),
     File(<<Block("F", 2)>>, <<Block("L=", 1), Block("Q", 2)>>,
          {<<1, 1, 1>>, <<1, 2, 1>>, <<2, 1, 2>>, <<3, 2, 1>>}, {}),
     File(<<Block("L+", 2)>>, <<Block("QR", 3)>>,
          {<<1, 1, 1>>, <<2, 1, 1>>, <<3, 2, 1>>}, {}),
     File(<<Block("Q", 2), Block("L-", 1)>>, <<Block("F", 1)>>,
          {<<1, 3, 1>>}, {}),
     File(<<Block("QR", 3)>>, <<Block("QR", 2), Block("L+", 1)>>,
          {<<1, 1, 1>>, <<2, 2, 1>>, <<3, 3, 1>>}, {<<2, 1>>})}

c_Points == [n \in 1 .. 3 |-> [1 .. n -> -2 .. 2]]

c_Unspeakable == {"free", "'MARKER'"}
c_CommentNames == {"a#b"}
=============================================================================
