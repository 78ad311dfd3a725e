---------------------------- MODULE MCModelStore ----------------------------
EXTENDS ModelStoreProps

CONSTANT x

\* Three columns and two rows, with everything that refers to a column or a
\* row: as a caller builds it with the calls of this module.
Plain == Bare(<<1, 2, 3>>, <<4, 5>>, <<{1, 2}, {2}, {1}>>)
\* Sets carry tags of their own, below those given out later.
Sos == <<[tag |-> 1, col |-> <<3, 1>>, weight |-> <<1, 2>>],
         [tag |-> 2, col |-> <<2>>, weight |-> <<1>>]>>
Mixed ==
    [Plain EXCEPT !.integer = <<FALSE, TRUE, FALSE>>,
                  !.semi = <<TRUE, FALSE, FALSE>>,
                  !.ind = <<[col |-> 2, val |-> 0], [col |-> 0, val |-> 0]>>,
                  !.sos = Sos,
                  !.name.col = <<NULL, x, 1>>]
Curved ==
    [Plain EXCEPT !.quad = <<FALSE, TRUE, FALSE>>,
                  !.q = {<<2, 1>>, <<3, 2>>},
                  !.cone = <<[tag |-> 1, col |-> <<3, 2>>,
                              weight |-> <<1, 2>>]>>,
                  !.rq = <<{<<2, 1>>}, {<<3, 3>>, <<3, 1>>}>>,
                  !.name.row = <<x, NULL>>]
Models == {Plain, Mixed, Curved}

At(rows) == [rows |-> rows, bounded |-> TRUE]
Arrivals ==
    {<<At({1}), At({})>>, <<[rows |-> {2}, bounded |-> FALSE]>>, <<At({9})>>}
Groups == {<<2>>, <<3, 1>>, <<1, 1>>}
Quadratics == {{}, {<<2, 1>>, <<3, 2>>, <<1, 1>>}, {<<9, 1>>}}
RowArrivals == {<<{1}, {}>>, <<{1, 9}>>}

=============================================================================
