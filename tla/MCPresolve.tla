------------------------------ MODULE MCPresolve ------------------------------
(***************************************************************************)
(* Presolve, the aggregator and the way back on small programs.            *)
(* Numbers are given in quarters of what the programs hold.                *)
(***************************************************************************)
EXTENDS ReducedSolve

I == 100000
Scaled(v) == IF v \in {I, -I} THEN v ELSE 36 * v
Program(a, boxes, sides, cost, sigma) ==
    [rows |-> DOMAIN sides, cols |-> DOMAIN boxes, a |-> a,
     cl |-> [j \in DOMAIN boxes |-> Scaled(boxes[j][1])],
     cu |-> [j \in DOMAIN boxes |-> Scaled(boxes[j][2])],
     rl |-> [i \in DOMAIN sides |-> Scaled(sides[i][1])],
     ru |-> [i \in DOMAIN sides |-> Scaled(sides[i][2])],
     cost |-> [j \in DOMAIN cost |-> Scaled(cost[j])],
     sigma |-> sigma, offset |-> 0]

Boxes == {<<0, 4>>, <<0, I>>, <<-I, I>>}
RowSides == {<<-I, 4>>, <<0, I>>, <<4, 4>>}
TwoRows == { << <<1, 0>>, <<1, 1>> >>, << <<1, 1>>, <<0, -1>> >> }
Small == {Program(a, b, r, c, 1) :
            a \in TwoRows, b \in [1..2 -> Boxes], r \in [1..2 -> RowSides],
            c \in {<<4, 0>>, <<-4, 4>>}}

\* A column in one equality, over two that a second row keeps.
Wide == {Program(<< <<1, 1, 1>>, <<0, 1, -1>> >>,
                 << b, <<0, 4>>, <<0, 4>> >>, << <<8, 8>>, r >>, c, 1) :
           b \in {<<-I, I>>, <<0, I>>}, r \in {<<-I, 0>>, <<0, 0>>},
           c \in {<<4, 0, 4>>, <<-4, -4, 0>>, <<0, 4, -4>>}}

ThreeRows == { << <<1, 1, 0>>, <<0, 1, 1>>, <<1, 0, 1>> >>,
               << <<1, 1, 1>>, <<0, 1, 1>>, <<0, 0, 1>> >>,
               << <<2, 1, 0>>, <<0, 1, -2>>, <<0, 0, 1>> >> }
Up8 == <<-I, 8>>
Is8 == <<8, 8>>
Large == {Program(a, b, r, c, -1) :
            a \in ThreeRows,
            b \in {[j \in 1..3 |-> <<0, 8>>],
                   << <<0, I>>, <<0, 8>>, <<-I, I>> >>},
            r \in { <<Is8, Is8, Up8>>, <<Is8, <<0, I>>, Is8>>,
                    <<Up8, Is8, Is8>>, <<Up8, <<0, I>>, Up8>> },
            c \in {<<8, 0, -8>>, <<-8, -8, 0>>}}

\* Rows that say the same of their columns, and disagree.
Parallel == {Program(<< <<1, 1>>, <<k, k>> >>, b, << <<4, 4>>, <<8, I>> >>,
                     c, 1) :
               k \in {1, -1}, b \in [1..2 -> {<<0, 8>>, <<-I, I>>}],
               c \in {<<4, 0>>, <<0, 0>>}}

\* A free column alone in what is left of a row, a row with nothing left in it,
\* rows at the most they can reach, a row that folds into a certificate's box.
Corners ==
    {Program(<< <<1, 1>>, <<0, -1>> >>, << <<-I, I>>, <<0, 4>> >>,
             << r, <<-4, -4>> >>, <<0, 4>>, 1) :
       r \in {<<0, I>>, <<-I, 4>>, <<-I, I>>}}
    \cup {Program(<< <<1, 1>>, <<1, -1>> >>, [j \in 1..2 |-> b],
                  << r, <<-I, 4>> >>, c, sign) :
             b \in {<<4, 4>>, <<0, 4>>}, r \in {<<8, 8>>, <<8, I>>, <<12, I>>},
             c \in {<<4, 0>>, <<-4, 4>>}, sign \in {1, -1}}
    \cup {Program(<< <<1, 1>>, <<1, -1>>, <<0, k>> >>, << <<-I, I>>, b >>,
                  << Is8, Is8, IF k > 0 THEN <<4, I>> ELSE <<-I, -4>> >>,
                  <<4, 0>>, 1) :
             k \in {1, -1}, b \in {<<0, 8>>, <<-I, I>>}}

MCModels == Small \cup Wide \cup Large \cup Parallel \cup Corners
\* The first two kinds are solved again.
MCEdits(p) == IF p \in Large \cup Parallel \cup Corners THEN {}
              ELSE {n \in Small \cup Wide : n.a = p.a}
MCMultipliers == {-144, -72, 0, 72, 144}
===============================================================================
