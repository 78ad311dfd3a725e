------------------------------ MODULE MCMipRoot ------------------------------
(***************************************************************************)
(* Small models for MipRoot, each made for some of the steps.  Grid is two *)
(* in the configuration: bounds and sides are twice the numbers they mean. *)
(***************************************************************************)
EXTENDS MipRoot

CONSTANTS Bins, Hull, Half, Flow, Twin, When, Par, Dead, Clash, Thirds, Split

Le(a, b) == [a |-> a, scale |-> 1, lo |-> -Inf, hi |-> b, ind |-> 0, on |-> 0]
Ge(a, b) == [a |-> a, scale |-> 1, lo |-> b, hi |-> Inf, ind |-> 0, on |-> 0]
Eq(a, b) == [a |-> a, scale |-> 1, lo |-> b, hi |-> b, ind |-> 0, on |-> 0]
If(j, v, r) == [r EXCEPT !.ind = j, !.on = v]

Model(lo, hi, int, semi, rs) ==
    [n |-> Len(lo), lo |-> lo, hi |-> hi, int |-> int, semi |-> semi,
     rows |-> rs, cost |-> [j \in 1 .. Len(lo) |-> <<j, 2>>]]

\* A knapsack with a complemented column, and a row that fits it loosely.
MCBins == Model(<<0, 0, 0>>, <<2, 2, 2>>, {1, 2, 3}, {},
    <<Le(<<3, 2, 2>>, 8), Le(<<2, 2, -1>>, 6)>>)
\* General integers: a hull, a MIR cut, and a bound that is not whole.
MCHull == Model(<<0, 0>>, <<5, 6>>, {1, 2}, {},
    <<Le(<<2, 3>>, 14), Ge(<<3, 2>>, 3)>>)
\* An odd cycle, with a column that only counts.
MCHalf == Model(<<0, 0, 0>>, <<2, 2, 2>>, {1, 2, 3}, {},
    <<Le(<<1, 1, 0>>, 2), Le(<<0, 1, 1>>, 2), Le(<<1, 0, 1>>, 2)>>)
\* Two flows switched by binaries, and what they bring.
MCFlow == Model(<<0, 0, 0, 0>>, <<Inf, 4, 2, 2>>, {3, 4}, {},
    <<Le(<<1, 0, -2, 0>>, 0), Le(<<0, 1, 0, -2>>, 0), Le(<<1, -1, 0, 0>>, 2)>>)
\* Three continuous columns that are one, and an integer one.
MCTwin == Model(<<0, -2, 1, 0>>, <<Inf, 6, Inf, 4>>, {4}, {},
    <<Eq(<<0, -2, 2, 0>>, 0), Eq(<<1, -1, 0, 0>>, 0), Le(<<1, 0, 1, 2>>, 9)>>)
\* An indicator, and a semicontinuous column.
MCWhen == Model(<<0, 2, 0>>, <<2, 3, 2>>, {1, 3}, {2},
    <<If(1, 1, Le(<<0, 1, 1>>, 4)), Ge(<<2, 1, 1>>, 5)>>)
\* An equality row whose parity leaves one binary, with a column that is fixed.
MCPar == Model(<<0, 0, 0, 2>>, <<2, 2, 2, 2>>, 1 .. 4, {},
    <<Eq(<<1, 2, 2, 1>>, 8)>>)
\* No point: the sums contradict each other.
MCDead == Model(<<0, 0, 0>>, <<2, 2, 2>>, {1, 2, 3}, {},
    <<Eq(<<1, 1, 2>>, 4), Eq(<<1, 1, -2>>, 2)>>)
\* Two branchings clash, the first of them by exactly what the row is over.
MCClash == Model(<<0, 0, 0, 0>>, <<2, 2, 2, 2>>, {1, 2}, {},
    <<Le(<<1, 4, -4, 0>>, 0), Le(<<2, 0, 0, -2>>, 2)>>)
\* Once a bound moves, the relaxation has no corner on the grid.
MCThirds == Model(<<0, 0>>, <<2, 1>>, {1}, {}, <<Eq(<<4, 6>>, 10)>>)
\* A binary that can be neither.
MCSplit == Model(<<0>>, <<2>>, {1}, {}, <<Eq(<<2>>, 2)>>)

MCModels ==
    <<Bins, Hull, Half, Flow, Twin, When, Par, Dead, Clash, Thirds, Split>>
MCWeights == -2 .. 2
==============================================================================
