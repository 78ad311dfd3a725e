------------------------------ MODULE MCSolve ------------------------------
EXTENDS SolveProps

A(n, r, e) == [need |-> n, rounds |-> r, end |-> e]

\* The first attempts of a pass, then a plain optimum.
Walk(a, b, c) ==
    [i \in 1..MaxAttempts |-> CASE i = 1 -> a [] i = 2 -> b [] i = 3 -> c
                                [] OTHER -> A(1, 0, "OPTIMAL")]

Optimum == A(1, 0, "OPTIMAL")
Quick == Walk(Optimum, Optimum, Optimum)

LP == [presolve |-> "NONE", certified |-> TRUE, pre |-> 1,
       aggregates |-> FALSE, primal |-> FALSE, exact |-> FALSE,
       complete |-> TRUE, start |-> "none",
       walk |-> [p \in 1..2 |-> Quick]]

\* Every way the first two attempts can end, on a cold and on a warm start.
LadderEnds == {"OPTIMAL", "INFEASIBLE", "NUMERICAL_ERROR", "FAIL", "STALL",
               "BREACH", "LOAN"}
Ladders ==
    {[LP EXCEPT !.primal = p, !.start = b,
                !.walk = [LP.walk EXCEPT ![1] = Walk(A(1, 0, x), A(1, 0, y), z)]] :
       p \in BOOLEAN, b \in {"none", "caller"},
       x \in LadderEnds \ {"INFEASIBLE", "NUMERICAL_ERROR"}, y \in LadderEnds,
       z \in {Optimum, A(1, 0, "LOAN")}}

\* The longest ladder of the primal simplex, and attempts that all end on a
\* bound phase 1 lent.
Longest ==
    {[LP EXCEPT !.walk = [p \in 1..2 |->
                   [i \in 1..MaxAttempts |-> A(1, 0, "LOAN")]]],
     [LP EXCEPT !.primal = TRUE, !.start = "caller",
                !.walk = [p \in 1..2 |->
                    [i \in 1..MaxAttempts |->
                        A(1, 0, CASE i = 3 -> "STALL" [] i = 5 -> "LOAN"
                                  [] OTHER -> "FAIL")]]]}

\* Settling rounds, in a cold and in a warm attempt.
Settling ==
    {[LP EXCEPT !.primal = p, !.start = b,
                !.walk = [LP.walk EXCEPT ![1] =
                    Walk(A(2, r, e), A(1, 1, "OPTIMAL"), Optimum)]] :
       p \in BOOLEAN, b \in {"none", "caller"}, r \in 1..2,
       e \in {"OPTIMAL", "UNBOUNDED", "BREACH", "STALL", "FAIL"}}

\* Verdicts of presolve and second passes.
Passes ==
    {[LP EXCEPT !.presolve = v[1], !.certified = v[2], !.aggregates = v[3],
                !.complete = v[4], !.exact = x, !.start = "caller",
                !.walk = [p \in 1..2 |->
                    Walk(A(2, 0, IF p = 1 THEN e ELSE f), Optimum, Optimum)]] :
       v \in {<<"NONE", TRUE, TRUE, TRUE>>, <<"NONE", TRUE, TRUE, FALSE>>,
              <<"REDUCED", TRUE, FALSE, TRUE>>, <<"SOLVED", TRUE, TRUE, TRUE>>,
              <<"INFEASIBLE", TRUE, TRUE, TRUE>>,
              <<"INFEASIBLE", FALSE, TRUE, TRUE>>},
       x \in BOOLEAN,
       e \in {"OPTIMAL", "INFEASIBLE", "NUMERICAL_ERROR", "FAIL"},
       f \in {"OPTIMAL", "INFEASIBLE", "NUMERICAL_ERROR", "FAIL"}}

\* A long first pass that the aggregator spoils, and a short second one that
\* fails while it settles.
ShortSecond ==
    {[LP EXCEPT !.aggregates = TRUE, !.complete = c,
                !.walk = [LP.walk EXCEPT
                    ![1] = Walk(A(4, 0, "NUMERICAL_ERROR"), Optimum, Optimum),
                    ![2] = Walk(A(0, 1, "FAIL"), Optimum, Optimum)]] :
       c \in BOOLEAN}

AllPlans == Ladders \cup Longest \cup Settling \cup Passes \cup ShortSecond

=============================================================================
