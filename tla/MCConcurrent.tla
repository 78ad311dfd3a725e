---------------------------- MODULE MCConcurrent ----------------------------
(* Small instances of the concurrent solve.  A walk ends at one of a few     *)
(* places around the budgets of the first rounds: 1, 2, 4.                   *)
EXTENDS Concurrent

Simplex(need, end) ==
    [need |-> need, end |-> end, parks |-> TRUE, presolved |-> FALSE]
Barrier(need, end) == [Simplex(need, end) EXCEPT !.parks = FALSE]

SimplexWalks ==
    {Simplex(0, "INFEASIBLE"), Simplex(1, "ERR"), Simplex(2, "NUMERICAL_ERROR"),
     Simplex(1, "OPTIMAL"), Simplex(3, "OPTIMAL"), Simplex(9, "OPTIMAL")}
BarrierWalks ==
    {Barrier(0, "OPTIMAL"), Barrier(1, "OPTIMAL"), Barrier(2, "ERR"),
     Barrier(2, "OPTIMAL"), Barrier(9, "OPTIMAL")}

\* Three arms whose walks end in every combination.
ThreeArms ==
    {[k \in Arms |-> CASE k = 0 -> d [] k = 1 -> p [] OTHER -> b] :
         d \in SimplexWalks, p \in SimplexWalks, b \in BarrierWalks}

\* The same with a presolve that calls a feasible model infeasible on all three
\* copies, with a proof that does not hold, and second passes that end.
SecondPasses ==
    {[k \in Arms |-> [p[k] EXCEPT !.presolved = TRUE]] :
         p \in {q \in ThreeArms : \A k \in Arms : q[k].end # "ERR"}}
OnceOrTwice == ThreeArms \cup SecondPasses

\* Presolve calls a feasible model infeasible with a proof that does not
\* hold, on all three copies, and the dual's second pass fails.
Uncertified ==
    {[k \in Arms |-> [p[k] EXCEPT !.presolved = TRUE]] : p \in ThreeArms}

OneThreadOrThree == {1, 3}
=============================================================================
