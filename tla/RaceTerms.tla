----------------------------- MODULE RaceTerms -----------------------------
(* The vocabulary of the concurrent solve (src/src/concurrent.c): its arms,  *)
(* the verdicts a solve can publish, and what one call of jaos_solve on one  *)
(* arm does under a work limit.                                              *)
(*                                                                           *)
(* An arm is deterministic: its copy of the model and its method fix the     *)
(* walk it makes.  A plan is that walk, reduced to what the race can see:    *)
(*   need       work units at which the walk ends by itself,                 *)
(*   end        how it ends: a published status, or an error code ("ERR"),   *)
(*   parks      a cut walk parks its state and a later call resumes it (the  *)
(*              two simplex arms); the barrier has nothing to park and       *)
(*              starts over,                                                 *)
(*   presolved  presolve has published INFEASIBLE with a certificate that    *)
(*              does not hold, so the walk that follows is the second pass   *)
(*              of solve_without_presolve (src/src/simplex.c).               *)
(* One work unit stands for one iteration.                                   *)
EXTENDS Integers

CONSTANTS
    NArms,      \* CONCURRENT_ARMS
    Slice,      \* CONCURRENT_SLICE, the budget of an arm in the first round
    Growth,     \* CONCURRENT_GROWTH, the factor between two rounds
    MaxUnits    \* INT64_MAX, past which a budget is not grown

ASSUME RaceAssumption ==
    /\ NArms \in Nat \ {0}
    /\ Slice \in Nat \ {0}
    /\ Growth \in Nat \ {0, 1}
    /\ MaxUnits \in Nat

Arms == 0 .. NArms - 1
NoArm == -1

Decided == {"OPTIMAL", "INFEASIBLE", "UNBOUNDED"}
StoppedByCaller == {"TIME_LIMIT", "INTERRUPTED"}
Statuses == Decided \cup StoppedByCaller
                \cup {"NOT_RUN", "WORK_LIMIT", "NUMERICAL_ERROR"}
Codes == {"OK", "ERR"}

Failures == {"NUMERICAL_ERROR", "ERR"}

PlanType == [need : Nat, end : Decided \cup Failures,
             parks : BOOLEAN, presolved : BOOLEAN]

\* The work limit is read before the optimality test and not after a pivot,
\* so a failure met in a pivot ends the walk even when it lands on the limit.
EndsWithin(p, limit) ==
    IF p.end \in Failures THEN p.need <= limit ELSE p.need < limit

\* The status a fresh call has published before its walk begins.
PresolveStatus(p, before) == IF p.presolved THEN "INFEASIBLE" ELSE before

\* The budget of a turn: the slice, cut to what the caller's limit leaves.
Give(slice, cap, spent, base) ==
    IF cap > 0 /\ slice > base + (cap - spent) THEN base + (cap - spent)
                                               ELSE slice

\* settle_arm: a resumed arm is billed what it added since the last round.
Billed(resumed, last, total) ==
    IF resumed /\ total >= last THEN total - last ELSE total

=============================================================================
