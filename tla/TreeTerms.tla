----------------------------- MODULE TreeTerms -----------------------------
(* The vocabulary of a branch and bound (src/src/conictree.c): assignments   *)
(* of the discrete structure, their costs, boxes of them and the rule that   *)
(* closes a node against the incumbent.                                      *)
(*                                                                           *)
(* A point is an assignment of every integer column, semi-continuous column, *)
(* SOS set and indicator; its cost is the best objective with it, in the     *)
(* tree's own sense (lower is better), Inf when nothing satisfies the model  *)
(* and -Inf when the objective improves without limit.                       *)
EXTENDS Integers

CONSTANTS
    Points,     \* the assignments
    Inf,        \* INFINITY: above every objective, and -Inf below it
    Slack,      \* gap * (shift + |v|), for an incumbent at v
    Models      \* the models considered: costs, root box and cutoff

NegInf == -Inf
Keys == NegInf .. Inf
NoPoint == 0

\* The gap is at most 1 relative to the incumbent, so that a better incumbent
\* does not open a node that a worse one has closed; and it is finite, so
\* that nothing closes a node without a bound.
ASSUME TreeAssumption ==
    /\ Points \subseteq Nat \ {0}
    /\ Inf \in Nat \ {0}
    /\ Slack \in [Keys -> Nat]
    /\ \A v, w \in Keys : v <= w => v - Slack[v] <= w - Slack[w]
    /\ \A v \in Keys \ {NegInf} : Slack[v] < v - NegInf

CostType == [Points -> Keys]

ASSUME ModelsAssumption ==
    Models \subseteq [cost : CostType, root : SUBSET Points, cutoff : Keys]

\* ct_closed: the incumbent b, or the cutoff, is within the gap of a key.
Closed(b, key) == b.key < Inf /\ b.key - key <= Slack[b.key]

Feasible(cost, p) == cost[p] < Inf

\* No relaxation of a box is above what a point of it costs.
IsBound(cost, box, key) == \A p \in box : key <= cost[p]

\* Nothing in the box satisfies the model.
Empty(cost, box) == \A p \in box : ~Feasible(cost, p)

\* Every column of the box is fixed and every piece settled.
Single(box) == \A p, q \in box : p = q

MinKey(K) == IF K = {} THEN Inf ELSE CHOOSE k \in K : \A j \in K : k <= j
Larger(j, k) == IF j < k THEN k ELSE j

=============================================================================
