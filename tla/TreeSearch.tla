----------------------------- MODULE TreeSearch -----------------------------
(* What a branch and bound promises: nodes that may still hold the optimum   *)
(* are kept, each with a bound, until they are explored, closed by the       *)
(* incumbent or set aside; the verdict and the bound published at the end    *)
(* follow from what is left.                                                 *)
EXTENDS TreeTerms

VARIABLES
    model,      \* fixed
    open,       \* nodes to explore: boxes with a bound on what is in them
    aside,      \* nodes given up with their bound
    inc,        \* the incumbent's key and point; the cutoff before there is one
    verdict,    \* "RUNNING", or what the search ended with
    bound       \* the bound published with the verdict

treeVars == <<model, open, aside, inc, verdict, bound>>

Node == [box : SUBSET Points, key : Keys]
Incumbent == [key : Keys, point : Points \cup {NoPoint}]
Stops == {"WORK_LIMIT", "TIME_LIMIT", "NODE_LIMIT", "INTERRUPTED",
          "NUMERICAL_ERROR", "ERR"}
Verdicts == Stops \cup {"RUNNING", "OPTIMAL", "INFEASIBLE", "UNBOUNDED"}

Beaten(p) == Closed(inc, model.cost[p])

\* Every point of the box that may still matter is in one of the nodes, under
\* a bound that holds for it.
Covers(nodes, box) ==
    \A p \in box : \/ ~Feasible(model.cost, p)
                   \/ Beaten(p)
                   \/ \E n \in nodes : p \in n.box /\ n.key <= model.cost[p]

Init ==
    /\ model \in Models
    /\ open = {[box |-> model.root, key |-> NegInf]}
    /\ aside = {}
    /\ inc = [key |-> model.cutoff, point |-> NoPoint]
    /\ verdict = "RUNNING"
    /\ bound = NegInf

Running == verdict = "RUNNING"

\* Nodes that the incumbent has closed are dropped.
Discard(S) ==
    /\ Running
    /\ \A n \in S : Closed(inc, n.key)
    /\ open' = open \ S
    /\ UNCHANGED <<model, aside, inc, verdict, bound>>

\* A node is solved: nodes that cover its box, or none, take its place.
Explore(n) ==
    /\ Running
    /\ open' \subseteq Node
    /\ open \ {n} \subseteq open'
    /\ Covers(open', n.box)
    /\ UNCHANGED <<model, aside, inc, verdict, bound>>

\* Nodes are given up: those a stop leaves as they are, a failed one possibly
\* with a better bound.
SetAside(S) ==
    /\ Running
    /\ open' = open \ S
    /\ aside' \subseteq Node
    /\ aside \subseteq aside'
    /\ \A n \in S : Covers(aside', n.box)
    /\ UNCHANGED <<model, inc, verdict, bound>>

\* A feasible point that is better than the incumbent takes its place.
Improve(p, v) ==
    /\ Running
    /\ model.cost[p] <= v /\ NegInf < v /\ v < inc.key
    /\ inc' = [key |-> v, point |-> p]
    /\ UNCHANGED <<model, open, aside, verdict, bound>>

Keeps(b) == \A n \in open \cup aside : b <= n.key

\* The search is over: nothing is left but what the incumbent closes.
Optimal ==
    /\ Running
    /\ inc.point # NoPoint
    /\ \A n \in open \cup aside : Closed(inc, n.key)
    /\ verdict' = "OPTIMAL"
    /\ bound' = inc.key
    /\ UNCHANGED <<model, open, aside, inc>>

Infeasible ==
    /\ Running
    /\ inc.point = NoPoint
    /\ open \cup aside = {} \/ Empty(model.cost, model.root)
    /\ verdict' = "INFEASIBLE"
    /\ bound' \in Keys
    /\ UNCHANGED <<model, open, aside, inc>>

Unbounded ==
    /\ Running
    /\ \E p \in model.root : model.cost[p] = NegInf
    /\ verdict' = "UNBOUNDED"
    /\ bound' \in {b \in Keys : Keeps(b)}
    /\ UNCHANGED <<model, open, aside, inc>>

Stop(v) ==
    /\ Running
    /\ verdict' = v
    /\ bound' \in {b \in Keys : Keeps(b)}
    /\ UNCHANGED <<model, open, aside, inc>>

Next ==
    \/ \E S \in SUBSET open : Discard(S)
    \/ \E n \in open : Explore(n)
    \/ \E S \in SUBSET open : SetAside(S)
    \/ \E p \in model.root, v \in Keys : Improve(p, v)
    \/ Optimal
    \/ Infeasible
    \/ Unbounded
    \/ \E v \in Stops : Stop(v)

Spec == Init /\ [][Next]_treeVars

-----------------------------------------------------------------------------
(* What follows.                                                             *)

\* Nothing is lost: a point that could still be the answer is in a node that
\* is held, under a bound that does not exceed it.
NothingLost == Covers(open \cup aside, model.root)

\* The incumbent is a point of the model, no better than it is.
IncumbentIsReal ==
    inc.point # NoPoint =>
        /\ inc.point \in model.root
        /\ model.cost[inc.point] <= inc.key
        /\ inc.key < model.cutoff

\* The verdict is true: an optimum is within the gap of every point, an
\* infeasible model has no point better than the cutoff by more than the gap,
\* an unbounded one has a point from which the objective improves for ever.
VerdictHolds ==
    /\ verdict = "OPTIMAL" =>
         /\ inc.point # NoPoint
         /\ \A p \in model.root : ~Feasible(model.cost, p) \/ Beaten(p)
    /\ verdict = "INFEASIBLE" =>
         /\ inc.point = NoPoint
         /\ \A p \in model.root : ~Feasible(model.cost, p) \/ Beaten(p)
    /\ verdict = "UNBOUNDED" => \E p \in model.root : model.cost[p] = NegInf

\* The bound is true: no point is better than it, unless the incumbent is
\* within the gap of that point anyway.
BoundHolds ==
    ~Running => \A p \in model.root : \/ ~Feasible(model.cost, p)
                                      \/ Beaten(p)
                                      \/ bound <= model.cost[p]

=============================================================================
