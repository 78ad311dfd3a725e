----------------------------- MODULE TreeProofs -----------------------------
(* Every search that is a TreeSearch publishes a true verdict and a true     *)
(* bound, for any models, keys and gap of TreeAssumption.                    *)
EXTENDS TreeSearch, TLAPS

Types ==
    /\ model \in Models
    /\ open \subseteq Node
    /\ aside \subseteq Node
    /\ inc \in Incumbent
    /\ bound \in Keys

\* Together, inductive: NothingLost makes the verdict and the bound that the
\* last step publishes true, and no step follows it.
TreeInv ==
    /\ Types
    /\ NothingLost
    /\ inc.key <= model.cutoff
    /\ IncumbentIsReal
    /\ VerdictHolds
    /\ BoundHolds

-----------------------------------------------------------------------------
(* Keys.                                                                     *)

\* The keys are integers between -Inf and Inf, and so are the costs.
LEMMA KeysAreIntegers ==
    /\ Inf \in Nat \ {0}
    /\ NegInf \in Int
    /\ NegInf \in Keys /\ Inf \in Keys
    /\ \A k \in Keys : k \in Int /\ NegInf <= k /\ k <= Inf
    /\ \A k \in Keys : Slack[k] \in Nat
<1>1. Inf \in Nat \ {0} /\ Slack \in [Keys -> Nat]
    BY TreeAssumption
<1> QED BY <1>1 DEF Keys, NegInf

LEMMA CostsAreKeys ==
    ASSUME NEW w \in Models, NEW p \in w.root
    PROVE  w.cost[p] \in Keys /\ p \in Points /\ p # NoPoint
PROOF BY ModelsAssumption, TreeAssumption DEF CostType, NoPoint

\* A node that the incumbent closes has nothing better than the incumbent.
LEMMA ClosedUpwards ==
    ASSUME NEW b \in Incumbent, NEW k \in Keys, NEW c \in Keys,
           Closed(b, k), k <= c
    PROVE  Closed(b, c)
<1>1. b.key \in Int /\ k \in Int /\ c \in Int /\ Slack[b.key] \in Nat
    BY KeysAreIntegers DEF Incumbent
<1> QED BY <1>1 DEF Closed

\* What a worse incumbent closes, a better one closes: the gap is at most 1.
LEMMA ClosedByBetter ==
    ASSUME NEW b \in Incumbent, NEW d \in Incumbent, NEW c \in Keys,
           d.key <= b.key, Closed(b, c)
    PROVE  Closed(d, c)
<1>1. /\ b.key \in Keys /\ d.key \in Keys
      /\ b.key \in Int /\ d.key \in Int /\ c \in Int /\ Inf \in Int
      /\ Slack[b.key] \in Nat /\ Slack[d.key] \in Nat
    BY KeysAreIntegers DEF Incumbent
<1>2. d.key - Slack[d.key] <= b.key - Slack[b.key]
    BY <1>1, TreeAssumption
<1> QED BY <1>1, <1>2 DEF Closed

-----------------------------------------------------------------------------
(* The initial states.                                                       *)

LEMMA InitTree == Init => TreeInv
<1> SUFFICES ASSUME Init PROVE TreeInv
    OBVIOUS
<1> USE DEF Init
<1>1. Types
    <2>1. model.cutoff \in Keys /\ model.root \in SUBSET Points
        BY ModelsAssumption
    <2> QED BY <2>1, KeysAreIntegers DEF Types, Node, Incumbent
<1>2. NothingLost
    <2> SUFFICES ASSUME NEW p \in model.root
                 PROVE  \E n \in open \cup aside : p \in n.box /\ n.key <= model.cost[p]
        BY DEF NothingLost, Covers
    <2>1. NegInf <= model.cost[p]
        BY CostsAreKeys, KeysAreIntegers
    <2> QED BY <2>1
<1>3. inc.key <= model.cutoff
    <2>1. model.cutoff \in Keys /\ inc.key = model.cutoff
        BY ModelsAssumption
    <2>2. model.cutoff \in Int
        BY <2>1, KeysAreIntegers
    <2> QED BY <2>1, <2>2
<1>4. IncumbentIsReal /\ VerdictHolds /\ BoundHolds
    BY DEF IncumbentIsReal, VerdictHolds, BoundHolds, Running
<1> QED BY <1>1, <1>2, <1>3, <1>4 DEF TreeInv

-----------------------------------------------------------------------------
(* The steps of the search keep what could be the answer.                    *)

LEMMA TypesStep == TreeInv /\ [Next]_treeVars => Types'
<1> SUFFICES ASSUME TreeInv, [Next]_treeVars PROVE Types'
    OBVIOUS
<1> USE DEF TreeInv, Types
<1>1. ASSUME NEW S \in SUBSET open, Discard(S) PROVE Types'
    BY <1>1 DEF Discard
<1>2. ASSUME NEW n \in open, Explore(n) PROVE Types'
    BY <1>2 DEF Explore
<1>3. ASSUME NEW S \in SUBSET open, SetAside(S) PROVE Types'
    BY <1>3 DEF SetAside
<1>4. ASSUME NEW p \in model.root, NEW v \in Keys, Improve(p, v) PROVE Types'
    BY <1>4, CostsAreKeys DEF Improve, Incumbent
<1>5. CASE Optimal
    BY <1>5 DEF Optimal, Incumbent
<1>6. CASE Infeasible
    BY <1>6 DEF Infeasible
<1>7. CASE Unbounded
    BY <1>7 DEF Unbounded
<1>8. ASSUME NEW v \in Stops, Stop(v) PROVE Types'
    BY <1>8 DEF Stop
<1>9. CASE UNCHANGED treeVars
    BY <1>9 DEF treeVars
<1> QED BY <1>1, <1>2, <1>3, <1>4, <1>5, <1>6, <1>7, <1>8, <1>9 DEF Next

\* A point of the root that may still matter.
Matters(p) == Feasible(model.cost, p) /\ ~Beaten(p)
HeldIn(p, n) == p \in n.box /\ n.key <= model.cost[p]

LEMMA Holder ==
    ASSUME TreeInv, NEW p \in model.root, Matters(p)
    PROVE  \E n \in open \cup aside : HeldIn(p, n)
PROOF BY DEF TreeInv, NothingLost, Covers, Matters, HeldIn

LEMMA HolderIsOpen ==
    ASSUME TreeInv, NEW p \in model.root, Matters(p),
           NEW n \in open \cup aside, HeldIn(p, n)
    PROVE  ~Closed(inc, n.key)
<1>1. n.key \in Keys /\ inc \in Incumbent /\ model.cost[p] \in Keys
    BY CostsAreKeys DEF TreeInv, Types, Node
<1> QED BY <1>1, ClosedUpwards DEF Matters, Beaten, HeldIn

LEMMA NothingLostStep == TreeInv /\ [Next]_treeVars => NothingLost'
<1> SUFFICES ASSUME TreeInv, [Next]_treeVars PROVE NothingLost'
    OBVIOUS
<1>0. model' = model
    BY DEF Next, Discard, Explore, SetAside, Improve, Optimal, Infeasible,
           Unbounded, Stop, treeVars
\* While the incumbent is the same, it is enough that a node takes over.
<1>a. ASSUME inc' = inc,
             \A p \in model.root : Matters(p) =>
                 \E n \in open' \cup aside' : HeldIn(p, n)
      PROVE  NothingLost'
    BY <1>0, <1>a DEF NothingLost, Covers, Matters, HeldIn, Beaten
<1>1. ASSUME NEW S \in SUBSET open, Discard(S) PROVE NothingLost'
    <2> SUFFICES ASSUME NEW p \in model.root, Matters(p)
                 PROVE  \E n \in open' \cup aside' : HeldIn(p, n)
        BY <1>1, <1>a DEF Discard
    <2>1. PICK n \in open \cup aside : HeldIn(p, n)
        BY Holder
    <2>2. n \notin S
        BY <1>1, <2>1, HolderIsOpen DEF Discard
    <2> QED BY <1>1, <2>1, <2>2 DEF Discard
<1>2. ASSUME NEW m \in open, Explore(m) PROVE NothingLost'
    <2> SUFFICES ASSUME NEW p \in model.root, Matters(p)
                 PROVE  \E n \in open' \cup aside' : HeldIn(p, n)
        BY <1>2, <1>a DEF Explore
    <2>1. PICK n \in open \cup aside : HeldIn(p, n)
        BY Holder
    <2>2. CASE n = m
        <3>1. Covers(open', m.box)
            BY <1>2 DEF Explore
        <3> QED BY <2>1, <2>2, <3>1 DEF Covers, HeldIn, Matters
    <2>3. CASE n # m
        BY <1>2, <2>1, <2>3 DEF Explore
    <2> QED BY <2>2, <2>3
<1>3. ASSUME NEW S \in SUBSET open, SetAside(S) PROVE NothingLost'
    <2> SUFFICES ASSUME NEW p \in model.root, Matters(p)
                 PROVE  \E n \in open' \cup aside' : HeldIn(p, n)
        BY <1>3, <1>a DEF SetAside
    <2>1. PICK n \in open \cup aside : HeldIn(p, n)
        BY Holder
    <2>2. CASE n \in S
        <3>1. Covers(aside', n.box)
            BY <1>3, <2>2 DEF SetAside
        <3> QED BY <2>1, <3>1 DEF Covers, HeldIn, Matters
    <2>3. CASE n \notin S
        BY <1>3, <2>1, <2>3 DEF SetAside
    <2> QED BY <2>2, <2>3
<1>4. ASSUME NEW q \in model.root, NEW v \in Keys, Improve(q, v)
      PROVE  NothingLost'
    <2>1. inc \in Incumbent /\ inc' \in Incumbent /\ inc'.key <= inc.key
        <3>1. inc' = [key |-> v, point |-> q] /\ v < inc.key /\ q \in Points
            BY <1>4, CostsAreKeys DEF Improve, TreeInv, Types
        <3>2. inc \in Incumbent
            BY DEF TreeInv, Types
        <3>3. v \in Int /\ inc.key \in Int
            BY <3>2, KeysAreIntegers DEF Incumbent
        <3>4. inc' \in Incumbent
            BY <3>1 DEF Incumbent
        <3> QED BY <3>1, <3>2, <3>3, <3>4
    <2>2. \A p \in model.root : Beaten(p) => Closed(inc', model.cost[p])
        BY <2>1, ClosedByBetter, CostsAreKeys DEF Beaten, TreeInv, Types
    <2>3. open' = open /\ aside' = aside
        BY <1>4 DEF Improve
    <2> QED BY <1>0, <2>2, <2>3 DEF TreeInv, NothingLost, Covers, Beaten
<1>5. CASE \/ Optimal \/ Infeasible \/ Unbounded
           \/ \E v \in Stops : Stop(v)
           \/ UNCHANGED treeVars
    <2>1. inc' = inc /\ open' = open /\ aside' = aside
        BY <1>5 DEF Optimal, Infeasible, Unbounded, Stop, treeVars
    <2> QED BY <1>a, <2>1, Holder
<1> QED BY <1>1, <1>2, <1>3, <1>4, <1>5 DEF Next

-----------------------------------------------------------------------------
(* What the last step publishes.                                             *)

LEMMA IncumbentStep ==
    TreeInv /\ [Next]_treeVars => (inc.key <= model.cutoff /\ IncumbentIsReal)'
<1> SUFFICES ASSUME TreeInv, [Next]_treeVars
             PROVE  (inc.key <= model.cutoff /\ IncumbentIsReal)'
    OBVIOUS
<1>0. model' = model
    BY DEF Next, Discard, Explore, SetAside, Improve, Optimal, Infeasible,
           Unbounded, Stop, treeVars
<1>1. ASSUME NEW p \in model.root, NEW v \in Keys, Improve(p, v)
      PROVE  (inc.key <= model.cutoff /\ IncumbentIsReal)'
    <2>1. /\ inc' = [key |-> v, point |-> p]
          /\ v < inc.key /\ model.cost[p] <= v
        BY <1>1 DEF Improve
    <2>2. /\ inc.key \in Int /\ v \in Int /\ model.cutoff \in Int
          /\ inc.key <= model.cutoff
        BY ModelsAssumption, KeysAreIntegers DEF TreeInv, Types, Incumbent
    <2> QED BY <1>0, <2>1, <2>2 DEF IncumbentIsReal
<1>2. CASE inc' = inc
    BY <1>0, <1>2 DEF TreeInv, IncumbentIsReal
<1> QED BY <1>1, <1>2 DEF Next, Discard, Explore, SetAside, Optimal,
           Infeasible, Unbounded, Stop, treeVars

\* The verdict and the bound, at the step that publishes them.
LEMMA PublishStep ==
    TreeInv /\ [Next]_treeVars => VerdictHolds' /\ BoundHolds'
<1> SUFFICES ASSUME TreeInv, [Next]_treeVars
             PROVE  VerdictHolds' /\ BoundHolds'
    OBVIOUS
<1> DEFINE Over == \A p \in model.root : ~Matters(p)
<1>1. ASSUME Running, Running' PROVE VerdictHolds' /\ BoundHolds'
    BY <1>1 DEF VerdictHolds, BoundHolds, Running
<1>2. CASE UNCHANGED treeVars
    BY <1>2 DEF treeVars, TreeInv, VerdictHolds, BoundHolds, Running, Beaten
<1>3. CASE Optimal
    <2>1. Over
        BY <1>3, Holder, HolderIsOpen DEF Optimal
    <2>2. /\ verdict' = "OPTIMAL" /\ inc' = inc /\ model' = model
          /\ inc.point # NoPoint
        BY <1>3 DEF Optimal
    <2> QED BY <2>1, <2>2 DEF VerdictHolds, BoundHolds, Beaten, Matters
<1>4. CASE Infeasible
    <2>1. Over
        <3>1. CASE open \cup aside = {}
            BY <3>1, Holder
        <3>2. CASE Empty(model.cost, model.root)
            BY <3>2 DEF Empty, Matters
        <3> QED BY <1>4, <3>1, <3>2 DEF Infeasible
    <2>2. /\ verdict' = "INFEASIBLE" /\ inc' = inc /\ model' = model
          /\ inc.point = NoPoint
        BY <1>4 DEF Infeasible
    <2> QED BY <2>1, <2>2 DEF VerdictHolds, BoundHolds, Beaten, Matters
<1>5. ASSUME NEW b \in Keys, Keeps(b), NEW p \in model.root, Matters(p)
      PROVE  b <= model.cost[p]
    <2>1. PICK n \in open \cup aside : HeldIn(p, n)
        BY <1>5, Holder
    <2>2. n.key \in Int /\ b \in Int /\ model.cost[p] \in Int
        BY CostsAreKeys, KeysAreIntegers DEF TreeInv, Types, Node
    <2> QED BY <1>5, <2>1, <2>2 DEF Keeps, HeldIn
<1>6. CASE Unbounded
    <2>1. /\ verdict' = "UNBOUNDED" /\ inc' = inc /\ model' = model
          /\ \E p \in model.root : model.cost[p] = NegInf
          /\ bound' \in Keys /\ Keeps(bound')
        BY <1>6 DEF Unbounded
    <2> QED BY <1>5, <2>1 DEF VerdictHolds, BoundHolds, Beaten, Matters
<1>7. ASSUME NEW v \in Stops, Stop(v) PROVE VerdictHolds' /\ BoundHolds'
    <2>1. /\ verdict' = v /\ inc' = inc /\ model' = model
          /\ bound' \in Keys /\ Keeps(bound')
        BY <1>7 DEF Stop
    <2>2. v \notin {"OPTIMAL", "INFEASIBLE", "UNBOUNDED"}
        BY DEF Stops
    <2> QED BY <1>5, <2>1, <2>2 DEF VerdictHolds, BoundHolds, Beaten, Matters
<1> QED BY <1>1, <1>2, <1>3, <1>4, <1>6, <1>7
        DEF Next, Discard, Explore, SetAside, Improve, Running

-----------------------------------------------------------------------------
LEMMA TreeInvAlways == Spec => []TreeInv
<1>1. TreeInv /\ [Next]_treeVars => TreeInv'
    BY TypesStep, NothingLostStep, IncumbentStep, PublishStep DEF TreeInv
<1> QED BY InitTree, <1>1, PTL DEF Spec

\* Of any search that is a TreeSearch: the status and the incumbent it
\* publishes are true of the model.
THEOREM TreeVerdictHolds == Spec => []VerdictHolds
<1>1. TreeInv => VerdictHolds
    BY DEF TreeInv
<1> QED BY TreeInvAlways, <1>1, PTL

\* And the bound it publishes is a bound, whether it has finished or a limit, a
\* callback or a failure has stopped it.
THEOREM TreeBoundHolds == Spec => []BoundHolds
<1>1. TreeInv => BoundHolds
    BY DEF TreeInv
<1> QED BY TreeInvAlways, <1>1, PTL

\* The incumbent is a point of the model, and better than the cutoff.
THEOREM TreeIncumbentIsReal == Spec => []IncumbentIsReal
<1>1. TreeInv => IncumbentIsReal
    BY DEF TreeInv
<1> QED BY TreeInvAlways, <1>1, PTL

=============================================================================
