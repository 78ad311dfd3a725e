-------------------------- MODULE ConicTreeProofs --------------------------
(* The conic branch and bound implements TreeSearch, so that the verdict,    *)
(* the incumbent and the bound it returns are true of the model; and so are  *)
(* the bounds of its events.  For any models, splits, batches, threads and   *)
(* limits of the named assumptions.                                          *)
EXTENDS ConicTree, SequenceTheorems, FiniteSetTheorems, TLAPS

Proved == INSTANCE TreeProofs WITH
    open <- OpenNodes,
    verdict <- IF pc # "returned" THEN "RUNNING"
               ELSE IF code = "ERR" THEN "ERR" ELSE outcome

\* A ray under a cutoff that closes 0 ends INFEASIBLE: the run conic_cutoff.
NoRayUnderCutoff ==
    \A w \in Worlds : w[2].ray # {} => ~Closed([key |-> w[1].cutoff], 0)

-----------------------------------------------------------------------------
(* The inductive invariant.                                                  *)

\* A node that is held: its key is finite and a bound of its box.
NodeKeys == Keys \ {Inf}
Good(w) == {n \in [id : Int, box : SUBSET w.root, key : NodeKeys] :
                IsBound(w.cost, n.box, n.key)}
Apart == [box : SUBSET Points, key : NodeKeys]
Incumbents == [key : Keys, point : Points \cup {NoPoint}]

Types ==
    /\ <<model, shape>> \in Worlds
    /\ heap \subseteq Good(model)
    /\ stack \in Seq(Good(model))
    /\ next \in Good(model) \cup {NoNode}
    /\ cur \in Good(model) \cup {NoNode}
    /\ batch \in Seq(Good(model))
    /\ at \in Nat \ {0}
    /\ inc \in Incumbents
    /\ nodes \in Nat /\ nextId \in Nat
    /\ bestBound \in Keys /\ parkedKey \in Keys /\ stoppedKey \in Keys
    /\ told \in Keys /\ bound \in Keys
    /\ aside \subseteq Apart

\* Where the nodes can be at each place of the code.
AtNode == pc \in {"node", "dive", "branch", "leaf"}
Over == pc \in {"finish", "returned"}
Placement ==
    /\ pc = "start" => cur = Root
    /\ pc = "limits" => cur # NoNode
    /\ pc \in {"start", "select", "limits", "finish"} => batch = <<>> /\ at = 1
    /\ pc \notin {"start", "limits", "finish", "returned"} => cur = NoNode
    /\ pc \in {"fill", "solve"} => at = 1
    /\ AtNode => /\ at \in 1 .. Len(batch)
                 /\ key \in NodeKeys
                 /\ IsBound(model.cost, batch[at].box, key)
    /\ ~Over => bound = NegInf
    /\ pc # "returned" => code = "OK" /\ bound = NegInf

\* A point that the incumbent closes, or that does not satisfy the model.
Settled(p) == ~Feasible(model.cost, p) \/ Closed(inc, model.cost[p])

\* A leaf that is closed holds nothing better than the incumbent.
LeafIsClosed ==
    pc = "leaf" /\ closed => \A p \in batch[at].box : Settled(p)

\* The incumbent is a point of the model, better than the cutoff.
IncIsReal ==
    /\ inc.key <= model.cutoff
    /\ HasIncumbent => /\ inc.point \in model.root
                       /\ model.cost[inc.point] <= inc.key
                       /\ inc.key < model.cutoff

NoneHeld ==
    heap = {} /\ stack = <<>> /\ next = NoNode /\ cur = NoNode /\ batch = <<>>
Ended == {"OPTIMAL", "INFEASIBLE", "UNBOUNDED"}
Outcomes == Searched \cup {"NOT_RUN", "INTERRUPTED"}

\* What an outcome says before it is told, and of which nodes only a bound is
\* left.
OutcomeIsSound ==
    /\ outcome \in Outcomes
    /\ pc \in {"start", "limits", "select", "fill", "solve", "consume"} \/ AtNode
       => outcome = "NOT_RUN"
    /\ pc = "leftover" \/ pc = "finish" => outcome # "NOT_RUN"
    /\ outcome = "UNBOUNDED" => \E p \in model.root : model.cost[p] = NegInf
    /\ outcome = "OPTIMAL" /\ pc = "finish" => NoneHeld /\ HasIncumbent
    /\ outcome = "OPTIMAL" => Over
    /\ outcome = "INFEASIBLE" /\ ~Empty(model.cost, model.root) =>
          /\ Over /\ ~HasIncumbent
          /\ pc = "finish" => NoneHeld
    /\ \/ outcome = "NOT_RUN" \/ outcome = "OPTIMAL" \/ ~Over
       \/ outcome = "INFEASIBLE" /\ ~Empty(model.cost, model.root)
       => stoppedKey = Inf
    /\ \A n \in aside : parkedKey <= n.key \/ stoppedKey <= n.key

IInv == Types /\ Placement /\ LeafIsClosed /\ IncIsReal /\ OutcomeIsSound

-----------------------------------------------------------------------------
(* Keys and nodes.                                                           *)

LEMMA KeyFacts ==
    /\ Inf \in Nat /\ NegInf \in Int /\ NegInf < Inf
    /\ NegInf \in NodeKeys /\ NegInf \in Keys /\ Inf \in Keys
    /\ \A k \in Keys : k \in Int /\ NegInf <= k /\ k <= Inf
    /\ \A k \in NodeKeys : k \in Int /\ k < Inf /\ k \in Keys /\ k # Inf
    /\ \A k \in Keys : Slack[k] \in Nat
    /\ Relaxed \subseteq NodeKeys \ {NegInf}
<1>1. Inf \in Nat \ {0} /\ Slack \in [Keys -> Nat]
    BY TreeAssumption
<1>2. Relaxed \subseteq Keys \ {NegInf, Inf}
    BY ConicTreeAssumption
<1> QED BY <1>1, <1>2 DEF Keys, NegInf, NodeKeys

LEMMA LargerKey ==
    ASSUME NEW j \in NodeKeys, NEW k \in NodeKeys
    PROVE  Larger(j, k) \in NodeKeys /\ j <= Larger(j, k)
PROOF BY KeyFacts DEF Larger

LEMMA WorldFacts ==
    ASSUME NEW w, NEW s, <<w, s>> \in Worlds
    PROVE  /\ w \in Models /\ s \in ShapeType
           /\ w.root \subseteq Points /\ w.cutoff \in Keys
           /\ \A p \in Points : w.cost[p] \in Keys /\ p # NoPoint
<1>1. w \in Models /\ s \in ShapeType
    BY ConicTreeAssumption
<1>2. w \in [cost : CostType, root : SUBSET Points, cutoff : Keys]
    BY <1>1, ModelsAssumption
<1> QED BY <1>1, <1>2, TreeAssumption DEF CostType, NoPoint

\* NoNode is not a node.
LEMMA GoodFacts ==
    ASSUME NEW w, NEW n \in Good(w)
    PROVE  /\ n.box \subseteq w.root /\ n.key \in NodeKeys /\ n # NoNode
           /\ IsBound(w.cost, n.box, n.key)
PROOF BY DEF Good, NoNode, NodeKeys

LEMMA MakesGood ==
    ASSUME NEW w, NEW i \in Int, NEW B \in SUBSET w.root, NEW k \in NodeKeys,
           IsBound(w.cost, B, k)
    PROVE  [id |-> i, box |-> B, key |-> k] \in Good(w)
PROOF BY DEF Good

\* A part of a box has the box's bound.
LEMMA BoundOfPart ==
    ASSUME NEW c, NEW B, NEW D, D \subseteq B, NEW k, IsBound(c, B, k)
    PROVE  IsBound(c, D, k)
PROOF BY DEF IsBound

\* ClosedUpwards and ClosedByBetter of TreeProofs, for the code's incumbent.
LEMMA ClosedAbove ==
    ASSUME NEW b \in Incumbents, NEW k \in Keys, NEW c \in Keys,
           Closed(b, k), k <= c
    PROVE  Closed(b, c)
<1>1. b.key \in Int /\ k \in Int /\ c \in Int /\ Slack[b.key] \in Nat
    BY KeyFacts DEF Incumbents
<1> QED BY <1>1 DEF Closed

LEMMA ClosedAlso ==
    ASSUME NEW b \in Incumbents, NEW d \in Incumbents, NEW c \in Keys,
           d.key <= b.key, Closed(b, c)
    PROVE  Closed(d, c)
<1>1. /\ b.key \in Keys /\ d.key \in Keys
      /\ b.key \in Int /\ d.key \in Int /\ c \in Int /\ Inf \in Int
      /\ Slack[b.key] \in Nat /\ Slack[d.key] \in Nat
    BY KeyFacts DEF Incumbents
<1>2. d.key - Slack[d.key] <= b.key - Slack[b.key]
    BY <1>1, TreeAssumption
<1> QED BY <1>1, <1>2 DEF Closed

\* What costs no less than the incumbent is closed by it.
LEMMA ClosedByItself ==
    ASSUME NEW b \in Incumbents, NEW c \in Keys, b.key <= c, b.key < Inf
    PROVE  Closed(b, c)
<1>1. b.key \in Int /\ c \in Int /\ Slack[b.key] \in Nat
    BY KeyFacts DEF Incumbents
<1> QED BY <1>1 DEF Closed

-----------------------------------------------------------------------------
(* Sequences as sets of nodes.                                               *)

LEMMA RangeOf ==
    ASSUME NEW S, NEW s \in Seq(S)
    PROVE  /\ Len(s) \in Nat
           /\ Range(s) = {s[i] : i \in 1 .. Len(s)}
           /\ Range(s) \subseteq S
           /\ \A i \in 1 .. Len(s) : s[i] \in S
PROOF BY LenProperties, ElementOfSeq DEF Range

LEMMA RangeOfEmpty == Range(<<>>) = {}
PROOF BY DEF Range

LEMMA Beneath ==
    ASSUME NEW S, NEW s \in Seq(S), NEW i \in 1 .. Len(s)
    PROVE  /\ SubSeq(s, 1, i - 1) \in Seq(S)
           /\ Range(SubSeq(s, 1, i - 1)) = {s[j] : j \in 1 .. i - 1}
<1> DEFINE t == SubSeq(s, 1, i - 1)
<1>1. Len(s) \in Nat /\ i \in Int /\ i - 1 \in Int
    BY LenProperties
<1>2. \A j \in 1 .. i - 1 : s[j] \in S
    BY <1>1, ElementOfSeq
<1>3. /\ t \in Seq(S)
      /\ Len(t) = IF 1 <= i - 1 THEN (i - 1) - 1 + 1 ELSE 0
      /\ \A j \in 1 .. (i - 1) - 1 + 1 : t[j] = s[1 + j - 1]
    BY <1>1, <1>2, SubSeqProperties
<1>4. Len(t) = i - 1 /\ \A j \in 1 .. i - 1 : t[j] = s[j]
    BY <1>1, <1>3
<1>5. t \in Seq(S)
    BY <1>3
<1> HIDE DEF t
<1>6. Range(t) = {t[j] : j \in 1 .. Len(t)}
    BY <1>5, RangeOf
<1>7. Range(t) = {s[j] : j \in 1 .. i - 1}
    BY <1>4, <1>6
<1> QED BY <1>5, <1>7 DEF t

LEMMA RangeOfConcat ==
    ASSUME NEW S, NEW s \in Seq(S), NEW t \in Seq(S)
    PROVE  s \o t \in Seq(S) /\ Range(s \o t) = Range(s) \cup Range(t)
<1>1. /\ s \o t \in Seq(S) /\ Len(s \o t) = Len(s) + Len(t)
      /\ \A i \in 1 .. Len(s) + Len(t) :
            (s \o t)[i] = IF i <= Len(s) THEN s[i] ELSE t[i - Len(s)]
      /\ Len(s) \in Nat /\ Len(t) \in Nat
    BY ConcatProperties, LenProperties
<1>2. /\ Range(s \o t) = {(s \o t)[i] : i \in 1 .. Len(s) + Len(t)}
      /\ Range(s) = {s[i] : i \in 1 .. Len(s)}
      /\ Range(t) = {t[i] : i \in 1 .. Len(t)}
    BY <1>1, RangeOf
<1> DEFINE u == s \o t
<1>3. \A i \in 1 .. Len(t) :
        u[Len(s) + i] = t[i] /\ Len(s) + i \in 1 .. Len(s) + Len(t)
    BY <1>1
<1>4. \A i \in 1 .. Len(s) : u[i] = s[i] /\ i \in 1 .. Len(s) + Len(t)
    BY <1>1
<1>5. \A i \in 1 .. Len(s) + Len(t) :
          \/ i \in 1 .. Len(s) /\ u[i] = s[i]
          \/ i - Len(s) \in 1 .. Len(t) /\ u[i] = t[i - Len(s)]
    BY <1>1
<1> HIDE DEF u
<1>6. Range(u) = Range(s) \cup Range(t)
    BY <1>2, <1>3, <1>4, <1>5 DEF u
<1> QED BY <1>1, <1>6 DEF u

LEMMA OneOf ==
    ASSUME NEW S, NEW e \in S
    PROVE  <<e>> \in Seq(S) /\ Len(<<e>>) = 1 /\ Range(<<e>>) = {e}
<1>1. <<e>> \in Seq(S) /\ Len(<<e>>) = 1 /\ <<e>>[1] = e
    OBVIOUS
<1>2. Range(<<e>>) = {<<e>>[i] : i \in 1 .. 1}
    BY <1>1, RangeOf
<1> QED BY <1>1, <1>2

-----------------------------------------------------------------------------
(* Splits.                                                                   *)

LEMMA PairIsFinite ==
    ASSUME NEW a, NEW b, NEW S \in SUBSET {a, b}
    PROVE  Cardinality(S) \in Nat
<1>1. IsFiniteSet({a} \cup {b})
    BY FS_Singleton, FS_Union
<1>2. S \in SUBSET ({a} \cup {b})
    OBVIOUS
<1>3. IsFiniteSet(S)
    BY <1>1, <1>2, FS_Subset
<1> QED BY <1>3, FS_CardinalityType

\* The children of a box hold all of it that satisfies the model.
LEMMA ChildrenCover ==
    ASSUME <<model, shape>> \in Worlds, nextId \in Nat,
           NEW B \in SUBSET model.root, NEW s \in Splits[B],
           NEW k \in NodeKeys, IsBound(model.cost, B, k)
    PROVE  /\ Children(s, k) \subseteq Good(model)
           /\ nextId + Cardinality(Children(s, k)) \in Nat
           /\ \A p \in B : Feasible(model.cost, p) =>
                \E c \in Children(s, k) : p \in c.box /\ c.key = k
<1>1. model \in Models /\ model.root \subseteq Points
    BY WorldFacts
<1>2. B \in SUBSET Points
    BY <1>1
<1>3. /\ s \in Pairs /\ s.down \cup s.up \subseteq B
      /\ Empty(model.cost, B \ (s.down \cup s.up))
    BY <1>1, <1>2, ConicTreeAssumption
<1>4. ASSUME NEW D \in SUBSET B, NEW i \in Int
      PROVE  Child(D, i, k) \in Good(model) \cup {NoNode}
    <2>1. IsBound(model.cost, D, k)
        BY BoundOfPart
    <2> QED BY <2>1, MakesGood DEF Child
<1>5. Down(s, k) \in Good(model) \cup {NoNode}
    BY <1>3, <1>4 DEF Down
<1>6. Up(s, k) \in Good(model) \cup {NoNode}
    BY <1>3, <1>4 DEF Up
<1>7. Children(s, k) \subseteq Good(model)
    BY <1>5, <1>6 DEF Children
<1>8. nextId + Cardinality(Children(s, k)) \in Nat
    <2>1. Children(s, k) \in SUBSET {Down(s, k), Up(s, k)}
        BY DEF Children
    <2>2. Cardinality(Children(s, k)) \in Nat
        BY <2>1, PairIsFinite
    <2> QED BY <2>2
<1>9. ASSUME NEW p \in B, Feasible(model.cost, p)
      PROVE  \E c \in Children(s, k) : p \in c.box /\ c.key = k
    <2>1. p \in s.down \/ p \in s.up
        BY <1>3, <1>9 DEF Empty
    <2>2. ASSUME p \in s.down
          PROVE  Down(s, k) \in Children(s, k) /\ p \in Down(s, k).box
                 /\ Down(s, k).key = k
        <3>1. Down(s, k) = [id |-> nextId, box |-> s.down, key |-> k]
            BY <2>2 DEF Down, Child
        <3>2. Down(s, k) # NoNode
            BY <2>2, <3>1 DEF NoNode
        <3> QED BY <2>2, <3>1, <3>2 DEF Children
    <2>3. ASSUME p \in s.up
          PROVE  Up(s, k) \in Children(s, k) /\ p \in Up(s, k).box
                 /\ Up(s, k).key = k
        <3>1. \E i : Up(s, k) = [id |-> i, box |-> s.up, key |-> k]
            BY <2>3 DEF Up, Child
        <3>2. Up(s, k) # NoNode
            BY <2>3, <3>1 DEF NoNode
        <3> QED BY <2>3, <3>1, <3>2 DEF Children
    <2> QED BY <2>1, <2>2, <2>3
<1> QED BY <1>7, <1>8, <1>9

-----------------------------------------------------------------------------
(* Invariance.                                                               *)

LEMMA InitInv == Init => IInv
<1> SUFFICES ASSUME Init PROVE IInv
    OBVIOUS
<1>1. <<model, shape>> \in Worlds
    <2>1. PICK w \in Worlds : model = w[1] /\ shape = w[2]
        BY DEF Init
    <2>2. w = <<w[1], w[2]>>
        BY <2>1, ConicTreeAssumption
    <2> QED BY <2>1, <2>2
<1>2. model.root \subseteq Points /\ model.cutoff \in Keys
    BY <1>1, WorldFacts
<1>3. \A p \in model.root : NegInf <= model.cost[p]
    BY <1>1, <1>2, WorldFacts, KeyFacts
<1>4. Root \in Good(model)
    BY <1>3, KeyFacts, MakesGood DEF Root, IsBound
<1>5. Types
    BY <1>1, <1>2, <1>4, KeyFacts DEF Init, Types, Incumbents
<1>6. Placement
    BY DEF Init, Placement, AtNode, Over
<1>7. LeafIsClosed
    BY DEF Init, LeafIsClosed
<1>8. IncIsReal
    <2>1. model.cutoff \in Int /\ inc = [key |-> model.cutoff, point |-> NoPoint]
        BY <1>2, KeyFacts DEF Init
    <2> QED BY <2>1 DEF IncIsReal, HasIncumbent
<1>9. OutcomeIsSound
    BY DEF Init, OutcomeIsSound, AtNode, Over, Outcomes
<1> QED BY <1>5, <1>6, <1>7, <1>8, <1>9 DEF IInv

\* A point that a solve has found and that is better than the incumbent.
LEMMA BetterPoint ==
    ASSUME Types, IncIsReal,
           NEW f \in Found(model.root) \cup {None}, f.key < inc.key
    PROVE  /\ f \in Incumbents /\ f \in Found(model.root)
           /\ f.key \in NodeKeys \ {NegInf} /\ f.key < model.cutoff
           /\ f.point \in model.root /\ f.point # NoPoint
           /\ model.cost[f.point] <= f.key
           /\ \A c \in Keys : Closed(inc, c) => Closed(f, c)
<1>1. inc \in Incumbents /\ inc.key \in Int /\ inc.key <= Inf /\ Inf \in Int
    BY KeyFacts DEF Types, Incumbents
<1>2. f # None
    BY <1>1 DEF None
<1>3. /\ f \in [point : model.root, key : Relaxed]
      /\ model.cost[f.point] <= f.key
    BY <1>2 DEF Found
<1>4. model.root \subseteq Points /\ model.cutoff \in Keys /\ NoPoint \notin Points
    BY WorldFacts DEF Types
<1>5. f \in Incumbents
    BY <1>3, <1>4, KeyFacts DEF Incumbents, NodeKeys
<1>6. f.key < model.cutoff
    <2>1. f.key \in Int /\ model.cutoff \in Int
        BY <1>3, <1>4, KeyFacts DEF NodeKeys
    <2> QED BY <1>1, <2>1 DEF IncIsReal
<1>7. \A c \in Keys : Closed(inc, c) => Closed(f, c)
    <2>1. f.key \in Relaxed
        BY <1>3
    <2>2. f.key \in Int
        BY <2>1, KeyFacts DEF NodeKeys
    <2>3. f.key <= inc.key
        BY <1>1, <2>2
    <2> QED BY <1>1, <1>5, <2>3, ClosedAlso
<1> QED BY <1>2, <1>3, <1>4, <1>5, <1>6, <1>7, KeyFacts

\* Before the first node.
LEMMA StartSteps ==
    ASSUME IInv,
           \/ EmptyBox \/ NoStart
           \/ \E f \in Found(model.root) \cup {None}, b \in Bills(1) : Start(f, b)
    PROVE  IInv'
<1> USE DEF IInv, fixed, held, round, locals, bounds, counts, result, Goes,
            AtNode, Over, HasIncumbent, Outcomes, Searched, NoneHeld
<1>1. CASE EmptyBox
    <2>1. Types'
        BY <1>1 DEF EmptyBox, Empty, Types
    <2>2. Placement'
        BY <1>1 DEF EmptyBox, Empty, Types, Placement
    <2>3. LeafIsClosed' /\ IncIsReal'
        BY <1>1
           DEF EmptyBox, Empty, Placement, LeafIsClosed, IncIsReal, Settled
    <2>4. OutcomeIsSound'
        BY <1>1 DEF EmptyBox, Empty, Placement, OutcomeIsSound
    <2> QED BY <2>1, <2>2, <2>3, <2>4
<1>2. CASE NoStart
    <2>1. Types'
        BY <1>2 DEF NoStart, Root, NoNode, Types
    <2>2. Placement'
        BY <1>2 DEF NoStart, Root, NoNode, Types, Placement
    <2>3. LeafIsClosed' /\ IncIsReal'
        BY <1>2
           DEF NoStart, Root, NoNode, Placement, LeafIsClosed, IncIsReal,
               Settled
    <2>4. OutcomeIsSound'
        BY <1>2 DEF NoStart, Root, NoNode, Placement, OutcomeIsSound
    <2> QED BY <2>1, <2>2, <2>3, <2>4
<1>3. ASSUME NEW f \in Found(model.root) \cup {None},
             NEW b \in Bills(1), Start(f, b)
      PROVE  IInv'
    <2>1. Types'
        BY <1>3, BetterPoint DEF Start, Root, NoNode, Types
    <2>2. Placement'
        BY <1>3 DEF Start, Root, NoNode, Types, Placement
    <2>3. LeafIsClosed' /\ IncIsReal'
        <3>1. CASE f.key < inc.key
            <4>1. /\ f.key < model.cutoff /\ f.point \in model.root
                  /\ model.cost[f.point] <= f.key /\ f.key \in Int
                  /\ model.cutoff \in Int
                BY <3>1, BetterPoint, KeyFacts, WorldFacts DEF Types
            <4> QED BY <1>3, <3>1, <4>1
                    DEF Start, Goes, LeafIsClosed, IncIsReal, HasIncumbent, fixed
        <3>2. CASE ~(f.key < inc.key)
            BY <1>3, <3>2
               DEF Start, Goes, LeafIsClosed, IncIsReal, HasIncumbent, fixed
        <3> QED BY <3>1, <3>2
    <2>4. OutcomeIsSound'
        BY <1>3 DEF Start, Root, NoNode, Placement, OutcomeIsSound
    <2> QED BY <2>1, <2>2, <2>3, <2>4
<1> QED BY <1>1, <1>2, <1>3

\* The choice of the next node.
LEMMA SelectSteps == ASSUME IInv, Select PROVE IInv'
<1> USE DEF IInv, fixed, held, round, locals, bounds, counts, result, Goes,
            AtNode, Over, HasIncumbent, Outcomes, Searched, NoneHeld
<1>1. CASE SelectNext
    <2>1. Types'
        BY <1>1 DEF SelectNext, NextIsClosed, Types
    <2>2. Placement'
        BY <1>1, GoodFacts DEF SelectNext, NextIsClosed, Types, Placement
    <2>3. LeafIsClosed' /\ IncIsReal'
        BY <1>1
           DEF SelectNext, NextIsClosed, Placement, LeafIsClosed, IncIsReal,
               Settled
    <2>4. OutcomeIsSound'
        BY <1>1 DEF SelectNext, NextIsClosed, Placement, OutcomeIsSound
    <2> QED BY <2>1, <2>2, <2>3, <2>4
<1>2. ASSUME NEW i \in 1 .. Len(stack), SelectTop(i) PROVE IInv'
    <2>1. Types'
        BY <1>2, Beneath, RangeOf DEF SelectTop, IsTop, OpenAt, Types
    <2>2. Placement'
        BY <1>2, RangeOf, GoodFacts
           DEF SelectTop, IsTop, OpenAt, Types, Placement
    <2>3. LeafIsClosed' /\ IncIsReal'
        BY <1>2
           DEF SelectTop, IsTop, OpenAt, Placement, LeafIsClosed, IncIsReal,
               Settled
    <2>4. OutcomeIsSound'
        BY <1>2 DEF SelectTop, IsTop, OpenAt, Placement, OutcomeIsSound
    <2> QED BY <2>1, <2>2, <2>3, <2>4
<1>3. ASSUME NEW n \in heap, SelectLeast(n) PROVE IInv'
    <2>1. Types'
        <3>1. n \in Good(model) /\ n.key \in Keys
            BY GoodFacts, KeyFacts DEF Types
        <3> QED BY <1>3, <3>1 DEF SelectLeast, Types
    <2>2. Placement'
        BY <1>3, GoodFacts DEF SelectLeast, Types, Placement
    <2>3. LeafIsClosed' /\ IncIsReal'
        BY <1>3 DEF SelectLeast, Placement, LeafIsClosed, IncIsReal, Settled
    <2>4. OutcomeIsSound'
        BY <1>3 DEF SelectLeast, Placement, OutcomeIsSound
    <2> QED BY <2>1, <2>2, <2>3, <2>4
<1>4. CASE Exhausted
    <2>1. Types'
        BY <1>4 DEF Exhausted, Types
    <2>2. Placement'
        BY <1>4 DEF Exhausted, Types, Placement
    <2>3. LeafIsClosed' /\ IncIsReal'
        BY <1>4 DEF Exhausted, Placement, LeafIsClosed, IncIsReal, Settled
    <2>4. OutcomeIsSound'
        BY <1>4 DEF Exhausted, Placement, OutcomeIsSound
    <2> QED BY <2>1, <2>2, <2>3, <2>4
<1> QED BY <1>1, <1>2, <1>3, <1>4 DEF Select

\* A round is filled and solved.
LEMMA RoundSteps ==
    ASSUME IInv,
           \/ \E v \in {"WORK_LIMIT", "TIME_LIMIT", "NODE_LIMIT"} : LimitStops(v)
           \/ BeginsRound
           \/ Fill
           \/ \E k \in DOMAIN lane : \E b \in Bills(Len(batch)) : LaneSolves(k, b)
           \/ Join
    PROVE  IInv'
<1> USE DEF IInv, fixed, held, round, locals, bounds, counts, result, Goes,
            AtNode, Over, HasIncumbent, Outcomes, Searched, NoneHeld
<1>1. ASSUME NEW v \in {"WORK_LIMIT", "TIME_LIMIT", "NODE_LIMIT"}, LimitStops(v)
      PROVE  IInv'
    <2>1. Types'
        BY <1>1 DEF LimitStops, Types
    <2>2. Placement'
        BY <1>1 DEF LimitStops, Types, Placement
    <2>3. LeafIsClosed' /\ IncIsReal'
        BY <1>1 DEF LimitStops, Placement, LeafIsClosed, IncIsReal, Settled
    <2>4. OutcomeIsSound'
        BY <1>1 DEF LimitStops, Placement, OutcomeIsSound
    <2> QED BY <2>1, <2>2, <2>3, <2>4
<1>2. CASE BeginsRound
    <2>1. Types'
        <3>1. cur \in Good(model)
            BY <1>2 DEF BeginsRound, Types, Placement
        <3>2. batch' \in Seq(Good(model))
            BY <1>2, <3>1, OneOf DEF BeginsRound
        <3> QED BY <1>2, <3>2 DEF BeginsRound, Types
    <2>2. Placement'
        BY <1>2 DEF BeginsRound, Types, Placement
    <2>3. LeafIsClosed' /\ IncIsReal'
        BY <1>2 DEF BeginsRound, Placement, LeafIsClosed, IncIsReal, Settled
    <2>4. OutcomeIsSound'
        BY <1>2 DEF BeginsRound, Placement, OutcomeIsSound
    <2> QED BY <2>1, <2>2, <2>3, <2>4
<1>3. ASSUME NEW i \in 1 .. Len(stack), FillFromTop(i) PROVE IInv'
    <2>1. Types'
        BY <1>3, Beneath, RangeOf, AppendProperties
           DEF FillFromTop, IsTop, OpenAt, Types
    <2>2. Placement'
        BY <1>3, RangeOf DEF FillFromTop, IsTop, OpenAt, Types, Placement
    <2>3. LeafIsClosed' /\ IncIsReal'
        BY <1>3
           DEF FillFromTop, IsTop, OpenAt, Placement, LeafIsClosed, IncIsReal,
               Settled
    <2>4. OutcomeIsSound'
        BY <1>3 DEF FillFromTop, IsTop, OpenAt, Placement, OutcomeIsSound
    <2> QED BY <2>1, <2>2, <2>3, <2>4
<1>4. ASSUME NEW n \in heap, FillFromLeast(n) PROVE IInv'
    <2>1. Types'
        BY <1>4, AppendProperties DEF FillFromLeast, Types
    <2>2. Placement'
        BY <1>4 DEF FillFromLeast, Types, Placement
    <2>3. LeafIsClosed' /\ IncIsReal'
        BY <1>4 DEF FillFromLeast, Placement, LeafIsClosed, IncIsReal, Settled
    <2>4. OutcomeIsSound'
        BY <1>4 DEF FillFromLeast, Placement, OutcomeIsSound
    <2> QED BY <2>1, <2>2, <2>3, <2>4
<1>5. CASE Launch
    <2>1. Types'
        <3>1. \/ heap' = heap /\ stack' = stack
              \/ heap' = {} /\ stack' = <<>>
            BY <1>5 DEF Launch
        <3>2. heap' \subseteq Good(model) /\ stack' \in Seq(Good(model))
            BY <3>1, EmptySeq DEF Types
        <3> QED BY <1>5, <3>2 DEF Launch, Types
    <2>2. Placement'
        BY <1>5 DEF Launch, Types, Placement
    <2>3. LeafIsClosed' /\ IncIsReal'
        BY <1>5 DEF Launch, Placement, LeafIsClosed, IncIsReal, Settled
    <2>4. OutcomeIsSound'
        BY <1>5 DEF Launch, Placement, OutcomeIsSound
    <2> QED BY <2>1, <2>2, <2>3, <2>4
<1>6. ASSUME NEW k \in DOMAIN lane, NEW b \in Bills(Len(batch)), LaneSolves(k, b)
      PROVE  IInv'
    <2>1. Types'
        BY <1>6 DEF LaneSolves, Types
    <2>2. Placement'
        BY <1>6 DEF LaneSolves, Types, Placement
    <2>3. LeafIsClosed' /\ IncIsReal'
        BY <1>6 DEF LaneSolves, Placement, LeafIsClosed, IncIsReal, Settled
    <2>4. OutcomeIsSound'
        BY <1>6 DEF LaneSolves, Placement, OutcomeIsSound
    <2> QED BY <2>1, <2>2, <2>3, <2>4
<1>7. CASE Join
    <2>1. Types'
        BY <1>7 DEF Join, Types
    <2>2. Placement'
        BY <1>7 DEF Join, Types, Placement
    <2>3. LeafIsClosed' /\ IncIsReal'
        BY <1>7 DEF Join, Placement, LeafIsClosed, IncIsReal, Settled
    <2>4. OutcomeIsSound'
        BY <1>7 DEF Join, Placement, OutcomeIsSound
    <2> QED BY <2>1, <2>2, <2>3, <2>4
<1> QED BY <1>1, <1>2, <1>3, <1>4, <1>5, <1>6, <1>7 DEF Fill

-----------------------------------------------------------------------------
(* The nodes of a round.                                                     *)

LEMMA TakenFacts ==
    ASSUME Types, at <= Len(batch)
    PROVE  /\ at \in 1 .. Len(batch) /\ Taken = batch[at]
           /\ Taken \in Good(model) /\ Taken.key \in NodeKeys
           /\ Box \in SUBSET model.root /\ Box \in SUBSET Points
           /\ Box = batch[at].box
           /\ IsBound(model.cost, Box, Taken.key)
<1>1. /\ Len(batch) \in Nat /\ DOMAIN batch = 1 .. Len(batch)
      /\ at \in Nat \ {0}
    BY LenProperties DEF Types
<1>2. at \in 1 .. Len(batch)
    BY <1>1
<1>3. Taken = batch[at]
    BY <1>1, <1>2 DEF Taken
<1>4. Taken \in Good(model)
    BY <1>2, <1>3, ElementOfSeq DEF Types
<1>5. model.root \subseteq Points
    BY WorldFacts DEF Types
<1> QED BY <1>2, <1>3, <1>4, <1>5, GoodFacts DEF Box

\* A node that is split.
LEMMA Splitting ==
    ASSUME Types, at <= Len(batch), NEW s \in Splits[Box],
           NEW k \in NodeKeys, IsBound(model.cost, Box, k)
    PROVE  /\ heap \cup Children(s, k) \subseteq Good(model)
           /\ Children(s, k) \subseteq Good(model)
           /\ nextId + Cardinality(Children(s, k)) \in Nat
           /\ \A p \in Box : Feasible(model.cost, p) =>
                \E c \in Children(s, k) : p \in c.box /\ c.key = k
<1>1. Box \in SUBSET model.root /\ <<model, shape>> \in Worlds /\ nextId \in Nat
    BY TakenFacts DEF Types
<1>2. heap \subseteq Good(model)
    BY DEF Types
<1> QED BY <1>1, <1>2, ChildrenCover

\* A node of which only the bound is kept.
LEMMA Parking ==
    ASSUME Types, OutcomeIsSound, at <= Len(batch), NEW k \in NodeKeys, Park(k)
    PROVE  /\ parkedKey' \in Keys /\ aside' \subseteq Apart
           /\ \A n \in aside' : parkedKey' <= n.key \/ stoppedKey <= n.key
<1>1. Box \in SUBSET Points
    BY TakenFacts
<1>2. k \in Int /\ k \in Keys /\ parkedKey \in Int /\ parkedKey \in Keys
    BY KeyFacts DEF Types
<1>3. /\ parkedKey' = IF k < parkedKey THEN k ELSE parkedKey
      /\ aside' = aside \cup {[box |-> Box, key |-> k]}
    BY DEF Park
<1>4. \A n \in aside : n.key \in Int
    BY KeyFacts DEF Types, Apart
<1>5. \A n \in aside : parkedKey <= n.key \/ stoppedKey <= n.key
    BY DEF OutcomeIsSound
<1>6. \A n \in aside : parkedKey' <= n.key \/ stoppedKey <= n.key
    BY <1>2, <1>3, <1>4, <1>5
<1>7. parkedKey' <= k
    BY <1>2, <1>3
<1>8. aside' \subseteq Apart
    BY <1>1, <1>3 DEF Types, Apart
<1> QED BY <1>2, <1>3, <1>6, <1>7, <1>8

LEMMA TheEvent == ASSUME Types, NEW b \in Keys PROVE Event(b) \in Keys
PROOF BY DEF Types, Event, Incumbents

\* What a ray and a point that satisfies the model show: never that an
\* unbounded model is infeasible.
LEMMA RaySearch ==
    ASSUME Types, NoRayUnderCutoff, NodeUnbounded, OpenPieces = {},
           NEW fs, SearchEnds(fs)
    PROVE  /\ fs = "OPTIMAL" => \E p \in model.root : model.cost[p] = NegInf
           /\ fs = "INFEASIBLE" =>
                 IF shape.pieces THEN Empty(model.cost, Box)
                                 ELSE Empty(model.cost, model.root)
<1>1. Box \in SUBSET model.root
    BY TakenFacts DEF NodeUnbounded, Ends
<1>2. Box \cap shape.ray # {} /\ (shape.pieces => PieceSplits[Box] = {})
    BY DEF NodeUnbounded, MayBeUnbounded, OpenPieces
<1>3. /\ RaysStand(model, shape)
      /\ shape.ray # {} => ~CutoffCloses
    <2>1. <<model, shape>> \in Worlds
        BY DEF Types
    <2>2. <<model, shape>>[1] = model /\ <<model, shape>>[2] = shape
        OBVIOUS
    <2>3. RaysStand(model, shape)
        BY <2>1, <2>2, ConicTreeAssumption
    <2>4. shape.ray # {} => ~Closed([key |-> model.cutoff], 0)
        BY <2>1, <2>2 DEF NoRayUnderCutoff
    <2> QED BY <2>3, <2>4 DEF CutoffCloses
<1>4. ~Empty(model.cost, Region) =>
        \E p \in model.root : model.cost[p] = NegInf
    BY <1>1, <1>2, <1>3 DEF RaysStand, Region
<1> QED BY <1>2, <1>3, <1>4 DEF SearchEnds, Region

LEMMA ConsumeSteps ==
    ASSUME IInv, NoRayUnderCutoff, Consume PROVE IInv'
<1> USE DEF IInv, fixed, held, round, locals, bounds, counts, result, Goes,
            AtNode, Over, HasIncumbent, Outcomes, Searched, NoneHeld,
            Counts, Drop, Halves, Continue, Break, Ends
<1>1. CASE NodeErrs
    <2>1. Types'
        BY <1>1 DEF NodeErrs, Types
    <2>2. Placement'
        BY <1>1 DEF NodeErrs, Types, Placement
    <2>3. LeafIsClosed' /\ IncIsReal'
        BY <1>1 DEF NodeErrs, Placement, LeafIsClosed, IncIsReal, Settled
    <2>4. OutcomeIsSound'
        BY <1>1 DEF NodeErrs, Placement, OutcomeIsSound
    <2> QED BY <2>1, <2>2, <2>3, <2>4
<1>2. CASE NodeInfeasible
    <2>1. Types'
        BY <1>2 DEF NodeInfeasible, Types
    <2>2. Placement'
        BY <1>2 DEF NodeInfeasible, Types, Placement
    <2>3. LeafIsClosed' /\ IncIsReal'
        BY <1>2 DEF NodeInfeasible, Placement, LeafIsClosed, IncIsReal, Settled
    <2>4. OutcomeIsSound'
        BY <1>2 DEF NodeInfeasible, Placement, OutcomeIsSound
    <2> QED BY <2>1, <2>2, <2>3, <2>4
<1>3. ASSUME NEW s \in OpenPieces, OpensPiece(s) PROVE IInv'
    <2>a. at <= Len(batch) /\ s \in Splits[Box]
        BY <1>3, TakenFacts, ConicTreeAssumption
           DEF OpensPiece, NodeUnbounded, OpenPieces
    <2>b. Taken.key \in NodeKeys /\ IsBound(model.cost, Box, Taken.key)
        BY <2>a, TakenFacts
    <2>1. Types'
        <3>1. /\ heap \cup Children(s, Taken.key) \subseteq Good(model)
              /\ nextId + Cardinality(Children(s, Taken.key)) \in Nat
            BY <2>a, <2>b, Splitting
        <3> QED BY <1>3, <3>1 DEF OpensPiece, NodeUnbounded, Types
    <2>2. Placement'
        BY <1>3 DEF OpensPiece, NodeUnbounded, Types, Placement
    <2>3. LeafIsClosed' /\ IncIsReal'
        BY <1>3
           DEF OpensPiece, NodeUnbounded, Placement, LeafIsClosed, IncIsReal,
               Settled
    <2>4. OutcomeIsSound'
        BY <1>3 DEF OpensPiece, NodeUnbounded, Placement, OutcomeIsSound
    <2> QED BY <2>1, <2>2, <2>3, <2>4
<1>4. ASSUME NEW fs \in Searched, NEW b \in Bills(1), SearchesPoint(fs, b)
      PROVE  IInv'
    <2>1. Types'
        BY <1>4 DEF SearchesPoint, NodeUnbounded, Types
    <2>2. Placement'
        BY <1>4 DEF SearchesPoint, NodeUnbounded, Types, Placement
    <2>3. LeafIsClosed' /\ IncIsReal'
        BY <1>4
           DEF SearchesPoint, NodeUnbounded, Placement, LeafIsClosed,
               IncIsReal, Settled
    <2>4. OutcomeIsSound'
        <3>1. SearchEnds(fs) =>
                /\ fs = "OPTIMAL" =>
                        \E p \in model.root : model.cost[p] = NegInf
                /\ fs = "INFEASIBLE" /\ ~shape.pieces =>
                        Empty(model.cost, model.root)
            BY <1>4, RaySearch DEF SearchesPoint
        <3>2. fs # "NOT_RUN" /\ fs # "INTERRUPTED" /\ fs # "UNBOUNDED"
            BY <1>4 DEF SearchesPoint, SearchEnds
        <3> QED BY <1>4, <3>1, <3>2
                DEF SearchesPoint, NodeUnbounded, Placement, OutcomeIsSound
    <2> QED BY <2>1, <2>2, <2>3, <2>4
<1>5. CASE FailsEmpty
    <2>1. Types'
        BY <1>5 DEF FailsEmpty, NodeFails, Types
    <2>2. Placement'
        BY <1>5 DEF FailsEmpty, NodeFails, Types, Placement
    <2>3. LeafIsClosed' /\ IncIsReal'
        BY <1>5
           DEF FailsEmpty, NodeFails, Placement, LeafIsClosed, IncIsReal,
               Settled
    <2>4. OutcomeIsSound'
        BY <1>5 DEF FailsEmpty, NodeFails, Placement, OutcomeIsSound
    <2> QED BY <2>1, <2>2, <2>3, <2>4
<1>6. ASSUME NEW s \in Splits[Box], FailsAndSplits(s) PROVE IInv'
    <2>1. Types'
        <3>1. /\ heap \cup Children(s, Taken.key) \subseteq Good(model)
              /\ nextId + Cardinality(Children(s, Taken.key)) \in Nat
            BY <1>6, TakenFacts, Splitting DEF FailsAndSplits, NodeFails
        <3> QED BY <1>6, <3>1 DEF FailsAndSplits, NodeFails, Types
    <2>2. Placement'
        BY <1>6 DEF FailsAndSplits, NodeFails, Types, Placement
    <2>3. LeafIsClosed' /\ IncIsReal'
        BY <1>6
           DEF FailsAndSplits, NodeFails, Placement, LeafIsClosed, IncIsReal,
               Settled
    <2>4. OutcomeIsSound'
        BY <1>6 DEF FailsAndSplits, NodeFails, Placement, OutcomeIsSound
    <2> QED BY <2>1, <2>2, <2>3, <2>4
<1>7. CASE FailsAndParks
    <2>a. /\ parkedKey' \in Keys /\ aside' \subseteq Apart
          /\ \A n \in aside' : parkedKey' <= n.key \/ stoppedKey <= n.key
        BY <1>7, TakenFacts, Parking DEF FailsAndParks, NodeFails
    <2>1. Types'
        BY <1>7, <2>a DEF FailsAndParks, NodeFails, Park, Types
    <2>2. Placement'
        BY <1>7 DEF FailsAndParks, NodeFails, Park, Types, Placement
    <2>3. LeafIsClosed' /\ IncIsReal'
        BY <1>7
           DEF FailsAndParks, NodeFails, Park, Placement, LeafIsClosed,
               IncIsReal, Settled
    <2>4. OutcomeIsSound'
        BY <1>7, <2>a
           DEF FailsAndParks, NodeFails, Park, Placement, OutcomeIsSound
    <2> QED BY <2>1, <2>2, <2>3, <2>4
<1>8. ASSUME NEW v \in {"WORK_LIMIT", "TIME_LIMIT"}, NodeStops(v) PROVE IInv'
    <2>1. Types'
        BY <1>8 DEF NodeStops, Types
    <2>2. Placement'
        BY <1>8 DEF NodeStops, Types, Placement
    <2>3. LeafIsClosed' /\ IncIsReal'
        BY <1>8 DEF NodeStops, Placement, LeafIsClosed, IncIsReal, Settled
    <2>4. OutcomeIsSound'
        BY <1>8 DEF NodeStops, Placement, OutcomeIsSound
    <2> QED BY <2>1, <2>2, <2>3, <2>4
<1>9. ASSUME NEW k \in Relaxed, Solved(k) PROVE IInv'
    <2>a. k \in NodeKeys /\ Box = batch[at].box /\ at \in 1 .. Len(batch)
        BY <1>9, TakenFacts, KeyFacts, LargerKey DEF Solved, NodeSolved
    <2>b. bestBound' \in Keys /\ told' \in Keys
        BY <1>9, <2>a, TheEvent, KeyFacts DEF Solved, NodeSolved, Types
    <2>1. Types'
        BY <1>9, <2>a, <2>b DEF Solved, NodeSolved, Types
    <2>2. Placement'
        BY <1>9, <2>a DEF Solved, NodeSolved, Types, Placement
    <2>3. LeafIsClosed' /\ IncIsReal'
        BY <1>9
           DEF Solved, NodeSolved, Placement, LeafIsClosed, IncIsReal, Settled
    <2>4. OutcomeIsSound'
        BY <1>9 DEF Solved, NodeSolved, Placement, OutcomeIsSound
    <2> QED BY <2>1, <2>2, <2>3, <2>4
<1>10. ASSUME NEW lb \in Relaxed \cup {NegInf}, Rough(lb) PROVE IInv'
    <2>a. /\ Larger(lb, Taken.key) \in NodeKeys
          /\ Box = batch[at].box /\ at \in 1 .. Len(batch)
        BY <1>10, TakenFacts, KeyFacts, LargerKey DEF Rough, NodeSolved
    <2>b. bestBound' \in Keys /\ told' \in Keys
        BY <1>10, <2>a, TheEvent, KeyFacts DEF Rough, NodeSolved, Types
    <2>1. Types'
        BY <1>10, <2>a, <2>b DEF Rough, NodeSolved, Types
    <2>2. Placement'
        BY <1>10, <2>a DEF Rough, NodeSolved, Types, Placement
    <2>3. LeafIsClosed' /\ IncIsReal'
        BY <1>10
           DEF Rough, NodeSolved, Placement, LeafIsClosed, IncIsReal, Settled
    <2>4. OutcomeIsSound'
        BY <1>10 DEF Rough, NodeSolved, Placement, OutcomeIsSound
    <2> QED BY <2>1, <2>2, <2>3, <2>4
<1> QED BY <1>1, <1>2, <1>3, <1>4, <1>5, <1>6, <1>7, <1>8, <1>9, <1>10
        DEF Consume

-----------------------------------------------------------------------------
(* A node whose relaxation leaves it open.                                   *)

\* What a solve has found, offered.
LEMMA Offered ==
    ASSUME Types, IncIsReal,
           NEW f \in Found(model.root) \cup {None}, Offer(f)
    PROVE  /\ inc' \in Incumbents /\ inc'.key <= inc.key /\ inc'.key <= f.key
           /\ heap' \subseteq Good(model) /\ stack' \in Seq(Good(model))
           /\ heap' \cup Range(stack') = heap \cup Range(stack)
           /\ \A c \in Keys : Closed(inc, c) => Closed(inc', c)
           /\ inc'.key <= model.cutoff
           /\ inc'.point # NoPoint =>
                 /\ inc'.point \in model.root
                 /\ model.cost[inc'.point] <= inc'.key
                 /\ inc'.key < model.cutoff
<1>1. /\ inc \in Incumbents /\ inc.key \in Int /\ model.cutoff \in Int
      /\ inc.key <= model.cutoff
    BY KeyFacts, WorldFacts DEF Types, Incumbents, IncIsReal
<1>2. f.key \in Int
    <2>1. CASE f = None
        BY <2>1, KeyFacts DEF None
    <2>2. CASE f \in Found(model.root)
        <3>1. f.key \in Relaxed
            BY <2>2 DEF Found
        <3> QED BY <3>1, KeyFacts DEF NodeKeys
    <2> QED BY <2>1, <2>2
<1>3. CASE f.key < inc.key
    <2>1. inc' = f /\ heap' = heap \cup Range(stack) /\ stack' = <<>>
        BY <1>3 DEF Offer
    <2>2. /\ f \in Incumbents /\ f.key < model.cutoff
          /\ f.point \in model.root /\ model.cost[f.point] <= f.key
          /\ \A c \in Keys : Closed(inc, c) => Closed(f, c)
        BY <1>3, BetterPoint
    <2>3. heap' \subseteq Good(model) /\ stack' \in Seq(Good(model))
        BY <2>1, RangeOf, EmptySeq DEF Types
    <2>4. heap' \cup Range(stack') = heap \cup Range(stack)
        BY <2>1, RangeOfEmpty
    <2> QED BY <1>1, <1>2, <1>3, <2>1, <2>2, <2>3, <2>4
<1>4. CASE ~(f.key < inc.key)
    <2>1. inc' = inc /\ heap' = heap /\ stack' = stack
        BY <1>4 DEF Offer
    <2>2. HasIncumbent => /\ inc.point \in model.root
                          /\ model.cost[inc.point] <= inc.key
                          /\ inc.key < model.cutoff
        BY DEF IncIsReal
    <2> QED BY <1>1, <1>2, <1>4, <2>1, <2>2 DEF Types, HasIncumbent
<1> QED BY <1>3, <1>4

\* A closed leaf has been solved to its end, is empty or is closed by its key.
LEMMA LeafSettled ==
    ASSUME Types, Placement, IncIsReal, pc = "node", at <= Len(batch),
           NEW fs, NEW f \in Found(Box) \cup {None},
           NEW lb \in Relaxed \cup {NegInf},
           NEW b, LeafSolve(fs, f, lb, b)
    PROVE  /\ key' \in NodeKeys /\ IsBound(model.cost, Box, key')
           /\ key <= key'
           /\ closed' => \A p \in Box : ~Feasible(model.cost, p)
                                        \/ Closed(inc', model.cost[p])
<1>1. /\ Box \in SUBSET model.root /\ Box = batch[at].box
      /\ model.root \subseteq Points /\ at \in 1 .. Len(batch)
      /\ \A p \in Points : model.cost[p] \in Keys
    BY TakenFacts, WorldFacts DEF Types
<1>2. key \in NodeKeys /\ IsBound(model.cost, Box, key) /\ key \in Int
    BY <1>1, KeyFacts DEF Placement, AtNode
<1>3. f \in Found(model.root) \cup {None}
    BY <1>1 DEF Found
<1>4. Offer(f)
    BY DEF LeafSolve
<1>5. /\ inc' \in Incumbents /\ inc'.key <= f.key
      /\ inc'.key \in Keys /\ inc'.key \in Int
    <2>1. inc' \in Incumbents /\ inc'.key <= f.key
        BY <1>3, <1>4, Offered
    <2> QED BY <2>1, KeyFacts DEF Incumbents
<1>6. PICK emptied \in BOOLEAN :
         /\ emptied => Whole /\ Empty(model.cost, Box)
         /\ key' = IF Whole /\ ~Settles(fs) /\ ~emptied THEN Larger(key, lb)
                                                        ELSE key
         /\ IsBound(model.cost, Box, key')
         /\ closed' = (Settles(fs) \/ emptied \/ Closed(inc', key'))
    BY DEF LeafSolve
<1>7. key' \in NodeKeys /\ key <= key'
    <2>1. lb \in NodeKeys
        BY KeyFacts
    <2>2. Larger(key, lb) \in NodeKeys /\ key <= Larger(key, lb)
        BY <1>2, <2>1, LargerKey
    <2> QED BY <1>2, <1>6, <2>2
<1>8. ASSUME closed', NEW p \in Box, Feasible(model.cost, p)
      PROVE  Closed(inc', model.cost[p])
    <2>1. model.cost[p] \in Keys /\ model.cost[p] \in Int
        BY <1>1, KeyFacts
    <2>2. CASE Closed(inc', key')
        <3>1. key' <= model.cost[p] /\ key' \in Keys
            BY <1>6, <1>7, KeyFacts DEF IsBound
        <3> QED BY <1>5, <2>1, <2>2, <3>1, ClosedAbove
    <2>3. CASE emptied
        BY <1>6, <1>8, <2>3 DEF Empty
    <2>4. CASE Settles(fs)
        <3>1. (fs = "OPTIMAL" /\ (~rough \/ Whole)) \/ (fs = "INFEASIBLE" /\ Whole)
            BY <2>4 DEF Settles
        <3>2. FixedEnds(fs, f)
            BY <3>1 DEF LeafSolve
        <3>3. CASE fs = "OPTIMAL"
            <4>1. /\ f \in Found(Box) /\ f.key = model.cost[f.point]
                  /\ ~rough => f.key = key
                BY <3>2, <3>3 DEF FixedEnds
            <4>2. f.point \in Box /\ f.key \in Relaxed
                BY <4>1 DEF Found
            <4>3. f.key \in Int /\ f.key < Inf /\ Inf \in Int
                BY <4>2, KeyFacts DEF NodeKeys
            <4>4. f.key <= model.cost[p]
                <5>1. CASE ~rough
                    <6>1. key <= model.cost[p]
                        BY <1>2 DEF IsBound
                    <6> QED BY <4>1, <5>1, <6>1
                <5>2. CASE rough
                    <6>1. Single(Box)
                        BY <3>1, <3>3, <5>2 DEF Whole
                    <6>2. p = f.point
                        BY <4>2, <6>1 DEF Single
                    <6> QED BY <2>1, <4>1, <6>2
                <5> QED BY <5>1, <5>2
            <4>5. inc'.key <= model.cost[p] /\ inc'.key < Inf
                BY <1>5, <2>1, <4>3, <4>4
            <4> QED BY <1>5, <2>1, <4>5, ClosedByItself
        <3>4. CASE fs = "INFEASIBLE"
            <4>1. Single(Box) /\ \E q \in Box : ~Feasible(model.cost, q)
                BY <3>1, <3>2, <3>4 DEF Whole, FixedEnds
            <4>2. ~Feasible(model.cost, p)
                BY <4>1 DEF Single
            <4> QED BY <1>8, <4>2
        <3> QED BY <3>1, <3>3, <3>4
    <2> QED BY <1>6, <1>8, <2>2, <2>3, <2>4
<1> QED BY <1>6, <1>7, <1>8

\* The children that are not next, and the node that was, are kept.
LEMMA KeptNodes ==
    ASSUME NEW s, Children(s, key) \subseteq Good(model),
           NEW n \in Children(s, key), next \in Good(model) \cup {NoNode}
    PROVE  /\ Kept(s, n) \in Seq(Good(model))
           /\ Range(Kept(s, n)) \cup {n} =
                 Children(s, key) \cup ({next} \ {NoNode})
<1>1. ASSUME NEW e \in Good(model) \cup {NoNode}
      PROVE  Waiting(e) \in Seq(Good(model)) /\ Range(Waiting(e)) = {e} \ {NoNode}
    <2>1. CASE e = NoNode
        BY <2>1, EmptySeq, RangeOfEmpty DEF Waiting
    <2>2. CASE e # NoNode
        BY <1>1, <2>2, OneOf DEF Waiting
    <2> QED BY <2>1, <2>2
<1>2. \/ n = Down(s, key) /\ Other(s, n) = Up(s, key)
      \/ n = Up(s, key) /\ Other(s, n) = Down(s, key)
    BY DEF Other, Children
<1>3. Other(s, n) \in Good(model) \cup {NoNode}
    BY <1>2 DEF Children
<1>4. /\ Kept(s, n) \in Seq(Good(model))
      /\ Range(Kept(s, n)) = ({Other(s, n)} \ {NoNode}) \cup ({next} \ {NoNode})
    BY <1>1, <1>3, RangeOfConcat DEF Kept
<1>5. {n} \cup ({Other(s, n)} \ {NoNode}) = Children(s, key)
    BY <1>2, GoodFacts DEF Children
<1> QED BY <1>4, <1>5

LEMMA OpenSteps ==
    ASSUME IInv, Open PROVE IInv'
<1> USE DEF IInv, fixed, held, round, locals, bounds, counts, result, Goes,
            AtNode, Over, HasIncumbent, Outcomes, Searched, NoneHeld,
            Counts, Drop, Halves, Continue, Break, Ends
<1>1. CASE EventStops
    <2>1. Types'
        BY <1>1 DEF EventStops, Types
    <2>2. Placement'
        BY <1>1 DEF EventStops, Types, Placement
    <2>3. LeafIsClosed' /\ IncIsReal'
        BY <1>1 DEF EventStops, Placement, LeafIsClosed, IncIsReal, Settled
    <2>4. OutcomeIsSound'
        BY <1>1 DEF EventStops, Placement, OutcomeIsSound
    <2> QED BY <2>1, <2>2, <2>3, <2>4
<1>2. CASE ClosedByIncumbent
    <2>1. Types'
        BY <1>2 DEF ClosedByIncumbent, Types
    <2>2. Placement'
        BY <1>2 DEF ClosedByIncumbent, Types, Placement
    <2>3. LeafIsClosed' /\ IncIsReal'
        BY <1>2
           DEF ClosedByIncumbent, Placement, LeafIsClosed, IncIsReal, Settled
    <2>4. OutcomeIsSound'
        BY <1>2 DEF ClosedByIncumbent, Placement, OutcomeIsSound
    <2> QED BY <2>1, <2>2, <2>3, <2>4
<1>3. CASE NoRounding
    <2>1. Types'
        BY <1>3 DEF NoRounding, Types
    <2>2. Placement'
        BY <1>3 DEF NoRounding, Types, Placement
    <2>3. LeafIsClosed' /\ IncIsReal'
        BY <1>3 DEF NoRounding, Placement, LeafIsClosed, IncIsReal, Settled
    <2>4. OutcomeIsSound'
        BY <1>3 DEF NoRounding, Placement, OutcomeIsSound
    <2> QED BY <2>1, <2>2, <2>3, <2>4
<1>4. ASSUME NEW f \in Found(model.root) \cup {None}, NEW b \in Bills(1),
             RoundingSolve(f, b)
      PROVE  IInv'
    <2>a. Offer(f) /\ OfferEnds(f, "dive")
        BY <1>4 DEF RoundingSolve
    <2>b. /\ inc' \in Incumbents
          /\ heap' \subseteq Good(model) /\ stack' \in Seq(Good(model))
          /\ inc'.key <= model.cutoff
          /\ inc'.point # NoPoint =>
                /\ inc'.point \in model.root
                /\ model.cost[inc'.point] <= inc'.key
                /\ inc'.key < model.cutoff
        BY <2>a, Offered
    <2>c. \/ pc' = "dive" /\ UNCHANGED <<outcome, at>>
          \/ pc' = "leftover" /\ outcome' = "INTERRUPTED" /\ UNCHANGED at
        BY <2>a DEF OfferEnds
    <2>1. Types'
        BY <1>4, <2>b, <2>c DEF RoundingSolve, Types
    <2>2. Placement'
        BY <1>4, <2>c DEF RoundingSolve, Types, Placement
    <2>3. LeafIsClosed' /\ IncIsReal'
        BY <1>4, <2>b, <2>c DEF RoundingSolve, LeafIsClosed, IncIsReal
    <2>4. OutcomeIsSound'
        BY <1>4, <2>c DEF RoundingSolve, Placement, OutcomeIsSound
    <2> QED BY <2>1, <2>2, <2>3, <2>4
<1>5. ASSUME NEW b \in Bills(1), DiveStep(b) PROVE IInv'
    <2>1. Types'
        BY <1>5 DEF DiveStep, Types
    <2>2. Placement'
        BY <1>5 DEF DiveStep, Types, Placement
    <2>3. LeafIsClosed' /\ IncIsReal'
        BY <1>5 DEF DiveStep, Placement, LeafIsClosed, IncIsReal, Settled
    <2>4. OutcomeIsSound'
        BY <1>5 DEF DiveStep, Placement, OutcomeIsSound
    <2> QED BY <2>1, <2>2, <2>3, <2>4
<1>6. ASSUME NEW f \in Found(model.root) \cup {None}, NEW b \in Bills(1),
             DiveSolve(f, b)
      PROVE  IInv'
    <2>a. Offer(f) /\ OfferEnds(f, "branch")
        BY <1>6 DEF DiveSolve
    <2>b. /\ inc' \in Incumbents
          /\ heap' \subseteq Good(model) /\ stack' \in Seq(Good(model))
          /\ inc'.key <= model.cutoff
          /\ inc'.point # NoPoint =>
                /\ inc'.point \in model.root
                /\ model.cost[inc'.point] <= inc'.key
                /\ inc'.key < model.cutoff
        BY <2>a, Offered
    <2>c. \/ pc' = "branch" /\ UNCHANGED <<outcome, at>>
          \/ pc' = "leftover" /\ outcome' = "INTERRUPTED" /\ UNCHANGED at
        BY <2>a DEF OfferEnds
    <2>1. Types'
        BY <1>6, <2>b, <2>c DEF DiveSolve, Types
    <2>2. Placement'
        BY <1>6, <2>c DEF DiveSolve, Types, Placement
    <2>3. LeafIsClosed' /\ IncIsReal'
        BY <1>6, <2>b, <2>c DEF DiveSolve, LeafIsClosed, IncIsReal
    <2>4. OutcomeIsSound'
        BY <1>6, <2>c DEF DiveSolve, Placement, OutcomeIsSound
    <2> QED BY <2>1, <2>2, <2>3, <2>4
<1>7. CASE DiveEnds
    <2>1. Types'
        BY <1>7 DEF DiveEnds, Types
    <2>2. Placement'
        BY <1>7 DEF DiveEnds, Types, Placement
    <2>3. LeafIsClosed' /\ IncIsReal'
        BY <1>7 DEF DiveEnds, Placement, LeafIsClosed, IncIsReal, Settled
    <2>4. OutcomeIsSound'
        BY <1>7 DEF DiveEnds, Placement, OutcomeIsSound
    <2> QED BY <2>1, <2>2, <2>3, <2>4
<1>8. ASSUME NEW fs \in Searched, NEW f \in Found(Box) \cup {None},
             NEW lb \in Relaxed \cup {NegInf}, NEW b \in Bills(1),
             LeafSolve(fs, f, lb, b)
      PROVE  IInv'
    <2>a. Offer(f) /\ OfferEnds(f, "leaf") /\ pc = "node"
        BY <1>8 DEF LeafSolve
    <2>b. at \in 1 .. Len(batch) /\ at <= Len(batch) /\ Len(batch) \in Nat
        BY <2>a, LenProperties DEF Types, Placement
    <2>c. Box = batch[at].box /\ Box \in SUBSET model.root
        BY <2>b, TakenFacts
    <2>d. f \in Found(model.root) \cup {None}
        BY <2>c DEF Found
    <2>e. /\ inc' \in Incumbents
          /\ heap' \subseteq Good(model) /\ stack' \in Seq(Good(model))
          /\ inc'.key <= model.cutoff
          /\ inc'.point # NoPoint =>
                /\ inc'.point \in model.root
                /\ model.cost[inc'.point] <= inc'.key
                /\ inc'.key < model.cutoff
        BY <2>a, <2>d, Offered
    <2>f. /\ key' \in NodeKeys /\ IsBound(model.cost, batch[at].box, key')
          /\ closed' => \A p \in batch[at].box : ~Feasible(model.cost, p)
                                   \/ Closed(inc', model.cost[p])
        BY <1>8, <2>a, <2>b, <2>c, LeafSettled
    <2>g. \/ pc' = "leaf" /\ UNCHANGED <<outcome, at>>
          \/ pc' = "leftover" /\ outcome' = "INTERRUPTED" /\ UNCHANGED at
        BY <2>a DEF OfferEnds
    <2>h. UNCHANGED <<fixed, next, cur, batch, bounds, nodes, nextId, code,
                      bound, told, aside>>
        BY <1>8 DEF LeafSolve
    <2>1. Types'
        BY <2>e, <2>g, <2>h DEF Types
    <2>2. Placement'
        BY <2>a, <2>b, <2>f, <2>g, <2>h DEF Types, Placement
    <2>3. LeafIsClosed' /\ IncIsReal'
        BY <2>e, <2>f, <2>g, <2>h DEF LeafIsClosed, Settled, IncIsReal
    <2>4. OutcomeIsSound'
        BY <2>a, <2>g, <2>h DEF OutcomeIsSound
    <2> QED BY <2>1, <2>2, <2>3, <2>4
<1>9. CASE LeafClosed
    <2>1. Types'
        BY <1>9 DEF LeafClosed, Types
    <2>2. Placement'
        BY <1>9 DEF LeafClosed, Types, Placement
    <2>3. LeafIsClosed' /\ IncIsReal'
        BY <1>9 DEF LeafClosed, Placement, LeafIsClosed, IncIsReal, Settled
    <2>4. OutcomeIsSound'
        BY <1>9 DEF LeafClosed, Placement, OutcomeIsSound
    <2> QED BY <2>1, <2>2, <2>3, <2>4
<1>10. ASSUME NEW s \in Splits[Box], LeafSplits(s) PROVE IInv'
    <2>a. at \in 1 .. Len(batch) /\ at <= Len(batch) /\ Len(batch) \in Nat
        BY <1>10, LenProperties DEF LeafSplits, Types, Placement
    <2>b. Taken.key \in NodeKeys /\ IsBound(model.cost, Box, Taken.key)
        BY <2>a, TakenFacts
    <2>c. /\ heap \cup Children(s, Taken.key) \subseteq Good(model)
          /\ nextId + Cardinality(Children(s, Taken.key)) \in Nat
        BY <2>a, <2>b, Splitting
    <2>1. Types'
        BY <1>10, <2>c DEF LeafSplits, Types
    <2>2. Placement'
        BY <1>10 DEF LeafSplits, Types, Placement
    <2>3. LeafIsClosed' /\ IncIsReal'
        BY <1>10 DEF LeafSplits, Placement, LeafIsClosed, IncIsReal, Settled
    <2>4. OutcomeIsSound'
        BY <1>10 DEF LeafSplits, Placement, OutcomeIsSound
    <2> QED BY <2>1, <2>2, <2>3, <2>4
<1>11. CASE LeafParks
    <2>a. at \in 1 .. Len(batch) /\ at <= Len(batch) /\ Len(batch) \in Nat
        BY <1>11, LenProperties DEF LeafParks, Types, Placement
    <2>b. key \in NodeKeys
        BY <1>11 DEF LeafParks, Placement
    <2>c. /\ parkedKey' \in Keys /\ aside' \subseteq Apart
          /\ \A n \in aside' : parkedKey' <= n.key \/ stoppedKey <= n.key
        BY <1>11, <2>a, <2>b, Parking DEF LeafParks
    <2>1. Types'
        BY <1>11, <2>c DEF LeafParks, Park, Types
    <2>2. Placement'
        BY <1>11 DEF LeafParks, Park, Types, Placement
    <2>3. LeafIsClosed' /\ IncIsReal'
        BY <1>11
           DEF LeafParks, Park, Placement, LeafIsClosed, IncIsReal, Settled
    <2>4. OutcomeIsSound'
        BY <1>11, <2>c DEF LeafParks, Park, Placement, OutcomeIsSound
    <2> QED BY <2>1, <2>2, <2>3, <2>4
<1>12. ASSUME NEW s \in Splits[Box], NEW n \in Children(s, key), Branch(s, n)
       PROVE  IInv'
    <2>a. at \in 1 .. Len(batch) /\ at <= Len(batch) /\ Len(batch) \in Nat
        BY <1>12, LenProperties DEF Branch, Types, Placement
    <2>b. key \in NodeKeys /\ IsBound(model.cost, Box, key)
        BY <1>12, <2>a, TakenFacts DEF Branch, Placement
    <2>c. /\ Children(s, key) \subseteq Good(model)
          /\ nextId + Cardinality(Children(s, key)) \in Nat
        BY <2>a, <2>b, Splitting
    <2>d. Kept(s, n) \in Seq(Good(model))
        BY <2>c, KeptNodes DEF Types
    <2>e. heap' \subseteq Good(model) /\ stack' \in Seq(Good(model))
        <3>1. heap \subseteq Good(model) /\ stack \in Seq(Good(model))
            BY DEF Types
        <3>2. /\ Range(Kept(s, n)) \subseteq Good(model)
              /\ stack \o Kept(s, n) \in Seq(Good(model))
            BY <2>d, <3>1, RangeOf, RangeOfConcat
        <3>3. Keep(Kept(s, n))
            BY <1>12 DEF Branch
        <3> QED BY <3>1, <3>2, <3>3 DEF Keep
    <2>1. Types'
        BY <1>12, <2>c, <2>e DEF Branch, Types
    <2>2. Placement'
        BY <1>12 DEF Branch, Types, Placement
    <2>3. LeafIsClosed' /\ IncIsReal'
        BY <1>12 DEF Branch, LeafIsClosed, IncIsReal
    <2>4. OutcomeIsSound'
        BY <1>12 DEF Branch, Placement, OutcomeIsSound
    <2> QED BY <2>1, <2>2, <2>3, <2>4
<1>13. ASSUME NEW s \in Splits[Box], BranchesNowhere(s) PROVE IInv'
    <2>1. Types'
        BY <1>13 DEF BranchesNowhere, Types
    <2>2. Placement'
        BY <1>13 DEF BranchesNowhere, Types, Placement
    <2>3. LeafIsClosed' /\ IncIsReal'
        BY <1>13 DEF BranchesNowhere, LeafIsClosed, IncIsReal
    <2>4. OutcomeIsSound'
        BY <1>13 DEF BranchesNowhere, Placement, OutcomeIsSound
    <2> QED BY <2>1, <2>2, <2>3, <2>4
<1> QED BY <1>1, <1>2, <1>3, <1>4, <1>5, <1>6, <1>7, <1>8, <1>9, <1>10, <1>11,
           <1>12, <1>13 DEF Open

-----------------------------------------------------------------------------
(* The end of a round, and of the search.                                    *)

LEMMA LeastNat ==
    ASSUME NEW K \in SUBSET Nat, K # {}
    PROVE  \E k \in K : \A j \in K : k <= j
<1> DEFINE R == StrictSubsetOrdering(Nat)
           T == {0 .. k : k \in K}
<1>1. T \subseteq FiniteSubsetsOf(Nat) /\ T # {}
    <2>1. ASSUME NEW k \in K PROVE 0 .. k \in FiniteSubsetsOf(Nat)
        <3>1. IsFiniteSet(0 .. k) /\ 0 .. k \in SUBSET Nat
            BY FS_Interval
        <3> QED BY <3>1 DEF FiniteSubsetsOf
    <2> QED BY <2>1
<1>2. IsWellFoundedOn(R, FiniteSubsetsOf(Nat))
    BY FS_StrictSubsetOrderingWellFounded
<1>3. PICK t \in T : \A u \in T : <<u, t>> \notin R
    <2> HIDE DEF R, T
    <2> QED BY <1>1, <1>2, WFMin
<1>4. PICK k \in K : t = 0 .. k
    OBVIOUS
<1>5. ASSUME NEW j \in K, j < k PROVE FALSE
    <2>1. 0 .. j \subseteq 0 .. k /\ k \notin 0 .. j /\ k \in 0 .. k
        BY <1>5
    <2>2. 0 .. j \in T /\ 0 .. j \in SUBSET Nat /\ 0 .. k \in SUBSET Nat
        OBVIOUS
    <2> QED BY <1>3, <1>4, <2>1, <2>2 DEF StrictSubsetOrdering
<1> QED BY <1>5

\* The least of some keys is one of them.
LEMMA LeastKey ==
    ASSUME NEW K \in SUBSET Keys
    PROVE  /\ MinKey(K) \in Keys
           /\ K # {} => MinKey(K) \in K
           /\ \A j \in K : MinKey(K) <= j
<1>1. CASE K = {}
    BY <1>1, KeyFacts DEF MinKey
<1>2. CASE K # {}
    <2> DEFINE N == {k + Inf : k \in K}
    <2>1. Inf \in Nat /\ NegInf = -Inf /\ \A k \in K : k \in Int /\ NegInf <= k
        BY KeyFacts DEF NegInf
    <2>2. N \in SUBSET Nat /\ N # {}
        BY <1>2, <2>1
    <2>3. PICK m \in N : \A j \in N : m <= j
        <3> HIDE DEF N
        <3> QED BY <2>2, LeastNat
    <2>4. PICK k \in K : m = k + Inf
        BY <2>3
    <2>5. \A j \in K : k <= j
        BY <2>1, <2>3, <2>4
    <2>6. MinKey(K) \in K /\ \A j \in K : MinKey(K) <= j
        BY <1>2, <2>5 DEF MinKey
    <2> QED BY <1>2, <2>6
<1> QED BY <1>1, <1>2

\* What is left of a round: its keys are under the stopped key.
LEMMA LeftFacts ==
    ASSUME Types, Leftover
    PROVE  LET left == {batch[b] : b \in at .. Len(batch)}
           IN /\ left \subseteq Range(batch) /\ left \subseteq Good(model)
              /\ stoppedKey' \in Keys /\ stoppedKey' <= stoppedKey
              /\ \A n \in left : stoppedKey' <= n.key
              /\ aside' = aside \cup
                    {[box |-> n.box, key |-> n.key] : n \in left}
              /\ aside' \subseteq Apart
              /\ at > Len(batch) => left = {} /\ stoppedKey' = stoppedKey
<1> DEFINE left == {batch[b] : b \in at .. Len(batch)}
           K == {stoppedKey} \cup {n.key : n \in left}
<1>1. Len(batch) \in Nat /\ at \in Nat \ {0} /\ stoppedKey \in Keys
    BY LenProperties DEF Types
<1>2. left \subseteq Range(batch) /\ left \subseteq Good(model)
    <2>1. at .. Len(batch) \subseteq 1 .. Len(batch)
        BY <1>1
    <2>2. /\ Range(batch) = {batch[i] : i \in 1 .. Len(batch)}
          /\ \A i \in 1 .. Len(batch) : batch[i] \in Good(model)
        BY RangeOf DEF Types
    <2> QED BY <2>1, <2>2
<1>3. at > Len(batch) => left = {}
    BY <1>1
<1>4. /\ stoppedKey' = MinKey(K)
      /\ aside' = aside \cup {[box |-> n.box, key |-> n.key] : n \in left}
    BY DEF Leftover
<1> HIDE DEF left
<1>5. \A n \in left : n.key \in NodeKeys /\ n.box \in SUBSET Points
    BY <1>2, GoodFacts, WorldFacts DEF Types
<1>6. K \in SUBSET Keys
    BY <1>1, <1>5, KeyFacts
<1>7. /\ stoppedKey' \in Keys /\ stoppedKey' \in K
      /\ \A j \in K : stoppedKey' <= j
    <2> HIDE DEF K
    <2>1. stoppedKey \in K
        BY DEF K
    <2> QED BY <1>4, <1>6, <2>1, LeastKey
<1>8. aside' \subseteq Apart
    BY <1>4, <1>5 DEF Types, Apart
<1>9. left = {} => stoppedKey' = stoppedKey
    BY <1>7
<1> QED BY <1>2, <1>3, <1>4, <1>7, <1>8, <1>9 DEF left

LEMMA EndBoundIsKey == ASSUME Types PROVE EndBound \in Keys
<1>1. /\ parkedKey \in Keys /\ stoppedKey \in Keys /\ bestBound \in Keys
      /\ inc.key \in Keys
    BY DEF Types, Incumbents
<1>2. OpenKeys \in SUBSET Keys
    <2>1. \A n \in Good(model) \cup {NoNode} : n.key \in Keys
        <3>1. \A n \in Good(model) : n.key \in Keys
            BY GoodFacts, KeyFacts
        <3>2. NoNode.key = Inf
            BY DEF NoNode
        <3> QED BY <3>1, <3>2, KeyFacts
    <2>2. heap \cup Range(stack) \cup {next} \cup {cur}
              \subseteq Good(model) \cup {NoNode}
        BY RangeOf DEF Types
    <2> QED BY <1>1, <2>1, <2>2 DEF OpenKeys
<1>3. MinKey(OpenKeys) \in Keys
    BY <1>2, LeastKey
<1> QED BY <1>1, <1>3 DEF EndBound

LEMMA EndSteps ==
    ASSUME IInv, Leftover \/ Finish PROVE IInv'
<1> USE DEF IInv, fixed, held, round, locals, bounds, counts, result, Goes,
            AtNode, Over, HasIncumbent, Outcomes, Searched, NoneHeld
<1>1. CASE Leftover
    <2> DEFINE left == {batch[b] : b \in at .. Len(batch)}
    <2>a. /\ stoppedKey' \in Keys /\ stoppedKey' <= stoppedKey
          /\ aside' = aside \cup {[box |-> n.box, key |-> n.key] : n \in left}
          /\ \A n \in left : stoppedKey' <= n.key
          /\ aside' \subseteq Apart
          /\ at > Len(batch) => stoppedKey' = stoppedKey
        BY <1>1, LeftFacts
    <2> HIDE DEF left
    <2>b. \A n \in aside' : parkedKey <= n.key \/ stoppedKey' <= n.key
        <3>1. ASSUME NEW n \in aside
              PROVE  parkedKey <= n.key \/ stoppedKey' <= n.key
            <4>1. /\ stoppedKey \in Int /\ stoppedKey' \in Int /\ n.key \in Int
                  /\ parkedKey \in Int
                BY <2>a, KeyFacts DEF Types, Apart
            <4> QED BY <2>a, <4>1 DEF OutcomeIsSound
        <3> QED BY <2>a, <3>1
    <2>1. Types'
        BY <1>1, <2>a, EmptySeq DEF Leftover, Types
    <2>2. Placement'
        BY <1>1 DEF Leftover, Types, Placement
    <2>3. LeafIsClosed' /\ IncIsReal'
        BY <1>1 DEF Leftover, Placement, LeafIsClosed, IncIsReal, Settled
    <2>4. OutcomeIsSound'
        <3>1. UNCHANGED <<fixed, inc, outcome, parkedKey>>
            BY <1>1 DEF Leftover
        <3>2. pc = "leftover" \/ (pc = "consume" /\ at > Len(batch))
            BY <1>1 DEF Leftover
        <3>3. pc' = IF outcome = "NOT_RUN" THEN "select" ELSE "finish"
            BY <1>1 DEF Leftover
        <3>4. CASE pc = "leftover"
            BY <2>b, <3>1, <3>3, <3>4 DEF OutcomeIsSound
        <3>5. CASE pc = "consume" /\ at > Len(batch)
            BY <2>a, <2>b, <3>1, <3>3, <3>5 DEF OutcomeIsSound
        <3> QED BY <3>2, <3>4, <3>5
    <2> QED BY <2>1, <2>2, <2>3, <2>4
<1>2. CASE Finish
    <2>a. /\ bound' \in Keys /\ told' \in Keys
        <3>1. EndBound \in Keys
            BY EndBoundIsKey
        <3> QED BY <1>2, <3>1 DEF Finish, Types
    <2>1. Types'
        BY <1>2, <2>a DEF Finish, Types
    <2>2. Placement'
        BY <1>2 DEF Finish, Types, Placement
    <2>3. LeafIsClosed' /\ IncIsReal'
        BY <1>2 DEF Finish, Placement, LeafIsClosed, IncIsReal, Settled
    <2>4. OutcomeIsSound'
        BY <1>2 DEF Finish, Placement, OutcomeIsSound
    <2> QED BY <2>1, <2>2, <2>3, <2>4
<1> QED BY <1>1, <1>2

LEMMA NextInv ==
    ASSUME IInv, NoRayUnderCutoff, [Next]_vars PROVE IInv'
<1>1. CASE Next
    BY <1>1, StartSteps, SelectSteps, RoundSteps, ConsumeSteps, OpenSteps,
       EndSteps DEF Next
<1>2. CASE UNCHANGED vars
    <2> USE <1>2 DEF vars, fixed, held, round, locals, bounds, counts, result
    <2>1. Types'
        BY DEF IInv, Types
    <2>2. Placement' /\ LeafIsClosed' /\ IncIsReal'
        BY DEF IInv, Placement, AtNode, Over, Root, LeafIsClosed, Settled,
               IncIsReal, HasIncumbent
    <2>3. OutcomeIsSound'
        BY DEF IInv, OutcomeIsSound, AtNode, Over, HasIncumbent, NoneHeld
    <2> QED BY <2>1, <2>2, <2>3 DEF IInv
<1> QED BY <1>1, <1>2

LEMMA Invariant == ASSUME NoRayUnderCutoff PROVE Spec => []IInv
<1>1. Init => IInv
    BY InitInv
<1>2. IInv /\ [Next]_vars => IInv'
    BY NextInv
<1> QED BY <1>1, <1>2, PTL DEF Spec

-----------------------------------------------------------------------------
(* The steps of TreeSearch, in the words of the code.                        *)

Held == heap \cup Range(stack) \cup InRound \cup {next, cur}

\* A node without its id.
Bare(n) == [box |-> n.box, key |-> n.key]

\* What a step leaves alone while the search runs.
StillRuns ==
    /\ Types /\ Types'
    /\ pc # "returned" /\ pc' # "returned"
    /\ model' = model /\ bound' = bound

LEMMA RoundNodes ==
    ASSUME Types
    PROVE  /\ InRound \subseteq Range(batch) /\ InRound \subseteq Good(model)
           /\ Held \subseteq Good(model) \cup {NoNode}
           /\ \A n \in InRound : n # NoNode
<1>1. Len(batch) \in Nat /\ at \in Nat \ {0}
    BY LenProperties DEF Types
<1>2. at .. Len(batch) \subseteq 1 .. Len(batch)
    BY <1>1
<1>3. InRound \subseteq Range(batch) /\ InRound \subseteq Good(model)
    BY <1>2, RangeOf DEF Types, InRound
<1>4. heap \subseteq Good(model) /\ Range(stack) \subseteq Good(model)
    BY RangeOf DEF Types
<1> QED BY <1>3, <1>4, GoodFacts DEF Held, Types

\* The open nodes of the search.
OpenBare ==
    /\ OpenNodes = {Bare(n) : n \in Held \ {NoNode}}
    /\ OpenNodes \subseteq Search!Node
    /\ OpenNodes \subseteq Apart

LEMMA BareNodes == Types => OpenBare
<1> SUFFICES ASSUME Types PROVE OpenBare
    OBVIOUS
<1>1. OpenNodes = {Bare(n) : n \in Held \ {NoNode}}
    BY DEF OpenNodes, Strip, Held, Bare
<1>2. ASSUME NEW n \in Held \ {NoNode}
      PROVE  Bare(n) \in [box : SUBSET Points, key : NodeKeys]
    <2>1. n \in Good(model)
        BY <1>2, RoundNodes
    <2>2. n.box \in SUBSET Points /\ n.key \in NodeKeys
        BY <2>1, GoodFacts, WorldFacts DEF Types
    <2> QED BY <2>2 DEF Bare
<1>3. OpenNodes \subseteq Apart
    BY <1>1, <1>2 DEF Apart
<1>4. Apart \subseteq Search!Node
    BY KeyFacts
       DEF Apart, Search!Node, Search!Keys, Search!NegInf, Keys, NegInf
<1> QED BY <1>1, <1>3, <1>4 DEF OpenBare

LEMMA BareNodesNext == Types' => OpenBare'
PROOF BY BareNodes, PTL

LEMMA Unbare ==
    ASSUME NEW n, NEW N, n \in N
    PROVE  Bare(n) \in {Bare(m) : m \in N} /\ Bare(n).box = n.box
           /\ Bare(n).key = n.key
PROOF BY DEF Bare

\* The code drops nodes, all of them closed, or none.
Drops ==
    /\ UNCHANGED <<aside, inc>>
    /\ Held' \subseteq Held \cup {NoNode}
    /\ \A n \in Held : n \in Held' \/ n = NoNode \/ Closed(inc, n.key)

LEMMA Discards == ASSUME StillRuns, Drops PROVE Search!Next
<1> USE DEF Drops
<1> DEFINE S == OpenNodes \ OpenNodes'
<1>1. /\ OpenNodes = {Bare(n) : n \in Held \ {NoNode}}
      /\ OpenNodes' = {Bare(n) : n \in Held' \ {NoNode}}
    BY BareNodes, BareNodesNext DEF StillRuns, OpenBare
<1>2. OpenNodes' \subseteq OpenNodes
    BY <1>1
<1>3. \A m \in S : Closed(inc, m.key)
    <2> SUFFICES ASSUME NEW m \in S PROVE Closed(inc, m.key)
        OBVIOUS
    <2>1. PICK n \in Held \ {NoNode} : m = Bare(n)
        BY <1>1
    <2>2. n \notin Held'
        BY <1>1, <2>1
    <2> QED BY <2>1, <2>2 DEF Bare
<1>4. S \in SUBSET OpenNodes /\ OpenNodes' = OpenNodes \ S
    BY <1>2
<1> HIDE DEF S
<1>5. Search!Discard(S)
    BY <1>3, <1>4 DEF Search!Discard, Search!Running, StillRuns,
                      Search!Closed, Closed
<1> QED BY <1>4, <1>5 DEF Search!Next

\* The code takes a node, and others cover what may matter of it.
LEMMA Explores ==
    ASSUME StillRuns, UNCHANGED <<aside, inc>>,
           NEW n \in Held, n # NoNode, Held \subseteq Held' \cup {n, NoNode},
           \A p \in n.box :
               \/ ~Feasible(model.cost, p)
               \/ Closed(inc, model.cost[p])
               \/ \E m \in Held' \ {NoNode} : p \in m.box /\ m.key <= model.cost[p]
    PROVE  Search!Next
<1>1. /\ OpenNodes = {Bare(m) : m \in Held \ {NoNode}}
      /\ OpenNodes' = {Bare(m) : m \in Held' \ {NoNode}}
    BY BareNodes, BareNodesNext DEF StillRuns, OpenBare
<1>2. OpenNodes' \subseteq Search!Node
    BY BareNodesNext DEF StillRuns, OpenBare
<1>3. Bare(n) \in OpenNodes /\ OpenNodes \ {Bare(n)} \subseteq OpenNodes'
    BY <1>1
<1>4. Search!Covers(OpenNodes', n.box)
    <2> SUFFICES ASSUME NEW p \in n.box, Feasible(model.cost, p),
                        ~Closed(inc, model.cost[p])
                 PROVE  \E m \in OpenNodes' :
                         p \in m.box /\ m.key <= model.cost[p]
        BY DEF Search!Covers, Search!Feasible, Feasible, Search!Beaten,
               Search!Closed, Closed
    <2>1. PICK m \in Held' \ {NoNode} : p \in m.box /\ m.key <= model.cost[p]
        OBVIOUS
    <2>2. /\ Bare(m) \in OpenNodes'
          /\ Bare(m).box = m.box /\ Bare(m).key = m.key
        BY <1>1, Unbare
    <2> QED BY <2>1, <2>2
<1>5. Bare(n).box = n.box
    BY DEF Bare
<1>6. Search!Explore(Bare(n))
    BY <1>2, <1>3, <1>4, <1>5 DEF Search!Explore, Search!Running, StillRuns
<1> QED BY <1>3, <1>6 DEF Search!Next

\* The code gives nodes up: what may matter of them is set aside.
LEMMA GivesUp ==
    ASSUME StillRuns, inc' = inc, aside \subseteq aside',
           Held' \subseteq Held \cup {NoNode},
           \A n \in Held : \/ n \in Held' \/ n = NoNode
                           \/ \E m \in aside' : n.box \subseteq m.box
                                 /\ \A p \in n.box : m.key <= model.cost[p]
    PROVE  Search!Next
<1> DEFINE S == OpenNodes \ OpenNodes'
<1>1. /\ OpenNodes = {Bare(n) : n \in Held \ {NoNode}}
      /\ OpenNodes' = {Bare(n) : n \in Held' \ {NoNode}}
    BY BareNodes, BareNodesNext DEF StillRuns, OpenBare
<1>2. S \in SUBSET OpenNodes /\ OpenNodes' = OpenNodes \ S
    BY <1>1
<1>3. aside' \subseteq Search!Node
    BY KeyFacts DEF StillRuns, Types, Apart, Search!Node, Search!Keys,
                    Search!NegInf, Keys, NegInf
<1>4. ASSUME NEW b \in S PROVE Search!Covers(aside', b.box)
    <2>1. PICK n \in Held \ {NoNode} : b = Bare(n)
        BY <1>1
    <2>2. n \notin Held'
        BY <1>1, <2>1
    <2>3. PICK m \in aside' : n.box \subseteq m.box
                              /\ \A p \in n.box : m.key <= model.cost[p]
        BY <2>1, <2>2
    <2> QED BY <2>1, <2>3 DEF Search!Covers, Bare
<1> HIDE DEF S
<1>5. Search!SetAside(S)
    BY <1>2, <1>3, <1>4 DEF Search!SetAside, Search!Running, StillRuns
<1> QED BY <1>2, <1>5 DEF Search!Next

\* The code finds a better point, or offers none.
LEMMA Improves ==
    ASSUME StillRuns, IncIsReal, aside' = aside,
           Held' \cup {NoNode} = Held \cup {NoNode},
           NEW f \in Found(model.root) \cup {None},
           inc' = IF f.key < inc.key THEN f ELSE inc
    PROVE  Search!Next
<1>1. CASE f.key < inc.key
    <2>1. /\ f \in Found(model.root) /\ f.key \in NodeKeys \ {NegInf}
          /\ model.cost[f.point] <= f.key
        BY <1>1, BetterPoint DEF StillRuns
    <2>2. f = [key |-> f.key, point |-> f.point] /\ f.point \in model.root
        BY <2>1 DEF Found
    <2>3. f.key \in Search!Keys /\ Search!NegInf < f.key
        BY <2>1, KeyFacts
           DEF Search!Keys, Search!NegInf, Keys, NegInf, NodeKeys
    <2>4. OpenNodes' = OpenNodes
        <3>1. Held' \ {NoNode} = Held \ {NoNode}
            OBVIOUS
        <3> QED BY <3>1, BareNodes, BareNodesNext DEF StillRuns, OpenBare
    <2>5. Search!Improve(f.point, f.key)
        BY <1>1, <2>1, <2>2, <2>3, <2>4
           DEF Search!Improve, Search!Running, StillRuns
    <2> QED BY <2>2, <2>3, <2>5 DEF Search!Next
<1>2. CASE ~(f.key < inc.key)
    BY <1>2, Discards DEF Drops
<1> QED BY <1>1, <1>2

\* The code returns without having finished, with a bound of all that is held.
LEMMA Returns ==
    ASSUME Types, Types', pc # "returned", pc' = "returned",
           UNCHANGED <<model, inc, aside>>, Held' = Held,
           NEW v, v = (IF code' = "ERR" THEN "ERR" ELSE outcome'),
           v \in Search!Stops \/
              (/\ v = "UNBOUNDED"
               /\ \E p \in model.root : model.cost[p] = NegInf),
           \A n \in Held : n = NoNode \/ bound' <= n.key,
           \A n \in aside : bound' <= n.key
    PROVE  Search!Next
<1>1. /\ OpenNodes = {Bare(n) : n \in Held \ {NoNode}}
      /\ OpenNodes' = OpenNodes
    BY BareNodes, BareNodesNext DEF OpenBare
<1>2. bound' \in {b \in Search!Keys : Search!Keeps(b)}
    <2>1. bound' \in Search!Keys
        BY KeyFacts DEF Types, Search!Keys, Search!NegInf, Keys, NegInf
    <2>2. \A n \in OpenNodes : bound' <= n.key
        BY <1>1 DEF Bare
    <2> QED BY <2>1, <2>2 DEF Search!Keeps
<1>3. CASE v \in Search!Stops
    <2>1. Search!Stop(v)
        BY <1>1, <1>2 DEF Search!Stop, Search!Running
    <2> QED BY <1>3, <2>1 DEF Search!Next
<1>4. CASE v = "UNBOUNDED" /\ \E p \in model.root : model.cost[p] = NegInf
    <2>1. Search!Unbounded
        BY <1>1, <1>2, <1>4 DEF Search!Unbounded, Search!Running,
              Search!NegInf, NegInf
    <2> QED BY <2>1 DEF Search!Next
<1> QED BY <1>3, <1>4

-----------------------------------------------------------------------------
(* Every step of the code is one of TreeSearch, or leaves its state alone.   *)

\* The node in hand: an open one, and what a Drop, a Halves or a Park leaves.
LEMMA InHand ==
    ASSUME Types, at <= Len(batch)
    PROVE  /\ Taken \in Held /\ Taken # NoNode /\ Taken.box = Box
           /\ batch' = batch /\ at' = at + 1 =>
                 InRound' \subseteq InRound /\ InRound \subseteq InRound' \cup {Taken}
<1>1. /\ at \in 1 .. Len(batch) /\ Taken = batch[at] /\ Taken \in Good(model)
    BY TakenFacts
<1>2. Len(batch) \in Nat
    BY LenProperties DEF Types
<1>3. Taken \in InRound
    BY <1>1, <1>2 DEF InRound
<1>4. ASSUME batch' = batch, at' = at + 1
      PROVE  InRound' \subseteq InRound /\ InRound \subseteq InRound' \cup {Taken}
    <2>1. InRound' = {batch[b] : b \in at + 1 .. Len(batch)}
        BY <1>4 DEF InRound
    <2>2. \A b \in at .. Len(batch) : b = at \/ b \in at + 1 .. Len(batch)
        BY <1>1, <1>2
    <2>3. \A b \in at + 1 .. Len(batch) : b \in at .. Len(batch)
        BY <1>1, <1>2
    <2> QED BY <1>1, <2>1, <2>2, <2>3 DEF InRound
<1> QED BY <1>1, <1>3, <1>4, GoodFacts DEF Held, Box

\* What the node in hand leaves, when the nodes kept for it cover its box.
LEMMA TakesOne ==
    ASSUME StillRuns, UNCHANGED <<aside, inc, batch, cur>>,
           at <= Len(batch), at' = at + 1,
           heap \cup Range(stack) \cup {next}
              \subseteq heap' \cup Range(stack') \cup {next', NoNode},
           \A p \in Box :
               \/ ~Feasible(model.cost, p)
               \/ Closed(inc, model.cost[p])
               \/ \E m \in (heap' \cup Range(stack') \cup {next'}) \ {NoNode} :
                     p \in m.box /\ m.key <= model.cost[p]
    PROVE  Search!Next
<1>1. /\ Taken \in Held /\ Taken # NoNode /\ Taken.box = Box
      /\ InRound \subseteq InRound' \cup {Taken}
    BY InHand DEF StillRuns
<1>2. Held \subseteq Held' \cup {Taken, NoNode}
    BY <1>1 DEF Held
<1>3. heap' \cup Range(stack') \cup {next'} \subseteq Held'
    BY DEF Held
<1>4. ASSUME NEW p \in Taken.box
      PROVE  \/ ~Feasible(model.cost, p)
             \/ Closed(inc, model.cost[p])
             \/ \E m \in Held' \ {NoNode} : p \in m.box /\ m.key <= model.cost[p]
    BY <1>1, <1>3, <1>4
<1> QED BY <1>1, <1>2, <1>4, Explores

\* The children of a split cover the box.
LEMMA HalvesCover ==
    ASSUME StillRuns, UNCHANGED <<aside, inc>>, at <= Len(batch),
           NEW s \in Splits[Box], Halves(s)
    PROVE  Search!Next
<1>1. /\ Taken \in Good(model) /\ Taken.key \in NodeKeys
      /\ IsBound(model.cost, Box, Taken.key) /\ Box \in SUBSET Points
    BY TakenFacts DEF StillRuns
<1>2. /\ heap' = heap \cup Children(s, Taken.key) /\ at' = at + 1
      /\ UNCHANGED <<stack, next, batch, cur>>
    BY DEF Halves, Continue
<1>3. ASSUME NEW p \in Box, Feasible(model.cost, p)
      PROVE  \E m \in (heap' \cup Range(stack') \cup {next'}) \ {NoNode} :
                 p \in m.box /\ m.key <= model.cost[p]
    <2>1. PICK c \in Children(s, Taken.key) : p \in c.box /\ c.key = Taken.key
        BY <1>1, <1>3, Splitting DEF StillRuns
    <2>2. c.key <= model.cost[p]
        BY <1>1, <2>1 DEF IsBound
    <2>3. c \in heap' /\ c # NoNode
        BY <1>2 DEF Children
    <2> QED BY <2>1, <2>2, <2>3
<1> QED BY <1>2, <1>3, TakesOne

\* A parked node is set aside with its bound.
LEMMA ParksOne ==
    ASSUME StillRuns, inc' = inc, at <= Len(batch),
           NEW k, IsBound(model.cost, Box, k), Park(k)
    PROVE  Search!Next
<1>1. /\ Taken \in Held /\ Taken # NoNode /\ Taken.box = Box
    BY InHand DEF StillRuns
<1>2. /\ aside' = aside \cup {[box |-> Box, key |-> k]} /\ at' = at + 1
      /\ UNCHANGED <<heap, stack, next, cur, batch>>
    BY DEF Park, Continue, held
<1>3. InRound' \subseteq InRound /\ InRound \subseteq InRound' \cup {Taken}
    BY <1>2, InHand DEF StillRuns
<1>4. Held' \subseteq Held /\ Held \subseteq Held' \cup {Taken}
    BY <1>2, <1>3 DEF Held
<1>5. \E m \in aside' : Taken.box \subseteq m.box
                        /\ \A p \in Taken.box : m.key <= model.cost[p]
    <2> DEFINE m == [box |-> Box, key |-> k]
    <2>1. m \in aside' /\ m.box = Box /\ m.key = k
        BY <1>2
    <2> QED BY <1>1, <2>1 DEF IsBound
<1> QED BY <1>2, <1>4, <1>5, GivesUp

LEMMA StartRefines ==
    ASSUME StillRuns, IInv,
           \/ EmptyBox \/ NoStart
           \/ \E f \in Found(model.root) \cup {None}, b \in Bills(1) : Start(f, b)
    PROVE  Search!Next
<1>1. UNCHANGED <<held, batch, at, aside>>
    BY DEF EmptyBox, NoStart, Start, round
<1>2. Held' = Held
    BY <1>1 DEF Held, InRound, held
<1>3. CASE EmptyBox \/ NoStart
    BY <1>1, <1>2, <1>3, Discards DEF Drops, EmptyBox, NoStart
<1>4. ASSUME NEW f \in Found(model.root) \cup {None},
             NEW b \in Bills(1), Start(f, b)
      PROVE  Search!Next
    <2>1. inc' = IF f.key < inc.key THEN f ELSE inc
        BY <1>4 DEF Start
    <2> QED BY <1>1, <1>2, <2>1, Improves DEF IInv
<1> QED BY <1>3, <1>4

\* The stack under the node that is taken, and what is closed above it.
LEMMA TopFacts ==
    ASSUME Types, NEW i \in 1 .. Len(stack), IsTop(i),
           stack' = SubSeq(stack, 1, i - 1)
    PROVE  /\ stack[i] \in Range(stack) /\ stack[i] # NoNode
           /\ Range(stack') \subseteq Range(stack)
           /\ \A n \in Range(stack) :
                 n \in Range(stack') \/ n = stack[i] \/ Closed(inc, n.key)
<1>1. /\ Len(stack) \in Nat
      /\ Range(stack) = {stack[j] : j \in 1 .. Len(stack)}
      /\ Range(stack) \subseteq Good(model)
    BY RangeOf DEF Types
<1>2. Range(stack') = {stack[j] : j \in 1 .. i - 1}
    BY Beneath DEF Types
<1>3. ASSUME NEW j \in 1 .. Len(stack)
      PROVE  j \in 1 .. i - 1 \/ j = i \/ Closed(inc, stack[j].key)
    <2>1. j \in OpenAt => j <= i
        BY DEF IsTop
    <2>2. j \notin OpenAt => Closed(inc, stack[j].key)
        BY DEF OpenAt, IsOpen
    <2> QED BY <1>1, <2>1, <2>2
<1>4. \A j \in 1 .. i - 1 : j \in 1 .. Len(stack)
    BY <1>1
<1> QED BY <1>1, <1>2, <1>3, <1>4, GoodFacts

\* A stack without an open node has closed ones only.
LEMMA NoTop ==
    ASSUME Types, OpenAt = {}
    PROVE  \A n \in Range(stack) : Closed(inc, n.key)
<1>1. Range(stack) = {stack[j] : j \in 1 .. Len(stack)}
    BY RangeOf DEF Types
<1> QED BY <1>1 DEF OpenAt, IsOpen

LEMMA SelectDrops ==
    ASSUME IInv, Select
    PROVE  Drops
<1>1. /\ cur = NoNode /\ UNCHANGED <<aside, inc, batch, at>>
    BY DEF IInv, Placement, Over, Select, SelectNext, SelectTop, SelectLeast,
           Exhausted, round
<1>2. InRound' = InRound
    BY <1>1 DEF InRound
<1>3. CASE SelectNext
    <2>1. UNCHANGED <<heap, stack>> /\ cur' = next /\ next' = NoNode
        BY <1>3 DEF SelectNext
    <2>2. Held' = Held
        BY <1>1, <1>2, <2>1 DEF Held
    <2> QED BY <1>1, <2>2 DEF Drops
<1>4. ASSUME NEW i \in 1 .. Len(stack), SelectTop(i) PROVE Drops
    <2>1. /\ heap' = heap /\ cur' = stack[i] /\ next' = NoNode
          /\ stack' = SubSeq(stack, 1, i - 1) /\ IsTop(i) /\ NextIsClosed
        BY <1>4 DEF SelectTop
    <2>2. /\ stack[i] \in Range(stack)
          /\ Range(stack') \subseteq Range(stack)
          /\ \A n \in Range(stack) :
                 n \in Range(stack') \/ n = stack[i] \/ Closed(inc, n.key)
        BY <2>1, TopFacts DEF IInv
    <2>3. next = NoNode \/ Closed(inc, next.key)
        BY <2>1 DEF NextIsClosed, IsOpen
    <2>4. Held' \subseteq Held \cup {NoNode}
        BY <1>1, <1>2, <2>1, <2>2 DEF Held
    <2>5. \A n \in Held : n \in Held' \/ n = NoNode \/ Closed(inc, n.key)
        BY <1>1, <1>2, <2>1, <2>2, <2>3 DEF Held
    <2> QED BY <1>1, <2>4, <2>5 DEF Drops
<1>5. ASSUME NEW h \in heap, SelectLeast(h) PROVE Drops
    <2>1. /\ heap' = heap \ {h} /\ cur' = h /\ next' = NoNode
          /\ stack' = <<>> /\ OpenAt = {} /\ NextIsClosed
        BY <1>5 DEF SelectLeast
    <2>2. Range(stack') = {} /\ \A n \in Range(stack) : Closed(inc, n.key)
        BY <2>1, NoTop, RangeOfEmpty DEF IInv
    <2>3. next = NoNode \/ Closed(inc, next.key)
        BY <2>1 DEF NextIsClosed, IsOpen
    <2>4. Held' \subseteq Held \cup {NoNode}
        BY <1>1, <1>2, <2>1, <2>2 DEF Held
    <2>5. \A n \in Held : n \in Held' \/ n = NoNode \/ Closed(inc, n.key)
        BY <1>1, <1>2, <2>1, <2>2, <2>3 DEF Held
    <2> QED BY <1>1, <2>4, <2>5 DEF Drops
<1>6. CASE Exhausted
    <2>1. /\ heap' = {} /\ cur' = NoNode /\ next' = NoNode
          /\ stack' = <<>> /\ OpenAt = {} /\ NextIsClosed
          /\ \A n \in heap : Closed(inc, n.key)
        BY <1>6 DEF Exhausted, NoneOpen, IsOpen
    <2>2. Range(stack') = {} /\ \A n \in Range(stack) : Closed(inc, n.key)
        BY <2>1, NoTop, RangeOfEmpty DEF IInv
    <2>3. next = NoNode \/ Closed(inc, next.key)
        BY <2>1 DEF NextIsClosed, IsOpen
    <2>4. Held' \subseteq Held \cup {NoNode}
        BY <1>1, <1>2, <2>1, <2>2 DEF Held
    <2>5. \A n \in Held : n \in Held' \/ n = NoNode \/ Closed(inc, n.key)
        BY <1>1, <1>2, <2>1, <2>2, <2>3 DEF Held
    <2> QED BY <1>1, <2>4, <2>5 DEF Drops
<1> QED BY <1>3, <1>4, <1>5, <1>6 DEF Select

\* The nodes of a round that is being filled.
LEMMA FillingNodes ==
    ASSUME Types, NEW n \in Good(model), at = 1, at' = 1,
           batch' = Append(batch, n)
    PROVE  InRound' = InRound \cup {n}
<1>1. /\ Len(batch) \in Nat /\ Len(batch') = Len(batch) + 1
      /\ \A i \in 1 .. Len(batch) : batch'[i] = batch[i]
      /\ batch'[Len(batch) + 1] = n
    BY AppendProperties, LenProperties DEF Types
<1>2. /\ InRound = {batch[b] : b \in 1 .. Len(batch)}
      /\ InRound' = {batch'[b] : b \in 1 .. Len(batch')}
    BY DEF InRound
<1>3. /\ Len(batch) + 1 \in 1 .. Len(batch')
      /\ \A i \in 1 .. Len(batch) : i \in 1 .. Len(batch')
      /\ \A i \in 1 .. Len(batch') : i \in 1 .. Len(batch) \/ i = Len(batch) + 1
    BY <1>1
<1>4. ASSUME NEW i \in 1 .. Len(batch') PROVE batch'[i] \in InRound \cup {n}
    <2>1. CASE i \in 1 .. Len(batch)
        BY <1>1, <1>2, <2>1
    <2>2. CASE i = Len(batch) + 1
        BY <1>1, <2>2
    <2> QED BY <1>3, <2>1, <2>2
<1>5. n \in InRound' /\ InRound \subseteq InRound'
    BY <1>1, <1>2, <1>3
<1> QED BY <1>2, <1>4, <1>5

LEMMA RoundDrops ==
    ASSUME IInv,
           \/ \E v \in {"WORK_LIMIT", "TIME_LIMIT", "NODE_LIMIT"} : LimitStops(v)
           \/ BeginsRound
           \/ Fill
           \/ \E k \in DOMAIN lane : \E b \in Bills(Len(batch)) : LaneSolves(k, b)
           \/ Join
    PROVE  Drops
<1>1. UNCHANGED <<aside, inc, next>>
    BY DEF LimitStops, BeginsRound, Fill, FillFromTop, FillFromLeast, Launch,
           LaneSolves, Join, held
<1>2. CASE \/ \E v \in {"WORK_LIMIT", "TIME_LIMIT", "NODE_LIMIT"} : LimitStops(v)
           \/ \E k \in DOMAIN lane : \E b \in Bills(Len(batch)) : LaneSolves(k, b)
           \/ Join
    <2>1. UNCHANGED <<held, batch, at>>
        BY <1>2 DEF LimitStops, LaneSolves, Join, round
    <2>2. Held' = Held
        BY <2>1 DEF Held, InRound, held
    <2> QED BY <1>1, <2>2 DEF Drops
<1>3. CASE BeginsRound
    <2>1. /\ batch = <<>> /\ at = 1 /\ at' = 1 /\ batch' = <<cur>>
          /\ cur' = NoNode /\ UNCHANGED <<heap, stack>>
        BY <1>3 DEF IInv, Placement, BeginsRound
    <2>2. InRound = {} /\ InRound' = {cur}
        <3>1. Len(<<>>) = 0 /\ Len(<<cur>>) = 1 /\ <<cur>>[1] = cur
            OBVIOUS
        <3>2. 1 .. 0 = {} /\ 1 .. 1 = {1}
            OBVIOUS
        <3> QED BY <2>1, <3>1, <3>2 DEF InRound
    <2>3. Held' = Held \cup {NoNode}
        BY <1>1, <2>1, <2>2 DEF Held
    <2> QED BY <1>1, <2>3 DEF Drops
<1>4. ASSUME NEW i \in 1 .. Len(stack), FillFromTop(i) PROVE Drops
    <2>1. /\ UNCHANGED <<heap, cur>> /\ batch' = Append(batch, stack[i])
          /\ stack' = SubSeq(stack, 1, i - 1) /\ IsTop(i) /\ at = 1 /\ at' = 1
        BY <1>4 DEF IInv, Placement, FillFromTop
    <2>2. /\ stack[i] \in Range(stack)
          /\ Range(stack') \subseteq Range(stack)
          /\ \A n \in Range(stack) :
                 n \in Range(stack') \/ n = stack[i] \/ Closed(inc, n.key)
        BY <2>1, TopFacts DEF IInv
    <2>3. InRound' = InRound \cup {stack[i]}
        BY <2>1, RangeOf, FillingNodes DEF IInv, Types
    <2>4. Held' \subseteq Held
        BY <1>1, <2>1, <2>2, <2>3 DEF Held
    <2>5. \A n \in Held : n \in Held' \/ n = NoNode \/ Closed(inc, n.key)
        BY <1>1, <2>1, <2>2, <2>3 DEF Held
    <2> QED BY <1>1, <2>4, <2>5 DEF Drops
<1>5. ASSUME NEW n \in heap, FillFromLeast(n) PROVE Drops
    <2>1. /\ cur' = cur /\ batch' = Append(batch, n) /\ heap' = heap \ {n}
          /\ stack' = <<>> /\ OpenAt = {} /\ at = 1 /\ at' = 1
        BY <1>5 DEF IInv, Placement, FillFromLeast
    <2>2. Range(stack') = {} /\ \A m \in Range(stack) : Closed(inc, m.key)
        BY <2>1, NoTop, RangeOfEmpty DEF IInv
    <2>3. InRound' = InRound \cup {n}
        BY <2>1, FillingNodes DEF IInv, Types
    <2>4. Held' \subseteq Held
        BY <1>1, <2>1, <2>2, <2>3 DEF Held
    <2>5. \A m \in Held : m \in Held' \/ m = NoNode \/ Closed(inc, m.key)
        BY <1>1, <2>1, <2>2, <2>3 DEF Held
    <2> QED BY <1>1, <2>4, <2>5 DEF Drops
<1>6. CASE Launch
    <2>1. /\ UNCHANGED <<cur, batch>> /\ at = 1 /\ at' = 1
        BY <1>6 DEF IInv, Placement, Launch
    <2>2. InRound' = InRound
        BY <2>1 DEF InRound
    <2>3. CASE RoundIsFull
        <3>1. UNCHANGED <<heap, stack>>
            BY <1>6, <2>3 DEF Launch
        <3>2. Held' = Held
            BY <1>1, <2>1, <2>2, <3>1 DEF Held
        <3> QED BY <1>1, <3>2 DEF Drops
    <2>4. CASE ~RoundIsFull
        <3>1. /\ heap' = {} /\ stack' = <<>> /\ OpenAt = {}
              /\ \A n \in heap : Closed(inc, n.key)
            BY <1>6, <2>4 DEF Launch, NoneOpen, IsOpen
        <3>2. Range(stack') = {} /\ \A m \in Range(stack) : Closed(inc, m.key)
            BY <3>1, NoTop, RangeOfEmpty DEF IInv
        <3>3. Held' \subseteq Held
            BY <1>1, <2>1, <2>2, <3>1, <3>2 DEF Held
        <3>4. \A m \in Held : m \in Held' \/ m = NoNode \/ Closed(inc, m.key)
            BY <1>1, <2>1, <2>2, <3>1, <3>2 DEF Held
        <3> QED BY <1>1, <3>3, <3>4 DEF Drops
    <2> QED BY <2>3, <2>4
<1> QED BY <1>2, <1>3, <1>4, <1>5, <1>6 DEF Fill

\* A node of which nothing comes is empty or closed.
LEMMA DropsOne ==
    ASSUME StillRuns, UNCHANGED <<aside, inc>>, at <= Len(batch), Drop,
           \A p \in Box : ~Feasible(model.cost, p) \/ Closed(inc, model.cost[p])
    PROVE  Search!Next
<1>1. UNCHANGED <<heap, stack, next, cur, batch>> /\ at' = at + 1
    BY DEF Drop, Continue, held
<1> QED BY <1>1, TakesOne

LEMMA ConsumeRefines ==
    ASSUME StillRuns, IInv, NoRayUnderCutoff, Consume
    PROVE  Search!Next
<1>1. at <= Len(batch) /\ inc' = inc
    BY DEF Consume, NodeErrs, NodeInfeasible, OpensPiece, SearchesPoint,
           NodeUnbounded, FailsEmpty, FailsAndSplits, FailsAndParks, NodeFails,
           NodeStops, Solved, Rough, NodeSolved, Ends, Drop, Halves, Park
<1>2. CASE NodeErrs
    BY <1>2 DEF NodeErrs, Goes, StillRuns
<1>3. CASE NodeInfeasible \/ FailsEmpty
    <2>1. Drop /\ Empty(model.cost, Box)
        BY <1>3 DEF NodeInfeasible, FailsEmpty
    <2>2. aside' = aside
        BY <2>1 DEF Drop
    <2> QED BY <1>1, <2>1, <2>2, DropsOne DEF Empty
<1>4. ASSUME NEW s \in OpenPieces, OpensPiece(s) PROVE Search!Next
    <2>1. s \in Splits[Box]
        BY <1>1, TakenFacts, ConicTreeAssumption DEF OpenPieces, StillRuns
    <2>2. Halves(s) /\ aside' = aside
        BY <1>4 DEF OpensPiece, Halves
    <2> QED BY <1>1, <2>1, <2>2, HalvesCover
<1>5. ASSUME NEW fs \in Searched, NEW b \in Bills(1), SearchesPoint(fs, b)
      PROVE  Search!Next
    <2>1. UNCHANGED <<heap, stack, next, cur, batch, aside>>
        BY <1>5 DEF SearchesPoint, held
    <2>2. CASE shape.pieces /\ fs = "INFEASIBLE"
        <3>1. at' = at + 1 /\ SearchEnds(fs)
            BY <1>5, <2>2 DEF SearchesPoint, Continue
        <3>2. Empty(model.cost, Box)
            BY <1>5, <2>2, <3>1, RaySearch DEF SearchesPoint, StillRuns
        <3> QED BY <1>1, <2>1, <3>1, <3>2, TakesOne DEF Empty
    <2>3. CASE ~(shape.pieces /\ fs = "INFEASIBLE")
        <3>1. at' = at
            BY <1>5, <2>3 DEF SearchesPoint, Break
        <3>2. Held' = Held
            BY <2>1, <3>1 DEF Held, InRound
        <3> QED BY <1>1, <2>1, <3>2, Discards DEF Drops
    <2> QED BY <2>2, <2>3
<1>6. ASSUME NEW s \in Splits[Box], FailsAndSplits(s) PROVE Search!Next
    <2>1. Halves(s) /\ aside' = aside
        BY <1>6 DEF FailsAndSplits, Halves
    <2> QED BY <1>1, <2>1, HalvesCover
<1>7. CASE FailsAndParks
    <2>1. Park(Taken.key) /\ IsBound(model.cost, Box, Taken.key)
        BY <1>1, <1>7, TakenFacts DEF FailsAndParks, StillRuns
    <2> QED BY <1>1, <2>1, ParksOne
<1>8. ASSUME \/ \E v \in {"WORK_LIMIT", "TIME_LIMIT"} : NodeStops(v)
             \/ \E k \in Relaxed : Solved(k)
             \/ \E lb \in Relaxed \cup {NegInf} : Rough(lb)
      PROVE  Search!Next
    <2>1. UNCHANGED <<held, batch, at, aside>>
        BY <1>8 DEF NodeStops, Break, Solved, Rough, NodeSolved, round
    <2>2. Held' = Held
        BY <2>1 DEF Held, InRound, held
    <2> QED BY <1>1, <2>1, <2>2, Discards DEF Drops
<1> QED BY <1>2, <1>3, <1>4, <1>5, <1>6, <1>7, <1>8 DEF Consume

LEMMA OpenRefines ==
    ASSUME StillRuns, IInv, Open
    PROVE  Search!Next
<1>1. at <= Len(batch) /\ AtNode
    <2>1. AtNode
        BY DEF Open, EventStops, ClosedByIncumbent, NoRounding, RoundingSolve,
               DiveStep, DiveSolve, DiveEnds, LeafSolve, LeafClosed,
               LeafSplits, LeafParks, Branch, BranchesNowhere, AtNode
    <2>2. Len(batch) \in Nat /\ at \in 1 .. Len(batch)
        BY <2>1, LenProperties DEF IInv, Types, Placement
    <2> QED BY <2>1, <2>2
<1>2. /\ key \in NodeKeys /\ key \in Keys /\ IsBound(model.cost, Box, key)
      /\ Box = batch[at].box /\ Box \in SUBSET Points /\ Box \in SUBSET model.root
      /\ \A p \in Box : model.cost[p] \in Keys
    BY <1>1, TakenFacts, WorldFacts, KeyFacts DEF IInv, Placement, Types
<1>3. CASE EventStops \/ NoRounding \/ (\E b \in Bills(1) : DiveStep(b)) \/ DiveEnds
    <2>1. UNCHANGED <<held, batch, at, aside, inc>>
        BY <1>3 DEF EventStops, Break, NoRounding, DiveStep, DiveEnds, round
    <2>2. Held' = Held
        BY <2>1 DEF Held, InRound, held
    <2> QED BY <2>1, <2>2, Discards DEF Drops
<1>4. CASE ClosedByIncumbent
    <2>1. Drop /\ Closed(inc, key)
        BY <1>4 DEF ClosedByIncumbent
    <2>2. UNCHANGED <<aside, inc>>
        BY <2>1 DEF Drop
    <2>3. inc \in Incumbents
        BY DEF IInv, Types
    <2>4. \A p \in Box : Closed(inc, model.cost[p])
        BY <1>2, <2>1, <2>3, ClosedAbove DEF IsBound
    <2> QED BY <1>1, <2>1, <2>2, <2>4, DropsOne
<1>5. ASSUME NEW f \in Found(model.root) \cup {None}, Offer(f),
             UNCHANGED <<next, cur, batch, at, aside>>
      PROVE  Search!Next
    <2>1. heap' \cup Range(stack') = heap \cup Range(stack)
        BY <1>5, Offered DEF IInv
    <2>2. Held' = Held
        BY <1>5, <2>1 DEF Held, InRound
    <2>3. inc' = IF f.key < inc.key THEN f ELSE inc
        BY <1>5 DEF Offer
    <2> QED BY <1>5, <2>2, <2>3, Improves DEF IInv
<1>6. ASSUME NEW f \in Found(model.root) \cup {None}, NEW b \in Bills(1),
             RoundingSolve(f, b) \/ DiveSolve(f, b)
      PROVE  Search!Next
    <2>1. Offer(f) /\ UNCHANGED <<next, cur, batch, at, aside>>
        BY <1>6 DEF RoundingSolve, DiveSolve, OfferEnds, Break
    <2> QED BY <1>5, <2>1
<1>7. ASSUME NEW fs \in Searched, NEW f \in Found(Box) \cup {None},
             NEW lb \in Relaxed \cup {NegInf}, NEW b \in Bills(1),
             LeafSolve(fs, f, lb, b)
      PROVE  Search!Next
    <2>1. Offer(f) /\ UNCHANGED <<next, cur, batch, at, aside>>
        BY <1>7 DEF LeafSolve, OfferEnds, Break
    <2>2. f \in Found(model.root) \cup {None}
        BY <1>2 DEF Found
    <2> QED BY <1>5, <2>1, <2>2
<1>8. CASE LeafClosed
    <2>1. Drop /\ pc = "leaf" /\ closed
        BY <1>8 DEF LeafClosed
    <2>2. UNCHANGED <<aside, inc>>
        BY <2>1 DEF Drop
    <2>3. \A p \in Box : ~Feasible(model.cost, p) \/ Closed(inc, model.cost[p])
        BY <1>2, <2>1 DEF IInv, LeafIsClosed, Settled
    <2> QED BY <1>1, <2>1, <2>2, <2>3, DropsOne
<1>9. ASSUME NEW s \in Splits[Box], LeafSplits(s) PROVE Search!Next
    <2>1. Halves(s) /\ UNCHANGED <<aside, inc>>
        BY <1>9 DEF LeafSplits, Halves
    <2> QED BY <1>1, <2>1, HalvesCover
<1>10. CASE LeafParks
    <2>1. Park(key) /\ inc' = inc
        BY <1>10 DEF LeafParks, Park
    <2> QED BY <1>1, <1>2, <2>1, ParksOne
<1>11. ASSUME NEW s \in Splits[Box], NEW n \in Children(s, key), Branch(s, n)
       PROVE  Search!Next
    <2>1. /\ next' = n /\ Keep(Kept(s, n)) /\ at' = at + 1
          /\ UNCHANGED <<cur, batch, aside, inc>>
        BY <1>11 DEF Branch, Continue
    <2>2. /\ Children(s, key) \subseteq Good(model)
          /\ \A p \in Box : Feasible(model.cost, p) =>
                \E c \in Children(s, key) : p \in c.box /\ c.key = key
        BY <1>1, <1>2, Splitting DEF IInv
    <2>3. /\ Kept(s, n) \in Seq(Good(model))
          /\ Range(Kept(s, n)) \cup {n} =
                Children(s, key) \cup ({next} \ {NoNode})
        BY <2>2, KeptNodes DEF IInv, Types
    <2>4. heap' \cup Range(stack') = heap \cup Range(stack) \cup Range(Kept(s, n))
        <3>1. stack \in Seq(Good(model))
            BY DEF IInv, Types
        <3>2. Range(stack \o Kept(s, n)) = Range(stack) \cup Range(Kept(s, n))
            BY <2>3, <3>1, RangeOfConcat
        <3> QED BY <2>1, <3>2 DEF Keep
    <2>5. /\ heap \cup Range(stack) \cup {next}
                \subseteq heap' \cup Range(stack') \cup {next', NoNode}
          /\ Children(s, key) \subseteq heap' \cup Range(stack') \cup {next'}
        BY <2>1, <2>3, <2>4
    <2>6. ASSUME NEW p \in Box, Feasible(model.cost, p)
          PROVE  \E m \in (heap' \cup Range(stack') \cup {next'}) \ {NoNode} :
                     p \in m.box /\ m.key <= model.cost[p]
        <3>1. PICK c \in Children(s, key) : p \in c.box /\ c.key = key
            BY <2>2, <2>6
        <3>2. c.key <= model.cost[p]
            BY <1>2, <3>1 DEF IsBound
        <3>3. c # NoNode
            BY DEF Children
        <3> QED BY <2>5, <3>1, <3>2, <3>3
    <2> QED BY <1>1, <2>1, <2>5, <2>6, TakesOne
<1>12. ASSUME NEW s \in Splits[Box], BranchesNowhere(s) PROVE Search!Next
    <2>1. Children(s, key) = {} /\ Drop /\ UNCHANGED <<aside, inc>>
        BY <1>12 DEF BranchesNowhere, Drop
    <2>2. \A p \in Box : ~Feasible(model.cost, p)
        BY <1>1, <1>2, <2>1, Splitting DEF IInv
    <2> QED BY <1>1, <2>1, <2>2, DropsOne
<1> QED BY <1>3, <1>4, <1>6, <1>7, <1>8, <1>9, <1>10, <1>11, <1>12 DEF Open

\* What is left of a round is set aside.
LEMMA LeftoverRefines ==
    ASSUME StillRuns, IInv, Leftover
    PROVE  Search!Next
<1> DEFINE left == {batch[b] : b \in at .. Len(batch)}
<1>1. /\ UNCHANGED <<heap, stack, next, cur, inc>> /\ batch' = <<>> /\ at' = 1
      /\ aside' = aside \cup {[box |-> n.box, key |-> n.key] : n \in left}
    BY DEF Leftover, held
<1>2. InRound = left /\ InRound' = {}
    <2>1. Len(<<>>) = 0 /\ 1 .. 0 = {}
        OBVIOUS
    <2> QED BY <1>1, <2>1 DEF InRound
<1>3. left \subseteq Good(model)
    BY <1>2, RoundNodes DEF StillRuns
<1> HIDE DEF left
<1>4. ASSUME NEW n \in left
      PROVE  \E m \in aside' : n.box \subseteq m.box
                               /\ \A p \in n.box : m.key <= model.cost[p]
    <2>1. Bare(n) \in aside' /\ Bare(n).box = n.box /\ Bare(n).key = n.key
        BY <1>1 DEF Bare
    <2>2. \A p \in n.box : n.key <= model.cost[p]
        BY <1>3, GoodFacts DEF IsBound
    <2> QED BY <2>1, <2>2
<1>5. Held' \subseteq Held /\ \A n \in Held : n \in Held' \/ n \in left
    BY <1>1, <1>2 DEF Held
<1> QED BY <1>1, <1>4, <1>5, GivesUp

\* The bound of the end is under the keys of the nodes that are left.
LEMMA EndBoundKeeps ==
    ASSUME IInv, pc = "finish", outcome' # "OPTIMAL"
    PROVE  /\ \A n \in Held : n = NoNode \/ EndBound <= n.key
           /\ \A n \in aside : EndBound <= n.key
<1> DEFINE least == MinKey(OpenKeys)
           b == IF least < Inf THEN least ELSE bestBound
<1>1. /\ OpenKeys \in SUBSET Keys /\ parkedKey \in OpenKeys /\ stoppedKey \in OpenKeys
      /\ \A n \in Held : n = NoNode \/ n.key \in OpenKeys
    <2>1. /\ parkedKey \in Keys /\ stoppedKey \in Keys
        BY DEF IInv, Types
    <2>2. \A n \in Good(model) \cup {NoNode} : n.key \in Keys
        <3>1. \A n \in Good(model) : n.key \in Keys
            BY GoodFacts, KeyFacts
        <3>2. NoNode.key = Inf
            BY DEF NoNode
        <3> QED BY <3>1, <3>2, KeyFacts
    <2>3. heap \cup Range(stack) \cup {next} \cup {cur}
              \subseteq Good(model) \cup {NoNode}
        BY RangeOf DEF IInv, Types
    <2>4. InRound = {}
        <3>1. batch = <<>> /\ at = 1
            BY DEF IInv, Placement
        <3>2. Len(<<>>) = 0 /\ 1 .. 0 = {}
            OBVIOUS
        <3> QED BY <3>1, <3>2 DEF InRound
    <2>5. outcome = "OPTIMAL" => cur = NoNode
        BY DEF IInv, OutcomeIsSound, NoneHeld
    <2>6. \A n \in Held : n = NoNode \/ n.key \in OpenKeys
        BY <2>4, <2>5 DEF Held, OpenKeys
    <2>7. OpenKeys \in SUBSET Keys
        BY <2>1, <2>2, <2>3 DEF OpenKeys
    <2> QED BY <2>6, <2>7 DEF OpenKeys
<1>2. least \in Keys /\ \A k \in OpenKeys : least <= k
    BY <1>1, LeastKey
<1> HIDE DEF least
<1>3. \A n \in Held : n = NoNode \/ (n.key \in NodeKeys /\ least <= n.key)
    BY <1>1, <1>2, RoundNodes, GoodFacts DEF IInv
<1>4. \A n \in aside : n.key \in NodeKeys /\ least <= n.key
    <2> SUFFICES ASSUME NEW n \in aside PROVE n.key \in NodeKeys /\ least <= n.key
        OBVIOUS
    <2>1. n.key \in NodeKeys /\ (parkedKey <= n.key \/ stoppedKey <= n.key)
        BY DEF IInv, Types, Apart, OutcomeIsSound
    <2>2. least <= parkedKey /\ least <= stoppedKey
        BY <1>1, <1>2
    <2>3. /\ n.key \in Int /\ parkedKey \in Int /\ stoppedKey \in Int
          /\ least \in Int
        BY <1>2, <2>1, KeyFacts DEF IInv, Types
    <2> QED BY <2>1, <2>2, <2>3
<1>5. least \in Int /\ bestBound \in Int /\ inc.key \in Int
    BY <1>2, KeyFacts DEF IInv, Types, Incumbents
<1>6. EndBound <= b /\ EndBound \in Int /\ b \in Int
    BY <1>5 DEF EndBound, least
<1>7. ASSUME NEW k \in NodeKeys, least <= k PROVE EndBound <= k
    <2>1. k \in Int /\ k < Inf /\ Inf \in Int
        BY KeyFacts
    <2>2. b = least
        BY <1>5, <1>7, <2>1
    <2> HIDE DEF b
    <2> QED BY <1>5, <1>6, <1>7, <2>1, <2>2
<1> QED BY <1>3, <1>4, <1>7

LEMMA FinishRefines ==
    ASSUME IInv, Types', Finish
    PROVE  Search!Next
<1>1. /\ pc = "finish" /\ pc' = "returned" /\ code' = code /\ code = "OK"
      /\ UNCHANGED <<model, heap, stack, next, cur, batch, at, inc, aside>>
      /\ outcome' = (IF Unsettled THEN "NUMERICAL_ERROR" ELSE outcome)
      /\ bound' = EndBound
    BY DEF IInv, Placement, Finish, Goes, fixed, held, round
<1>2. Held' = Held
    BY <1>1 DEF Held, InRound
<1>3. Types
    BY DEF IInv
<1>4. CASE outcome' \notin {"OPTIMAL", "INFEASIBLE"}
    <2>1. /\ \A n \in Held : n = NoNode \/ bound' <= n.key
          /\ \A n \in aside : bound' <= n.key
        BY <1>1, <1>4, EndBoundKeeps
    <2>2. outcome \in Outcomes /\ outcome # "NOT_RUN"
        BY <1>1 DEF IInv, OutcomeIsSound
    <2>3. outcome' \in Search!Stops \/
             (/\ outcome' = "UNBOUNDED"
              /\ \E p \in model.root : model.cost[p] = NegInf)
        BY <1>1, <1>4, <2>2
           DEF IInv, OutcomeIsSound, Outcomes, Searched, Search!Stops
    <2> DEFINE v == IF code' = "ERR" THEN "ERR" ELSE outcome'
    <2>4. v = outcome'
        BY <1>1
    <2> HIDE DEF v
    <2> QED BY <1>1, <1>2, <1>3, <2>1, <2>3, <2>4, Returns DEF v
<1>5. OpenNodes = {Bare(n) : n \in Held \ {NoNode}} /\ OpenNodes' = OpenNodes
    BY <1>2, <1>3, BareNodes, BareNodesNext DEF OpenBare
<1>6. NoneHeld => OpenNodes = {}
    <2>1. NoneHeld => InRound = {}
        <3>1. at = 1 /\ Len(<<>>) = 0 /\ 1 .. 0 = {}
            BY <1>1 DEF IInv, Placement
        <3> QED BY <3>1 DEF InRound, NoneHeld
    <2>2. NoneHeld => Held \subseteq {NoNode}
        BY <2>1, RangeOfEmpty DEF NoneHeld, Held
    <2> QED BY <1>5, <2>2
<1>7. /\ inc \in Incumbents /\ parkedKey \in Keys /\ parkedKey \in Int
      /\ Inf \in Int /\ parkedKey <= Inf
      /\ \A n \in aside : n.key \in Int /\ n.key < Inf /\ n.key \in Keys
    BY KeyFacts DEF IInv, Types, Apart
<1>8. stoppedKey = Inf => \A n \in aside : parkedKey <= n.key
    BY <1>7 DEF IInv, OutcomeIsSound
<1>9. CASE outcome' = "OPTIMAL"
    <2>1. outcome = "OPTIMAL" /\ ~Unsettled
        BY <1>1, <1>9
    <2>2. NoneHeld /\ HasIncumbent /\ stoppedKey = Inf
        BY <1>1, <2>1 DEF IInv, OutcomeIsSound, Over
    <2>3. \A n \in aside : Closed(inc, n.key)
        <3> SUFFICES ASSUME NEW n \in aside PROVE Closed(inc, n.key)
            OBVIOUS
        <3>1. parkedKey <= n.key /\ parkedKey < Inf
            BY <1>7, <1>8, <2>2
        <3>2. Closed(inc, parkedKey)
            BY <2>1, <3>1 DEF Unsettled
        <3> QED BY <1>7, <3>1, <3>2, ClosedAbove
    <2>4. bound' = inc.key
        BY <1>1, <1>9, <2>2 DEF EndBound
    <2>5. Search!Optimal
        BY <1>1, <1>5, <1>6, <1>9, <2>2, <2>3, <2>4
           DEF Search!Optimal, Search!Running, HasIncumbent,
               Search!NoPoint, NoPoint, Search!Closed, Closed
    <2> QED BY <2>5 DEF Search!Next
<1>10. CASE outcome' = "INFEASIBLE"
    <2>1. outcome = "INFEASIBLE" /\ ~Unsettled
        BY <1>1, <1>10
    <2>2. ~HasIncumbent
        <3>1. CASE Empty(model.cost, model.root)
            <4> SUFFICES ASSUME HasIncumbent PROVE FALSE
                OBVIOUS
            <4>1. /\ inc.point \in model.root
                  /\ model.cost[inc.point] <= inc.key /\ inc.key < model.cutoff
                BY DEF IInv, IncIsReal
            <4>2. /\ model.cost[inc.point] \in Int /\ inc.key \in Int
                  /\ model.cutoff \in Int /\ model.cutoff <= Inf
                BY <4>1, KeyFacts, WorldFacts DEF IInv, Types, Incumbents
            <4>3. model.cost[inc.point] < Inf
                BY <1>7, <4>1, <4>2
            <4> QED BY <3>1, <4>1, <4>3 DEF Empty, Feasible
        <3>2. CASE ~Empty(model.cost, model.root)
            BY <2>1, <3>2 DEF IInv, OutcomeIsSound
        <3> QED BY <3>1, <3>2
    <2>3. OpenNodes \cup aside = {} \/ Empty(model.cost, model.root)
        <3> SUFFICES ASSUME ~Empty(model.cost, model.root)
                     PROVE  OpenNodes \cup aside = {}
            OBVIOUS
        <3>1. NoneHeld /\ stoppedKey = Inf
            BY <1>1, <2>1 DEF IInv, OutcomeIsSound, Over
        <3>2. ~(parkedKey < Inf)
            BY <2>1 DEF Unsettled
        <3>3. aside = {}
            BY <1>7, <1>8, <3>1, <3>2
        <3> QED BY <1>6, <3>1, <3>3
    <2>4. bound' \in Search!Keys
        BY DEF Types, Search!Keys, Search!NegInf, Keys, NegInf
    <2>5. Search!Infeasible
        BY <1>1, <1>5, <1>10, <2>2, <2>3, <2>4
           DEF Search!Infeasible, Search!Running, HasIncumbent,
               Search!NoPoint, NoPoint, Search!Empty, Empty,
               Search!Feasible, Feasible
    <2> QED BY <2>5 DEF Search!Next
<1> QED BY <1>4, <1>9, <1>10

\* A solve that returns an error ends the search without a bound.
LEMMA ErrRefines ==
    ASSUME IInv, Types', NodeErrs
    PROVE  Search!Next
<1>1. /\ pc = "consume" /\ pc' = "returned" /\ code' = "ERR"
      /\ UNCHANGED <<model, heap, stack, next, cur, batch, at, inc, aside, bound>>
      /\ bound = NegInf
    BY DEF IInv, Placement, NodeErrs, Ends, Goes, fixed, held, round
<1>2. Held' = Held
    BY <1>1 DEF Held, InRound
<1>3. Types
    BY DEF IInv
<1>4. \A n \in Held : n = NoNode \/ bound' <= n.key
    BY <1>1, <1>3, RoundNodes, GoodFacts, KeyFacts
<1>5. \A n \in aside : bound' <= n.key
    BY <1>1, KeyFacts DEF IInv, Types, Apart
<1> DEFINE v == IF code' = "ERR" THEN "ERR" ELSE outcome'
<1>6. v \in Search!Stops
    BY <1>1 DEF Search!Stops
<1> HIDE DEF v
<1> QED BY <1>1, <1>2, <1>3, <1>4, <1>5, <1>6, Returns DEF v

LEMMA StepRefines ==
    ASSUME IInv, IInv', NoRayUnderCutoff, [Next]_vars
    PROVE  [Search!Next]_(Search!treeVars)
<1>1. Types /\ Types'
    BY DEF IInv
<1>2. CASE UNCHANGED vars
    <2>1. UNCHANGED <<model, pc, code, outcome, bound, aside, inc, heap, stack,
                      next, cur, batch, at>>
        BY <1>2 DEF vars, fixed, held, round, result
    <2>2. OpenNodes' = OpenNodes
        BY <2>1 DEF OpenNodes, Strip, InRound
    <2> QED BY <2>1, <2>2 DEF Search!treeVars
<1>3. CASE Finish \/ NodeErrs
    BY <1>1, <1>3, FinishRefines, ErrRefines
<1>4. CASE Next /\ ~Finish /\ ~NodeErrs
    <2>1. StillRuns
        <3>1. pc # "returned" /\ pc' # "returned" /\ UNCHANGED <<model, bound>>
            BY <1>4 DEF Next, EmptyBox, NoStart, Start, Select, SelectNext,
                  SelectTop, SelectLeast, Exhausted, LimitStops, BeginsRound,
                  Fill, FillFromTop, FillFromLeast, Launch, LaneSolves, Join,
                  Consume, NodeInfeasible, OpensPiece, SearchesPoint,
                  NodeUnbounded, FailsEmpty, FailsAndSplits, FailsAndParks,
                  NodeFails, NodeStops, Solved, Rough, NodeSolved, Ends, Drop,
                  Halves, Park, Continue, Break, Open, EventStops,
                  ClosedByIncumbent, NoRounding, RoundingSolve, DiveStep,
                  DiveSolve, DiveEnds, LeafSolve, LeafClosed, LeafSplits,
                  LeafParks, Branch, BranchesNowhere, OfferEnds, Leftover,
                  Goes, fixed, result
        <3> QED BY <1>1, <3>1 DEF StillRuns
    <2> QED BY <1>4, <2>1, StartRefines, SelectDrops, RoundDrops,
               Discards, ConsumeRefines, OpenRefines, LeftoverRefines DEF Next
<1> QED BY <1>2, <1>3, <1>4

LEMMA InitRefines == Init => Search!Init
<1> SUFFICES ASSUME Init PROVE Search!Init
    OBVIOUS
<1>1. <<model, shape>> \in Worlds
    BY InitInv DEF IInv, Types
<1>2. model \in Models
    BY <1>1, WorldFacts
<1>3. InRound = {}
    <2>1. Len(<<>>) = 0 /\ 1 .. 0 = {}
        OBVIOUS
    <2> QED BY <2>1 DEF Init, InRound
<1>4. Root # NoNode /\ Bare(Root) = [box |-> model.root, key |-> NegInf]
    BY DEF Root, NoNode, Bare
<1>5. OpenNodes = {[box |-> model.root, key |-> NegInf]}
    <2>1. OpenNodes = {Bare(n) : n \in Held \ {NoNode}}
        BY InitInv, BareNodes DEF IInv, OpenBare
    <2>2. Held = {Root, NoNode}
        BY <1>3, RangeOfEmpty DEF Init, Held
    <2> QED BY <1>4, <2>1, <2>2
<1> QED BY <1>2, <1>5 DEF Init, Search!Init, Search!NegInf, NegInf,
                          Search!NoPoint, NoPoint

\* The conic branch and bound (jm_conic_branch_and_bound) is a TreeSearch: on
\* the way through the heap, the stack, the plunge, the rounds and the leaves it
\* loses no node and closes none without a reason, for any models, splits,
\* batches, threads, limits and failures.
THEOREM TreeIsSearched ==
    ASSUME NoRayUnderCutoff PROVE Spec => IsTreeSearch
<1>1. Init => Search!Init
    BY InitRefines
<1>2. IInv /\ IInv' /\ [Next]_vars => [Search!Next]_(Search!treeVars)
    BY StepRefines
<1> QED BY <1>1, <1>2, Invariant, PTL DEF Spec, IsTreeSearch, Search!Spec

-----------------------------------------------------------------------------
(* What follows.                                                             *)

\* The refinement of ConicTree and the search of TreeProofs are the same
\* definitions under the same mapping.
LEMMA SameInit == Search!Init => Proved!Init
PROOF BY DEF Search!Init, Proved!Init, Search!NegInf, Proved!NegInf,
             Search!NoPoint, Proved!NoPoint

LEMMA SameStep ==
    [Search!Next]_(Search!treeVars) => [Proved!Next]_(Proved!treeVars)
<1> USE DEF Keys, NegInf, Search!Keys, Search!NegInf, Search!NoPoint,
            Search!Closed, Search!Feasible, Search!Beaten, Proved!Keys,
            Proved!NegInf, Proved!NoPoint, Proved!Closed, Proved!Feasible,
            Proved!Beaten
<1>1. Search!treeVars = Proved!treeVars
    BY DEF Search!treeVars, Proved!treeVars
<1>2. Search!treeVars' = Proved!treeVars'
    BY DEF Search!treeVars, Proved!treeVars
<1>3. Search!Next => Proved!Next
    BY DEF Search!Next, Search!Discard, Search!Explore, Search!SetAside,
           Search!Improve, Search!Optimal, Search!Infeasible,
           Search!Unbounded, Search!Stop, Search!Running, Search!Covers,
           Search!Empty, Search!Keeps, Search!Node, Search!Stops,
           Proved!Next, Proved!Discard, Proved!Explore, Proved!SetAside,
           Proved!Improve, Proved!Optimal, Proved!Infeasible,
           Proved!Unbounded, Proved!Stop, Proved!Running, Proved!Covers,
           Proved!Empty, Proved!Keeps, Proved!Node, Proved!Stops
<1> QED BY <1>1, <1>2, <1>3

\* So that what TreeProofs proves of the search holds of the code.
LEMMA SearchInv == IsTreeSearch => []Proved!TreeInv
<1>1. IsTreeSearch => Proved!Spec
    BY SameInit, SameStep, PTL DEF IsTreeSearch, Search!Spec, Proved!Spec
<1>2. /\ Proved!Keys = Keys /\ Proved!NegInf = NegInf
      /\ Proved!CostType = CostType
    BY DEF Proved!Keys, Keys, Proved!NegInf, NegInf, Proved!CostType, CostType
<1>3. Proved!Spec => []Proved!TreeInv
    BY <1>2, TreeAssumption, ModelsAssumption, Proved!TreeInvAlways
<1> QED BY <1>1, <1>3, PTL

\* The status and the incumbent that a caller of the conic branch and bound
\* reads are true of the model.
THEOREM VerdictOfTheTree ==
    ASSUME NoRayUnderCutoff PROVE Spec => []VerdictHolds
<1>1. Proved!TreeInv => VerdictHolds
    BY DEF Proved!TreeInv, Search!VerdictHolds, Proved!VerdictHolds,
           VerdictHolds, Search!NoPoint, Proved!NoPoint, Search!Feasible,
           Proved!Feasible, Search!Beaten, Proved!Beaten, Search!Closed,
           Proved!Closed, Search!NegInf, Proved!NegInf
<1> QED BY <1>1, TreeIsSearched, SearchInv, PTL

\* mip_bound is a bound, however the search ended: no point of the model is
\* below it that the incumbent is not within the gap of.
THEOREM BoundOfTheTree ==
    ASSUME NoRayUnderCutoff PROVE Spec => []BoundHolds
<1>1. Proved!TreeInv => BoundHolds
    BY DEF Proved!TreeInv, Search!BoundHolds, Proved!BoundHolds, BoundHolds,
           Search!Running, Proved!Running, Search!Feasible, Proved!Feasible,
           Search!Beaten, Proved!Beaten, Search!Closed, Proved!Closed
<1> QED BY <1>1, TreeIsSearched, SearchInv, PTL

\* Both: what the caller reads at the end is true of the model.
THEOREM AnswerOfTheTree ==
    ASSUME NoRayUnderCutoff PROVE Spec => []AnswerHolds
<1> QED BY VerdictOfTheTree, BoundOfTheTree, PTL DEF AnswerHolds

\* The incumbent is a point of the model, and better than the cutoff.
THEOREM IncumbentOfTheTree ==
    ASSUME NoRayUnderCutoff PROVE Spec => []IncumbentIsReal
<1>1. Proved!TreeInv => IncumbentIsReal
    BY DEF Proved!TreeInv, Search!IncumbentIsReal, Proved!IncumbentIsReal,
           IncumbentIsReal, Search!NoPoint, Proved!NoPoint
<1> QED BY <1>1, TreeIsSearched, SearchInv, PTL

-----------------------------------------------------------------------------
(* The bounds of the events.                                                 *)

\* Before the first solve, the root is all there is.
FirstNode ==
    /\ nodes = 0 => Held \subseteq {Root, NoNode}
    /\ AtNode => nodes # 0

\* A bound of every point that still matters and has not been set aside.
Below(b) ==
    \A p \in model.root : \/ Settled(p)
                          \/ \E n \in aside : p \in n.box
                          \/ b <= model.cost[p]

EventInv == FirstNode /\ Below(told) /\ Below(bestBound)

LEMMA InitEvents == Init => EventInv
<1> SUFFICES ASSUME Init PROVE EventInv
    OBVIOUS
<1>1. Types
    BY InitInv DEF IInv
<1>2. InRound = {}
    <2>1. Len(<<>>) = 0 /\ 1 .. 0 = {}
        OBVIOUS
    <2> QED BY <2>1 DEF Init, InRound
<1>3. FirstNode
    BY <1>2, RangeOfEmpty DEF Init, FirstNode, Held, AtNode
<1>4. \A p \in model.root : NegInf <= model.cost[p]
    BY <1>1, WorldFacts, KeyFacts DEF Types
<1> QED BY <1>3, <1>4 DEF Init, EventInv, Below

LEMMA FirstNodeStep ==
    ASSUME IInv, IInv', NoRayUnderCutoff, FirstNode, [Next]_vars
    PROVE  FirstNode'
<1>1. ASSUME Held' \subseteq Held \cup {NoNode}, nodes' = nodes, ~AtNode',
             model' = model
      PROVE  FirstNode'
    BY <1>1 DEF FirstNode, Root
<1>2. ASSUME nodes' = nodes, AtNode PROVE FirstNode'
    BY <1>2 DEF FirstNode
<1>3. ASSUME nodes' = nodes + 1 PROVE FirstNode'
    BY <1>3 DEF FirstNode, IInv, Types
<1>4. CASE \/ EmptyBox \/ NoStart
           \/ \E f \in Found(model.root) \cup {None}, b \in Bills(1) : Start(f, b)
    <2>1. UNCHANGED <<held, batch, at, nodes, model>> /\ ~AtNode'
        BY <1>4
           DEF EmptyBox, NoStart, Start, round, counts, fixed, Goes, AtNode
    <2>2. Held' = Held
        BY <2>1 DEF Held, InRound, held
    <2> QED BY <1>1, <2>1, <2>2
<1>5. CASE Select
    <2>1. UNCHANGED <<nodes, model>> /\ ~AtNode'
        BY <1>5 DEF Select, SelectNext, SelectTop, SelectLeast, Exhausted,
                    counts, fixed, Goes, AtNode
    <2> QED BY <1>1, <1>5, <2>1, SelectDrops DEF Drops
<1>6. CASE \/ \E v \in {"WORK_LIMIT", "TIME_LIMIT", "NODE_LIMIT"} : LimitStops(v)
           \/ BeginsRound
           \/ Fill
           \/ \E k \in DOMAIN lane : \E b \in Bills(Len(batch)) : LaneSolves(k, b)
           \/ Join
    <2>1. UNCHANGED <<nodes, model>> /\ ~AtNode'
        BY <1>6 DEF LimitStops, BeginsRound, Fill, FillFromTop, FillFromLeast,
                    Launch, LaneSolves, Join, counts, fixed, Goes, AtNode
    <2> QED BY <1>1, <1>6, <2>1, RoundDrops DEF Drops
<1>7. CASE Consume
    <2>1. nodes' = nodes + 1
        BY <1>7 DEF Consume, NodeErrs, NodeInfeasible, OpensPiece,
                    SearchesPoint, FailsEmpty, FailsAndSplits, FailsAndParks,
                    NodeStops, Solved, Rough, NodeSolved, Counts
    <2> QED BY <1>3, <2>1
<1>8. CASE Open
    <2>1. nodes' = nodes /\ AtNode
        BY <1>8 DEF Open, EventStops, ClosedByIncumbent, NoRounding,
                    RoundingSolve, DiveStep, DiveSolve, DiveEnds, LeafSolve,
                    LeafClosed, LeafSplits, LeafParks, Branch,
                    BranchesNowhere, counts, AtNode
    <2> QED BY <1>2, <2>1
<1>9. CASE Leftover
    <2>1. /\ UNCHANGED <<heap, stack, next, cur, nodes, model>>
          /\ batch' = <<>> /\ at' = 1 /\ ~AtNode'
        BY <1>9 DEF Leftover, held, counts, fixed, Goes, AtNode
    <2>2. InRound' = {}
        <3>1. Len(<<>>) = 0 /\ 1 .. 0 = {}
            OBVIOUS
        <3> QED BY <2>1, <3>1 DEF InRound
    <2>3. Held' \subseteq Held
        BY <2>1, <2>2 DEF Held
    <2> QED BY <1>1, <2>1, <2>3
<1>10. CASE Finish \/ UNCHANGED vars
    <2>1. UNCHANGED <<held, batch, at, nodes, model>> /\ (AtNode' => AtNode)
        BY <1>10 DEF Finish, vars, round, counts, fixed, Goes, AtNode
    <2>2. Held' = Held
        BY <2>1 DEF Held, InRound, held
    <2> QED BY <1>1, <1>2, <2>1, <2>2
<1> QED BY <1>4, <1>5, <1>6, <1>7, <1>8, <1>9, <1>10 DEF Next

\* What is settled stays settled, and what is set aside stays there.
LEMMA StepSettles ==
    ASSUME IInv, [Next]_vars
    PROVE  /\ model' = model /\ aside \subseteq aside'
           /\ \A p \in model.root : Settled(p) => Settled(p)'
<1>1. model' = model /\ aside \subseteq aside'
    BY DEF Next, vars, fixed, EmptyBox, NoStart, Start, Select, SelectNext,
           SelectTop, SelectLeast, Exhausted, LimitStops, BeginsRound, Fill,
           FillFromTop, FillFromLeast, Launch, LaneSolves, Join, Consume,
           NodeErrs, NodeInfeasible, OpensPiece, SearchesPoint, FailsEmpty,
           FailsAndSplits, FailsAndParks, NodeStops, Solved, Rough,
           NodeSolved, Drop, Halves, Park, Open, EventStops,
           ClosedByIncumbent, NoRounding, RoundingSolve, DiveStep, DiveSolve,
           DiveEnds, LeafSolve, LeafClosed, LeafSplits, LeafParks, Branch,
           BranchesNowhere,
           Leftover, Finish
<1>2. \/ inc' = inc
      \/ \E f \in Found(model.root) \cup {None} : f.key < inc.key /\ inc' = f
    <2>1. ASSUME NEW f \in Found(model.root) \cup {None}, NEW b \in Bills(1),
                 Start(f, b) \/ RoundingSolve(f, b) \/ DiveSolve(f, b)
          PROVE  inc' = inc \/ (f.key < inc.key /\ inc' = f)
        BY <2>1 DEF Start, RoundingSolve, DiveSolve, Offer
    <2>2. ASSUME NEW fs \in Searched, NEW f \in Found(Box) \cup {None},
                 NEW lb \in Relaxed \cup {NegInf}, NEW b \in Bills(1),
                 LeafSolve(fs, f, lb, b)
          PROVE  /\ f \in Found(model.root) \cup {None}
                 /\ inc' = inc \/ (f.key < inc.key /\ inc' = f)
        <3>1. at <= Len(batch)
            <4>1. Len(batch) \in Nat /\ at \in 1 .. Len(batch)
                BY <2>2, LenProperties
                   DEF LeafSolve, IInv, Types, Placement, AtNode
            <4> QED BY <4>1
        <3>2. Box \in SUBSET model.root
            BY <3>1, TakenFacts DEF IInv
        <3> QED BY <2>2, <3>2 DEF LeafSolve, Offer, Found
    <2>3. ASSUME Next,
                 ~\E f \in Found(model.root) \cup {None}, b \in Bills(1) :
                     Start(f, b) \/ RoundingSolve(f, b) \/ DiveSolve(f, b),
                 ~\E fs \in Searched, f \in Found(Box) \cup {None},
                     lb \in Relaxed \cup {NegInf}, b \in Bills(1) :
                     LeafSolve(fs, f, lb, b)
          PROVE  inc' = inc
        BY <2>3 DEF Next, EmptyBox, NoStart, Select, SelectNext,
           SelectTop, SelectLeast, Exhausted, LimitStops, BeginsRound, Fill,
           FillFromTop, FillFromLeast, Launch, LaneSolves, Join, Consume,
           NodeErrs, NodeInfeasible, OpensPiece, SearchesPoint, FailsEmpty,
           FailsAndSplits, FailsAndParks, NodeStops, Solved, Rough,
           NodeSolved, Drop, Halves, Park, Open, EventStops,
           ClosedByIncumbent, NoRounding, DiveStep,
           DiveEnds, LeafClosed, LeafSplits, LeafParks, Branch, BranchesNowhere,
           Leftover, Finish
    <2> QED BY <2>1, <2>2, <2>3 DEF vars
<1>3. \A p \in model.root : Settled(p) => Settled(p)'
    <2>1. \A c \in Keys : Closed(inc, c) => Closed(inc', c)
        BY <1>2, BetterPoint DEF IInv
    <2>2. \A p \in model.root : model.cost[p] \in Keys
        BY WorldFacts DEF IInv, Types
    <2> QED BY <1>1, <2>1, <2>2 DEF Settled
<1> QED BY <1>1, <1>3

\* A point that still matters is in a node that is held or set aside.
Holders ==
    \A p \in model.root :
        Settled(p) \/ \E m \in OpenNodes \cup aside :
                          p \in m.box /\ m.key <= model.cost[p]

LEMMA TreeHolds == Proved!TreeInv => Holders
PROOF BY DEF Proved!TreeInv, Proved!NothingLost, Proved!Covers, Holders,
             Settled, Proved!Feasible, Feasible, Proved!Beaten,
             Proved!Closed, Closed

BoundStands ==
    pc = "returned" =>
            \A p \in model.root : Settled(p) \/ bound <= model.cost[p]

LEMMA TreeBounds == IInv /\ Proved!TreeInv => BoundStands
PROOF BY DEF Proved!TreeInv, Proved!BoundHolds, Proved!Running, Settled,
             Proved!Feasible, Feasible, Proved!Beaten, Proved!Closed, Closed,
             BoundStands, IInv, OutcomeIsSound, Outcomes, Searched

LEMMA TreeBoundsNext == IInv' /\ Proved!TreeInv' => BoundStands'
PROOF BY TreeBounds, PTL

\* A node that is held, in the words of the code.
LEMMA HeldOpen ==
    ASSUME Types, Holders, NEW p \in model.root, ~Settled(p)
    PROVE  \/ \E m \in aside : p \in m.box
           \/ \E n \in Held : /\ n # NoNode /\ p \in n.box
                              /\ n.key <= model.cost[p] /\ ~Closed(inc, n.key)
<1>1. PICK m \in OpenNodes \cup aside : p \in m.box /\ m.key <= model.cost[p]
    BY DEF Holders
<1>2. CASE m \in OpenNodes
    <2>1. PICK n \in Held \ {NoNode} : m = Bare(n)
        BY <1>2, BareNodes DEF OpenBare
    <2>2. n.box = m.box /\ n.key = m.key
        BY <2>1 DEF Bare
    <2>3. ~Closed(inc, n.key)
        <3>1. n.key \in Keys /\ inc \in Incumbents
            BY <2>1, RoundNodes, GoodFacts, KeyFacts DEF Types
        <3>2. model.cost[p] \in Keys
            BY WorldFacts DEF Types
        <3> QED BY <1>1, <2>2, <3>1, <3>2, ClosedAbove DEF Settled
    <2> QED BY <1>1, <2>1, <2>2, <2>3
<1> QED BY <1>1, <1>2

\* The bound of an event is one when the search's bound is.
LEMMA EventIsBound ==
    ASSUME Types, NEW b \in Keys, NEW p \in model.root, b <= model.cost[p]
    PROVE  Event(b) <= model.cost[p]
<1>1. b \in Int /\ inc.key \in Int /\ model.cost[p] \in Int
    BY KeyFacts, WorldFacts DEF Types, Incumbents
<1> QED BY <1>1 DEF Event

LEMMA EventStep ==
    ASSUME IInv, IInv', NoRayUnderCutoff, Proved!TreeInv, Proved!TreeInv',
           EventInv, [Next]_vars
    PROVE  EventInv'
<1>1. FirstNode'
    BY FirstNodeStep DEF EventInv
<1>2. /\ model' = model /\ aside \subseteq aside'
      /\ \A p \in model.root : Settled(p) => Settled(p)'
    BY StepSettles
<1>3. Types /\ Holders
    BY TreeHolds DEF IInv
<1>5. CASE UNCHANGED <<told, bestBound>>
    BY <1>1, <1>2, <1>5 DEF EventInv, Below
<1>6. ASSUME NEW h \in heap, SelectLeast(h) PROVE EventInv'
    <2>1. /\ told' = told /\ bestBound' = h.key /\ IsLeast(h)
          /\ OpenAt = {} /\ NextIsClosed /\ pc = "select"
        BY <1>6 DEF SelectLeast
    <2>2. ASSUME NEW p \in model.root, ~Settled(p),
                 ~\E m \in aside : p \in m.box
          PROVE  h.key <= model.cost[p]
        <3>1. PICK n \in Held : /\ n # NoNode /\ n.key <= model.cost[p]
                                /\ ~Closed(inc, n.key)
            BY <1>3, <2>2, HeldOpen
        <3>2. n \in heap
            <4>1. InRound = {} /\ cur = NoNode
                <5>1. batch = <<>> /\ at = 1 /\ cur = NoNode
                    BY <2>1 DEF IInv, Placement, Over
                <5>2. Len(<<>>) = 0 /\ 1 .. 0 = {}
                    OBVIOUS
                <5> QED BY <5>1, <5>2 DEF InRound
            <4>2. \A m \in Range(stack) : Closed(inc, m.key)
                BY <1>3, <2>1, NoTop
            <4>3. next = NoNode \/ Closed(inc, next.key)
                BY <2>1 DEF NextIsClosed, IsOpen
            <4> QED BY <3>1, <4>1, <4>2, <4>3 DEF Held
        <3>3. h.key <= n.key
            <4>1. h.key < n.key \/ h.key = n.key
                BY <2>1, <3>2 DEF IsLeast
            <4>2. h.key \in Int /\ n.key \in Int
                BY <3>2, GoodFacts, KeyFacts DEF IInv, Types
            <4> QED BY <4>1, <4>2
        <3>4. h.key \in Int /\ n.key \in Int /\ model.cost[p] \in Int
            BY <3>2, GoodFacts, KeyFacts, WorldFacts DEF IInv, Types
        <3> QED BY <3>1, <3>3, <3>4
    <2>3. Below(h.key)
        BY <2>2 DEF Below
    <2> QED BY <1>1, <1>2, <2>1, <2>3 DEF EventInv, Below
<1>7. ASSUME NEW k \in NodeKeys, NodeSolved(k), at <= Len(batch)
      PROVE  EventInv'
    <2>1. /\ IsBound(model.cost, Box, k) /\ inc' = inc /\ aside' = aside
          /\ bestBound' = (IF nodes = 0 THEN k ELSE bestBound)
          /\ told' = Event(bestBound')
        BY <1>7 DEF NodeSolved
    <2>2. k \in Keys /\ bestBound' \in Keys
        BY <1>7, <2>1, <1>3, KeyFacts DEF Types
    <2>3. nodes = 0 => Below(k)
        <3> SUFFICES ASSUME nodes = 0 PROVE Below(k)
            OBVIOUS
        <3>1. Taken = Root
            BY <1>3, <1>7, InHand DEF EventInv, FirstNode
        <3>2. Box = model.root
            BY <3>1 DEF Box, Root
        <3> QED BY <2>1, <3>2 DEF IsBound, Below
    <2>4. Below(bestBound')
        BY <2>1, <2>3 DEF EventInv
    <2>5. Below(told')
        BY <1>3, <2>1, <2>2, <2>4, EventIsBound DEF Below
    <2> QED BY <1>1, <1>2, <2>4, <2>5 DEF EventInv, Below
<1>8. CASE Finish
    <2>1. /\ bestBound' = bestBound /\ told' \in {told, bound'}
          /\ pc' = "returned" /\ UNCHANGED <<inc, aside>>
        BY <1>8 DEF Finish, bounds, Goes
    <2>2. \A p \in model.root : Settled(p) \/ bound' <= model.cost[p]
        BY <1>2, <2>1, TreeBoundsNext DEF BoundStands, Settled
    <2> QED BY <1>1, <1>2, <2>1, <2>2 DEF EventInv, Below
<1>9. CASE ~(UNCHANGED <<told, bestBound>>) /\ ~Finish
    <2>1. \/ \E h \in heap : SelectLeast(h)
          \/ \E k \in Relaxed : Solved(k)
          \/ \E lb \in Relaxed \cup {NegInf} : Rough(lb)
        BY <1>9 DEF Next, vars, bounds, EmptyBox, NoStart, Start, Select,
           SelectNext, SelectTop, Exhausted, LimitStops, BeginsRound, Fill,
           FillFromTop, FillFromLeast, Launch, LaneSolves, Join, Consume,
           NodeErrs, NodeInfeasible, OpensPiece, SearchesPoint, FailsEmpty,
           FailsAndSplits, FailsAndParks, NodeStops, Drop, Halves, Park, Open,
           EventStops, ClosedByIncumbent, NoRounding, RoundingSolve, DiveStep,
           DiveSolve, DiveEnds, LeafSolve, LeafClosed, LeafSplits, LeafParks,
           Branch, BranchesNowhere, Leftover
    <2>2. ASSUME NEW k \in Relaxed, Solved(k) PROVE EventInv'
        BY <1>7, <2>2, KeyFacts DEF Solved, NodeSolved, Ends
    <2>3. ASSUME NEW lb \in Relaxed \cup {NegInf}, Rough(lb) PROVE EventInv'
        <3>1. at <= Len(batch)
            BY <2>3 DEF Rough, NodeSolved, Ends
        <3>2. Larger(lb, Taken.key) \in NodeKeys
            BY <1>3, <3>1, TakenFacts, KeyFacts, LargerKey
        <3> QED BY <1>7, <2>3, <3>1, <3>2 DEF Rough
    <2> QED BY <1>6, <2>1, <2>2, <2>3
<1> QED BY <1>5, <1>8, <1>9

\* The bound of every progress event is a bound of the points of the nodes
\* that have not been set aside (jm_progress, ct_published).
THEOREM EventsOfTheTree ==
    ASSUME NoRayUnderCutoff PROVE Spec => []EventBoundHolds
<1>1. Init => EventInv
    BY InitEvents
<1>2. (IInv /\ IInv' /\ Proved!TreeInv /\ Proved!TreeInv' /\ EventInv
         /\ [Next]_vars) => EventInv'
    BY EventStep
<1>3. EventInv => EventBoundHolds
    BY DEF EventInv, Below, EventBoundHolds, Settled
<1> QED BY <1>1, <1>2, <1>3, Invariant, TreeIsSearched, SearchInv, PTL DEF Spec

=============================================================================
