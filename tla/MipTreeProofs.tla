--------------------------- MODULE MipTreeProofs ---------------------------
(* The branch and bound of the integer tree implements TreeSearch, over a    *)
(* restart too, so that the verdict, the incumbent and the bound it returns  *)
(* are true of the model; and its heap by bound holds what is open.  For any *)
(* models, options, splits and limits of the named assumptions.              *)
EXTENDS MipTree, SequenceTheorems, FiniteSetTheorems, TLAPS

Proved == INSTANCE TreeProofs WITH
    open <- OpenNodes,
    inc <- Announced,
    verdict <- IF pc # "returned" THEN "RUNNING"
               ELSE IF code # "OK" THEN "ERR" ELSE outcome

\* A ray under a cutoff that closes 0 ends INFEASIBLE: the run conic_cutoff.
NoRayUnderCutoff ==
    \A w \in Worlds : w[2].ray # {} => ~Closed([key |-> w[1].cutoff], 0)

-----------------------------------------------------------------------------
(* The inductive invariant.                                                  *)

\* A node that is held: its key is finite and a bound of its box.
NodeKeys == Keys \ {Inf}
Sound(w) ==
    {n \in [id : Nat, box : SUBSET w.root, key : NodeKeys, depth : Nat] :
        IsBound(w.cost, n.box, n.key)}
Apart == [box : SUBSET Points, key : NodeKeys]
Incumbents == [key : Keys, point : Points \cup {NoPoint}]
Entries == [key : NodeKeys, id : Nat]
Outcomes == Stopped \cup {"NOT_RUN", "NUMERICAL_ERROR", "OPTIMAL",
                          "INFEASIBLE", "UNBOUNDED"}

InputTypes ==
    /\ <<model, shape>> \in Worlds
    /\ cfg \in ConfigType
    /\ shape.unseen # {} => cfg.callback
HeldTypes ==
    /\ heap \subseteq Sound(model)
    /\ dstack \in Seq(Sound(model))
    /\ round \in Seq(Sound(model))
    /\ next \in Sound(model) \cup {NoNode}
    /\ keyHeap \subseteq Entries /\ byId \subseteq Nat
    /\ nextId \in Nat /\ backtracks \in Nat
HandTypes == cur \in Sound(model) \cup {NoNode} /\ key \in NodeKeys
FoundTypes ==
    /\ first.asked \in BOOLEAN /\ first.start \in Incumbents
    /\ ModelBox \subseteq model.root /\ kept \subseteq ModelBox
    /\ inc \in Incumbents
CountTypes ==
    /\ turn \in Nat \ {0} /\ nodes \in Nat /\ limit \in Nat
    /\ bestBound \in Keys /\ parkedKey \in Keys /\ bound \in Keys
    /\ outcome \in Outcomes
    /\ aside \subseteq Apart
Types == InputTypes /\ HeldTypes /\ HandTypes /\ FoundTypes /\ CountTypes

\* Where the nodes can be at each place of the code.
AtNode == pc \in {"cuts", "heuristics", "callback", "rounding", "fix", "close",
                  "taken"}
Over == pc \in {"finish", "returned"}
NoneWaits == heap = {} /\ dstack = <<>> /\ round = <<>> /\ next = NoNode
NoneHeld == NoneWaits /\ cur = NoNode

Placement ==
    /\ pc \in {"limits", "select", "fill"} \/ AtNode \/ Over
    /\ pc = "limits" \/ AtNode => cur # NoNode
    /\ pc \in {"select", "fill"} => cur = NoNode
    /\ pc \in {"limits", "select", "fill"} => key = NegInf
    /\ AtNode => /\ key \in Relaxed /\ IsBound(model.cost, Box, key)
                 /\ cur.key <= key
                 /\ nodes > 0
    /\ pc = "fill" => dstack = <<>> /\ next = NoNode /\ ~handed
    /\ pc # "returned" => code = "OK" /\ bound = NegInf

\* Until the root is branched on, it is the only node.
AtRootNode == nodes = 0 \/ (nodes = 1 /\ AtNode)
RootAlone ==
    /\ AtRootNode => /\ NoneWaits /\ keyHeap = {} /\ byId = {} /\ aside = {}
                     /\ cur = Root(ModelBox)
    /\ nodes = 0 => pc = "limits" \/ Over
    /\ nodes = 0 \/ (AtRootNode /\ pc \notin {"close", "taken"})
         => kept = ModelBox

\* The plunge's node is taken before any other.
NextIsFree == cur # NoNode => next = NoNode

\* What is taken for an integral point of the model is one.
LeafIsPoint == pc = "taken" => Closed(inc, key)

\* The incumbents of this tree and of the first are points of the model,
\* better than the cutoff.
IsReal(b) ==
    /\ b.point \in ModelBox
    /\ model.cost[b.point] <= b.key
    /\ b.key < model.cutoff /\ b.key # NegInf
IncIsReal ==
    /\ IF HasIncumbent THEN IsReal(inc) ELSE inc.key = model.cutoff
    /\ first.asked => IsReal(first.start)

\* A second tree has tried its start before anything closes a node, and has
\* no ray.
StartIsToTry ==
    \/ nodes = 0
    \/ nodes = 1 /\ (pc = "cuts" \/ (pc = "heuristics" /\ turn = 1))
StartIsTried ==
    /\ first.asked /\ ~StartIsToTry /\ ~Over
         => HasIncumbent /\ inc.key <= first.start.key
    /\ first.asked /\ pc = "finish" /\ outcome = "OPTIMAL"
         => inc.key <= first.start.key
    /\ first.asked \/ (AtNode /\ nodes = 1) => shape.ray = {}

\* What an outcome says before it is told.
OutcomeIsSound ==
    pc = "finish" =>
        /\ outcome # "NOT_RUN"
        /\ outcome = "UNBOUNDED" =>
                \E p \in model.root : model.cost[p] = NegInf
        /\ outcome = "OPTIMAL" => NoneHeld /\ HasIncumbent
        /\ outcome = "INFEASIBLE" =>
              /\ ~first.asked /\ ~HasIncumbent
              /\ NoneHeld \/ Empty(model.cost, model.root)

\* The heap by bound: ids are of one node each, and none is used again.
IdsAreNodes ==
    cfg.byEst =>
        /\ \A m, n \in heap : m.id = n.id => m = n
        /\ \A i, j \in 1 .. Len(dstack) : dstack[i].id = dstack[j].id => i = j
        /\ \A i \in 1 .. Len(dstack) : \A n \in heap : n.id # dstack[i].id
        /\ \A i \in 1 .. Len(dstack) : \A e \in keyHeap : e.id # dstack[i].id
        /\ \A n \in heap : n.id < nextId
        /\ \A i \in 1 .. Len(dstack) : dstack[i].id < nextId
        /\ \A e \in keyHeap : e.id < nextId

\* The nodes on the dive's stack that the tree will not go on with before they
\* go back to the heap: the dive is at its limit, or its next node is too far
\* above the bound.
MayGoOn ==
    /\ StackDive \/ NoIncDive
    /\ IF NoIncDive THEN backtracks < NoIncDiveBacktracks
                    ELSE cfg.backtrack = 0 \/ backtracks < cfg.backtrack
Under(i) == MinKey({dstack[j].key : j \in 1 .. i} \cup {n.key : n \in heap})
NearAt(i) ==
    \/ cfg.diveGap = 0
    \/ Under(i) \in {NegInf, Inf}
    \/ dstack[i].key - Under(i) <= cfg.diveGap
Waits(i) == \E j \in i .. Len(dstack) : ~(MayGoOn /\ NearAt(j))

\* bestBound is a bound of the round and of the dive.
RoundIsOld ==
    \/ pc \notin {"select", "fill", "returned"}
    \/ pc # "returned" /\ (handed \/ next # NoNode \/ dstack # <<>>)
RoundIsBounded == RoundIsOld => \A n \in Range(round) : bestBound <= n.key
StackIsADive ==
    dstack # <<>> => IF cfg.dive THEN StackDive ELSE nodes >= NoIncDiveAfter
DiveIsBounded ==
    \A i \in 1 .. Len(dstack) : bestBound <= dstack[i].key \/ Waits(i)
BestBoundHolds ==
    /\ cur # NoNode => bestBound <= Larger(cur.key, key)
    /\ next # NoNode => bestBound <= next.key
    /\ RoundIsBounded
    /\ StackIsADive /\ DiveIsBounded
    /\ \A n \in aside : parkedKey <= n.key

\* What the heap by bound rests on, and the whole.
HeapInv == Types /\ Placement /\ RootAlone /\ KeyHeapAgrees /\ IdsAreNodes
IInv ==
    /\ HeapInv
    /\ NextIsFree /\ LeafIsPoint /\ IncIsReal /\ StartIsTried
    /\ OutcomeIsSound
    /\ BestBoundHolds

-----------------------------------------------------------------------------
(* Keys and nodes.                                                           *)

LEMMA KeyFacts ==
    /\ Inf \in Nat /\ NegInf \in Int /\ NegInf < Inf
    /\ NegInf \in NodeKeys /\ NegInf \in Keys /\ Inf \in Keys
    /\ \A k \in Keys : k \in Int /\ NegInf <= k /\ k <= Inf
    /\ \A k \in NodeKeys : k \in Int /\ k < Inf /\ k \in Keys /\ k # Inf
    /\ \A k \in Keys : Slack[k] \in Nat
    /\ Relaxed \subseteq NodeKeys \ {NegInf}
<1>1. Inf \in Nat \ {0} /\ Slack \in [Keys -> Nat]
    BY TreeAssumption
<1>2. Relaxed \subseteq Keys \ {NegInf, Inf}
    BY MipTreeAssumption
<1> QED BY <1>1, <1>2 DEF Keys, NegInf, NodeKeys

LEMMA LargerKey ==
    ASSUME NEW j \in NodeKeys, NEW k \in NodeKeys
    PROVE  /\ Larger(j, k) \in NodeKeys /\ j <= Larger(j, k)
           /\ j <= k => Larger(j, k) = k
           /\ Larger(j, NegInf) = j
PROOF BY KeyFacts DEF Larger

LEMMA WorldFacts ==
    ASSUME NEW w, NEW s, <<w, s>> \in Worlds
    PROVE  /\ w \in Models /\ s \in ShapeType
           /\ w.root \subseteq Points /\ w.cutoff \in Keys
           /\ s.ray \subseteq w.root
           /\ \A p \in Points : w.cost[p] \in Keys /\ p # NoPoint
<1>1. w \in Models /\ s \in ShapeType /\ s.ray \subseteq w.root
    BY MipTreeAssumption
<1>2. w \in [cost : CostType, root : SUBSET Points, cutoff : Keys]
    BY <1>1, ModelsAssumption
<1> QED BY <1>1, <1>2, TreeAssumption DEF CostType, NoPoint

\* NoNode is not a node.
LEMMA SoundFacts ==
    ASSUME NEW w, NEW n \in Sound(w)
    PROVE  /\ n.box \subseteq w.root /\ n.key \in NodeKeys /\ n # NoNode
           /\ n.id \in Nat /\ n.depth \in Nat
           /\ IsBound(w.cost, n.box, n.key)
PROOF BY DEF Sound, NoNode, NodeKeys

LEMMA MakesSound ==
    ASSUME NEW w, NEW i \in Nat, NEW B \in SUBSET w.root, NEW k \in NodeKeys,
           NEW d \in Nat, IsBound(w.cost, B, k)
    PROVE  [id |-> i, box |-> B, key |-> k, depth |-> d] \in Sound(w)
PROOF BY DEF Sound

\* A part of a box has the box's bound.
LEMMA BoundOfPart ==
    ASSUME NEW c, NEW B, NEW D, D \subseteq B, NEW k, IsBound(c, B, k)
    PROVE  IsBound(c, D, k)
PROOF BY DEF IsBound

\* ClosedUpwards and ClosedByBetter of TreeProofs, for the code's incumbent.
LEMMA ClosedAbove ==
    ASSUME NEW b \in Incumbents, NEW k \in Keys, NEW c \in Keys,
           Closed(b, k), k <= c
    PROVE  Closed(b, c)
<1>1. b.key \in Int /\ k \in Int /\ c \in Int /\ Slack[b.key] \in Nat
    BY KeyFacts DEF Incumbents
<1> QED BY <1>1 DEF Closed

LEMMA ClosedAlso ==
    ASSUME NEW b \in Incumbents, NEW d \in Incumbents, NEW c \in Keys,
           d.key <= b.key, Closed(b, c)
    PROVE  Closed(d, c)
<1>1. /\ b.key \in Keys /\ d.key \in Keys
      /\ b.key \in Int /\ d.key \in Int /\ c \in Int /\ Inf \in Int
      /\ Slack[b.key] \in Nat /\ Slack[d.key] \in Nat
    BY KeyFacts DEF Incumbents
<1>2. d.key - Slack[d.key] <= b.key - Slack[b.key]
    BY <1>1, TreeAssumption
<1> QED BY <1>1, <1>2 DEF Closed

\* What costs no less than the incumbent is closed by it.
LEMMA ClosedByItself ==
    ASSUME NEW b \in Incumbents, NEW c \in Keys, b.key <= c, b.key < Inf
    PROVE  Closed(b, c)
<1>1. b.key \in Int /\ c \in Int /\ Slack[b.key] \in Nat
    BY KeyFacts DEF Incumbents
<1> QED BY <1>1 DEF Closed

-----------------------------------------------------------------------------
(* Sequences as sets of nodes.                                               *)

LEMMA RangeOf ==
    ASSUME NEW S, NEW s \in Seq(S)
    PROVE  /\ Len(s) \in Nat
           /\ Range(s) = {s[i] : i \in 1 .. Len(s)}
           /\ Range(s) \subseteq S
           /\ \A i \in 1 .. Len(s) : s[i] \in S
PROOF BY LenProperties, ElementOfSeq DEF Range

LEMMA RangeOfEmpty == Range(<<>>) = {} /\ Len(<<>>) = 0
PROOF BY DEF Range

LEMMA RangeOfAppend ==
    ASSUME NEW S, NEW s \in Seq(S), NEW e \in S
    PROVE  Append(s, e) \in Seq(S) /\ Range(Append(s, e)) = Range(s) \cup {e}
<1> DEFINE t == Append(s, e)
<1>1. /\ t \in Seq(S) /\ Len(t) = Len(s) + 1 /\ Len(s) \in Nat
      /\ \A i \in 1 .. Len(s) : t[i] = s[i]
      /\ t[Len(s) + 1] = e
    BY AppendProperties, LenProperties
<1> HIDE DEF t
<1>2. /\ Range(t) = {t[i] : i \in 1 .. Len(s) + 1}
      /\ Range(s) = {s[i] : i \in 1 .. Len(s)}
    BY <1>1, RangeOf
<1>3. 1 .. Len(s) + 1 = (1 .. Len(s)) \cup {Len(s) + 1}
    BY <1>1
<1>4. Range(t) = Range(s) \cup {e}
    BY <1>1, <1>2, <1>3
<1> QED BY <1>1, <1>4 DEF t

\* The first of a round, and the rest.
LEMMA RangeOfTail ==
    ASSUME NEW S, NEW s \in Seq(S), s # <<>>
    PROVE  /\ Head(s) \in S /\ Tail(s) \in Seq(S)
           /\ Range(s) = Range(Tail(s)) \cup {Head(s)}
<1> DEFINE t == Tail(s)
<1>1. /\ Head(s) \in S /\ t \in Seq(S) /\ Len(t) = Len(s) - 1
      /\ \A i \in 1 .. Len(t) : t[i] = s[i + 1]
      /\ Len(s) \in Nat \ {0} /\ Head(s) = s[1]
    BY HeadTailProperties, EmptySeq
<1> HIDE DEF t
<1>2. /\ Range(t) = {t[i] : i \in 1 .. Len(t)}
      /\ Range(s) = {s[i] : i \in 1 .. Len(s)}
    BY <1>1, RangeOf
<1>3. \A i \in 1 .. Len(s) :
          i = 1 \/ (i - 1 \in 1 .. Len(t) /\ t[i - 1] = s[i])
    BY <1>1
<1>4. \A i \in 1 .. Len(t) : i + 1 \in 1 .. Len(s) /\ t[i] = s[i + 1]
    BY <1>1
<1>5. 1 \in 1 .. Len(s)
    BY <1>1
<1>6. Range(s) = Range(t) \cup {Head(s)}
    BY <1>1, <1>2, <1>3, <1>4, <1>5
<1> QED BY <1>1, <1>6 DEF t

\* The top of the dive's stack, and what is under it.
LEMMA FrontOf ==
    ASSUME NEW S, NEW s \in Seq(S), s # <<>>
    PROVE  /\ Last(s) = s[Len(s)] /\ Last(s) \in S /\ Front(s) \in Seq(S)
           /\ Len(s) \in Nat \ {0} /\ Len(Front(s)) = Len(s) - 1
           /\ \A i \in 1 .. Len(s) - 1 : Front(s)[i] = s[i]
           /\ Range(s) = Range(Front(s)) \cup {Last(s)}
<1> DEFINE t == Front(s)
           n == Len(s) - 1
<1>1. Len(s) \in Nat \ {0}
    BY EmptySeq
<1>2. n \in Nat /\ \A i \in 1 .. n : s[i] \in S
    BY <1>1, ElementOfSeq
<1>3. /\ t \in Seq(S) /\ Len(t) = (IF 1 <= n THEN n - 1 + 1 ELSE 0)
      /\ \A i \in 1 .. n - 1 + 1 : t[i] = s[1 + i - 1]
    BY <1>2, SubSeqProperties DEF Front
<1>4. Len(t) = n /\ \A i \in 1 .. n : t[i] = s[i]
    <2> HIDE DEF t, n
    <2> QED BY <1>2, <1>3
<1>5. Last(s) = s[Len(s)] /\ Last(s) \in S
    BY <1>1, ElementOfSeq DEF Last
<1>6. t \in Seq(S)
    BY <1>3
<1> HIDE DEF t
<1>7. /\ Range(t) = {t[i] : i \in 1 .. n}
      /\ Range(s) = {s[i] : i \in 1 .. Len(s)}
    BY <1>4, <1>6, RangeOf
<1>8. 1 .. Len(s) = (1 .. n) \cup {Len(s)}
    BY <1>1
<1>9. Range(s) = Range(t) \cup {Last(s)}
    BY <1>4, <1>5, <1>7, <1>8
<1> QED BY <1>1, <1>4, <1>5, <1>6, <1>9 DEF t

-----------------------------------------------------------------------------
(* The least of some keys.                                                   *)

LEMMA LeastNat ==
    ASSUME NEW K \in SUBSET Nat, K # {}
    PROVE  \E k \in K : \A j \in K : k <= j
<1> DEFINE R == StrictSubsetOrdering(Nat)
           T == {0 .. k : k \in K}
<1>1. T \subseteq FiniteSubsetsOf(Nat) /\ T # {}
    <2>1. ASSUME NEW k \in K PROVE 0 .. k \in FiniteSubsetsOf(Nat)
        <3>1. IsFiniteSet(0 .. k) /\ 0 .. k \in SUBSET Nat
            BY FS_Interval
        <3> QED BY <3>1 DEF FiniteSubsetsOf
    <2> QED BY <2>1
<1>2. IsWellFoundedOn(R, FiniteSubsetsOf(Nat))
    BY FS_StrictSubsetOrderingWellFounded
<1>3. PICK t \in T : \A u \in T : <<u, t>> \notin R
    <2> HIDE DEF R, T
    <2> QED BY <1>1, <1>2, WFMin
<1>4. PICK k \in K : t = 0 .. k
    OBVIOUS
<1>5. ASSUME NEW j \in K, j < k PROVE FALSE
    <2>1. 0 .. j \subseteq 0 .. k /\ k \notin 0 .. j /\ k \in 0 .. k
        BY <1>5
    <2>2. 0 .. j \in T /\ 0 .. j \in SUBSET Nat /\ 0 .. k \in SUBSET Nat
        OBVIOUS
    <2> QED BY <1>3, <1>4, <2>1, <2>2 DEF StrictSubsetOrdering
<1> QED BY <1>5

\* The least of some keys is one of them.
LEMMA LeastKey ==
    ASSUME NEW K \in SUBSET Keys
    PROVE  /\ MinKey(K) \in Keys
           /\ K # {} => MinKey(K) \in K
           /\ \A j \in K : MinKey(K) <= j
<1>1. CASE K = {}
    BY <1>1, KeyFacts DEF MinKey
<1>2. CASE K # {}
    <2> DEFINE N == {k + Inf : k \in K}
    <2>1. Inf \in Nat /\ NegInf = -Inf /\ \A k \in K : k \in Int /\ NegInf <= k
        BY KeyFacts DEF NegInf
    <2>2. N \in SUBSET Nat /\ N # {}
        BY <1>2, <2>1
    <2>3. PICK m \in N : \A j \in N : m <= j
        <3> HIDE DEF N
        <3> QED BY <2>2, LeastNat
    <2>4. PICK k \in K : m = k + Inf
        BY <2>3
    <2>5. \A j \in K : k <= j
        BY <2>1, <2>3, <2>4
    <2>6. MinKey(K) \in K /\ \A j \in K : MinKey(K) <= j
        BY <1>2, <2>5 DEF MinKey
    <2> QED BY <1>2, <2>6
<1> QED BY <1>1, <1>2

-----------------------------------------------------------------------------
(* What a step of the code leaves alone.                                     *)

Pushes == \E s \in OpenPieces : OpensPiece(s)
Parts == \E s \in Splits[Box], side \in 1 .. 2, dives \in BOOLEAN :
             Branches(s, side, dives)
Picks == \E n \in heap : Pick(n)
StartsAgain == \E S \in SUBSET kept : Restarts(S)
FixesSome == \E S \in SUBSET kept : Fixes(S)

\* The call's inputs.
LEMMA NextFixes == Next => model' = model /\ shape' = shape /\ cfg' = cfg
<1> SUFFICES ASSUME Next PROVE UNCHANGED fixed
    BY DEF fixed
<1>1. CASE Select
    BY <1>1 DEF Select, SelectNext, Resume, FromRound, StartRound, Pick,
                RoundSolves, Exhausted
<1>2. CASE Hands
    BY <1>2 DEF Hands, HandedAtTop, HandedAtStop, HandedRefused
<1>3. CASE Solve
    BY <1>3 DEF Solve, LimitStops, NodeInfeasible, NodeFails, NodeStops,
                SearchesPoint, NodeSolved, OpensPiece
<1>4. CASE Cuts
    BY <1>4 DEF Cuts, CutsSolved, NoCuts, CutsEmpty, CutsStop
<1>5. CASE Heuristic
    BY <1>5 DEF Heuristic, HeuristicFinds, RoundingFinds, HeuristicFails,
                HeuristicsEnd, RoundingFails
<1>6. CASE Callback
    BY <1>6 DEF Callback, CallbackPasses, CallbackRow, CallbackRowEmpty,
                CallbackStops
<1>7. CASE Fix
    BY <1>7 DEF Fix, Restarts, Fixes, NoFix
<1>8. CASE Close
    BY <1>8 DEF Close, ProgressStops, ClosedByIncumbent, LeafTaken, LeafDone,
                ProbesFail, Branches
<1>9. CASE End
    BY <1>9 DEF End, Finish, OutOfMemory, StaleRead
<1> QED BY <1>1, <1>2, <1>3, <1>4, <1>5, <1>6, <1>7, <1>8, <1>9 DEF Next

\* The nodes that are not in hand.
HeldStays == UNCHANGED <<held, nextId, backtracks>>
LEMMA HeldSteps ==
    Next => \/ HeldStays \/ StartsAgain \/ SelectNext \/ Resume \/ FromRound
            \/ StartRound \/ Picks \/ Pushes \/ Parts
<1> SUFFICES ASSUME Next
             PROVE  \/ HeldStays \/ StartsAgain \/ SelectNext \/ Resume
                    \/ FromRound \/ StartRound \/ Picks \/ Pushes \/ Parts
    OBVIOUS
<1> USE DEF HeldStays, held, counts, bounds
<1>1. CASE Select
    BY <1>1 DEF Select, RoundSolves, Exhausted, Picks
<1>2. CASE Hands
    BY <1>2 DEF Hands, HandedAtTop, HandedAtStop, HandedRefused
<1>3. CASE Solve
    BY <1>3 DEF Solve, LimitStops, NodeInfeasible, NodeFails, NodeStops,
                SearchesPoint, NodeSolved, Pushes
<1>4. CASE Cuts
    BY <1>4 DEF Cuts, CutsSolved, NoCuts, CutsEmpty, CutsStop
<1>5. CASE Heuristic
    BY <1>5 DEF Heuristic, HeuristicFinds, RoundingFinds, HeuristicFails,
                HeuristicsEnd, RoundingFails
<1>6. CASE Callback
    BY <1>6 DEF Callback, CallbackPasses, CallbackRow, CallbackRowEmpty,
                CallbackStops
<1>7. CASE Fix
    BY <1>7 DEF Fix, Fixes, NoFix, StartsAgain
<1>8. CASE Close
    BY <1>8 DEF Close, ProgressStops, ClosedByIncumbent, LeafTaken, LeafDone,
                ProbesFail, Parts
<1>9. CASE End
    BY <1>9 DEF End, Finish, OutOfMemory, StaleRead
<1> QED BY <1>1, <1>2, <1>3, <1>4, <1>5, <1>6, <1>7, <1>8, <1>9 DEF Next

\* The incumbent: a step offers a point that a check of the model has
\* accepted, or none.
Offered(f) ==
    /\ f \in Found(ModelBox) /\ ~CutOff(f)
    /\ inc' = IF f.key < inc.key THEN f ELSE inc
OffersLeaf == \E p \in Box : LeafTaken(p)
IncSteps ==
    \/ UNCHANGED <<inc, first>>
    \/ (first' = first /\ \E f \in AnyPoint : Offered(f))
    \/ OffersLeaf
    \/ StartsAgain
LEMMA IncumbentSteps == Types /\ Next => IncSteps
<1> SUFFICES ASSUME Types, Next PROVE IncSteps
    OBVIOUS
<1> USE DEF IncSteps, found, counts
<1>1. CASE Select
    BY <1>1 DEF Select, SelectNext, Resume, FromRound, StartRound, Pick,
                RoundSolves, Exhausted
<1>2. CASE Hands
    BY <1>2 DEF Hands, HandedAtTop, HandedAtStop, HandedRefused, TakesHanded,
                Offer, Offered, AnyPoint
<1>3. CASE Solve
    BY <1>3 DEF Solve, LimitStops, NodeInfeasible, NodeFails, NodeStops,
                SearchesPoint, NodeSolved, OpensPiece
<1>4. CASE Cuts
    BY <1>4 DEF Cuts, CutsSolved, NoCuts, CutsEmpty, CutsStop
<1>5. CASE Heuristic
    <2>1. ASSUME NEW f \in AnyPoint, NEW e, NEW place,
                 PointFound(f, e, place), first' = first
          PROVE  IncSteps
        <3>1. CASE cfg.callback /\ CutOff(f)
            BY <2>1, <3>1 DEF PointFound
        <3>2. CASE ~(cfg.callback /\ CutOff(f))
            <4>1. ~CutOff(f)
                <5>1. CASE cfg.callback
                    BY <3>2, <5>1
                <5>2. CASE ~cfg.callback
                    <6>1. /\ shape.unseen = {} /\ Seen(f.point, f.key)
                          /\ f.point \in ModelBox /\ f.key \in Relaxed
                        BY <2>1, <5>2 DEF AnyPoint, Found, Types, InputTypes
                    <6>2. f.key \in Int /\ model.cost[f.point] \in Int
                        BY <6>1, WorldFacts, KeyFacts
                           DEF Types, InputTypes, FoundTypes
                    <6> QED BY <6>1, <6>2 DEF Seen, CutOff
                <5> QED BY <5>1, <5>2
            <4>2. inc' = IF f.key < inc.key THEN f ELSE inc
                BY <2>1, <3>2 DEF PointFound, Offer
            <4>3. Offered(f)
                BY <4>1, <4>2 DEF Offered, AnyPoint
            <4> QED BY <2>1, <4>3
        <3> QED BY <3>1, <3>2
    <2>2. ASSUME NEW f \in AnyPoint, HeuristicFinds(f) PROVE IncSteps
        BY <2>1, <2>2 DEF HeuristicFinds
    <2>3. ASSUME NEW f \in AnyPoint, RoundingFinds(f) PROVE IncSteps
        BY <2>1, <2>3 DEF RoundingFinds
    <2> QED BY <1>5, <2>2, <2>3 DEF Heuristic, HeuristicFails, HeuristicsEnd,
                                    RoundingFails
<1>6. CASE Callback
    BY <1>6 DEF Callback, CallbackPasses, CallbackRow, CallbackRowEmpty,
                CallbackStops
<1>7. CASE Fix
    BY <1>7 DEF Fix, Fixes, NoFix, StartsAgain
<1>8. CASE Close
    BY <1>8 DEF Close, ProgressStops, ClosedByIncumbent, LeafDone, ProbesFail,
                Branches, OffersLeaf
<1>9. CASE End
    BY <1>9 DEF End, Finish, OutOfMemory, StaleRead
<1> QED BY <1>1, <1>2, <1>3, <1>4, <1>5, <1>6, <1>7, <1>8, <1>9 DEF Next

-----------------------------------------------------------------------------
(* The heap by bound.                                                        *)

\* Nodes that no entry and no other node has the id of.
Fresh(N) ==
    /\ \A m, n \in N : m.id = n.id => m = n
    /\ \A n \in N : \A h \in heap : h.id # n.id
    /\ \A n \in N : \A e \in keyHeap : e.id # n.id

LEMMA EntryFacts == \A n : Entry(n).key = n.key /\ Entry(n).id = n.id
PROOF BY DEF Entry

LEMMA PushKeeps ==
    ASSUME cfg.byEst, cfg' = cfg, KeyHeapAgrees,
           NEW N, Fresh(N), OpenPush(N)
    PROVE  KeyHeapAgrees'
<1>1. /\ heap' = heap \cup N
      /\ keyHeap' = keyHeap \cup {Entry(n) : n \in N}
      /\ byId' = byId \cup {n.id : n \in N}
    BY DEF OpenPush
<1>2. /\ Live = {Entry(n) : n \in heap}
      /\ byId = {n.id : n \in heap}
    BY DEF KeyHeapAgrees
<1>3. byId' = {n.id : n \in heap'}
    BY <1>1, <1>2
<1>4. Live' = Live \cup {Entry(n) : n \in N}
    <2>1. ASSUME NEW e \in keyHeap, e.id \in byId' PROVE e \in Live
        BY <1>1, <2>1 DEF Live, Fresh
    <2>2. ASSUME NEW n \in N PROVE Entry(n).id \in byId'
        BY <1>1, EntryFacts
    <2>3. Live' = {e \in keyHeap' : e.id \in byId'}
        BY DEF Live
    <2>4. Live \subseteq keyHeap /\ \A e \in Live : e.id \in byId'
        BY <1>1 DEF Live
    <2> QED BY <1>1, <2>1, <2>2, <2>3, <2>4
<1>5. Live' = {Entry(n) : n \in heap'}
    BY <1>1, <1>2, <1>4
<1> QED BY <1>3, <1>5 DEF KeyHeapAgrees

\* The node picked leaves both heaps.
LEMMA PickKeeps ==
    ASSUME Types, cfg.byEst, cfg' = cfg, KeyHeapAgrees, IdsAreNodes,
           NEW n \in heap, OpenPick(n)
    PROVE  KeyHeapAgrees' /\ keyHeap' \subseteq keyHeap
<1>1. /\ heap' = heap \ {n} /\ byId' = byId \ {n.id}
      /\ keyHeap' = IF ByBound THEN Pruned ELSE keyHeap
    BY DEF OpenPick
<1>2. /\ Live = {Entry(m) : m \in heap}
      /\ byId = {m.id : m \in heap}
    BY DEF KeyHeapAgrees
<1>3. \A m \in heap : m.id = n.id => m = n
    BY DEF IdsAreNodes
<1>4. byId' = {m.id : m \in heap'}
    BY <1>1, <1>2, <1>3
<1>5. Live \subseteq keyHeap' /\ keyHeap' \subseteq keyHeap
    <2>1. Live \subseteq Pruned
        <3>1. \A e \in Live : e \in keyHeap /\ e.key \in Int /\ e.id \in Int
            <4>1. \A e \in Entries : e.key \in NodeKeys /\ e.id \in Nat
                BY DEF Entries
            <4>2. Live \subseteq Entries /\ Live \subseteq keyHeap
                BY DEF Live, Types, HeldTypes
            <4>3. \A k \in NodeKeys : k \in Int
                BY KeyFacts
            <4> QED BY <4>1, <4>2, <4>3
        <3>2. \A e \in Live : Before(e, e)
            BY <3>1 DEF Before
        <3> QED BY <3>1, <3>2 DEF Pruned
    <2>2. Live \subseteq keyHeap /\ Pruned \subseteq keyHeap
        BY DEF Live, Pruned
    <2> QED BY <1>1, <2>1, <2>2
<1>6. Live' = {e \in Live : e.id # n.id}
    <2>1. Live' = {e \in keyHeap' : e.id \in byId'}
        BY DEF Live
    <2>2. Live = {e \in keyHeap : e.id \in byId}
        BY DEF Live
    <2> QED BY <1>1, <1>5, <2>1, <2>2
<1>7. Live' = {Entry(m) : m \in heap'}
    <2>1. ASSUME NEW e \in Live, e.id # n.id
          PROVE  \E m \in heap' : e = Entry(m)
        BY <1>1, <1>2, <2>1, EntryFacts
    <2>2. ASSUME NEW m \in heap' PROVE Entry(m) \in Live /\ Entry(m).id # n.id
        BY <1>1, <1>2, <1>3, <2>2, EntryFacts
    <2> QED BY <1>6, <2>1, <2>2
<1> QED BY <1>4, <1>5, <1>7 DEF KeyHeapAgrees

\* The two sides of a node that is branched on, and those of a piece.
LEMMA HalvesFacts ==
    ASSUME nextId \in Nat, NEW s, NEW side \in 1 .. 2,
           NEW one, one = Halves(s)[side],
           NEW other, other = Halves(s)[3 - side]
    PROVE  /\ one.id \in {nextId, nextId + 1}
           /\ other.id \in {nextId, nextId + 1}
           /\ one.id # other.id
<1>1. /\ Halves(s)[1].id = nextId /\ Halves(s)[2].id = nextId + 1
    BY DEF Halves, Child
<1>2. side = 1 \/ side = 2
    OBVIOUS
<1>3. 3 - 1 = 2 /\ 3 - 2 = 1
    OBVIOUS
<1>4. CASE side = 1
    BY <1>1, <1>3, <1>4
<1>5. CASE side = 2
    BY <1>1, <1>3, <1>5
<1> QED BY <1>2, <1>4, <1>5

LEMMA SidesFacts ==
    ASSUME nextId \in Nat, NEW s
    PROVE  /\ \A m, n \in Sides(s) : m.id = n.id => m = n
           /\ \A n \in Sides(s) : nextId <= n.id
           /\ \A n \in Sides(s) : n.id < nextId + Cardinality(Sides(s))
           /\ Cardinality(Sides(s)) \in Nat
<1> DEFINE down == Child(s.down, nextId, cur.key)
           up == Child(s.up, nextId + (IF s.down = {} THEN 0 ELSE 1), cur.key)
<1>1. /\ down.id = nextId /\ down.box = s.down
      /\ up.id = nextId + (IF s.down = {} THEN 0 ELSE 1) /\ up.box = s.up
    BY DEF Child
<1>2. Sides(s) = {n \in {down, up} : n.box # {}}
    BY DEF Sides
<1> HIDE DEF down, up
<1>3. CASE s.down = {} /\ s.up = {}
    <2>1. Sides(s) = {}
        BY <1>1, <1>2, <1>3
    <2> QED BY <2>1, FS_EmptySet
<1>4. CASE s.down = {} /\ s.up # {}
    <2>1. Sides(s) = {up} /\ up.id = nextId
        BY <1>1, <1>2, <1>4
    <2> QED BY <2>1, FS_Singleton
<1>5. CASE s.down # {} /\ s.up = {}
    <2>1. Sides(s) = {down}
        BY <1>1, <1>2, <1>5
    <2>2. Cardinality({down}) = 1
        BY FS_Singleton
    <2> QED BY <1>1, <2>1, <2>2
<1>6. CASE s.down # {} /\ s.up # {}
    <2>1. /\ Sides(s) = {down} \cup {up}
          /\ down.id = nextId /\ up.id = nextId + 1 /\ down # up
        BY <1>1, <1>2, <1>6
    <2>2. Cardinality({down} \cup {up}) = 2
        <3>1. /\ IsFiniteSet({down}) /\ Cardinality({down}) = 1
              /\ IsFiniteSet({up}) /\ Cardinality({up}) = 1
            BY FS_Singleton
        <3>2. {down} \cap {up} = {} /\ Cardinality({}) = 0
            BY <2>1, FS_EmptySet
        <3>3. Cardinality({down} \cup {up})
                = Cardinality({down}) + Cardinality({up})
                  - Cardinality({down} \cap {up})
            BY <3>1, FS_Union
        <3> QED BY <3>1, <3>2, <3>3
    <2>3. Cardinality(Sides(s)) = 2
        BY <2>1, <2>2
    <2> QED BY <2>1, <2>3
<1> QED BY <1>3, <1>4, <1>5, <1>6

LEMMA KeyHeapSteps ==
    ASSUME Types, Placement, RootAlone, IdsAreNodes, KeyHeapAgrees, Next
    PROVE  KeyHeapAgrees' /\ IdsAreNodes'
<1>0. cfg' = cfg /\ heap \subseteq Sound(model) /\ dstack \in Seq(Sound(model))
    BY NextFixes DEF Types, HeldTypes
<1>a. CASE ~cfg.byEst
    BY <1>0, <1>a DEF KeyHeapAgrees, IdsAreNodes
<1> SUFFICES ASSUME cfg.byEst PROVE KeyHeapAgrees' /\ IdsAreNodes'
    BY <1>a
<1> USE <1>0 DEF held
<1>b. /\ Len(dstack) \in Nat
      /\ Range(dstack) = {dstack[i] : i \in 1 .. Len(dstack)}
      /\ nextId \in Nat
    BY RangeOf DEF Types, HeldTypes
<1>c. /\ \A n \in heap : n.id \in Nat
      /\ \A i \in 1 .. Len(dstack) : dstack[i].id \in Nat
      /\ \A e \in keyHeap : e.id \in Nat
    BY SoundFacts, RangeOf DEF Types, HeldTypes, Entries
<1>d. ASSUME UNCHANGED <<heap, keyHeap, byId>>
      PROVE  KeyHeapAgrees'
    BY <1>d DEF KeyHeapAgrees, Live, Entry
<1>1. CASE UNCHANGED <<heap, dstack, keyHeap, byId, nextId>>
    BY <1>1, <1>d DEF IdsAreNodes
<1>2. CASE StartsAgain
    <2>1. PICK S \in SUBSET kept : Restarts(S)
        BY <1>2 DEF StartsAgain
    <2>2. heap = {} /\ dstack = <<>> /\ keyHeap = {} /\ byId = {}
        BY <2>1
           DEF Restarts, MayRestart, Narrows, RootAlone, AtRootNode, AtNode,
               NoneWaits
    <2>3. UNCHANGED <<heap, dstack, keyHeap, byId>>
        BY <2>1 DEF Restarts
    <2> QED BY <1>d, <2>2, <2>3 DEF IdsAreNodes
<1>3. CASE Resume
    <2>1. /\ dstack # <<>> /\ dstack' = Front(dstack)
          /\ UNCHANGED <<heap, keyHeap, byId, nextId>>
        BY <1>3 DEF Resume, MayResume, counts
    <2>2. /\ Len(dstack') = Len(dstack) - 1
          /\ \A i \in 1 .. Len(dstack) - 1 : dstack'[i] = dstack[i]
        BY <2>1, FrontOf
    <2>3. \A i \in 1 .. Len(dstack') :
              i \in 1 .. Len(dstack) /\ dstack'[i] = dstack[i]
        BY <1>b, <2>2
    <2> QED BY <1>d, <2>1, <2>3 DEF IdsAreNodes
<1>4. CASE StartRound
    <2>1. /\ OpenPush(Range(dstack)) /\ dstack' = <<>>
          /\ nextId' = nextId
        BY <1>4 DEF StartRound, counts
    <2>2. Fresh(Range(dstack))
        BY <1>b DEF Fresh, IdsAreNodes
    <2>3. KeyHeapAgrees'
        BY <2>1, <2>2, PushKeeps
    <2>4. IdsAreNodes'
        <3>1. /\ heap' = heap \cup Range(dstack)
              /\ keyHeap' = keyHeap \cup {Entry(n) : n \in Range(dstack)}
              /\ Len(dstack') = 0
            BY <2>1, RangeOfEmpty DEF OpenPush
        <3>2. \A n \in Range(dstack) : n.id < nextId
            BY <1>b DEF IdsAreNodes
        <3>3. \A e \in keyHeap' : e.id < nextId
            BY <3>1, <3>2, EntryFacts DEF IdsAreNodes
        <3>4. \A m, n \in heap' : m.id = n.id => m = n
            BY <2>2, <3>1 DEF Fresh, IdsAreNodes
        <3>5. \A n \in heap' : n.id < nextId
            BY <3>1, <3>2 DEF IdsAreNodes
        <3> QED BY <2>1, <3>1, <3>3, <3>4, <3>5 DEF IdsAreNodes
    <2> QED BY <2>3, <2>4
<1>5. CASE Picks
    <2>1. PICK n \in heap : Pick(n)
        BY <1>5 DEF Picks
    <2>2. /\ OpenPick(n) /\ heap' = heap \ {n} /\ UNCHANGED <<dstack, nextId>>
        BY <2>1 DEF Pick, OpenPick, counts
    <2>3. KeyHeapAgrees' /\ keyHeap' \subseteq keyHeap
        BY <2>2, PickKeeps
    <2>4. IdsAreNodes'
        BY <2>2, <2>3 DEF IdsAreNodes
    <2> QED BY <2>3, <2>4
<1>e. ASSUME NEW N, NEW d \in Nat, nextId' = nextId + d, dstack' = dstack,
             OpenPush(N), \A m, n \in N : m.id = n.id => m = n,
             \A n \in N : n.id \in Nat /\ nextId <= n.id /\ n.id < nextId + d
      PROVE  KeyHeapAgrees' /\ IdsAreNodes'
    <2>1. Fresh(N)
        BY <1>b, <1>c, <1>e DEF Fresh, IdsAreNodes
    <2>2. KeyHeapAgrees'
        BY <1>e, <2>1, PushKeeps
    <2>3. /\ heap' = heap \cup N
          /\ keyHeap' = keyHeap \cup {Entry(n) : n \in N}
        BY <1>e DEF OpenPush
    <2>4. \A m, n \in heap' : m.id = n.id => m = n
        BY <2>1, <2>3 DEF Fresh, IdsAreNodes
    <2>5. \A i \in 1 .. Len(dstack) : \A n \in N : n.id # dstack[i].id
        BY <1>b, <1>c, <1>e DEF IdsAreNodes
    <2>6. /\ \A n \in heap' : n.id < nextId'
          /\ \A i \in 1 .. Len(dstack) : dstack[i].id < nextId'
        BY <1>b, <1>c, <1>e, <2>3 DEF IdsAreNodes
    <2>7. \A e \in keyHeap' : e.id < nextId'
        BY <1>b, <1>c, <1>e, <2>3, EntryFacts DEF IdsAreNodes
    <2>8. \A i \in 1 .. Len(dstack) : \A e \in keyHeap' : e.id # dstack[i].id
        BY <2>3, <2>5, EntryFacts DEF IdsAreNodes
    <2>9. \A i \in 1 .. Len(dstack) : \A n \in heap' : n.id # dstack[i].id
        BY <2>3, <2>5 DEF IdsAreNodes
    <2>10. IdsAreNodes'
        BY <1>e, <2>4, <2>6, <2>7, <2>8, <2>9 DEF IdsAreNodes
    <2> QED BY <2>2, <2>10
<1>6. CASE Pushes
    <2>1. PICK s \in OpenPieces : OpensPiece(s)
        BY <1>6 DEF Pushes
    <2>2. /\ OpenPush(Sides(s)) /\ dstack' = dstack
          /\ nextId' = nextId + Cardinality(Sides(s))
        BY <2>1 DEF OpensPiece
    <2>3. \A n \in Sides(s) : n.id \in Nat
        BY <1>b DEF Sides, Child
    <2> QED BY <1>b, <1>e, <2>2, <2>3, SidesFacts
<1>7. CASE Parts
    <2>1. PICK s \in Splits[Box], side \in 1 .. 2, dives \in BOOLEAN :
              Branches(s, side, dives)
        BY <1>7 DEF Parts
    <2> DEFINE one == Halves(s)[side]
               other == Halves(s)[3 - side]
    <2>2. Places(one, other, dives) /\ nextId' = nextId + 2
        BY <2>1 DEF Branches
    <2> HIDE DEF one, other
    <2>3. /\ one.id \in {nextId, nextId + 1}
          /\ other.id \in {nextId, nextId + 1}
          /\ one.id # other.id
        BY <1>b, HalvesFacts DEF one, other
    <2>4. CASE OpenPush({one, other}) /\ dstack' = dstack
        BY <1>b, <1>e, <2>2, <2>3, <2>4
    <2>5. CASE OpenPush({other}) /\ dstack' = dstack
        BY <1>b, <1>e, <2>2, <2>3, <2>5
    <2>6. CASE dstack' = Append(dstack, other)
               /\ UNCHANGED <<heap, keyHeap, byId>>
        <3>1. /\ Len(dstack') = Len(dstack) + 1
              /\ \A i \in 1 .. Len(dstack) : dstack'[i] = dstack[i]
              /\ dstack'[Len(dstack) + 1] = other
            <4>1. dstack \in Seq(Range(dstack) \cup {other})
                BY <1>b, RangeOf, SeqMonotonic, SeqOfRange
            <4> QED BY <2>6, <4>1, AppendProperties
        <3>2. \A i \in 1 .. Len(dstack') :
                \/ i \in 1 .. Len(dstack) /\ dstack'[i] = dstack[i]
                \/ i = Len(dstack) + 1 /\ dstack'[i] = other
            BY <1>b, <3>1
        <3>3. /\ \A i \in 1 .. Len(dstack) : other.id # dstack[i].id
              /\ \A n \in heap : other.id # n.id
              /\ \A e \in keyHeap : other.id # e.id
            BY <1>b, <1>c, <2>3 DEF IdsAreNodes
        <3>4. /\ \A n \in heap : n.id < nextId'
              /\ \A i \in 1 .. Len(dstack) : dstack[i].id < nextId'
              /\ \A e \in keyHeap : e.id < nextId'
              /\ other.id < nextId'
            BY <1>b, <1>c, <2>2, <2>3 DEF IdsAreNodes
        <3>5. \A i, j \in 1 .. Len(dstack') :
                  dstack'[i].id = dstack'[j].id => i = j
            BY <3>2, <3>3 DEF IdsAreNodes
        <3>6. \A i \in 1 .. Len(dstack') :
                /\ \A n \in heap : n.id # dstack'[i].id
                /\ \A e \in keyHeap : e.id # dstack'[i].id
                /\ dstack'[i].id < nextId'
            BY <3>2, <3>3, <3>4 DEF IdsAreNodes
        <3>7. \A m, n \in heap : m.id = n.id => m = n
            BY DEF IdsAreNodes
        <3>8. IdsAreNodes'
            BY <2>6, <3>4, <3>5, <3>6, <3>7 DEF IdsAreNodes
        <3> QED BY <1>d, <2>6, <3>8
    <2> QED BY <2>2, <2>4, <2>5, <2>6 DEF Places
<1>8. CASE HeldStays
    BY <1>1, <1>8 DEF HeldStays
<1>9. CASE SelectNext \/ FromRound
    BY <1>1, <1>9 DEF SelectNext, FromRound, counts
<1> QED BY <1>2, <1>3, <1>4, <1>5, <1>6, <1>7, <1>8, <1>9, HeldSteps

-----------------------------------------------------------------------------
(* The nodes are nodes, and the keys are keys.                               *)

\* The box in hand, and what it is cut into.
LEMMA BoxFacts ==
    ASSUME Types
    PROVE  /\ Box \subseteq cur.box /\ Box \subseteq kept
           /\ kept \subseteq ModelBox /\ ModelBox \subseteq model.root
           /\ model.root \subseteq Points /\ model \in Models
           /\ Box \in SUBSET Points
           /\ \A p \in model.root : model.cost[p] \in Keys /\ p # NoPoint
           /\ cur # NoNode =>
                   /\ cur \in Sound(model) /\ cur.box \subseteq model.root
                              /\ IsBound(model.cost, cur.box, cur.key)
                              /\ IsBound(model.cost, Box, cur.key)
                              /\ cur.key \in NodeKeys /\ cur.depth \in Nat
<1>1. /\ kept \subseteq ModelBox /\ ModelBox \subseteq model.root
      /\ <<model, shape>> \in Worlds
    BY DEF Types, FoundTypes, InputTypes
<1>2. /\ model.root \subseteq Points /\ model \in Models
      /\ \A p \in model.root : model.cost[p] \in Keys /\ p # NoPoint
    BY <1>1, WorldFacts
<1>3. Box \subseteq cur.box /\ Box \subseteq kept
    BY DEF Box
<1>4. ASSUME cur # NoNode
      PROVE  /\ cur \in Sound(model) /\ cur.box \subseteq model.root
             /\ IsBound(model.cost, cur.box, cur.key)
             /\ IsBound(model.cost, Box, cur.key)
             /\ cur.key \in NodeKeys /\ cur.depth \in Nat
    <2>1. cur \in Sound(model)
        BY <1>4 DEF Types, HandTypes
    <2> QED BY <1>3, <2>1, SoundFacts, BoundOfPart
<1> QED BY <1>1, <1>2, <1>3, <1>4

LEMMA SplitFacts ==
    ASSUME Types, NEW s, s \in Splits[Box] \/ s \in OpenPieces
    PROVE  /\ s.down \subseteq Box /\ s.up \subseteq Box
           /\ Empty(model.cost, Box \ (s.down \cup s.up))
<1>1. Box \in SUBSET Points /\ model \in Models
    BY BoxFacts
<1>2. s \in Splits[Box] \cup PieceSplits[Box]
    BY DEF OpenPieces
<1> QED BY <1>1, <1>2, MipTreeAssumption

LEMMA ChildIsSound ==
    ASSUME Types, cur # NoNode, NEW B \in SUBSET Box, NEW i \in Nat,
           NEW k \in NodeKeys, IsBound(model.cost, Box, k)
    PROVE  /\ Child(B, i, k) \in Sound(model)
           /\ Child(B, i, k).box = B /\ Child(B, i, k).key = k
<1>1. B \in SUBSET model.root /\ cur.depth + 1 \in Nat
    BY BoxFacts
<1>2. IsBound(model.cost, B, k)
    BY BoundOfPart
<1> QED BY <1>1, <1>2, MakesSound DEF Child

LEMMA SidesAreSound ==
    ASSUME Types, cur # NoNode, NEW s \in OpenPieces
    PROVE  /\ Sides(s) \subseteq Sound(model)
           /\ \A n \in Sides(s) : n.key = cur.key /\ n.box \subseteq Box
           /\ \A p \in Box : Feasible(model.cost, p) =>
                \E n \in Sides(s) : p \in n.box
<1>1. /\ s.down \in SUBSET Box /\ s.up \in SUBSET Box
      /\ Empty(model.cost, Box \ (s.down \cup s.up))
    BY SplitFacts
<1>2. /\ nextId \in Nat /\ cur.key \in NodeKeys
      /\ IsBound(model.cost, Box, cur.key)
    BY BoxFacts DEF Types, HeldTypes
<1> DEFINE down == Child(s.down, nextId, cur.key)
           up == Child(s.up, nextId + (IF s.down = {} THEN 0 ELSE 1), cur.key)
<1>3. /\ down \in Sound(model) /\ down.box = s.down /\ down.key = cur.key
      /\ up \in Sound(model) /\ up.box = s.up /\ up.key = cur.key
    <2>1. nextId + (IF s.down = {} THEN 0 ELSE 1) \in Nat
        BY <1>2
    <2> QED BY <1>1, <1>2, <2>1, ChildIsSound
<1>4. Sides(s) = {n \in {down, up} : n.box # {}}
    BY DEF Sides
<1> HIDE DEF down, up
<1>5. ASSUME NEW p \in Box, Feasible(model.cost, p)
      PROVE  \E n \in Sides(s) : p \in n.box
    <2>1. p \in s.down \/ p \in s.up
        BY <1>1, <1>5 DEF Empty
    <2> QED BY <1>3, <1>4, <2>1
<1> QED BY <1>1, <1>3, <1>4, <1>5

LEMMA HalvesAreSound ==
    ASSUME Types, Placement, pc = "close", NEW s \in Splits[Box],
           NEW side \in 1 .. 2
    PROVE  LET one == Halves(s)[side]
               other == Halves(s)[3 - side]
           IN /\ one \in Sound(model) /\ other \in Sound(model)
              /\ one.key = key /\ other.key = key
              /\ \A p \in Box : Feasible(model.cost, p) =>
                    p \in one.box \/ p \in other.box
<1>1. /\ s.down \in SUBSET Box /\ s.up \in SUBSET Box
      /\ Empty(model.cost, Box \ (s.down \cup s.up))
    BY SplitFacts
<1>2. /\ cur # NoNode /\ key \in NodeKeys /\ nextId \in Nat
      /\ nextId + 1 \in Nat
      /\ IsBound(model.cost, Box, key)
    BY DEF Placement, AtNode, Types, HandTypes, HeldTypes
<1> DEFINE h == Halves(s)
<1>3. /\ h[1] = Child(s.down, nextId, key)
      /\ h[2] = Child(s.up, nextId + 1, key)
    BY DEF Halves
<1>4. /\ h[1] \in Sound(model) /\ h[1].key = key /\ h[1].box = s.down
      /\ h[2] \in Sound(model) /\ h[2].key = key /\ h[2].box = s.up
    BY <1>1, <1>2, <1>3, ChildIsSound
<1> HIDE DEF h
<1>5. \A p \in Box : Feasible(model.cost, p) =>
        p \in h[1].box \/ p \in h[2].box
    BY <1>1, <1>4 DEF Empty
<1>6. /\ side = 1 \/ side = 2
      /\ 3 - 1 = 2 /\ 3 - 2 = 1
    OBVIOUS
<1>7. CASE side = 1
    BY <1>4, <1>5, <1>6, <1>7 DEF h
<1>8. CASE side = 2
    BY <1>4, <1>5, <1>6, <1>8 DEF h
<1> QED BY <1>6, <1>7, <1>8

LEMMA PushTypes ==
    ASSUME HeldTypes, NEW N \in SUBSET Sound(model), OpenPush(N)
    PROVE  /\ heap' \subseteq Sound(model)
           /\ keyHeap' \subseteq Entries /\ byId' \subseteq Nat
<1>1. \A n \in N : Entry(n) \in Entries /\ n.id \in Nat
    BY SoundFacts DEF Entry, Entries
<1> QED BY <1>1 DEF OpenPush, HeldTypes

LEMMA HeldTypesStep ==
    ASSUME Types, Placement, Next PROVE HeldTypes'
<1>0. model' = model
    BY NextFixes
<1>1. /\ HeldTypes /\ next \in Sound(model) \cup {NoNode}
      /\ round \in Seq(Sound(model)) /\ dstack \in Seq(Sound(model))
      /\ backtracks \in Nat /\ nextId \in Nat
    BY DEF Types, HeldTypes
<1>2. <<>> \in Seq(Sound(model))
    BY EmptySeq
<1> USE DEF held, counts, bounds
<1>3. CASE HeldStays
    BY <1>0, <1>1, <1>3 DEF HeldStays, HeldTypes
<1>4. CASE StartsAgain
    BY <1>0, <1>1, <1>4 DEF StartsAgain, Restarts, HeldTypes
<1>5. CASE SelectNext
    BY <1>0, <1>1, <1>5 DEF SelectNext, HeldTypes
<1>6. CASE Resume
    <2>1. /\ dstack # <<>> /\ dstack' = Front(dstack)
          /\ UNCHANGED <<heap, next, round, keyHeap, byId, nextId>>
        BY <1>6 DEF Resume, MayResume
    <2>2. backtracks' = backtracks + (IF IsOpen(Last(dstack)) THEN 1 ELSE 0)
        BY <1>6 DEF Resume
    <2>3. backtracks' \in Nat
        BY <1>1, <2>2
    <2>4. dstack' \in Seq(Sound(model))
        BY <1>1, <2>1, FrontOf
    <2> QED BY <1>0, <1>1, <2>1, <2>3, <2>4 DEF HeldTypes
<1>7. CASE FromRound
    <2>1. Tail(round) \in Seq(Sound(model))
        BY <1>1, <1>7, HeadTailProperties DEF FromRound
    <2> QED BY <1>0, <1>1, <1>7, <2>1 DEF FromRound, HeldTypes
<1>8. CASE StartRound
    <2>1. /\ OpenPush(Range(dstack)) /\ dstack' = <<>> /\ backtracks' = 0
          /\ UNCHANGED <<next, round, nextId>>
        BY <1>8 DEF StartRound
    <2>2. Range(dstack) \in SUBSET Sound(model)
        BY <1>1, RangeOf
    <2>3. /\ heap' \subseteq Sound(model)
          /\ keyHeap' \subseteq Entries /\ byId' \subseteq Nat
        BY <1>1, <2>1, <2>2, PushTypes
    <2> QED BY <1>0, <1>1, <1>2, <2>1, <2>3 DEF HeldTypes
<1>9. CASE Picks
    <2>1. PICK n \in heap : Pick(n)
        BY <1>9 DEF Picks
    <2>2. /\ round' = round \/ round' = Append(round, n)
          /\ heap' = heap \ {n}
          /\ keyHeap' = keyHeap \/ keyHeap' = Pruned
          /\ byId' = byId \ {n.id}
          /\ UNCHANGED <<dstack, next, nextId, backtracks>>
        BY <2>1 DEF Pick, OpenPick
    <2>3. n \in Sound(model)
        BY <1>1 DEF HeldTypes
    <2>4. round' \in Seq(Sound(model))
        BY <1>1, <2>2, <2>3, RangeOfAppend
    <2>5. Pruned \subseteq keyHeap
        BY DEF Pruned
    <2> QED BY <1>0, <1>1, <2>2, <2>4, <2>5 DEF HeldTypes
<1>10. CASE Pushes
    <2>1. PICK s \in OpenPieces : OpensPiece(s)
        BY <1>10 DEF Pushes
    <2>2. /\ OpenPush(Sides(s))
          /\ nextId' = nextId + Cardinality(Sides(s))
          /\ UNCHANGED <<dstack, next, round, backtracks>>
        BY <2>1 DEF OpensPiece
    <2>3. cur # NoNode
        BY <2>1 DEF OpensPiece, Ends, Placement
    <2>4. Sides(s) \in SUBSET Sound(model)
        BY <2>3, SidesAreSound
    <2>5. /\ heap' \subseteq Sound(model)
          /\ keyHeap' \subseteq Entries /\ byId' \subseteq Nat
        BY <1>1, <2>2, <2>4, PushTypes
    <2>6. nextId' \in Nat
        BY <1>1, <2>2, SidesFacts
    <2> QED BY <1>0, <1>1, <2>2, <2>5, <2>6 DEF HeldTypes
<1>11. CASE Parts
    <2>1. PICK s \in Splits[Box], side \in 1 .. 2, dives \in BOOLEAN :
              Branches(s, side, dives)
        BY <1>11 DEF Parts
    <2> DEFINE one == Halves(s)[side]
               other == Halves(s)[3 - side]
    <2>2. /\ Places(one, other, dives) /\ nextId' = nextId + 2
          /\ UNCHANGED <<round, backtracks>> /\ pc = "close"
        BY <2>1 DEF Branches
    <2>3. one \in Sound(model) /\ other \in Sound(model)
        BY <2>2, HalvesAreSound
    <2> HIDE DEF one, other
    <2>4. nextId' \in Nat
        BY <1>1, <2>2
    <2>5. CASE OpenPush({one, other}) /\ UNCHANGED <<next, dstack>>
        <3>1. /\ heap' \subseteq Sound(model)
              /\ keyHeap' \subseteq Entries /\ byId' \subseteq Nat
            BY <1>1, <2>3, <2>5, PushTypes
        <3> QED BY <1>0, <1>1, <2>2, <2>4, <2>5, <3>1 DEF HeldTypes
    <2>6. CASE next' = one /\ OpenPush({other}) /\ dstack' = dstack
        <3>1. /\ heap' \subseteq Sound(model)
              /\ keyHeap' \subseteq Entries /\ byId' \subseteq Nat
            BY <1>1, <2>3, <2>6, PushTypes
        <3> QED BY <1>0, <1>1, <2>2, <2>3, <2>4, <2>6, <3>1 DEF HeldTypes
    <2>7. CASE next' = one /\ dstack' = Append(dstack, other)
               /\ UNCHANGED <<heap, keyHeap, byId>>
        <3>1. dstack' \in Seq(Sound(model))
            BY <1>1, <2>3, <2>7, RangeOfAppend
        <3> QED BY <1>0, <1>1, <2>2, <2>3, <2>4, <2>7, <3>1 DEF HeldTypes
    <2> QED BY <2>2, <2>5, <2>6, <2>7 DEF Places
<1> QED BY <1>3, <1>4, <1>5, <1>6, <1>7, <1>8, <1>9, <1>10, <1>11, HeldSteps

\* The node in hand: it is done with, the next one is taken, or it has been
\* solved.
Relaxing == cur' = cur /\ \E k \in Relaxed : Relaxes(k)
HandStep ==
    \/ UNCHANGED node \/ Drops \/ SelectNext \/ Resume \/ FromRound
    \/ Relaxing \/ StartsAgain
LEMMA HandSteps == Next => HandStep
<1> SUFFICES ASSUME Next PROVE HandStep
    OBVIOUS
<1> USE DEF HandStep, Relaxing
<1>1. CASE Select
    BY <1>1 DEF Select, StartRound, Pick, RoundSolves, Exhausted
<1>2. CASE Hands
    BY <1>2 DEF Hands, HandedAtTop, HandedAtStop, HandedRefused, Stops
<1>3. CASE Solve
    BY <1>3 DEF Solve, LimitStops, NodeInfeasible, NodeFails, NodeStops,
                SearchesPoint, NodeSolved, OpensPiece, Stops
<1>4. CASE Cuts
    BY <1>4 DEF Cuts, CutsSolved, NoCuts, CutsEmpty, CutsStop, Stops
<1>5. CASE Heuristic
    BY <1>5 DEF Heuristic, HeuristicFinds, RoundingFinds, HeuristicFails,
                HeuristicsEnd, RoundingFails, PointFound, Stops
<1>6. CASE Callback
    BY <1>6 DEF Callback, CallbackPasses, CallbackRow, CallbackRowEmpty,
                CallbackStops, Stops
<1>7. CASE Fix
    BY <1>7 DEF Fix, StartsAgain, Fixes, NoFix
<1>8. CASE Close
    BY <1>8 DEF Close, ProgressStops, ClosedByIncumbent, LeafTaken, LeafDone,
                ProbesFail, Branches, Stops
<1>9. CASE End
    BY <1>9 DEF End, Finish, OutOfMemory, StaleRead
<1> QED BY <1>1, <1>2, <1>3, <1>4, <1>5, <1>6, <1>7, <1>8, <1>9 DEF Next

\* The box that the reduced costs leave.
LEMMA KeptSteps == Next => kept' = kept \/ StartsAgain \/ FixesSome
<1> SUFFICES ASSUME Next PROVE kept' = kept \/ StartsAgain \/ FixesSome
    OBVIOUS
<1> USE DEF bounds
<1>1. CASE Select
    BY <1>1 DEF Select, SelectNext, Resume, FromRound, StartRound, Pick,
                RoundSolves, Exhausted
<1>2. CASE Hands
    BY <1>2 DEF Hands, HandedAtTop, HandedAtStop, HandedRefused
<1>3. CASE Solve
    BY <1>3 DEF Solve, LimitStops, NodeInfeasible, NodeFails, NodeStops,
                SearchesPoint, NodeSolved, OpensPiece
<1>4. CASE Cuts
    BY <1>4 DEF Cuts, CutsSolved, NoCuts, CutsEmpty, CutsStop
<1>5. CASE Heuristic
    BY <1>5 DEF Heuristic, HeuristicFinds, RoundingFinds, HeuristicFails,
                HeuristicsEnd, RoundingFails
<1>6. CASE Callback
    BY <1>6 DEF Callback, CallbackPasses, CallbackRow, CallbackRowEmpty,
                CallbackStops
<1>7. CASE Fix
    BY <1>7 DEF Fix, StartsAgain, FixesSome, NoFix
<1>8. CASE Close
    BY <1>8 DEF Close, ProgressStops, ClosedByIncumbent, LeafTaken, LeafDone,
                ProbesFail, Branches
<1>9. CASE End
    BY <1>9 DEF End, Finish, OutOfMemory, StaleRead
<1> QED BY <1>1, <1>2, <1>3, <1>4, <1>5, <1>6, <1>7, <1>8, <1>9 DEF Next

LEMMA HandTypesStep ==
    ASSUME Types, Next PROVE HandTypes'
<1>0. model' = model
    BY NextFixes
<1>1. HandTypes /\ HeldTypes /\ NegInf \in NodeKeys
    BY KeyFacts DEF Types
<1>2. ASSUME NEW n \in Sound(model) \cup {NoNode}, Takes(n) PROVE HandTypes'
    BY <1>0, <1>1, <1>2 DEF Takes, HandTypes
<1>3. CASE UNCHANGED node
    BY <1>0, <1>1, <1>3 DEF node, HandTypes
<1>4. CASE Drops
    BY <1>0, <1>1, <1>4 DEF Drops, HandTypes
<1>5. CASE SelectNext
    BY <1>1, <1>2, <1>5 DEF SelectNext, HeldTypes
<1>6. CASE Resume
    <2>1. Last(dstack) \in Sound(model)
        BY <1>1, <1>6, FrontOf DEF Resume, MayResume, HeldTypes
    <2> QED BY <1>2, <1>6, <2>1 DEF Resume
<1>7. CASE FromRound
    <2>1. Head(round) \in Sound(model)
        BY <1>1, <1>7, RangeOfTail DEF FromRound, HeldTypes
    <2> QED BY <1>2, <1>7, <2>1 DEF FromRound
<1>8. CASE Relaxing
    BY <1>0, <1>1, <1>8, KeyFacts DEF Relaxing, Relaxes, HandTypes
<1>9. CASE StartsAgain
    <2>1. PICK S \in SUBSET kept : Restarts(S)
        BY <1>9 DEF StartsAgain
    <2>2. /\ S \in SUBSET model.root /\ model.root \subseteq Points
          /\ \A p \in model.root : model.cost[p] \in Keys
        BY BoxFacts
    <2>3. IsBound(model.cost, S, NegInf)
        BY <2>2, KeyFacts DEF IsBound
    <2>4. Root(S) \in Sound(model)
        BY <1>1, <2>2, <2>3, MakesSound DEF Root
    <2> QED BY <1>0, <1>1, <2>1, <2>4 DEF Restarts, HandTypes
<1> QED BY <1>3, <1>4, <1>5, <1>6, <1>7, <1>8, <1>9, HandSteps DEF HandStep

\* What is offered is a point of the model.
LEMMA OfferedFacts ==
    ASSUME Types, NEW f \in AnyPoint, Offered(f)
    PROVE  /\ f \in Incumbents /\ f.point \in ModelBox /\ f.point # NoPoint
           /\ f.key \in Relaxed /\ model.cost[f.point] <= f.key
<1>1. /\ f \in [point : ModelBox, key : Relaxed]
      /\ ~(f.key < model.cost[f.point])
    BY DEF Offered, CutOff, Found
<1>2. /\ f.point \in Points /\ f.key \in Keys /\ f.key \in Int
      /\ model.cost[f.point] \in Int /\ f.point # NoPoint
    BY <1>1, BoxFacts, KeyFacts DEF NodeKeys
<1> QED BY <1>1, <1>2 DEF Incumbents

LEMMA LeafFacts ==
    ASSUME Types, NEW p \in Box, LeafTaken(p)
    PROVE  /\ inc' = [point |-> p, key |-> key] /\ first' = first
           /\ inc' \in Incumbents /\ key < inc.key
           /\ p \in ModelBox /\ p # NoPoint /\ model.cost[p] = key
           /\ Closed(inc', key)
<1>1. /\ ~Closed(inc, key) /\ p \in LeafPoints(key)
      /\ first' = first
      /\ inc' = IF key < inc.key THEN [point |-> p, key |-> key] ELSE inc
    BY DEF LeafTaken, Offer, counts
<1>2. /\ inc.key \in Keys /\ inc.key \in Int /\ inc.key <= Inf /\ Inf \in Int
      /\ key \in Keys /\ key \in Int /\ key < Inf
      /\ Slack[inc.key] \in Nat /\ Slack[key] \in Nat
    BY KeyFacts DEF Types, FoundTypes, HandTypes, Incumbents
<1>3. key < inc.key
    BY <1>1, <1>2 DEF Closed
<1>4. p \in ModelBox /\ p \in Points /\ p # NoPoint
    BY BoxFacts
<1>5. inc' = [point |-> p, key |-> key] /\ inc' \in Incumbents
    BY <1>1, <1>2, <1>3, <1>4 DEF Incumbents
<1>6. Closed(inc', key)
    BY <1>2, <1>5 DEF Closed
<1>7. model.cost[p] = key
    BY <1>1 DEF LeafPoints
<1> QED BY <1>1, <1>3, <1>4, <1>5, <1>6, <1>7

LEMMA FoundTypesStep ==
    ASSUME Types, Next PROVE FoundTypes'
<1>0. model' = model
    BY NextFixes
<1>1. FoundTypes
    BY DEF Types
<1>2. CASE StartsAgain
    <2>1. PICK S \in SUBSET kept : Restarts(S)
        BY <1>2 DEF StartsAgain
    <2>2. /\ first' = [asked |-> TRUE, start |-> inc, box |-> S]
          /\ inc' = [key |-> model.cutoff, point |-> NoPoint]
          /\ kept' = S
        BY <2>1 DEF Restarts
    <2>3. model.cutoff \in Keys
        BY WorldFacts DEF Types, InputTypes
    <2>4. inc' \in Incumbents
        BY <2>2, <2>3 DEF Incumbents
    <2>5. ModelBox' = S
        BY <2>2 DEF ModelBox
    <2>6. S \subseteq model.root
        BY BoxFacts
    <2> QED BY <1>0, <1>1, <2>2, <2>4, <2>5, <2>6 DEF FoundTypes
<1>3. CASE ~StartsAgain
    <2>1. first' = first /\ inc' \in Incumbents
        <3>1. CASE OffersLeaf
            BY <3>1, LeafFacts DEF OffersLeaf
        <3>2. ASSUME NEW f \in AnyPoint, Offered(f) PROVE inc' \in Incumbents
            <4>1. f \in Incumbents
                BY <3>2, OfferedFacts
            <4> QED BY <1>1, <3>2, <4>1 DEF Offered, FoundTypes
        <3> QED BY <1>1, <1>3, <3>1, <3>2, IncumbentSteps
                DEF IncSteps, FoundTypes
    <2>2. kept' \subseteq kept
        BY <1>3, KeptSteps DEF FixesSome, Fixes
    <2>3. ModelBox' = ModelBox
        BY <1>0, <2>1 DEF ModelBox
    <2> QED BY <1>0, <1>1, <2>1, <2>2, <2>3 DEF FoundTypes
<1> QED BY <1>2, <1>3

LEMMA NodesHaveKeys ==
    ASSUME Types
    PROVE  /\ \A n \in heap \cup Range(dstack) \cup Range(round) :
                n \in Sound(model) /\ n.key \in NodeKeys /\ n.key \in Keys
           /\ \A e \in keyHeap : e.key \in Keys
<1>1. heap \cup Range(dstack) \cup Range(round) \subseteq Sound(model)
    BY RangeOf DEF Types, HeldTypes
<1>2. \A n \in Sound(model) : n.key \in NodeKeys /\ n.key \in Keys
    BY SoundFacts, KeyFacts
<1>3. \A e \in Entries : e.key \in Keys
    BY KeyFacts DEF Entries
<1> QED BY <1>1, <1>2, <1>3 DEF Types, HeldTypes

\* What open_bound returns, and the least of a round.
LEMMA OpenBoundFacts ==
    ASSUME Types, KeyHeapAgrees
    PROVE  /\ OpenBound \in Keys
           /\ \A n \in heap \cup Range(dstack) : OpenBound <= n.key
           /\ OpenBound = MinKey({n.key : n \in Range(dstack)}
                                 \cup {n.key : n \in heap})
<1> DEFINE K == {n.key : n \in Range(dstack)} \cup {n.key : n \in heap}
<1>1. (IF cfg.byEst THEN {e.key : e \in Live} ELSE {n.key : n \in heap})
          = {n.key : n \in heap}
    <2>1. ASSUME cfg.byEst PROVE {e.key : e \in Live} = {n.key : n \in heap}
        <3>1. Live = {Entry(n) : n \in heap}
            BY <2>1 DEF KeyHeapAgrees
        <3> QED BY <3>1, EntryFacts
    <2> QED BY <2>1
<1>2. OpenBound = MinKey(K)
    BY <1>1 DEF OpenBound
<1>3. K \in SUBSET Keys
    BY NodesHaveKeys
<1>4. \A n \in heap \cup Range(dstack) : n.key \in K
    OBVIOUS
<1> HIDE DEF K
<1>5. /\ OpenBound \in Keys
      /\ \A n \in heap \cup Range(dstack) : OpenBound <= n.key
    BY <1>2, <1>3, <1>4, LeastKey
<1> QED BY <1>2, <1>5 DEF K

LEMMA RoundBoundFacts ==
    ASSUME Types
    PROVE  RoundBound \in Keys /\ \A n \in Range(round) : RoundBound <= n.key
<1> DEFINE K == {n.key : n \in Range(round)}
<1>1. K \in SUBSET Keys /\ RoundBound = MinKey(K)
    BY NodesHaveKeys DEF RoundBound
<1>2. \A n \in Range(round) : n.key \in K
    OBVIOUS
<1> HIDE DEF K
<1> QED BY <1>1, <1>2, LeastKey

\* The bound that is published.
LEMMA EndBoundFacts ==
    ASSUME Types, KeyHeapAgrees
    PROVE  /\ EndBound \in Keys
           /\ HasIncumbent /\ outcome' = "OPTIMAL" => EndBound = inc.key
           /\ ~(HasIncumbent /\ outcome' = "OPTIMAL") =>
                /\ \A n \in heap \cup Range(dstack) : EndBound <= n.key
                /\ EndBound <= parkedKey /\ EndBound <= bestBound
<1> DEFINE K == {OpenBound, parkedKey, bestBound}
           b == MinKey(K)
<1>1. /\ OpenBound \in Keys /\ parkedKey \in Keys /\ bestBound \in Keys
      /\ inc.key \in Keys
    BY OpenBoundFacts DEF Types, CountTypes, FoundTypes, Incumbents
<1>2. EndBound = IF HasIncumbent /\ (outcome' = "OPTIMAL" \/ b > inc.key)
                 THEN inc.key ELSE b
    BY DEF EndBound
<1>3. b \in Keys /\ b <= OpenBound /\ b <= parkedKey /\ b <= bestBound
    <2>1. /\ K \in SUBSET Keys
          /\ OpenBound \in K /\ parkedKey \in K /\ bestBound \in K
        BY <1>1
    <2> HIDE DEF K
    <2> QED BY <2>1, LeastKey
<1> HIDE DEF b
<1>4. EndBound \in Keys
    BY <1>1, <1>2, <1>3
<1>5. /\ OpenBound \in Int /\ parkedKey \in Int /\ bestBound \in Int
      /\ inc.key \in Int /\ b \in Int /\ EndBound \in Int
    BY <1>1, <1>3, <1>4, KeyFacts
<1>6. ASSUME ~(HasIncumbent /\ outcome' = "OPTIMAL")
      PROVE  EndBound <= b
    BY <1>2, <1>6, <1>5
<1>7. ASSUME ~(HasIncumbent /\ outcome' = "OPTIMAL")
      PROVE  /\ EndBound <= OpenBound /\ EndBound <= parkedKey
             /\ EndBound <= bestBound
    BY <1>3, <1>6, <1>7, <1>5
<1>8. ASSUME ~(HasIncumbent /\ outcome' = "OPTIMAL"),
             NEW n \in heap \cup Range(dstack)
      PROVE  EndBound <= n.key
    <2>1. OpenBound <= n.key /\ n.key \in Keys
        BY OpenBoundFacts, NodesHaveKeys
    <2>2. n.key \in Int
        BY <2>1, KeyFacts
    <2> QED BY <1>7, <1>8, <1>5, <2>1, <2>2
<1> QED BY <1>2, <1>4, <1>7, <1>8

LEMMA CountTypesStep ==
    ASSUME Types, Placement, KeyHeapAgrees, Next PROVE CountTypes'
<1>0. model' = model
    BY NextFixes
<1>1. /\ CountTypes /\ key \in Keys /\ Relaxed \subseteq Keys
      /\ NegInf \in Keys /\ Inf \in Keys
    BY KeyFacts DEF Types, HandTypes
<1> USE DEF bounds, counts, result, locals, Stops, Stopped, AnyStop, Outcomes
<1>2. CASE Select
    <2>1. CASE FromRound
        BY <1>1, <2>1, RoundBoundFacts DEF FromRound, CountTypes
    <2> QED BY <1>1, <1>2, <2>1
            DEF Select, SelectNext, Resume, StartRound, Pick, RoundSolves,
                Exhausted, CountTypes
<1>3. CASE Hands
    BY <1>1, <1>3
       DEF Hands, HandedAtTop, HandedAtStop, HandedRefused, CountTypes
<1>4. CASE Solve
    <2>1. CASE NodeFails
        <3>1. cur # NoNode
            BY <2>1 DEF NodeFails, Ends, Placement
        <3>2. cur.key \in NodeKeys /\ cur.key \in Keys /\ Box \in SUBSET Points
            BY <3>1, BoxFacts, KeyFacts
        <3>3. aside' \subseteq Apart
            BY <1>1, <2>1, <3>2 DEF NodeFails, Apart, CountTypes
        <3>4. parkedKey' \in Keys
            BY <1>1, <2>1, <3>2 DEF NodeFails, LeastOf, CountTypes
        <3> QED BY <1>1, <2>1, <3>3, <3>4
                DEF NodeFails, Counts, Drops, CountTypes
    <2>2. CASE \E k \in Relaxed : NodeSolved(k)
        BY <1>1, <2>2 DEF NodeSolved, Counts, CountTypes
    <2>3. CASE NodeInfeasible \/ \E s \in OpenPieces : OpensPiece(s)
        BY <1>1, <2>3 DEF NodeInfeasible, OpensPiece, Counts, Drops, CountTypes
    <2>4. CASE \/ \E v \in Stopped : LimitStops(v)
               \/ \E v \in AnyStop : NodeStops(v)
        BY <1>1, <2>4 DEF LimitStops, NodeStops, Counts, CountTypes
    <2>5. CASE \E v \in AnyStop \cup {"UNBOUNDED", "INFEASIBLE"} :
                   SearchesPoint(v)
        BY <1>1, <2>5 DEF SearchesPoint, Counts, Drops, CountTypes
    <2> QED BY <1>4, <2>1, <2>2, <2>3, <2>4, <2>5 DEF Solve
<1>5. CASE Cuts
    BY <1>1, <1>5 DEF Cuts, CutsSolved, NoCuts, CutsEmpty, CutsStop, Drops,
                      CountTypes
<1>6. CASE Heuristic
    BY <1>1, <1>6 DEF Heuristic, HeuristicFinds, RoundingFinds,
           HeuristicFails, HeuristicsEnd, RoundingFails, PointFound, CountTypes
<1>7. CASE Callback
    BY <1>1, <1>7 DEF Callback, CallbackPasses, CallbackRow, CallbackRowEmpty,
                      CallbackStops, Drops, CountTypes
<1>8. CASE Fix
    BY <1>1, <1>8 DEF Fix, Restarts, Fixes, NoFix, Larger, CountTypes
<1>9. CASE Close
    BY <1>1, <1>9 DEF Close, ProgressStops, ClosedByIncumbent, LeafTaken,
           LeafDone, ProbesFail, Branches, Drops, CountTypes
<1>10. CASE End
    BY <1>1, <1>10, EndBoundFacts
       DEF End, Finish, OutOfMemory, StaleRead, CountTypes
<1> QED BY <1>2, <1>3, <1>4, <1>5, <1>6, <1>7, <1>8, <1>9, <1>10 DEF Next

LEMMA TypesStep ==
    ASSUME Types, Placement, KeyHeapAgrees, Next PROVE Types'
<1>1. InputTypes'
    BY NextFixes DEF Types, InputTypes
<1> QED BY <1>1, HeldTypesStep, HandTypesStep, FoundTypesStep, CountTypesStep
        DEF Types

-----------------------------------------------------------------------------
(* Where the nodes are.                                                      *)

LEMMA SameBox == ASSUME UNCHANGED <<cur, kept>> PROVE Box' = Box
PROOF BY DEF Box

\* The nodes that the choice of the next one may take.
LEMMA TakenFacts ==
    ASSUME Types, SelectNext \/ Resume \/ FromRound
    PROVE  \E n \in Sound(model) : n # NoNode /\ Takes(n)
<1>1. CASE SelectNext
    <2>1. next \in Sound(model) /\ next # NoNode
        BY <1>1 DEF SelectNext, Types, HeldTypes
    <2> QED BY <1>1, <2>1 DEF SelectNext
<1>2. CASE Resume
    <2>1. Last(dstack) \in Sound(model)
        BY <1>2, FrontOf DEF Resume, MayResume, Types, HeldTypes
    <2>2. Last(dstack) # NoNode
        BY <2>1, SoundFacts
    <2> QED BY <1>2, <2>1, <2>2 DEF Resume
<1>3. CASE FromRound
    <2>1. Head(round) \in Sound(model)
        BY <1>3, RangeOfTail DEF FromRound, Types, HeldTypes
    <2>2. Head(round) # NoNode
        BY <2>1, SoundFacts
    <2> QED BY <1>3, <2>1, <2>2 DEF FromRound
<1> QED BY <1>1, <1>2, <1>3

LEMMA PlacementStep ==
    ASSUME Types, Placement, Next PROVE Placement'
<1>0. model' = model
    BY NextFixes
<1> USE DEF Goes, AtNode, Over, bounds, counts, result, locals
<1>1. CASE Select
    <2>1. CASE SelectNext \/ Resume \/ FromRound
        <3>1. PICK n \in Sound(model) : n # NoNode /\ Takes(n)
            BY <2>1, TakenFacts
        <3>2. /\ key = NegInf /\ key' = key /\ code = "OK" /\ bound = NegInf
              /\ UNCHANGED <<code, bound>>
            BY <2>1, <3>1
               DEF Placement, Takes, SelectNext, Resume, FromRound
        <3>3. \/ pc' = "limits" /\ cur' = n
              \/ pc' = "select" /\ cur' = NoNode
            BY <3>1 DEF Takes
        <3> QED BY <3>1, <3>2, <3>3 DEF Placement
    <2>2. CASE StartRound
        BY <2>2 DEF StartRound, node, Placement
    <2>3. CASE \/ \E n \in heap : Pick(n)
               \/ RoundSolves \/ Exhausted
        BY <2>3 DEF Pick, RoundSolves, Exhausted, node, held, Placement
    <2> QED BY <1>1, <2>1, <2>2, <2>3 DEF Select
<1>2. CASE Hands
    BY <1>2, SameBox
       DEF Hands, HandedAtTop, HandedAtStop, HandedRefused, Stops, node,
           TakesHanded, held, Placement
<1> DEFINE Related == IsBound(model.cost, Box, key') /\ cur.key <= key'
                      /\ key' \in Relaxed
<1>a. ASSUME NEW k \in Relaxed, Relaxes(k), cur # NoNode
      PROVE  Related
    <2>1. cur.key \in NodeKeys /\ key \in NodeKeys
        BY <1>a, BoxFacts DEF Types, HandTypes
    <2>2. cur.key \in Int /\ key \in Int /\ k \in Int
        BY <2>1, KeyFacts DEF NodeKeys
    <2> QED BY <1>a, <2>1, <2>2 DEF Relaxes, Larger
<1> HIDE DEF Related
<1>3. CASE Solve
    <2>1. CASE \/ NodeInfeasible \/ NodeFails
               \/ \E s \in OpenPieces : OpensPiece(s)
        BY <2>1
           DEF NodeInfeasible, NodeFails, OpensPiece, Drops, Stops, Ends, node,
               Placement
    <2>2. CASE \/ \E v \in Stopped : LimitStops(v)
               \/ \E v \in AnyStop : NodeStops(v)
               \/ \E v \in AnyStop \cup {"UNBOUNDED", "INFEASIBLE"} :
                      SearchesPoint(v)
        BY <2>2 DEF LimitStops, NodeStops, SearchesPoint, Drops, Stops, node,
                    Ends, Placement
    <2>3. ASSUME NEW k \in Relaxed, NodeSolved(k) PROVE Placement'
        <3>1. /\ pc = "limits" /\ Relaxes(k) /\ cur # NoNode
              /\ UNCHANGED <<cur, kept, code, bound>> /\ nodes' = nodes + 1
              /\ pc' \in {"cuts", "heuristics"}
              /\ code = "OK" /\ bound = NegInf
            BY <2>3 DEF NodeSolved, Ends, Counts, Placement
        <3>2. Related /\ Box' = Box
            BY <1>a, <3>1, SameBox
        <3>3. nodes' > 0
            BY <3>1 DEF Types, CountTypes
        <3> QED BY <1>0, <3>1, <3>2, <3>3 DEF Related, Placement
    <2> QED BY <1>3, <2>1, <2>2, <2>3 DEF Solve
<1>4. CASE Cuts
    <2>1. ASSUME NEW k \in Relaxed, CutsSolved(k) PROVE Placement'
        <3>1. /\ pc = "cuts" /\ Relaxes(k)
              /\ UNCHANGED <<cur, kept, code, bound, nodes>>
              /\ pc' \in {"heuristics", "callback"}
            BY <2>1 DEF CutsSolved, AfterCuts
        <3>2. cur # NoNode /\ nodes > 0 /\ code = "OK" /\ bound = NegInf
            BY <3>1 DEF Placement
        <3>3. Related /\ Box' = Box
            BY <1>a, <3>1, <3>2, SameBox
        <3> QED BY <1>0, <3>1, <3>2, <3>3 DEF Related, Placement
    <2>2. CASE NoCuts
        BY <1>0, <2>2, SameBox DEF NoCuts, AfterCuts, node, Placement
    <2>3. CASE CutsEmpty \/ \E v \in AnyStop : CutsStop(v)
        BY <1>0, <2>3 DEF CutsEmpty, CutsStop, Drops, Stops, node, Placement
    <2> QED BY <1>4, <2>1, <2>2, <2>3 DEF Cuts
<1>5. CASE Heuristic
    BY <1>0, <1>5, SameBox
       DEF Heuristic, HeuristicFinds, RoundingFinds, HeuristicFails,
           HeuristicsEnd, RoundingFails, PointFound, Trying, Stops, node,
           Placement
<1>6. CASE Callback
    <2>1. ASSUME NEW k \in Relaxed, CallbackRow(k) PROVE Placement'
        <3>1. /\ pc = "callback" /\ Relaxes(k)
              /\ UNCHANGED <<pc, cur, kept, code, bound, nodes>>
            BY <2>1 DEF CallbackRow, AddsRow
        <3>2. cur # NoNode /\ nodes > 0 /\ code = "OK" /\ bound = NegInf
            BY <3>1 DEF Placement
        <3>3. Related /\ Box' = Box
            BY <1>a, <3>1, <3>2, SameBox
        <3> QED BY <1>0, <3>1, <3>2, <3>3 DEF Related, Placement
    <2>2. CASE CallbackPasses
        BY <1>0, <2>2, SameBox DEF CallbackPasses, node, Placement
    <2>3. CASE CallbackRowEmpty \/ \E v \in AnyStop : CallbackStops(v)
        BY <1>0, <2>3 DEF CallbackRowEmpty, CallbackStops, AddsRow, Drops,
                          Stops, node, Placement
    <2> QED BY <1>6, <2>1, <2>2, <2>3 DEF Callback
<1>7. CASE Fix
    <2>1. ASSUME NEW S \in SUBSET kept, Restarts(S) PROVE Placement'
        <3>1. Root(S) # NoNode
            BY DEF Root, NoNode
        <3>2. /\ pc = "fix" /\ cur' = Root(S) /\ key' = NegInf
              /\ pc' = "limits" /\ UNCHANGED <<code, bound>>
            BY <2>1 DEF Restarts
        <3> QED BY <3>1, <3>2 DEF Placement
    <2>2. ASSUME NEW S \in SUBSET kept, Fixes(S) PROVE Placement'
        <3>1. /\ pc = "fix" /\ kept' = S /\ pc' = "close"
              /\ UNCHANGED <<cur, key, nodes, code, bound>>
            BY <2>2 DEF Fixes, node
        <3>2. Box' \subseteq Box
            BY <3>1 DEF Box
        <3>3. IsBound(model.cost, Box', key)
            BY <3>1, <3>2, BoundOfPart DEF Placement
        <3> QED BY <1>0, <3>1, <3>3 DEF Placement
    <2>3. CASE NoFix
        BY <1>0, <2>3, SameBox DEF NoFix, node, Placement
    <2> QED BY <1>7, <2>1, <2>2, <2>3 DEF Fix
<1>8. CASE Close
    BY <1>0, <1>8, SameBox
       DEF Close, ProgressStops, ClosedByIncumbent, LeafTaken, LeafDone,
           ProbesFail, Branches, Drops, Stops, node, Placement
<1>9. CASE End
    BY <1>9 DEF End, Finish, OutOfMemory, StaleRead, Placement
<1> QED BY <1>1, <1>2, <1>3, <1>4, <1>5, <1>6, <1>7, <1>8, <1>9 DEF Next

LEMMA RootAloneStep ==
    ASSUME Types, Placement, RootAlone, Next PROVE RootAlone'
<1>0. model' = model /\ nodes \in Nat
    BY NextFixes DEF Types, CountTypes
<1> USE DEF Goes, AtNode, Over, bounds, counts, result, locals, held
<1>1. CASE Select
    <2>1. pc \in {"select", "fill"} /\ nodes' = nodes
        BY <1>1 DEF Select, SelectNext, Resume, FromRound, StartRound, Pick,
                    RoundSolves, Exhausted
    <2>2. pc' \in {"select", "fill", "limits", "finish"}
        BY <1>1, <2>1
           DEF Select, SelectNext, Resume, FromRound, StartRound, Pick, Takes,
               RoundSolves, Exhausted
    <2>3. nodes > 0
        BY <1>0, <2>1 DEF RootAlone
    <2> QED BY <2>1, <2>2, <2>3 DEF RootAlone, AtRootNode
\* What leaves the nodes alone.
<1>a. ASSUME UNCHANGED <<heap, dstack, round, next, keyHeap, byId, cur, kept,
                         first, aside>>,
             AtRootNode' => AtRootNode,
             nodes' = 0 => pc' = "limits" \/ Over',
             nodes' = 0 \/ (AtRootNode' /\ pc' \notin {"close", "taken"})
               => nodes = 0 \/ (AtRootNode /\ pc \notin {"close", "taken"})
      PROVE  RootAlone'
    <2>1. ModelBox' = ModelBox
        BY <1>0, <1>a DEF ModelBox
    <2>2. AtRootNode' => /\ NoneWaits' /\ keyHeap' = {} /\ byId' = {}
                         /\ aside' = {} /\ cur' = Root(ModelBox')
        BY <1>a, <2>1 DEF RootAlone, NoneWaits
    <2>3. /\ nodes' = 0 => pc' = "limits" \/ Over'
          /\ nodes' = 0 \/ (AtRootNode' /\ pc' \notin {"close", "taken"})
               => kept' = ModelBox'
        BY <1>a, <2>1 DEF RootAlone
    <2> QED BY <2>2, <2>3 DEF RootAlone
<1>b. ASSUME nodes' > 0, pc' \in {"select", "fill", "limits", "finish",
                                  "returned"}
      PROVE  RootAlone'
    BY <1>b DEF RootAlone, AtRootNode
<1>2. CASE Hands
    <2>1. /\ UNCHANGED <<heap, dstack, round, next, keyHeap, byId, cur, kept,
                         first, aside, nodes>>
          /\ pc \in {"select", "finish"} /\ pc' \in {pc, "finish"}
        BY <1>2 DEF Hands, HandedAtTop, HandedAtStop, HandedRefused, Stops,
                    node
    <2>2. nodes = 0 => pc = "finish"
        BY <2>1 DEF RootAlone
    <2> QED BY <1>0, <1>a, <2>1, <2>2 DEF AtRootNode
<1>3. CASE Solve
    <2>1. ASSUME NEW k \in Relaxed, NodeSolved(k) PROVE RootAlone'
        <3>1. /\ UNCHANGED <<heap, dstack, round, next, keyHeap, byId, cur,
                             kept, first, aside>>
              /\ nodes' = nodes + 1
            BY <2>1 DEF NodeSolved, Counts
        <3> QED BY <1>0, <1>a, <3>1 DEF AtRootNode
    <2>2. CASE \E v \in Stopped : LimitStops(v)
        <3>1. /\ UNCHANGED <<heap, dstack, round, next, keyHeap, byId, cur,
                             kept, first, aside, nodes>>
              /\ pc = "limits" /\ pc' = "finish"
            BY <2>2 DEF LimitStops, Stops, node
        <3> QED BY <1>0, <1>a, <3>1 DEF AtRootNode
    <2>3. CASE \/ NodeInfeasible \/ NodeFails
               \/ \E s \in OpenPieces : OpensPiece(s)
               \/ \E v \in AnyStop : NodeStops(v)
               \/ \E v \in AnyStop \cup {"UNBOUNDED", "INFEASIBLE"} :
                      SearchesPoint(v)
        <3>1. nodes' = nodes + 1 /\ pc' \in {"select", "finish"}
            BY <2>3 DEF NodeInfeasible, NodeFails, OpensPiece, NodeStops,
                        SearchesPoint, Drops, Stops, Counts
        <3> QED BY <1>0, <1>b, <3>1
    <2> QED BY <1>3, <2>1, <2>2, <2>3 DEF Solve
\* At a node: it is the root until the node is done with.
<1>c. ASSUME AtNode, nodes' = nodes,
             \/ pc' \in {"select", "finish"}
             \/ /\ UNCHANGED <<heap, dstack, round, next, keyHeap, byId, cur,
                               kept, first, aside>>
                /\ pc' \in {"close", "taken"} \/ pc \notin {"close", "taken"}
      PROVE  RootAlone'
    <2>1. nodes > 0
        BY <1>0, <1>c DEF Placement
    <2>2. CASE pc' \in {"select", "finish"}
        BY <1>b, <1>c, <2>1, <2>2
    <2>3. CASE /\ UNCHANGED <<heap, dstack, round, next, keyHeap, byId, cur,
                               kept, first, aside>>
               /\ pc' \in {"close", "taken"} \/ pc \notin {"close", "taken"}
        BY <1>0, <1>a, <1>c, <2>1, <2>3 DEF AtRootNode
    <2> QED BY <1>c, <2>2, <2>3
<1>4. CASE Cuts
    <2>1. /\ AtNode /\ nodes' = nodes
          /\ \/ pc' \in {"select", "finish"}
             \/ /\ UNCHANGED <<heap, dstack, round, next, keyHeap, byId, cur,
                               kept, first, aside>>
                /\ pc \notin {"close", "taken"}
        BY <1>4 DEF Cuts, CutsSolved, NoCuts, CutsEmpty, CutsStop, Drops,
                    Stops, node
    <2> QED BY <1>c, <2>1
<1>5. CASE Heuristic
    <2>1. /\ AtNode /\ nodes' = nodes
          /\ \/ pc' \in {"select", "finish"}
             \/ /\ UNCHANGED <<heap, dstack, round, next, keyHeap, byId, cur,
                               kept, first, aside>>
                /\ pc \notin {"close", "taken"}
        BY <1>5 DEF Heuristic, HeuristicFinds, RoundingFinds, HeuristicFails,
           HeuristicsEnd, RoundingFails, PointFound, Trying, Stops, node
    <2> QED BY <1>c, <2>1
<1>6. CASE Callback
    <2>1. ASSUME NEW k \in Relaxed, CallbackRow(k) PROVE RootAlone'
        BY <1>c, <2>1 DEF CallbackRow, AddsRow
    <2>2. CASE CallbackPasses
        BY <1>c, <2>2 DEF CallbackPasses, node
    <2>3. CASE CallbackRowEmpty \/ \E v \in AnyStop : CallbackStops(v)
        BY <1>c, <2>3 DEF CallbackRowEmpty, CallbackStops, AddsRow, Drops,
                          Stops
    <2> QED BY <1>6, <2>1, <2>2, <2>3 DEF Callback
<1>7. CASE Fix
    <2>a. ASSUME pc = "fix", Narrows
          PROVE  /\ NoneWaits /\ keyHeap = {} /\ byId = {} /\ aside = {}
                 /\ cur = Root(ModelBox)
        BY <2>a DEF Narrows, RootAlone, AtRootNode
    <2>1. ASSUME NEW S \in SUBSET kept, Restarts(S) PROVE RootAlone'
        <3>1. /\ pc = "fix" /\ Narrows
              /\ UNCHANGED <<heap, dstack, round, next, keyHeap, byId, aside>>
              /\ cur' = Root(S) /\ kept' = S /\ first'.asked /\ first'.box = S
              /\ pc' = "limits"
            BY <2>1 DEF Restarts, MayRestart
        <3>2. ModelBox' = S
            BY <3>1 DEF ModelBox
        <3>3. NoneWaits' /\ keyHeap' = {} /\ byId' = {} /\ aside' = {}
            BY <2>a, <3>1 DEF NoneWaits
        <3> QED BY <3>1, <3>2, <3>3 DEF RootAlone
    <2>2. ASSUME NEW S \in SUBSET kept, Fixes(S) PROVE RootAlone'
        <3>1. /\ pc = "fix" /\ Narrows /\ pc' = "close" /\ nodes' = nodes
              /\ UNCHANGED <<heap, dstack, round, next, keyHeap, byId, aside,
                             cur, first>>
            BY <2>2 DEF Fixes, node
        <3>2. ModelBox' = ModelBox
            BY <1>0, <3>1 DEF ModelBox
        <3>3. /\ NoneWaits' /\ keyHeap' = {} /\ byId' = {} /\ aside' = {}
              /\ cur' = Root(ModelBox')
            BY <2>a, <3>1, <3>2 DEF NoneWaits
        <3>4. nodes' # 0
            BY <3>1 DEF Narrows
        <3> QED BY <3>1, <3>3, <3>4 DEF RootAlone
    <2>3. CASE NoFix
        BY <1>c, <2>3 DEF NoFix, node
    <2> QED BY <1>7, <2>1, <2>2, <2>3 DEF Fix
<1>8. CASE Close
    <2>1. ASSUME NEW p \in Box, LeafTaken(p) PROVE RootAlone'
        <3>1. CASE pc' = "finish"
            BY <1>c, <2>1, <3>1 DEF LeafTaken
        <3>2. CASE pc' = "taken" /\ UNCHANGED node
            BY <1>c, <2>1, <3>2 DEF LeafTaken, node
        <3> QED BY <2>1, <3>1, <3>2 DEF LeafTaken, Stops
    <2>2. CASE ProgressStops \/ ClosedByIncumbent \/ LeafDone \/ ProbesFail
        BY <1>c, <2>2
           DEF ProgressStops, ClosedByIncumbent, LeafDone, ProbesFail, Drops,
               Stops
    <2>3. ASSUME NEW s \in Splits[Box], NEW side \in 1 .. 2,
                 NEW dives \in BOOLEAN, Branches(s, side, dives)
          PROVE  RootAlone'
        BY <1>c, <2>3 DEF Branches, Drops
    <2> QED BY <1>8, <2>1, <2>2, <2>3 DEF Close
<1>9. CASE End
    <2>1. /\ UNCHANGED <<heap, dstack, round, next, keyHeap, byId, cur, kept,
                         first, aside, nodes>>
          /\ pc' = "returned"
        BY <1>9 DEF End, Finish, OutOfMemory, StaleRead, node
    <2> QED BY <1>0, <1>a, <2>1 DEF AtRootNode
<1> QED BY <1>1, <1>2, <1>3, <1>4, <1>5, <1>6, <1>7, <1>8, <1>9 DEF Next

-----------------------------------------------------------------------------
(* The heap by bound.                                                        *)

\* Where the tree starts, the first time or again.
LEMMA RootIsSound ==
    ASSUME NEW w \in Models, NEW B \in SUBSET w.root
    PROVE  /\ Root(B) \in Sound(w) /\ Root(B).box = B /\ Root(B).key = NegInf
           /\ Root(B) # NoNode
<1>1. /\ w \in [cost : CostType, root : SUBSET Points, cutoff : Keys]
      /\ NegInf \in NodeKeys /\ \A k \in Keys : NegInf <= k
    BY ModelsAssumption, KeyFacts
<1>2. IsBound(w.cost, B, NegInf)
    BY <1>1 DEF IsBound, CostType
<1>3. Root(B) \in Sound(w)
    BY <1>1, <1>2, MakesSound DEF Root
<1> QED BY <1>3, SoundFacts DEF Root

LEMMA HeapInit == Init => HeapInv
<1> SUFFICES ASSUME Init PROVE HeapInv
    OBVIOUS
<1> USE DEF Init, TreeStarts, NoFirst, None
<1>1. <<model, shape>> \in Worlds /\ cfg \in ConfigType
    <2>1. PICK w \in Worlds : model = w[1] /\ shape = w[2]
        OBVIOUS
    <2>2. w = <<w[1], w[2]>>
        BY <2>1, MipTreeAssumption
    <2> QED BY <2>1, <2>2, MipTreeAssumption
<1>2. /\ model \in Models /\ model.cutoff \in Keys
      /\ NegInf \in Keys /\ Inf \in Keys /\ NegInf \in NodeKeys
    BY <1>1, WorldFacts, KeyFacts
<1>3. ModelBox = model.root
    BY DEF ModelBox
<1>4. Root(model.root) \in Sound(model) /\ Root(model.root) # NoNode
    BY <1>2, RootIsSound
<1>5. InputTypes
    BY <1>1 DEF InputTypes
<1>6. HeldTypes
    BY EmptySeq DEF HeldTypes
<1>7. HandTypes /\ FoundTypes
    BY <1>2, <1>3, <1>4 DEF HandTypes, FoundTypes, Incumbents
<1>8. CountTypes
    BY <1>1, <1>2 DEF CountTypes, Outcomes, ConfigType
<1>9. Placement /\ RootAlone
    BY <1>3, <1>4 DEF Placement, RootAlone, AtNode, Over, AtRootNode, NoneWaits
<1>10. KeyHeapAgrees /\ IdsAreNodes
    BY RangeOfEmpty DEF KeyHeapAgrees, IdsAreNodes, Live
<1> QED BY <1>5, <1>6, <1>7, <1>8, <1>9, <1>10 DEF HeapInv, Types

LEMMA HeapStep == HeapInv /\ [Next]_vars => HeapInv'
<1> SUFFICES ASSUME HeapInv, [Next]_vars PROVE HeapInv'
    OBVIOUS
<1>1. CASE Next
    BY <1>1, TypesStep, PlacementStep, RootAloneStep, KeyHeapSteps DEF HeapInv
<1>2. CASE UNCHANGED vars
    <2>1. UNCHANGED <<model, shape, cfg, pc, cur, key, heap, dstack, next,
                      round, keyHeap, byId, inc, turn, handed, kept, bestBound,
                      parkedKey, backtracks, nodes, nextId, limit, first,
                      outcome, code, bound, aside>>
        BY <1>2 DEF vars, fixed, node, held, found, locals, bounds, counts,
                    result
    <2>2. ModelBox' = ModelBox /\ Box' = Box
        BY <2>1 DEF ModelBox, Box
    <2>3. Types'
        BY <2>1, <2>2
           DEF HeapInv, Types, InputTypes, HeldTypes, HandTypes, FoundTypes,
               CountTypes
    <2>4. Placement' /\ RootAlone'
        BY <2>1, <2>2 DEF HeapInv, Placement, RootAlone, AtNode, Over,
                          AtRootNode, NoneWaits
    <2>5. KeyHeapAgrees' /\ IdsAreNodes'
        BY <2>1 DEF HeapInv, KeyHeapAgrees, IdsAreNodes, Live
    <2> QED BY <2>3, <2>4, <2>5 DEF HeapInv
<1> QED BY <1>1, <1>2

\* The heap by bound that goes with the heap by estimate holds what is open
\* and no more, through every dive, plunge, split and restart.
THEOREM HeapByBoundAgrees == Spec => []KeyHeapAgrees
<1>1. Spec => []HeapInv
    BY HeapInit, HeapStep, PTL DEF Spec
<1>2. HeapInv => KeyHeapAgrees
    BY DEF HeapInv
<1> QED BY <1>1, <1>2, PTL

-----------------------------------------------------------------------------
(* The incumbent, and the start of a second tree.                            *)

LEMMA TakenByLeaf == Next /\ pc' = "taken" => OffersLeaf
<1> SUFFICES ASSUME Next, pc' = "taken" PROVE OffersLeaf
    OBVIOUS
<1> USE DEF Goes, Drops, Stops, result
<1>1. CASE Select
    BY <1>1 DEF Select, SelectNext, Resume, FromRound, StartRound, Pick,
                Takes, RoundSolves, Exhausted
<1>2. CASE Hands
    BY <1>2 DEF Hands, HandedAtTop, HandedAtStop, HandedRefused
<1>3. CASE Solve
    BY <1>3 DEF Solve, LimitStops, NodeInfeasible, NodeFails, NodeStops,
                SearchesPoint, NodeSolved, OpensPiece
<1>4. CASE Cuts
    BY <1>4 DEF Cuts, CutsSolved, NoCuts, CutsEmpty, CutsStop, AfterCuts
<1>5. CASE Heuristic
    BY <1>5 DEF Heuristic, HeuristicFinds, RoundingFinds, HeuristicFails,
                HeuristicsEnd, RoundingFails, PointFound, Trying
<1>6. CASE Callback
    BY <1>6 DEF Callback, CallbackPasses, CallbackRow, CallbackRowEmpty,
                CallbackStops, AddsRow
<1>7. CASE Fix
    BY <1>7 DEF Fix, Restarts, Fixes, NoFix
<1>8. CASE Close
    BY <1>8 DEF Close, ProgressStops, ClosedByIncumbent, LeafDone,
                ProbesFail, Branches, OffersLeaf
<1>9. CASE End
    BY <1>9 DEF End, Finish, OutOfMemory, StaleRead
<1> QED BY <1>1, <1>2, <1>3, <1>4, <1>5, <1>6, <1>7, <1>8, <1>9 DEF Next

LEMMA LeafIsPointStep == Types /\ Next => LeafIsPoint'
<1> SUFFICES ASSUME Types, Next, pc' = "taken" PROVE Closed(inc', key')
    BY DEF LeafIsPoint
<1>1. PICK p \in Box : LeafTaken(p)
    BY TakenByLeaf DEF OffersLeaf
<1>2. key' = key
    BY <1>1 DEF LeafTaken, Stops, Goes, node
<1> QED BY <1>1, <1>2, LeafFacts

\* A restart's box has the incumbent.
LEMMA RestartFacts ==
    ASSUME HeapInv, IncIsReal, NEW S \in SUBSET kept, Restarts(S)
    PROVE  /\ pc = "fix" /\ nodes = 1 /\ HasIncumbent /\ ~first.asked
           /\ AtRootNode /\ kept = ModelBox /\ ModelBox = model.root
           /\ Room \subseteq S
           /\ first' = [asked |-> TRUE, start |-> inc, box |-> S]
           /\ inc' = [key |-> model.cutoff, point |-> NoPoint]
           /\ inc.point \in S
<1>1. /\ pc = "fix" /\ Narrows /\ Narrowed(S) /\ ~first.asked
      /\ first' = [asked |-> TRUE, start |-> inc, box |-> S]
      /\ inc' = [key |-> model.cutoff, point |-> NoPoint]
    BY DEF Restarts, MayRestart
<1>2. /\ nodes = 1 /\ HasIncumbent /\ Room \subseteq S
      /\ AtRootNode /\ ModelBox = model.root
    BY <1>1 DEF Narrows, Narrowed, AtRootNode, AtNode, ModelBox
<1>3. kept = ModelBox
    BY <1>1, <1>2 DEF HeapInv, RootAlone
<1>4. inc.point \in Room
    BY <1>2, <1>3 DEF IncIsReal, IsReal, Room
<1> QED BY <1>1, <1>2, <1>3, <1>4

\* Within one tree the incumbent only improves.
LEMMA IncImproves ==
    ASSUME Types, Next, ~StartsAgain
    PROVE  /\ first' = first /\ ModelBox' = ModelBox
           /\ inc'.key \in Int /\ inc.key \in Int /\ inc'.key <= inc.key
           /\ HasIncumbent => HasIncumbent'
<1>1. /\ inc \in Incumbents /\ inc' \in Incumbents /\ model' = model
      /\ inc.key \in Int /\ inc'.key \in Int
    <2>1. inc \in Incumbents /\ inc' \in Incumbents
        BY FoundTypesStep DEF Types, FoundTypes
    <2> QED BY <2>1, NextFixes, KeyFacts DEF Incumbents
<1>2. first' = first
    BY IncumbentSteps, LeafFacts DEF IncSteps, OffersLeaf
<1>3. ModelBox' = ModelBox
    BY <1>1, <1>2 DEF ModelBox
<1>4. CASE inc' = inc
    BY <1>1, <1>2, <1>3, <1>4 DEF HasIncumbent
<1>5. ASSUME NEW f \in AnyPoint, Offered(f), inc' # inc
      PROVE  inc'.key <= inc.key /\ HasIncumbent'
    <2>1. inc' = f /\ f.key < inc.key /\ f.point # NoPoint
        BY <1>5, OfferedFacts DEF Offered
    <2> QED BY <1>1, <2>1 DEF HasIncumbent
<1>6. ASSUME NEW p \in Box, LeafTaken(p)
      PROVE  inc'.key <= inc.key /\ HasIncumbent'
    <2>1. inc'.key = key /\ inc'.point = p /\ key < inc.key /\ p # NoPoint
        BY <1>6, LeafFacts
    <2>2. inc'.key <= inc.key
        BY <1>1, <2>1
    <2> QED BY <2>1, <2>2 DEF HasIncumbent
<1> QED BY <1>1, <1>2, <1>3, <1>4, <1>5, <1>6, IncumbentSteps
        DEF IncSteps, OffersLeaf

LEMMA IncIsRealStep == HeapInv /\ IncIsReal /\ Next => IncIsReal'
<1> SUFFICES ASSUME HeapInv, IncIsReal, Next PROVE IncIsReal'
    OBVIOUS
<1>0. model' = model /\ Types /\ Placement
    BY NextFixes DEF HeapInv
<1>1. /\ inc.key \in Int /\ model.cutoff \in Int /\ inc.key <= model.cutoff
      /\ inc \in Incumbents
    <2>1. inc \in Incumbents /\ model.cutoff \in Keys
        BY <1>0, WorldFacts DEF Types, InputTypes, FoundTypes
    <2>2. inc.key \in Int /\ model.cutoff \in Int
        BY <2>1, KeyFacts DEF Incumbents
    <2> QED BY <2>1, <2>2 DEF IncIsReal, IsReal
<1>2. CASE StartsAgain
    <2>1. PICK S \in SUBSET kept : Restarts(S)
        BY <1>2 DEF StartsAgain
    <2>2. /\ HasIncumbent /\ inc.point \in S
          /\ first' = [asked |-> TRUE, start |-> inc, box |-> S]
          /\ inc' = [key |-> model.cutoff, point |-> NoPoint]
        BY <2>1, RestartFacts
    <2>3. ModelBox' = S
        BY <2>2 DEF ModelBox
    <2> QED BY <1>0, <2>2, <2>3 DEF IncIsReal, IsReal, HasIncumbent
<1>3. CASE ~StartsAgain
    <2>1. /\ first' = first /\ ModelBox' = ModelBox
          /\ HasIncumbent => HasIncumbent'
        BY <1>0, <1>3, IncImproves
    <2>2. first'.asked => IsReal(first.start)'
        BY <1>0, <2>1 DEF IncIsReal, IsReal
    <2>3. IF HasIncumbent' THEN IsReal(inc)' ELSE inc'.key = model'.cutoff
        <3>1. CASE inc' = inc
            BY <1>0, <2>1, <3>1 DEF IncIsReal, IsReal, HasIncumbent
        <3>2. ASSUME NEW p \in ModelBox, NEW k \in Relaxed,
                     p # NoPoint, model.cost[p] <= k, k < inc.key,
                     inc'.point = p, inc'.key = k
              PROVE  HasIncumbent' /\ IsReal(inc)'
            <4>1. k \in Int /\ k # NegInf
                BY KeyFacts DEF NodeKeys
            <4>2. k < model.cutoff
                BY <1>1, <3>2, <4>1
            <4> QED BY <1>0, <2>1, <3>2, <4>1, <4>2 DEF IsReal, HasIncumbent
        <3>3. ASSUME NEW f \in AnyPoint, Offered(f), inc' # inc
              PROVE  HasIncumbent' /\ IsReal(inc)'
            BY <1>0, <3>2, <3>3, OfferedFacts DEF Offered
        <3>4. ASSUME NEW p \in Box, LeafTaken(p)
              PROVE  HasIncumbent' /\ IsReal(inc)'
            <4>1. key \in Relaxed
                BY <1>0, <3>4 DEF Placement, AtNode, LeafTaken
            <4>2. /\ inc'.point = p /\ inc'.key = key /\ key < inc.key
                  /\ p \in ModelBox /\ p # NoPoint /\ model.cost[p] <= key
                <5>1. /\ inc' = [point |-> p, key |-> key] /\ key < inc.key
                      /\ p \in ModelBox /\ p # NoPoint /\ model.cost[p] = key
                    BY <1>0, <3>4, LeafFacts
                <5>2. key \in Int
                    BY <4>1, KeyFacts DEF NodeKeys
                <5> QED BY <5>1, <5>2
            <4> QED BY <3>2, <4>1, <4>2
        <3> QED BY <1>0, <1>3, <3>1, <3>3, <3>4, IncumbentSteps
                DEF IncSteps, OffersLeaf
    <2> QED BY <2>2, <2>3 DEF IncIsReal
<1> QED BY <1>2, <1>3

\* A second tree tries its start first.
LEMMA StartIsFirst ==
    ASSUME Types, first.asked
    PROVE  /\ Heuristics[1] = "start" /\ Len(Heuristics) >= 1
           /\ nodes = 1 => MayRun("start")
<1>1. /\ Heuristics = <<"start">> \o cfg.heuristics
      /\ cfg.heuristics \in Seq(HeuristicNames)
    BY DEF Heuristics, Types, InputTypes, ConfigType
<1>2. /\ <<"start">> \in Seq({"start"} \cup HeuristicNames)
      /\ cfg.heuristics \in Seq({"start"} \cup HeuristicNames)
      /\ Len(<<"start">>) = 1 /\ <<"start">>[1] = "start"
      /\ Len(cfg.heuristics) \in Nat
    <2>1. cfg.heuristics \in Seq({"start"} \cup HeuristicNames)
        BY <1>1
    <2> QED BY <2>1, LenProperties
<1>3. /\ Len(Heuristics) = 1 + Len(cfg.heuristics)
      /\ Heuristics[1] = "start"
    BY <1>1, <1>2, ConcatProperties
<1> QED BY <1>2, <1>3 DEF MayRun

\* A point that is taken for one of the model is one.
LEMMA RealIsFeasible ==
    ASSUME Types, NEW b \in Incumbents, IsReal(b)
    PROVE  b.point \in ModelBox /\ Feasible(model.cost, b.point)
<1>1. /\ b.point \in ModelBox /\ model.cost[b.point] <= b.key
      /\ b.key < model.cutoff
    BY DEF IsReal
<1>2. /\ model.cost[b.point] \in Keys /\ b.key \in Keys
      /\ model.cutoff \in Keys
    BY <1>1, BoxFacts, WorldFacts DEF Types, InputTypes, Incumbents
<1>3. /\ model.cost[b.point] \in Int /\ b.key \in Int /\ Inf \in Int
      /\ model.cutoff \in Int /\ model.cutoff <= Inf
    BY <1>2, KeyFacts
<1> QED BY <1>1, <1>3 DEF Feasible

\* The root of a tree that has a point or a start of one holds it.
LEMMA RootHoldsPoint ==
    ASSUME HeapInv, IncIsReal, AtRootNode,
           nodes = 0 \/ pc \notin {"close", "taken"}
    PROVE  /\ Box = ModelBox
           /\ HasIncumbent \/ first.asked => ~Empty(model.cost, Box)
<1>1. Box = ModelBox
    BY DEF HeapInv, RootAlone, Root, Box
<1>2. ASSUME NEW b \in Incumbents, IsReal(b) PROVE ~Empty(model.cost, Box)
    BY <1>1, <1>2, RealIsFeasible DEF Empty, HeapInv
<1>3. inc \in Incumbents /\ first.start \in Incumbents
    BY DEF HeapInv, Types, FoundTypes
<1>4. /\ HasIncumbent => IsReal(inc)
      /\ first.asked => IsReal(first.start)
    BY DEF IncIsReal
<1> QED BY <1>1, <1>2, <1>3, <1>4

\* An unbounded relaxation: a ray.
LEMMA RayFacts ==
    ASSUME HeapInv, StartIsTried, IncIsReal, MayBeUnbounded
    PROVE  shape.ray # {} /\ ~first.asked
PROOF BY DEF MayBeUnbounded, StartIsTried

\* What a second tree does before its start is tried.
LEMMA StartIsNext ==
    ASSUME HeapInv, IncIsReal, StartIsTried, Next, first.asked, StartIsToTry,
           ~Over
    PROVE  \/ StartIsToTry' \/ Over'
           \/ HasIncumbent' /\ inc'.key <= first.start.key
<1>0. /\ Types /\ nodes \in Nat /\ Placement
      /\ nodes = 0 => pc = "limits"
      /\ pc \in {"limits", "cuts", "heuristics"}
      /\ nodes = 0 \/ (nodes = 1 /\ (pc = "cuts" \/ pc = "heuristics"))
      /\ AtRootNode
    BY DEF HeapInv, Types, CountTypes, RootAlone, StartIsToTry, AtRootNode,
           AtNode
<1>1. ~Empty(model.cost, Box) /\ ~MayBeUnbounded
    BY <1>0, RootHoldsPoint, RayFacts
<1>2. /\ Heuristics[1] = "start" /\ Len(Heuristics) >= 1
      /\ nodes = 1 => MayRun("start")
      /\ Len(Heuristics) \in Int
    BY <1>0, StartIsFirst
<1> USE DEF Over, Goes, Stops, StartIsToTry, counts, result
<1>3. CASE Select
    BY <1>0, <1>3 DEF Select, SelectNext, Resume, FromRound, StartRound, Pick,
                RoundSolves, Exhausted
<1>4. CASE Hands
    BY <1>0, <1>4 DEF Hands, HandedAtTop, HandedAtStop, HandedRefused
<1>5. CASE Solve
    <2>1. nodes = 0
        BY <1>0, <1>5 DEF Solve, LimitStops, NodeInfeasible, NodeFails,
                NodeStops, SearchesPoint, NodeSolved, OpensPiece, Ends
    <2> QED BY <1>1, <1>5, <2>1
            DEF Solve, LimitStops, NodeInfeasible, NodeFails, NodeStops,
                SearchesPoint, NodeSolved, OpensPiece, Ends, AtRoot, Counts
<1>6. CASE Cuts
    BY <1>0, <1>1, <1>6
       DEF Cuts, CutsSolved, NoCuts, CutsEmpty, CutsStop, AfterCuts
<1>7. CASE Heuristic
    <2>1. /\ nodes = 1 /\ pc = "heuristics" /\ turn = 1 /\ Trying
          /\ Tried = "start" /\ MayRun(Tried) /\ AgainFirst
        BY <1>0, <1>2, <1>7
           DEF Heuristic, HeuristicFinds, RoundingFinds, HeuristicFails,
               HeuristicsEnd, RoundingFails, Trying, Tried, AgainFirst
    <2>2. PICK f \in AnyPoint : HeuristicFinds(f)
        BY <1>2, <1>7, <2>1
           DEF Heuristic, RoundingFinds, HeuristicFails, HeuristicsEnd,
               RoundingFails
    <2>3. f = first.start /\ PointFound(f, key, "heuristics")
        BY <2>1, <2>2 DEF HeuristicFinds
    <2>4. IsReal(f) /\ f \in Incumbents
        BY <1>0, <2>3 DEF IncIsReal, Types, FoundTypes
    <2>5. /\ f.key \in Int /\ inc.key \in Int /\ model.cutoff \in Int
          /\ model.cost[f.point] \in Int /\ f.point # NoPoint
        <3>1. /\ f.key \in Keys /\ inc.key \in Keys /\ model.cutoff \in Keys
              /\ model.cost[f.point] \in Keys /\ f.point # NoPoint
            BY <1>0, <2>4, BoxFacts, WorldFacts
               DEF IsReal, Incumbents, Types, InputTypes, FoundTypes
        <3> QED BY <3>1, KeyFacts
    <2>6. ~CutOff(f)
        BY <2>4, <2>5 DEF IsReal, CutOff
    <2>7. inc' = IF f.key < inc.key THEN f ELSE inc
        BY <2>3, <2>6 DEF PointFound, Offer
    <2>8. CASE f.key < inc.key
        BY <2>3, <2>5, <2>7, <2>8 DEF HasIncumbent
    <2>9. CASE ~(f.key < inc.key)
        <3>1. inc.key <= f.key /\ inc.key # model.cutoff
            BY <2>4, <2>5, <2>9 DEF IsReal
        <3> QED BY <2>3, <2>7, <2>9, <3>1 DEF IncIsReal, HasIncumbent
    <2> QED BY <2>8, <2>9
<1>8. CASE Callback
    BY <1>0, <1>8
       DEF Callback, CallbackPasses, CallbackRow, CallbackRowEmpty,
           CallbackStops, AddsRow
<1>9. CASE Fix
    BY <1>0, <1>9 DEF Fix, Restarts, Fixes, NoFix
<1>10. CASE Close
    BY <1>0, <1>10 DEF Close, ProgressStops, ClosedByIncumbent, LeafTaken,
                LeafDone, ProbesFail, Branches
<1>11. CASE End
    BY <1>11 DEF End, Finish, OutOfMemory, StaleRead
<1> QED BY <1>3, <1>4, <1>5, <1>6, <1>7, <1>8, <1>9, <1>10, <1>11 DEF Next

\* How a tree gets to its end, and what it does there.
RootIsEmpty ==
    /\ Empty(model.cost, Box) /\ AtRootNode
    /\ nodes = 0 \/ pc = "cuts"
    /\ outcome' = "INFEASIBLE"
    /\ UNCHANGED <<held, cur, inc, first>>
LEMMA FinishSteps ==
    Types /\ Next /\ pc' = "finish" =>
        \/ /\ pc = "finish" /\ UNCHANGED <<outcome, held, cur, first>>
           /\ inc' = inc \/ outcome \in Stopped
        \/ Exhausted
        \/ outcome' \in AnyStop
        \/ RootIsEmpty
        \/ SearchesPoint("UNBOUNDED") \/ SearchesPoint("INFEASIBLE")
<1> SUFFICES ASSUME Types, Next, pc' = "finish"
             PROVE  \/ /\ pc = "finish"
                       /\ UNCHANGED <<outcome, held, cur, first>>
                       /\ inc' = inc \/ outcome \in Stopped
                    \/ Exhausted
                    \/ outcome' \in AnyStop
                    \/ RootIsEmpty
                    \/ SearchesPoint("UNBOUNDED")
                    \/ SearchesPoint("INFEASIBLE")
    OBVIOUS
<1> USE DEF Goes, Drops, Stops, result, AnyStop
<1>1. CASE Select
    BY <1>1 DEF Select, SelectNext, Resume, FromRound, StartRound, Pick,
                Takes, RoundSolves, Exhausted
<1>2. CASE Hands
    BY <1>2 DEF Hands, HandedAtTop, HandedAtStop, HandedRefused, found, node,
                counts, Stopped
<1>3. CASE Solve
    BY <1>3 DEF Solve, LimitStops, NodeInfeasible, NodeFails, NodeStops,
                SearchesPoint, NodeSolved, OpensPiece, RootIsEmpty, AtRoot,
                AtRootNode, found, node
<1>4. CASE Cuts
    BY <1>4 DEF Cuts, CutsSolved, NoCuts, CutsEmpty, CutsStop, AfterCuts,
                RootIsEmpty, AtRootNode, AtNode, found, node, counts
<1>5. CASE Heuristic
    BY <1>5 DEF Heuristic, HeuristicFinds, RoundingFinds, HeuristicFails,
                HeuristicsEnd, RoundingFails, PointFound, Trying, Stopped
<1>6. CASE Callback
    BY <1>6 DEF Callback, CallbackPasses, CallbackRow, CallbackRowEmpty,
                CallbackStops, AddsRow
<1>7. CASE Fix
    BY <1>7 DEF Fix, Restarts, Fixes, NoFix
<1>8. CASE Close
    BY <1>8 DEF Close, ProgressStops, ClosedByIncumbent, LeafTaken, LeafDone,
                ProbesFail, Branches, Stopped
<1>9. CASE End
    BY <1>9 DEF End, Finish, OutOfMemory, StaleRead
<1> QED BY <1>1, <1>2, <1>3, <1>4, <1>5, <1>6, <1>7, <1>8, <1>9 DEF Next

\* Once it is over it stays so, and a finished tree is what it was.
LEMMA OverStays ==
    ASSUME Next, Over
    PROVE  Over'
<1> USE DEF Over, AtNode, Goes, Stops, result, Ends, Trying, AddsRow
<1> QED BY DEF Next, Select, SelectNext, Resume, FromRound, StartRound, Pick,
        RoundSolves, Exhausted, Hands, HandedAtTop, HandedAtStop,
        HandedRefused, Solve, LimitStops, NodeInfeasible, NodeFails, NodeStops,
        SearchesPoint, NodeSolved, OpensPiece, Cuts, CutsSolved, NoCuts,
        CutsEmpty, CutsStop, Heuristic, HeuristicFinds, RoundingFinds,
        HeuristicFails, HeuristicsEnd, RoundingFails, Callback, CallbackPasses,
        CallbackRow, CallbackRowEmpty, CallbackStops, Fix, Restarts, Fixes,
        NoFix, Close, ProgressStops, ClosedByIncumbent, LeafTaken, LeafDone,
        ProbesFail, Branches, End, Finish, OutOfMemory, StaleRead

\* A node is in hand because it was, or has been solved.
LEMMA AtNodeSteps ==
    Next /\ AtNode' => \/ AtNode /\ UNCHANGED <<nodes, first>>
                       \/ \E k \in Relaxed : NodeSolved(k)
<1> SUFFICES ASSUME Next, AtNode'
             PROVE  \/ AtNode /\ UNCHANGED <<nodes, first>>
                    \/ \E k \in Relaxed : NodeSolved(k)
    OBVIOUS
<1> USE DEF AtNode, Goes, Drops, Stops, result, counts
<1>1. CASE Select
    BY <1>1 DEF Select, SelectNext, Resume, FromRound, StartRound, Pick,
                Takes, RoundSolves, Exhausted
<1>2. CASE Hands
    BY <1>2 DEF Hands, HandedAtTop, HandedAtStop, HandedRefused
<1>3. CASE Solve
    BY <1>3 DEF Solve, LimitStops, NodeInfeasible, NodeFails, NodeStops,
                SearchesPoint, OpensPiece
<1>4. CASE Cuts
    BY <1>4 DEF Cuts, CutsSolved, NoCuts, CutsEmpty, CutsStop, AfterCuts
<1>5. CASE Heuristic
    BY <1>5 DEF Heuristic, HeuristicFinds, RoundingFinds, HeuristicFails,
                HeuristicsEnd, RoundingFails, PointFound, Trying
<1>6. CASE Callback
    BY <1>6 DEF Callback, CallbackPasses, CallbackRow, CallbackRowEmpty,
                CallbackStops, AddsRow
<1>7. CASE Fix
    BY <1>7 DEF Fix, Restarts, Fixes, NoFix
<1>8. CASE Close
    BY <1>8 DEF Close, ProgressStops, ClosedByIncumbent, LeafTaken, LeafDone,
                ProbesFail, Branches
<1>9. CASE End
    BY <1>9 DEF End, Finish, OutOfMemory, StaleRead
<1> QED BY <1>1, <1>2, <1>3, <1>4, <1>5, <1>6, <1>7, <1>8, <1>9 DEF Next

\* The root's relaxation has a bound: no ray improves it.
LEMMA RootHasNoRay ==
    ASSUME HeapInv, NEW k \in Relaxed, NodeSolved(k), nodes' = 1, ~first.asked
    PROVE  shape.ray = {}
<1>1. /\ nodes = 0 /\ ~MayBeUnbounded
      /\ Types /\ ModelBox = model.root
    BY DEF NodeSolved, Counts, HeapInv, Types, CountTypes, ModelBox
<1>2. Box = model.root
    BY <1>1 DEF HeapInv, RootAlone, AtRootNode, Root, Box
<1>3. shape.ray \subseteq model.root
    BY <1>1, WorldFacts DEF Types, InputTypes
<1> QED BY <1>1, <1>2, <1>3 DEF MayBeUnbounded

LEMMA StartIsTriedStep ==
    HeapInv /\ IncIsReal /\ StartIsTried /\ Next => StartIsTried'
<1> SUFFICES ASSUME HeapInv, IncIsReal, StartIsTried, Next PROVE StartIsTried'
    OBVIOUS
<1>0. Types /\ shape' = shape /\ nodes \in Nat
    BY NextFixes DEF HeapInv, Types, CountTypes
<1>1. CASE StartsAgain
    <2>1. PICK S \in SUBSET kept : Restarts(S)
        BY <1>1 DEF StartsAgain
    <2>2. nodes' = 0 /\ pc' = "limits"
        BY <2>1 DEF Restarts, Goes
    <2>3. AtNode /\ nodes = 1
        BY <2>1, RestartFacts DEF AtNode
    <2> QED BY <1>0, <2>2, <2>3 DEF StartIsTried, StartIsToTry, AtNode
<1>2. CASE ~StartsAgain
    <2>0. /\ first' = first
          /\ inc'.key \in Int /\ inc.key \in Int /\ inc'.key <= inc.key
          /\ HasIncumbent => HasIncumbent'
        BY <1>0, <1>2, IncImproves
    <2>1. ASSUME first.asked PROVE first.start.key \in Int
        <3>1. first.start \in Incumbents
            BY <1>0 DEF Types, FoundTypes
        <3> QED BY <3>1, KeyFacts DEF Incumbents
    <2>2. first'.asked /\ ~StartIsToTry' /\ ~Over'
            => HasIncumbent' /\ inc'.key <= first'.start.key
        <3> SUFFICES ASSUME first.asked, ~StartIsToTry', ~Over'
                     PROVE  HasIncumbent' /\ inc'.key <= first.start.key
            BY <2>0
        <3>1. ~Over
            BY OverStays
        <3>2. CASE StartIsToTry
            BY <3>1, <3>2, StartIsNext
        <3>3. CASE ~StartIsToTry
            <4>1. HasIncumbent /\ inc.key <= first.start.key
                BY <3>1, <3>3 DEF StartIsTried
            <4> QED BY <2>0, <2>1, <4>1
        <3> QED BY <3>2, <3>3
    <2>3. first'.asked /\ pc' = "finish" /\ outcome' = "OPTIMAL"
            => inc'.key <= first'.start.key
        <3> SUFFICES ASSUME first.asked, pc' = "finish", outcome' = "OPTIMAL"
                     PROVE  inc'.key <= first.start.key
            BY <2>0
        <3>1. CASE pc = "finish" /\ outcome' = outcome
            <4>1. inc.key <= first.start.key
                BY <3>1 DEF StartIsTried
            <4> QED BY <2>0, <2>1, <4>1
        <3>2. CASE Exhausted
            <4>1. pc = "fill" /\ ~Over
                BY <3>2 DEF Exhausted, Over
            <4>2. ~StartIsToTry
                BY <4>1 DEF StartIsToTry, HeapInv, RootAlone, Over
            <4>3. inc.key <= first.start.key
                BY <4>1, <4>2 DEF StartIsTried
            <4> QED BY <2>0, <2>1, <4>3
        <3> QED BY <1>0, <3>1, <3>2, FinishSteps
                DEF RootIsEmpty, AnyStop, Stopped, SearchesPoint, Drops, Stops,
                    Goes
    <2>4. first'.asked \/ (AtNode' /\ nodes' = 1) => shape'.ray = {}
        <3>1. CASE first.asked
            BY <1>0, <3>1 DEF StartIsTried
        <3>2. ASSUME ~first.asked, AtNode', nodes' = 1 PROVE shape.ray = {}
            <4>1. CASE AtNode /\ nodes' = nodes
                BY <3>2, <4>1 DEF StartIsTried
            <4>2. ASSUME NEW k \in Relaxed, NodeSolved(k) PROVE shape.ray = {}
                BY <3>2, <4>2, RootHasNoRay
            <4> QED BY <3>2, <4>1, <4>2, AtNodeSteps
        <3> QED BY <1>0, <2>0, <3>1, <3>2
    <2> QED BY <2>2, <2>3, <2>4 DEF StartIsTried
<1> QED BY <1>1, <1>2

-----------------------------------------------------------------------------
(* What the tree ends with.                                                  *)

\* What is said of a tree with a ray.
LEMMA SearchFacts ==
    ASSUME NoRayUnderCutoff, HeapInv, StartIsTried, IncIsReal,
           NEW v \in {"UNBOUNDED", "INFEASIBLE"}, SearchesPoint(v),
           pc' = "finish"
    PROVE  /\ outcome' = v /\ cur' = cur /\ UNCHANGED <<held, inc, first>>
           /\ v = "UNBOUNDED" => \E p \in model.root : model.cost[p] = NegInf
           /\ v = "INFEASIBLE" => /\ ~first.asked /\ ~HasIncumbent
                                  /\ Empty(model.cost, model.root)
<1>0. /\ pc = "limits" /\ MayBeUnbounded /\ OpenPieces = {} /\ SearchEnds(v)
      /\ ~(shape.pieces /\ v = "INFEASIBLE")
      /\ outcome' = v /\ cur' = cur /\ UNCHANGED <<held, inc, first>>
    <2>1. ~(shape.pieces /\ v = "INFEASIBLE")
        BY DEF SearchesPoint, Drops, Goes
    <2> QED BY <2>1 DEF SearchesPoint, Stops, Ends, node, found, counts
<1>1. /\ ~CutoffCloses /\ ~first.asked /\ <<model, shape>> \in Worlds
      /\ Types
      /\ cfg.stops \subseteq {"WORK_LIMIT", "TIME_LIMIT", "INTERRUPTED"}
    <2>1. /\ shape.ray # {} /\ ~first.asked /\ <<model, shape>> \in Worlds
          /\ Types /\ cfg \in ConfigType
        BY <1>0, RayFacts DEF HeapInv, Types, InputTypes
    <2>2. <<model, shape>>[1] = model /\ <<model, shape>>[2] = shape
        OBVIOUS
    <2>3. ~CutoffCloses
        BY <2>1, <2>2 DEF NoRayUnderCutoff, CutoffCloses
    <2> QED BY <2>1, <2>3 DEF ConfigType
<1>2. /\ Box \subseteq model.root /\ ModelBox = model.root
      /\ Region = IF shape.pieces THEN Box ELSE model.root
    BY <1>1, BoxFacts DEF Region, ModelBox
<1>3. IF v = "UNBOUNDED" THEN ~Empty(model.cost, Region)
                         ELSE Empty(model.cost, Region)
    BY <1>0, <1>1 DEF SearchEnds, SolveStops, LimitsMet
<1>4. ASSUME v = "UNBOUNDED"
      PROVE  \E p \in model.root : model.cost[p] = NegInf
    <2>1. RaysStand(model, shape)
        BY <1>1, MipTreeAssumption
    <2>2. /\ Box \cap shape.ray # {}
          /\ shape.pieces => PieceSplits[Box] = {}
        BY <1>0 DEF MayBeUnbounded, OpenPieces
    <2> QED BY <1>2, <1>3, <1>4, <2>1, <2>2 DEF RaysStand
<1>5. ASSUME v = "INFEASIBLE"
      PROVE  ~HasIncumbent /\ Empty(model.cost, model.root)
    <2>1. Empty(model.cost, model.root)
        BY <1>0, <1>2, <1>3, <1>5
    <2>2. inc \in Incumbents
        BY <1>1 DEF Types, FoundTypes
    <2> QED BY <1>1, <1>2, <2>1, <2>2, RealIsFeasible DEF IncIsReal, Empty
<1> QED BY <1>0, <1>1, <1>4, <1>5

\* What has been picked when nothing is left to pick.
LEMMA ExhaustedFacts ==
    ASSUME HeapInv, StartIsTried, Exhausted
    PROVE  /\ NoneHeld /\ UNCHANGED <<held, cur, inc, first>>
           /\ outcome' = IF HasIncumbent THEN "OPTIMAL" ELSE "INFEASIBLE"
           /\ first.asked => HasIncumbent
<1>1. /\ pc = "fill" /\ round = <<>> /\ RoundIsFull
      /\ UNCHANGED <<held, cur, inc, first>>
      /\ outcome' = IF HasIncumbent THEN "OPTIMAL" ELSE "INFEASIBLE"
    BY DEF Exhausted, node, found, counts
<1>2. /\ cur = NoNode /\ dstack = <<>> /\ next = NoNode
    BY <1>1 DEF HeapInv, Placement
<1>3. heap = {}
    <2>1. cfg.batch \in Nat \ {0} /\ limit \in Nat /\ nodes \in Nat
        BY DEF HeapInv, Types, InputTypes, CountTypes, ConfigType
    <2>2. MaxWant # 0
        BY <2>1 DEF MaxWant, LeastOf, Larger
    <2>3. Len(round) = 0
        BY <1>1
    <2> QED BY <1>1, <2>2, <2>3 DEF RoundIsFull, Wants
<1>4. first.asked => HasIncumbent
    <2>1. ~Over /\ ~StartIsToTry
        BY <1>1 DEF Over, StartIsToTry, HeapInv, RootAlone
    <2> QED BY <2>1 DEF StartIsTried
<1> QED BY <1>1, <1>2, <1>3, <1>4 DEF NoneHeld, NoneWaits

LEMMA OutcomeIsSoundStep ==
    ASSUME NoRayUnderCutoff, HeapInv, IncIsReal, StartIsTried, OutcomeIsSound,
           Next
    PROVE  OutcomeIsSound'
<1> SUFFICES ASSUME pc' = "finish"
             PROVE  /\ outcome' # "NOT_RUN"
                    /\ outcome' = "UNBOUNDED" =>
                          \E p \in model.root : model.cost[p] = NegInf
                    /\ outcome' = "OPTIMAL" => NoneHeld' /\ HasIncumbent'
                    /\ outcome' = "INFEASIBLE" =>
                          /\ ~first'.asked /\ ~HasIncumbent'
                          /\ NoneHeld' \/ Empty(model.cost, model.root)
    BY NextFixes DEF OutcomeIsSound
<1>1. ASSUME UNCHANGED <<held, cur, inc, first>>
      PROVE  (NoneHeld' <=> NoneHeld) /\ (HasIncumbent' <=> HasIncumbent)
    BY <1>1 DEF NoneHeld, NoneWaits, HasIncumbent, held
<1>2. CASE pc = "finish" /\ UNCHANGED <<outcome, held, cur, first>>
           /\ (inc' = inc \/ outcome \in Stopped)
    BY <1>1, <1>2 DEF OutcomeIsSound, Stopped
<1>3. CASE Exhausted
    BY <1>1, <1>3, ExhaustedFacts
<1>4. CASE outcome' \in AnyStop
    BY <1>4 DEF AnyStop, Stopped
<1>5. CASE RootIsEmpty
    <2>1. /\ Empty(model.cost, Box) /\ outcome' = "INFEASIBLE"
          /\ UNCHANGED <<held, cur, inc, first>>
          /\ AtRootNode /\ (nodes = 0 \/ pc \notin {"close", "taken"})
        BY <1>5 DEF RootIsEmpty
    <2>2. ~HasIncumbent /\ ~first.asked /\ Box = ModelBox
        BY <2>1, RootHoldsPoint
    <2>3. Empty(model.cost, model.root)
        BY <2>1, <2>2 DEF ModelBox
    <2> QED BY <1>1, <2>1, <2>2, <2>3
<1>6. CASE SearchesPoint("UNBOUNDED") \/ SearchesPoint("INFEASIBLE")
    BY <1>1, <1>6, SearchFacts
<1> QED BY <1>2, <1>3, <1>4, <1>5, <1>6, FinishSteps DEF HeapInv

-----------------------------------------------------------------------------
(* The bound of the nodes that wait: best_bound and the dive.                *)

\* Where bestBound and what is set aside change.
RootBounds ==
    /\ AtNode /\ nodes = 1 /\ nodes' = 1 /\ cur' = cur /\ bestBound' = key'
    /\ UNCHANGED held
LEMMA BoundSteps ==
    Next => bestBound' = bestBound \/ FromRound \/ RootBounds \/ StartsAgain
<1> SUFFICES ASSUME Next
             PROVE  bestBound' = bestBound \/ FromRound \/ RootBounds
                    \/ StartsAgain
    OBVIOUS
<1> USE DEF bounds
<1>1. CASE Select
    BY <1>1 DEF Select, SelectNext, Resume, StartRound, Pick,
                RoundSolves, Exhausted
<1>2. CASE Hands
    BY <1>2 DEF Hands, HandedAtTop, HandedAtStop, HandedRefused
<1>3. CASE Solve
    BY <1>3 DEF Solve, LimitStops, NodeInfeasible, NodeFails, NodeStops,
                SearchesPoint, NodeSolved, OpensPiece
<1>4. CASE Cuts
    BY <1>4 DEF Cuts, CutsSolved, NoCuts, CutsEmpty, CutsStop, RootBounds,
                Relaxes, AtNode, node, counts
<1>5. CASE Heuristic
    BY <1>5 DEF Heuristic, HeuristicFinds, RoundingFinds, HeuristicFails,
                HeuristicsEnd, RoundingFails
<1>6. CASE Callback
    BY <1>6 DEF Callback, CallbackPasses, CallbackRow, CallbackRowEmpty,
                CallbackStops, RootBounds, AtNode, node, counts
<1>7. CASE Fix
    BY <1>7 DEF Fix, Fixes, NoFix, StartsAgain
<1>8. CASE Close
    BY <1>8 DEF Close, ProgressStops, ClosedByIncumbent, LeafTaken, LeafDone,
                ProbesFail, Branches
<1>9. CASE End
    BY <1>9 DEF End, Finish, OutOfMemory, StaleRead
<1> QED BY <1>1, <1>2, <1>3, <1>4, <1>5, <1>6, <1>7, <1>8, <1>9 DEF Next

LEMMA AsideSteps == Next => UNCHANGED <<aside, parkedKey>> \/ NodeFails
<1> SUFFICES ASSUME Next PROVE UNCHANGED <<aside, parkedKey>> \/ NodeFails
    OBVIOUS
<1> USE DEF bounds
<1>1. CASE Select
    BY <1>1 DEF Select, SelectNext, Resume, FromRound, StartRound, Pick,
                RoundSolves, Exhausted
<1>2. CASE Hands
    BY <1>2 DEF Hands, HandedAtTop, HandedAtStop, HandedRefused
<1>3. CASE Solve
    BY <1>3 DEF Solve, LimitStops, NodeInfeasible, NodeStops,
                SearchesPoint, NodeSolved, OpensPiece
<1>4. CASE Cuts
    BY <1>4 DEF Cuts, CutsSolved, NoCuts, CutsEmpty, CutsStop
<1>5. CASE Heuristic
    BY <1>5 DEF Heuristic, HeuristicFinds, RoundingFinds, HeuristicFails,
                HeuristicsEnd, RoundingFails
<1>6. CASE Callback
    BY <1>6 DEF Callback, CallbackPasses, CallbackRow, CallbackRowEmpty,
                CallbackStops
<1>7. CASE Fix
    BY <1>7 DEF Fix, Restarts, Fixes, NoFix
<1>8. CASE Close
    BY <1>8 DEF Close, ProgressStops, ClosedByIncumbent, LeafTaken, LeafDone,
                ProbesFail, Branches
<1>9. CASE End
    BY <1>9 DEF End, Finish, OutOfMemory, StaleRead
<1> QED BY <1>1, <1>2, <1>3, <1>4, <1>5, <1>6, <1>7, <1>8, <1>9 DEF Next

\* The least of more keys.
LEMMA LeastOfMore ==
    ASSUME NEW K \in SUBSET Keys, NEW L \in SUBSET Keys, K # {}, K \subseteq L,
           NegInf \notin L \ K
    PROVE  /\ MinKey(K) \in Int /\ MinKey(L) \in Int
           /\ NegInf <= MinKey(L) /\ MinKey(L) <= MinKey(K) /\ MinKey(K) <= Inf
           /\ MinKey(L) = NegInf => MinKey(K) = NegInf
<1>1. /\ MinKey(K) \in K /\ MinKey(L) \in L
      /\ \A j \in K : MinKey(K) <= j
      /\ \A j \in L : MinKey(L) <= j
    BY LeastKey
<1> DEFINE k == MinKey(K)
           l == MinKey(L)
<1> HIDE DEF k, l
<1>2. k \in K /\ l \in L /\ (\A j \in K : k <= j) /\ (\A j \in L : l <= j)
    BY <1>1 DEF k, l
<1>3. /\ k \in Int /\ l \in Int /\ NegInf <= l /\ k <= Inf /\ NegInf <= k
      /\ NegInf \in Int
    BY <1>2, KeyFacts
<1>4. l <= k
    BY <1>2
<1>5. ASSUME l = NegInf PROVE k = NegInf
    <2>1. l \in K
        BY <1>2, <1>5
    <2>2. k <= l
        BY <1>2, <2>1
    <2> QED BY <1>3, <1>5, <2>2
<1> QED BY <1>3, <1>4, <1>5 DEF k, l

\* A node of the stack that is too far above the bound stays so, whatever the
\* heap is given but a node without a bound.
KeysUnder(s, i, H) == {s[j].key : j \in 1 .. i} \cup {n.key : n \in H}

LEMMA FarStays ==
    ASSUME Types, Types', cfg' = cfg,
           NEW i \in 1 .. Len(dstack), i <= Len(dstack'),
           \A j \in 1 .. i : dstack'[j] = dstack[j],
           heap \subseteq heap', \A n \in heap' \ heap : n.key # NegInf,
           ~NearAt(i)
    PROVE  ~NearAt(i)'
<1> DEFINE K == KeysUnder(dstack, i, heap)
           L == KeysUnder(dstack', i, heap')
<1>1. /\ Under(i) = MinKey(K) /\ Under(i)' = MinKey(L)
    BY DEF Under, KeysUnder
<1>2. /\ \A n \in heap \cup heap' : n.key \in Keys
      /\ \A j \in 1 .. i : dstack[j].key \in Keys
      /\ Len(dstack) \in Nat
    <2>1. /\ heap \subseteq Sound(model) /\ heap' \subseteq Sound(model')
          /\ dstack \in Seq(Sound(model))
        BY DEF Types, HeldTypes
    <2>2. \A w : \A n \in Sound(w) : n.key \in Keys
        BY KeyFacts DEF Sound
    <2>3. /\ Len(dstack) \in Nat
          /\ \A j \in 1 .. Len(dstack) : dstack[j] \in Sound(model)
        BY <2>1, RangeOf
    <2> QED BY <2>1, <2>2, <2>3
<1>3. K \in SUBSET Keys /\ L \in SUBSET Keys /\ K # {} /\ K \subseteq L
      /\ NegInf \notin L \ K
    <2>1. i \in 1 .. i /\ \A j \in 1 .. i : j \in 1 .. Len(dstack)
        BY <1>2
    <2>2. K \in SUBSET Keys /\ K # {}
        BY <1>2, <2>1 DEF KeysUnder
    <2>3. L \in SUBSET Keys /\ K \subseteq L
        BY <1>2, <2>1 DEF KeysUnder
    <2>4. ASSUME NEW k \in L, k \notin K PROVE k # NegInf
        <3>1. PICK n \in heap' : k = n.key
            BY <2>4 DEF KeysUnder
        <3>2. n \notin heap
            BY <2>4, <3>1 DEF KeysUnder
        <3> QED BY <3>1, <3>2
    <2> HIDE DEF K, L
    <2> QED BY <2>2, <2>3, <2>4
<1>4. dstack[i].key \in Int /\ cfg.diveGap \in Nat /\ dstack'[i] = dstack[i]
      /\ Inf \in Int /\ NegInf \in Int
    <2>1. cfg.diveGap \in Nat
        BY DEF Types, InputTypes, ConfigType
    <2>2. i \in 1 .. i /\ dstack[i].key \in Keys
        BY <1>2
    <2>3. dstack[i].key \in Int /\ Inf \in Int /\ NegInf \in Int
        BY <2>2, KeyFacts
    <2> QED BY <2>1, <2>2, <2>3
<1> HIDE DEF K, L
<1>5. /\ MinKey(K) \in Int /\ MinKey(L) \in Int
      /\ MinKey(L) <= MinKey(K) /\ MinKey(K) <= Inf
      /\ MinKey(L) = NegInf => MinKey(K) = NegInf
    BY <1>3, LeastOfMore
<1>6. /\ cfg.diveGap # 0 /\ MinKey(K) \notin {NegInf, Inf}
      /\ ~(dstack[i].key - MinKey(K) <= cfg.diveGap)
    BY <1>1 DEF NearAt
<1>7. /\ MinKey(L) \notin {NegInf, Inf}
      /\ ~(dstack'[i].key - MinKey(L) <= cfg.diveGap)
    BY <1>4, <1>5, <1>6
<1> QED BY <1>1, <1>6, <1>7 DEF NearAt

\* The dive does not get its leave to go on back, before its stack is empty.
LEMMA LeaveIsLost ==
    ASSUME Types, Types', Next, ~StartsAgain, ~StartRound, dstack # <<>>,
           StackIsADive, MayGoOn'
    PROVE  MayGoOn
<1>0. /\ cfg' = cfg /\ cfg.backtrack \in Int /\ NoIncDiveBacktracks \in Int
      /\ cfg.dive \in BOOLEAN
    BY NextFixes, MipTreeAssumption DEF Types, InputTypes, ConfigType
<1>1. HasIncumbent => HasIncumbent'
    BY IncImproves
<1>2. /\ backtracks \in Int /\ backtracks' \in Int
      /\ backtracks <= backtracks'
    <2>1. backtracks \in Nat /\ backtracks' \in Nat
        BY DEF Types, HeldTypes
    <2>2. \/ backtracks' = backtracks
          \/ backtracks' = backtracks + 0 \/ backtracks' = backtracks + 1
        BY HeldSteps DEF HeldStays, SelectNext, Resume, FromRound, Picks, Pick,
                Pushes, OpensPiece, Parts, Branches, bounds
    <2> QED BY <2>1, <2>2
<1>3. StackDive' = StackDive /\ (StackDive => cfg.dive)
    BY <1>0 DEF StackDive
<1>4. CASE cfg.dive
    <2>1. ~NoIncDive /\ ~NoIncDive'
        BY <1>0, <1>4 DEF NoIncDive
    <2> QED BY <1>0, <1>2, <1>3, <2>1 DEF MayGoOn
<1>5. CASE ~cfg.dive
    <2>1. NoIncDive' /\ nodes >= NoIncDiveAfter
        BY <1>0, <1>3, <1>5 DEF MayGoOn, StackIsADive
    <2>2. NoIncDive
        BY <1>0, <1>1, <1>5, <2>1 DEF NoIncDive
    <2> QED BY <1>0, <1>2, <2>1, <2>2 DEF MayGoOn
<1> QED BY <1>4, <1>5

LEMMA WaitsOn ==
    ASSUME Types, Types', Next, ~StartsAgain, ~StartRound,
           StackIsADive,
           NEW i \in 1 .. Len(dstack), i <= Len(dstack'), Waits(i),
           Len(dstack) <= Len(dstack') \/ ~Waits(Len(dstack)),
           Len(dstack) - 1 <= Len(dstack'),
           \A j \in 1 .. Len(dstack) :
               j <= Len(dstack') => dstack'[j] = dstack[j],
           heap \subseteq heap', \A n \in heap' \ heap : n.key # NegInf
    PROVE  Waits(i)'
<1>0. cfg' = cfg /\ Len(dstack) \in Nat /\ Len(dstack') \in Nat
      /\ dstack # <<>>
    BY NextFixes, RangeOf DEF Types, HeldTypes
<1>1. PICK j \in i .. Len(dstack) : ~(MayGoOn /\ NearAt(j))
    BY DEF Waits
<1>2. j \in 1 .. Len(dstack) /\ j <= Len(dstack')
    <2>1. CASE j = Len(dstack) /\ ~(Len(dstack) <= Len(dstack'))
        BY <1>0, <1>1, <2>1 DEF Waits
    <2> QED BY <1>0, <2>1
<1>3. j \in i .. Len(dstack')
    BY <1>0, <1>1, <1>2
<1>4. ~(MayGoOn' /\ NearAt(j)')
    <2>1. CASE ~MayGoOn
        BY <1>0, <2>1, LeaveIsLost
    <2>2. CASE ~NearAt(j)
        <3>1. \A m \in 1 .. j : dstack'[m] = dstack[m]
            BY <1>0, <1>2
        <3> QED BY <1>0, <1>2, <2>2, <3>1, FarStays
    <2> QED BY <1>1, <2>1, <2>2
<1> QED BY <1>3, <1>4 DEF Waits

\* The dive goes on with the top of its stack when that does not wait.
LEMMA TopOfStack ==
    ASSUME Types, KeyHeapAgrees, dstack # <<>>
    PROVE  MayResume <=> ~Waits(Len(dstack))
<1>1. /\ dstack \in Seq(Sound(model)) /\ Len(dstack) \in Nat \ {0}
      /\ Last(dstack) = dstack[Len(dstack)]
      /\ Range(dstack) = {dstack[i] : i \in 1 .. Len(dstack)}
    <2>1. dstack \in Seq(Sound(model))
        BY DEF Types, HeldTypes
    <2>2. Len(dstack) \in Nat \ {0} /\ Last(dstack) = dstack[Len(dstack)]
        BY <2>1, FrontOf
    <2>3. Range(dstack) = {dstack[i] : i \in 1 .. Len(dstack)}
        BY <2>1, RangeOf
    <2> QED BY <2>1, <2>2, <2>3
<1>2. Under(Len(dstack)) = OpenBound
    <2>1. {n.key : n \in Range(dstack)}
            = {dstack[j].key : j \in 1 .. Len(dstack)}
        BY <1>1
    <2> QED BY <2>1, OpenBoundFacts DEF Under
<1>3. Within(Last(dstack)) <=> NearAt(Len(dstack))
    BY <1>1, <1>2 DEF Within, NearAt
<1>4. Waits(Len(dstack)) <=> ~(MayGoOn /\ NearAt(Len(dstack)))
    <2>1. \A j \in Len(dstack) .. Len(dstack) : j = Len(dstack)
        BY <1>1
    <2>2. Len(dstack) \in Len(dstack) .. Len(dstack)
        BY <1>1
    <2> QED BY <2>1, <2>2 DEF Waits
<1> QED BY <1>3, <1>4 DEF MayResume, MayGoOn

\* At the root and at a restart nothing waits.
LEMMA AloneFacts ==
    ASSUME HeapInv, RootBounds \/ StartsAgain
    PROVE  /\ NoneWaits /\ NoneWaits'
           /\ StartsAgain => bestBound' = NegInf /\ key' = NegInf
<1>1. AtRootNode /\ UNCHANGED <<heap, dstack, round, next>>
    BY DEF RootBounds, StartsAgain, Restarts, MayRestart, Narrows,
           AtRootNode, AtNode, held
<1>2. NoneWaits /\ NoneWaits'
    BY <1>1 DEF HeapInv, RootAlone, NoneWaits
<1> QED BY <1>2 DEF StartsAgain, Restarts

LEMMA BoundInts ==
    ASSUME HeapInv
    PROVE  /\ bestBound \in Int /\ parkedKey \in Int
           /\ NegInf \in Int /\ NegInf <= bestBound
           /\ \A n \in Sound(model) : n.key \in Int /\ NegInf <= n.key
           /\ cur # NoNode => Larger(cur.key, key) \in Int
           /\ AtNode => Larger(cur.key, key) = key
<1>1. /\ bestBound \in Keys /\ parkedKey \in Keys
      /\ cur # NoNode => cur \in Sound(model)
      /\ key \in NodeKeys
    BY DEF HeapInv, Types, CountTypes, HandTypes
<1>2. \A n \in Sound(model) : n.key \in NodeKeys
    BY DEF Sound
<1>3. /\ bestBound \in Int /\ parkedKey \in Int
      /\ NegInf \in Int /\ NegInf <= bestBound
    BY <1>1, KeyFacts
<1>4. \A n \in Sound(model) : n.key \in Int /\ NegInf <= n.key
    BY <1>2, KeyFacts
<1>5. cur # NoNode => Larger(cur.key, key) \in Int
    <2>1. \A k \in NodeKeys : k \in Int
        BY KeyFacts
    <2> QED BY <1>1, <1>2, <2>1, LargerKey
<1>6. AtNode => Larger(cur.key, key) = key
    <2> SUFFICES ASSUME AtNode PROVE Larger(cur.key, key) = key
        OBVIOUS
    <2>1. cur # NoNode /\ cur.key <= key
        BY DEF HeapInv, Placement
    <2> QED BY <1>1, <1>2, <2>1, LargerKey
<1> QED BY <1>3, <1>4, <1>5, <1>6

\* The node in hand.
LEMMA HandBoundStep ==
    ASSUME HeapInv, HeapInv', BestBoundHolds, Next
    PROVE  (cur # NoNode => bestBound <= Larger(cur.key, key))'
<1> SUFFICES ASSUME cur' # NoNode
             PROVE  bestBound' <= Larger(cur'.key, key')
    BY DEF NoNode
<1>0. /\ model' = model /\ Types /\ KeyHeapAgrees /\ Placement
      /\ key' \in NodeKeys /\ cur' \in Sound(model)
      /\ cur'.key \in NodeKeys
    <2>1. model' = model
        BY NextFixes
    <2>2. key' \in NodeKeys /\ cur' \in Sound(model)
        BY <2>1 DEF HeapInv, Types, HandTypes
    <2>3. cur'.key \in NodeKeys
        BY <2>2, SoundFacts
    <2> QED BY <2>1, <2>2, <2>3 DEF HeapInv
<1>a. ASSUME NEW n \in Sound(model), Takes(n), key = NegInf,
             bestBound' <= n.key
      PROVE  bestBound' <= Larger(cur'.key, key')
    <2>1. cur' = n /\ key' = NegInf
        BY <1>a DEF Takes
    <2>2. Larger(n.key, NegInf) = n.key
        BY <1>0, <2>1, LargerKey
    <2> QED BY <1>a, <2>1, <2>2
<1>1. CASE StartsAgain
    <2>1. bestBound' = NegInf /\ key' = NegInf
        BY <1>1, AloneFacts
    <2>2. /\ cur'.key \in Int /\ NegInf <= cur'.key
          /\ Larger(cur'.key, NegInf) = cur'.key
        BY <1>0, <2>1, LargerKey, BoundInts
    <2> QED BY <2>1, <2>2
<1>2. CASE FromRound
    <2>1. /\ Takes(Head(round)) /\ key = NegInf /\ bestBound' = RoundBound
          /\ round # <<>> /\ round \in Seq(Sound(model))
        BY <1>0, <1>2 DEF FromRound, Placement, Types, HeldTypes
    <2>2. Head(round) \in Sound(model) /\ Head(round) \in Range(round)
        BY <2>1, RangeOfTail
    <2>3. RoundBound <= Head(round).key
        BY <1>0, <2>2, RoundBoundFacts
    <2> QED BY <1>a, <2>1, <2>2, <2>3
<1>3. CASE RootBounds
    <2>1. bestBound' = key'
        BY <1>3 DEF RootBounds
    <2>2. key' \in Int /\ cur'.key \in Int
        BY <1>0, KeyFacts
    <2> QED BY <2>1, <2>2 DEF Larger
<1>4. CASE bestBound' = bestBound /\ ~StartsAgain /\ ~FromRound
    <2>1. CASE UNCHANGED node
        BY <1>4, <2>1 DEF node, BestBoundHolds
    <2>2. CASE Drops
        BY <2>2 DEF Drops
    <2>3. CASE SelectNext
        <3>1. /\ Takes(next) /\ key = NegInf /\ next # NoNode
              /\ next \in Sound(model)
            BY <1>0, <2>3 DEF SelectNext, Placement, Types, HeldTypes
        <3> QED BY <1>a, <1>4, <3>1 DEF BestBoundHolds
    <2>4. CASE Resume
        <3>1. /\ Takes(Last(dstack)) /\ key = NegInf /\ dstack # <<>>
              /\ MayResume /\ dstack \in Seq(Sound(model))
            BY <1>0, <2>4 DEF Resume, MayResume, Placement, Types, HeldTypes
        <3>2. /\ Last(dstack) = dstack[Len(dstack)]
              /\ Last(dstack) \in Sound(model) /\ Len(dstack) \in Nat \ {0}
            BY <3>1, FrontOf
        <3>3. ~Waits(Len(dstack))
            BY <1>0, <3>1, TopOfStack
        <3>4. bestBound <= Last(dstack).key
            BY <3>2, <3>3 DEF BestBoundHolds, DiveIsBounded
        <3> QED BY <1>a, <1>4, <3>1, <3>2, <3>4
    <2>5. CASE Relaxing
        <3>1. cur' = cur /\ Larger(cur.key, key) <= key'
            BY <2>5 DEF Relaxing, Relaxes
        <3>2. /\ bestBound <= Larger(cur.key, key)
              /\ Larger(cur.key, key) \in Int /\ bestBound \in Int
            BY <3>1, BoundInts DEF BestBoundHolds
        <3>3. key' \in Int /\ cur'.key \in Int
            BY <1>0, KeyFacts
        <3>4. key' <= Larger(cur'.key, key') /\ Larger(cur'.key, key') \in Int
            BY <3>3 DEF Larger
        <3> QED BY <1>4, <3>1, <3>2, <3>3, <3>4
    <2> QED BY <1>4, <2>1, <2>2, <2>3, <2>4, <2>5, HandSteps DEF HandStep
<1> QED BY <1>1, <1>2, <1>3, <1>4, BoundSteps

\* The plunge.
LEMMA NextBoundStep ==
    ASSUME HeapInv, HeapInv', BestBoundHolds, Next
    PROVE  (next # NoNode => bestBound <= next.key)'
<1> SUFFICES ASSUME next' # NoNode
             PROVE  bestBound' <= next'.key
    BY DEF NoNode
<1>1. CASE StartsAgain \/ RootBounds
    BY <1>1, AloneFacts DEF NoneWaits
<1>2. CASE FromRound
    BY <1>2 DEF FromRound
<1>3. CASE bestBound' = bestBound /\ ~StartsAgain
    <2>1. CASE next' = next
        BY <1>3, <2>1 DEF BestBoundHolds
    <2>2. ASSUME NEW s \in Splits[Box], NEW side \in 1 .. 2,
                 NEW dives \in BOOLEAN, Branches(s, side, dives),
                 next' # next
          PROVE  bestBound' <= next'.key
        <3>1. /\ pc = "close" /\ AtNode /\ next' = Halves(s)[side]
            BY <2>2 DEF Branches, Places, AtNode
        <3>2. next'.key = key
            BY <3>1, HalvesAreSound DEF HeapInv
        <3>3. cur # NoNode /\ Larger(cur.key, key) = key
            BY <3>1, BoundInts DEF HeapInv, Placement
        <3> QED BY <1>3, <3>2, <3>3 DEF BestBoundHolds
    <2> QED BY <1>3, <2>1, <2>2, HeldSteps
            DEF HeldStays, held, SelectNext, Resume, FromRound, StartRound,
                Picks, Pick, Pushes, OpensPiece, Parts
<1> QED BY <1>1, <1>2, <1>3, BoundSteps

\* The nodes set aside.
LEMMA AsideStep ==
    ASSUME HeapInv, BestBoundHolds, Next
    PROVE  \A n \in aside' : parkedKey' <= n.key
<1>1. CASE UNCHANGED <<aside, parkedKey>>
    BY <1>1 DEF BestBoundHolds
<1>2. CASE NodeFails
    <2>1. /\ parkedKey' = LeastOf(parkedKey, cur.key)
          /\ aside' = aside \cup {[box |-> Box, key |-> cur.key]}
          /\ cur # NoNode
        BY <1>2 DEF NodeFails, Ends, HeapInv, Placement
    <2>2. /\ parkedKey \in Int /\ cur.key \in Int
          /\ \A n \in aside : n.key \in Int
        <3>1. \A n \in aside : n.key \in NodeKeys
            BY DEF HeapInv, Types, CountTypes, Apart
        <3>2. cur.key \in NodeKeys
            BY <2>1, BoxFacts DEF HeapInv
        <3>3. \A k \in NodeKeys : k \in Int
            BY KeyFacts
        <3> QED BY <3>1, <3>2, <3>3, BoundInts
    <2>3. \A n \in aside : parkedKey <= n.key
        BY DEF BestBoundHolds
    <2> QED BY <2>1, <2>2, <2>3 DEF LeastOf
<1> QED BY <1>1, <1>2, AsideSteps

\* The round, once the first of it has been taken.
LEMMA RoundSteps ==
    ASSUME Placement, Next, RoundIsOld'
    PROVE  \/ FromRound \/ StartsAgain \/ round' = <<>>
           \/ RoundIsOld /\ round' = round
<1> USE DEF Goes, Drops, Stops, RoundIsOld, held, result
<1>1. CASE Select
    <2>1. CASE \/ \E n \in heap : Pick(n)
               \/ RoundSolves
        <3>1. /\ pc = "fill" /\ pc' \in {"fill", "select"}
              /\ UNCHANGED <<handed, next, dstack>>
            BY <2>1 DEF Pick, RoundSolves
        <3> QED BY <3>1 DEF Placement
    <2>2. CASE Exhausted
        BY <2>2 DEF Exhausted
    <2>3. CASE StartRound
        BY <2>3 DEF StartRound
    <2>4. CASE SelectNext \/ Resume
        BY <2>4 DEF SelectNext, Resume, MayResume, Takes
    <2> QED BY <1>1, <2>1, <2>2, <2>3, <2>4 DEF Select
<1>2. CASE Hands
    BY <1>2 DEF Hands, HandedAtTop, HandedAtStop, HandedRefused, TakesHanded
<1>3. CASE Solve
    BY <1>3 DEF Solve, LimitStops, NodeInfeasible, NodeFails, NodeStops,
                SearchesPoint, NodeSolved, OpensPiece, Ends
<1>4. CASE Cuts
    BY <1>4 DEF Cuts, CutsSolved, NoCuts, CutsEmpty, CutsStop
<1>5. CASE Heuristic
    BY <1>5 DEF Heuristic, HeuristicFinds, RoundingFinds, HeuristicFails,
                HeuristicsEnd, RoundingFails, Trying
<1>6. CASE Callback
    BY <1>6 DEF Callback, CallbackPasses, CallbackRow, CallbackRowEmpty,
                CallbackStops, AddsRow
<1>7. CASE Fix
    BY <1>7 DEF Fix, StartsAgain, Fixes, NoFix
<1>8. CASE Close
    BY <1>8 DEF Close, ProgressStops, ClosedByIncumbent, LeafTaken, LeafDone,
                ProbesFail, Branches
<1>9. CASE End
    BY <1>9 DEF End, Finish, OutOfMemory, StaleRead
<1> QED BY <1>1, <1>2, <1>3, <1>4, <1>5, <1>6, <1>7, <1>8, <1>9 DEF Next

LEMMA RoundBoundStep ==
    ASSUME HeapInv, BestBoundHolds, Next PROVE RoundIsBounded'
<1> SUFFICES ASSUME RoundIsOld', NEW n \in Range(round')
             PROVE  bestBound' <= n.key
    BY DEF RoundIsBounded
<1>0. Types /\ Placement
    BY DEF HeapInv
<1>1. CASE round' = <<>>
    BY <1>1, RangeOfEmpty
<1>2. CASE StartsAgain \/ RootBounds
    BY <1>2, AloneFacts, RangeOfEmpty DEF NoneWaits
<1>3. CASE FromRound
    <2>1. /\ round # <<>> /\ round' = Tail(round) /\ bestBound' = RoundBound
          /\ round \in Seq(Sound(model))
        BY <1>0, <1>3 DEF FromRound, Types, HeldTypes
    <2>2. n \in Range(round)
        BY <2>1, RangeOfTail
    <2> QED BY <1>0, <2>1, <2>2, RoundBoundFacts
<1>4. CASE bestBound' = bestBound /\ RoundIsOld /\ round' = round
    BY <1>4 DEF BestBoundHolds, RoundIsBounded
<1> QED BY <1>0, <1>1, <1>2, <1>3, <1>4, BoundSteps, RoundSteps

\* The dive's stack.
LEMMA NodesSteps ==
    Next => nodes' = nodes \/ nodes' = nodes + 1 \/ StartsAgain
<1> SUFFICES ASSUME Next
             PROVE  nodes' = nodes \/ nodes' = nodes + 1 \/ StartsAgain
    OBVIOUS
<1> USE DEF counts, Counts
<1>1. CASE Select
    BY <1>1 DEF Select, SelectNext, Resume, FromRound, StartRound, Pick,
                RoundSolves, Exhausted
<1>2. CASE Hands
    BY <1>2 DEF Hands, HandedAtTop, HandedAtStop, HandedRefused
<1>3. CASE Solve
    BY <1>3 DEF Solve, LimitStops, NodeInfeasible, NodeFails, NodeStops,
                SearchesPoint, NodeSolved, OpensPiece
<1>4. CASE Cuts
    BY <1>4 DEF Cuts, CutsSolved, NoCuts, CutsEmpty, CutsStop
<1>5. CASE Heuristic
    BY <1>5 DEF Heuristic, HeuristicFinds, RoundingFinds, HeuristicFails,
                HeuristicsEnd, RoundingFails
<1>6. CASE Callback
    BY <1>6 DEF Callback, CallbackPasses, CallbackRow, CallbackRowEmpty,
                CallbackStops
<1>7. CASE Fix
    BY <1>7 DEF Fix, StartsAgain, Fixes, NoFix
<1>8. CASE Close
    BY <1>8 DEF Close, ProgressStops, ClosedByIncumbent, LeafTaken, LeafDone,
                ProbesFail, Branches
<1>9. CASE End
    BY <1>9 DEF End, Finish, OutOfMemory, StaleRead
<1> QED BY <1>1, <1>2, <1>3, <1>4, <1>5, <1>6, <1>7, <1>8, <1>9 DEF Next

\* How a step changes the stack, and the heap over it.
Stays(s, t) == Len(t) = Len(s) /\ \A j \in 1 .. Len(s) : t[j] = s[j]
Shrinks(s, t) ==
    /\ s # <<>> /\ Len(t) = Len(s) - 1
    /\ \A j \in 1 .. Len(s) - 1 : t[j] = s[j]
Grows(s, t) ==
    /\ Len(t) = Len(s) + 1
    /\ \A j \in 1 .. Len(s) : t[j] = s[j]
    /\ t[Len(s) + 1].key = key
StackStep ==
    \/ dstack' = <<>>
    \/ Stays(dstack, dstack') /\ heap' = heap
    \/ /\ Shrinks(dstack, dstack') /\ heap' = heap
       /\ ~Waits(Len(dstack))
    \/ /\ Grows(dstack, dstack') /\ heap' = heap
       /\ AtNode /\ (StackDive \/ NoIncDive) /\ nodes' = nodes
    \/ /\ Stays(dstack, dstack') /\ heap \subseteq heap'
       /\ \/ \A n \in heap' : n \in heap \/ n.key # NegInf
          \/ pc = "limits" /\ cur.key = NegInf

LEMMA StackSteps == HeapInv /\ Next => StackStep
<1> SUFFICES ASSUME HeapInv, Next PROVE StackStep
    OBVIOUS
<1>0. /\ Types /\ KeyHeapAgrees /\ Placement
      /\ dstack \in Seq(Sound(model)) /\ Len(dstack) \in Nat
    BY RangeOf DEF HeapInv, Types, HeldTypes
<1>1. CASE HeldStays \/ SelectNext \/ FromRound
    BY <1>1 DEF HeldStays, held, SelectNext, FromRound, StackStep, Stays
<1>2. CASE StartsAgain \/ StartRound
    BY <1>2, AloneFacts DEF StartRound, NoneWaits, StackStep
<1>3. CASE Resume
    <2>1. /\ dstack # <<>> /\ MayResume /\ dstack' = Front(dstack)
          /\ heap' = heap
        BY <1>3 DEF Resume, MayResume
    <2>2. Shrinks(dstack, dstack')
        BY <1>0, <2>1, FrontOf DEF Shrinks
    <2> QED BY <1>0, <2>1, <2>2, TopOfStack DEF StackStep
<1>4. CASE Picks
    <2>1. dstack = <<>> /\ dstack' = dstack
        BY <1>0, <1>4 DEF Picks, Pick, Placement
    <2> QED BY <2>1 DEF StackStep
<1>5. CASE Pushes
    <2>1. PICK s \in OpenPieces : OpensPiece(s)
        BY <1>5 DEF Pushes
    <2>2. /\ pc = "limits" /\ cur # NoNode /\ dstack' = dstack
          /\ heap' = heap \cup Sides(s)
        BY <1>0, <2>1 DEF OpensPiece, Ends, OpenPush, Placement
    <2>3. \A n \in Sides(s) : n.key = cur.key
        BY <1>0, <2>2, SidesAreSound
    <2> QED BY <2>2, <2>3 DEF StackStep, Stays
<1>6. ASSUME NEW s \in Splits[Box], NEW side \in 1 .. 2, NEW dives \in BOOLEAN,
             Branches(s, side, dives)
      PROVE  StackStep
    <2> DEFINE one == Halves(s)[side]
               other == Halves(s)[3 - side]
    <2>1. /\ pc = "close" /\ AtNode /\ Places(one, other, dives)
          /\ nodes' = nodes
        BY <1>6 DEF Branches, AtNode
    <2>2. one.key = key /\ other.key = key /\ other \in Sound(model)
        BY <1>0, <2>1, HalvesAreSound
    <2>3. key # NegInf
        <3>1. key \in Relaxed
            BY <1>0, <2>1 DEF Placement
        <3> QED BY <3>1, KeyFacts
    <2> HIDE DEF one, other
    <2>4. CASE dives /\ (StackDive \/ NoIncDive)
        <3>1. dstack' = Append(dstack, other) /\ heap' = heap
            BY <2>1, <2>4 DEF Places
        <3>2. Grows(dstack, dstack')
            BY <1>0, <2>2, <3>1, AppendProperties DEF Grows
        <3> QED BY <2>1, <2>4, <3>1, <3>2 DEF StackStep
    <2>5. CASE ~(dives /\ (StackDive \/ NoIncDive))
        <3>1. /\ dstack' = dstack
              /\ heap' = heap \cup {other} \/ heap' = heap \cup {one, other}
            BY <2>1, <2>5 DEF Places, OpenPush
        <3> QED BY <2>2, <2>3, <3>1 DEF StackStep, Stays
    <2> QED BY <2>4, <2>5
<1> QED BY <1>1, <1>2, <1>3, <1>4, <1>5, <1>6, HeldSteps DEF Parts

LEMMA StackIsADiveStep ==
    ASSUME HeapInv, StackIsADive, Next PROVE StackIsADive'
<1>0. /\ cfg' = cfg /\ nodes \in Nat /\ NoIncDiveAfter \in Nat
      /\ Len(dstack) \in Nat /\ Len(dstack') \in Nat
      /\ dstack \in Seq(Sound(model)) /\ dstack' \in Seq(Sound(model'))
    <2>1. HeldTypes'
        BY HeldTypesStep DEF HeapInv
    <2>2. /\ dstack \in Seq(Sound(model)) /\ dstack' \in Seq(Sound(model'))
        BY <2>1 DEF HeapInv, Types, HeldTypes
    <2> QED BY <2>2, RangeOf, NextFixes, MipTreeAssumption
            DEF HeapInv, Types, CountTypes
<1>1. CASE dstack' = <<>>
    BY <1>1 DEF StackIsADive
<1>2. CASE StartsAgain
    BY <1>2, AloneFacts DEF NoneWaits, StackIsADive
<1>3. CASE dstack # <<>> /\ ~StartsAgain
    <2>1. IF cfg.dive THEN StackDive ELSE nodes >= NoIncDiveAfter
        BY <1>3 DEF StackIsADive
    <2>2. nodes' = nodes \/ nodes' = nodes + 1
        BY <1>3, NodesSteps
    <2> QED BY <1>0, <2>1, <2>2 DEF StackIsADive, StackDive
<1>4. CASE AtNode /\ (StackDive \/ NoIncDive) /\ nodes' = nodes
    BY <1>0, <1>4 DEF StackIsADive, StackDive, NoIncDive
<1>5. CASE /\ dstack = <<>>
           /\ Stays(dstack, dstack') \/ Shrinks(dstack, dstack')
    <2>1. Len(dstack') = 0
        BY <1>5 DEF Stays, Shrinks
    <2>2. dstack' = <<>>
        BY <1>0, <2>1, EmptySeq
    <2> QED BY <1>1, <2>2
<1> QED BY <1>1, <1>2, <1>3, <1>4, <1>5, StackSteps DEF StackStep

LEMMA DiveStep ==
    ASSUME HeapInv, HeapInv', BestBoundHolds, Next PROVE DiveIsBounded'
<1> SUFFICES ASSUME NEW i \in 1 .. Len(dstack')
             PROVE  bestBound' <= dstack'[i].key \/ Waits(i)'
    BY DEF DiveIsBounded
<1>0. /\ Types /\ Types' /\ model' = model /\ KeyHeapAgrees
      /\ dstack \in Seq(Sound(model)) /\ dstack' \in Seq(Sound(model))
      /\ Len(dstack) \in Nat /\ Len(dstack') \in Nat
      /\ dstack'[i] \in Sound(model) /\ dstack'[i].key \in Int
      /\ NegInf <= dstack'[i].key
    <2>1. model' = model
        BY NextFixes
    <2>2. dstack \in Seq(Sound(model)) /\ dstack' \in Seq(Sound(model))
        BY <2>1 DEF HeapInv, Types, HeldTypes
    <2>3. /\ Len(dstack) \in Nat /\ Len(dstack') \in Nat
          /\ dstack'[i] \in Sound(model)
        BY <2>2, RangeOf
    <2> QED BY <2>1, <2>2, <2>3, BoundInts DEF HeapInv
<1>1. CASE dstack' = <<>>
    BY <1>1
<1>2. CASE StartsAgain \/ RootBounds \/ StartRound
    BY <1>2, AloneFacts DEF NoneWaits, StartRound
<1>3. CASE dstack' # <<>> /\ ~StartsAgain /\ ~RootBounds /\ ~StartRound
    <2>1. bestBound' = bestBound \/ FromRound
        BY <1>3, BoundSteps
    \* What was on the stack.
    <2>2. ASSUME i <= Len(dstack),
                 \A n \in heap' \ heap : n.key # NegInf, heap \subseteq heap',
                 Stays(dstack, dstack') \/ Grows(dstack, dstack')
                   \/ (Shrinks(dstack, dstack') /\ ~Waits(Len(dstack)))
          PROVE  bestBound' <= dstack'[i].key \/ Waits(i)'
        <3>1. /\ dstack'[i] = dstack[i] /\ i \in 1 .. Len(dstack)
              /\ Len(dstack) <= Len(dstack') \/ ~Waits(Len(dstack))
              /\ Len(dstack) - 1 <= Len(dstack')
              /\ \A j \in 1 .. Len(dstack) :
                   j <= Len(dstack') => dstack'[j] = dstack[j]
            BY <1>0, <2>2 DEF Stays, Grows, Shrinks
        <3>2. Waits(i) => Waits(i)'
            BY <1>0, <1>3, <2>2, <3>1, WaitsOn DEF BestBoundHolds
        <3>3. CASE FromRound
            <4>1. dstack # <<>> /\ ~MayResume
                BY <1>0, <3>1, <3>3 DEF FromRound
            <4>2. Waits(Len(dstack))
                BY <1>0, <4>1, TopOfStack
            <4>3. Waits(i)
                BY <1>0, <3>1, <4>2 DEF Waits
            <4> QED BY <3>2, <4>3
        <3>4. CASE bestBound' = bestBound
            BY <3>1, <3>2, <3>4 DEF BestBoundHolds, DiveIsBounded
        <3> QED BY <2>1, <3>3, <3>4
    <2>3. CASE Stays(dstack, dstack') /\ heap' = heap
        BY <1>0, <2>2, <2>3 DEF Stays
    <2>4. CASE Shrinks(dstack, dstack') /\ heap' = heap /\ ~Waits(Len(dstack))
        BY <1>0, <2>2, <2>4 DEF Shrinks
    <2>5. CASE Grows(dstack, dstack') /\ heap' = heap /\ AtNode
        <3>1. CASE i <= Len(dstack)
            BY <2>2, <2>5, <3>1
        <3>2. CASE ~(i <= Len(dstack))
            <4>1. dstack'[i].key = key
                BY <1>0, <2>5, <3>2 DEF Grows
            <4>2. cur # NoNode /\ Larger(cur.key, key) = key
                BY <2>5, BoundInts DEF HeapInv, Placement
            <4>3. ~FromRound
                BY <2>5 DEF FromRound, AtNode
            <4> QED BY <2>1, <4>1, <4>2, <4>3 DEF BestBoundHolds
        <3> QED BY <3>1, <3>2
    <2>6. CASE Stays(dstack, dstack') /\ heap \subseteq heap'
               /\ \A n \in heap' : n \in heap \/ n.key # NegInf
        BY <1>0, <2>2, <2>6 DEF Stays
    <2>7. CASE pc = "limits" /\ cur.key = NegInf
        <3>1. cur # NoNode /\ key = NegInf
            BY <2>7 DEF HeapInv, Placement
        <3>2. Larger(cur.key, key) = NegInf
            BY <2>7, <3>1, KeyFacts DEF Larger
        <3>3. bestBound <= NegInf
            BY <3>1, <3>2 DEF BestBoundHolds
        <3>4. ~FromRound
            BY <2>7 DEF FromRound
        <3>5. bestBound \in Int /\ NegInf \in Int
            BY BoundInts
        <3> QED BY <1>0, <2>1, <3>3, <3>4, <3>5
    <2> QED BY <1>3, <2>3, <2>4, <2>5, <2>6, <2>7, StackSteps DEF StackStep
<1> QED BY <1>1, <1>2, <1>3

LEMMA BestBoundStep ==
    ASSUME HeapInv, HeapInv', BestBoundHolds, Next PROVE BestBoundHolds'
<1>1. StackIsADive'
    BY StackIsADiveStep DEF BestBoundHolds
<1> QED BY <1>1, HandBoundStep, NextBoundStep, RoundBoundStep, DiveStep,
           AsideStep DEF BestBoundHolds

-----------------------------------------------------------------------------
(* The invariant.                                                            *)

LEMMA NextIsFreeStep ==
    ASSUME Placement, NextIsFree, Next PROVE NextIsFree'
<1> USE DEF NextIsFree
<1>1. CASE StartsAgain
    <2>1. cur # NoNode /\ next' = next
        BY <1>1 DEF StartsAgain, Restarts, Placement, AtNode
    <2> QED BY <2>1
<1>2. CASE SelectNext \/ Resume \/ FromRound
    BY <1>2 DEF SelectNext, Resume, FromRound
<1>3. CASE Parts
    BY <1>3 DEF Parts, Branches, Drops
<1>4. CASE HeldStays \/ StartRound \/ Picks \/ Pushes
    <2>1. next' = next
        BY <1>4
           DEF HeldStays, held, StartRound, Picks, Pick, Pushes, OpensPiece
    <2>2. cur' # NoNode => cur # NoNode \/ StartsAgain \/ SelectNext \/ Resume
                           \/ FromRound
        BY HandSteps DEF HandStep, node, Drops, Relaxing
    <2> QED BY <1>1, <1>2, <2>1, <2>2
<1> QED BY <1>1, <1>2, <1>3, <1>4, HeldSteps

LEMMA InitInv == Init => IInv
<1> SUFFICES ASSUME Init PROVE IInv
    OBVIOUS
<1>1. HeapInv
    BY HeapInit
<1> USE DEF Init, TreeStarts, NoFirst, None
<1>2. NextIsFree /\ LeafIsPoint /\ IncIsReal /\ StartIsTried /\ OutcomeIsSound
    BY DEF NextIsFree, LeafIsPoint, IncIsReal, HasIncumbent, StartIsTried,
           AtNode, Over,
           OutcomeIsSound
<1>3. BestBoundHolds
    <2>1. Larger(cur.key, key) = NegInf /\ NegInf <= NegInf
        BY KeyFacts DEF Root, Larger
    <2>2. RoundIsBounded /\ StackIsADive /\ DiveIsBounded
        BY RangeOfEmpty DEF RoundIsBounded, StackIsADive, DiveIsBounded
    <2> QED BY <2>1, <2>2 DEF BestBoundHolds
<1> QED BY <1>1, <1>2, <1>3 DEF IInv

LEMMA NextInv ==
    ASSUME NoRayUnderCutoff, IInv, [Next]_vars PROVE IInv'
<1>1. HeapInv'
    BY HeapStep DEF IInv
<1>2. CASE Next
    <2>1. NextIsFree' /\ LeafIsPoint' /\ IncIsReal' /\ StartIsTried'
        BY <1>2, NextIsFreeStep, LeafIsPointStep, IncIsRealStep,
           StartIsTriedStep
           DEF IInv, HeapInv
    <2>2. OutcomeIsSound'
        BY <1>2, OutcomeIsSoundStep DEF IInv
    <2>3. BestBoundHolds'
        BY <1>1, <1>2, BestBoundStep DEF IInv
    <2> QED BY <1>1, <2>1, <2>2, <2>3 DEF IInv
<1>3. CASE UNCHANGED vars
    <2>1. UNCHANGED <<model, shape, cfg, pc, cur, key, heap, dstack, next,
                      round, inc, turn, handed, kept, bestBound, parkedKey,
                      backtracks, nodes, first, outcome, aside>>
        BY <1>3 DEF vars, fixed, node, held, found, locals, bounds, counts,
                    result
    <2>2. ModelBox' = ModelBox /\ (HasIncumbent' <=> HasIncumbent)
        BY <2>1 DEF ModelBox, HasIncumbent
    <2>3. NextIsFree' /\ LeafIsPoint' /\ IncIsReal'
        BY <2>1, <2>2 DEF IInv, NextIsFree, LeafIsPoint, IncIsReal, IsReal
    <2>4. StartIsTried'
        BY <2>1, <2>2 DEF IInv, StartIsTried, StartIsToTry, AtNode, Over
    <2>5. OutcomeIsSound'
        BY <2>1, <2>2 DEF IInv, OutcomeIsSound, NoneHeld, NoneWaits
    <2>6. MayGoOn' = MayGoOn
        BY <2>1, <2>2 DEF MayGoOn, StackDive, NoIncDive
    <2>7. \A i : Waits(i)' = Waits(i)
        BY <2>1, <2>6 DEF Waits, NearAt, Under
    <2>8. DiveIsBounded' /\ StackIsADive' /\ RoundIsBounded'
        BY <2>1, <2>7 DEF IInv, BestBoundHolds, DiveIsBounded, StackIsADive,
                          StackDive, RoundIsBounded, RoundIsOld
    <2>9. BestBoundHolds'
        BY <2>1, <2>8 DEF IInv, BestBoundHolds
    <2> QED BY <1>1, <2>3, <2>4, <2>5, <2>9 DEF IInv
<1> QED BY <1>2, <1>3

LEMMA Invariant == ASSUME NoRayUnderCutoff PROVE Spec => []IInv
<1>1. IInv /\ [Next]_vars => IInv'
    BY NextInv
<1> QED BY InitInv, <1>1, PTL DEF Spec

-----------------------------------------------------------------------------
(* The open nodes of the search, and what has been announced.                *)

Waiting == (heap \cup Range(dstack) \cup Range(round) \cup {next}) \ {NoNode}

\* A node, in the box that the reduced costs leave.
Bare(n, K) == [box |-> n.box \cap K, key |-> n.key]
Hand == IF cur = NoNode THEN {}
        ELSE {[box |-> Box, key |-> Larger(cur.key, key)]}
OpenIs ==
    /\ OpenNodes = {Bare(n, kept) : n \in Waiting} \cup Hand
    /\ OpenNodes \subseteq Search!Node
    /\ \A n \in OpenNodes :
            n.key \in NodeKeys /\ n.key \in Keys /\ n.key \in Int

LEMMA WaitingFacts ==
    ASSUME Types
    PROVE  /\ Waiting \subseteq Sound(model)
           /\ \A n \in Waiting : n.key \in NodeKeys /\ n.box \in SUBSET Points
<1>1. heap \cup Range(dstack) \cup Range(round) \subseteq Sound(model)
    BY RangeOf DEF Types, HeldTypes
<1>2. Waiting \subseteq Sound(model)
    BY <1>1 DEF Waiting, Types, HeldTypes
<1>3. \A n \in Sound(model) : n.key \in NodeKeys /\ n.box \in SUBSET Points
    BY BoxFacts, SoundFacts
<1> QED BY <1>2, <1>3

LEMMA OpenNodesAre == Types => OpenIs
<1> SUFFICES ASSUME Types PROVE OpenIs
    OBVIOUS
<1>1. OpenNodes = {Bare(n, kept) : n \in Waiting} \cup Hand
    <2> DEFINE N ==
            heap \cup Range(dstack) \cup Range(round) \cup {next, InHand}
    <2>1. OpenNodes = {Bare(n, kept) : n \in N \ {NoNode}}
        BY DEF OpenNodes, Strip, Bare
    <2>2. CASE cur = NoNode
        <3>1. N \ {NoNode} = Waiting
            BY <2>2 DEF InHand, Waiting
        <3> QED BY <2>1, <2>2, <3>1 DEF Hand
    <2>3. CASE cur # NoNode
        <3>1. /\ cur \in [id : Nat, box : SUBSET model.root, key : NodeKeys,
                          depth : Nat]
              /\ InHand = [cur EXCEPT !.key = Larger(cur.key, key)]
            BY <2>3, BoxFacts DEF Sound, InHand
        <3>2. /\ InHand.id = cur.id /\ InHand.box = cur.box
              /\ InHand.key = Larger(cur.key, key)
            BY <3>1
        <3>3. InHand # NoNode
            BY <3>1, <3>2 DEF NoNode
        <3>4. N \ {NoNode} = Waiting \cup {InHand}
            BY <3>3 DEF Waiting
        <3>5. Hand = {Bare(InHand, kept)}
            BY <2>3, <3>2 DEF Hand, Bare, Box
        <3> QED BY <2>1, <3>4, <3>5
    <2> QED BY <2>2, <2>3
<1>2. ASSUME NEW m \in OpenNodes
      PROVE  m \in [box : SUBSET Points, key : NodeKeys]
    <2>1. CASE m \in Hand
        <3>1. cur # NoNode /\ m = [box |-> Box, key |-> Larger(cur.key, key)]
            BY <2>1 DEF Hand
        <3>2. Box \in SUBSET Points /\ Larger(cur.key, key) \in NodeKeys
            BY <3>1, BoxFacts, LargerKey DEF Types, HandTypes
        <3> QED BY <3>1, <3>2
    <2>2. CASE m \notin Hand
        <3>1. PICK n \in Waiting : m = Bare(n, kept)
            BY <1>1, <1>2, <2>2
        <3> QED BY <3>1, WaitingFacts DEF Bare
    <2> QED BY <2>1, <2>2
<1>3. OpenNodes \subseteq Search!Node
    BY <1>2, KeyFacts DEF Search!Node, Search!Keys, Search!NegInf, Keys, NegInf
<1>4. \A n \in OpenNodes :
        n.key \in NodeKeys /\ n.key \in Keys /\ n.key \in Int
    <2>1. \A k \in NodeKeys : k \in Keys /\ k \in Int
        BY KeyFacts
    <2> QED BY <1>2, <2>1
<1> QED BY <1>1, <1>3, <1>4 DEF OpenIs

LEMMA OpenNodesNext == Types' => OpenIs'
PROOF BY OpenNodesAre, PTL

\* What has been announced is no worse than the incumbent of this tree.
LEMMA AnnouncedFacts ==
    ASSUME Types
    PROVE  /\ Announced \in Incumbents /\ Announced.key \in Int
           /\ Announced.key <= inc.key /\ inc.key \in Int
           /\ \A k \in Keys : Closed(inc, k) => Closed(Announced, k)
<1>1. /\ inc \in Incumbents /\ first.start \in Incumbents
      /\ \A b \in Incumbents : b.key \in Int
    BY KeyFacts DEF Types, FoundTypes, Incumbents
<1>2. Announced \in Incumbents /\ Announced.key <= inc.key
    BY <1>1 DEF Announced
<1>3. \A k \in Keys : Closed(inc, k) => Closed(Announced, k)
    BY <1>1, <1>2, ClosedAlso
<1> QED BY <1>1, <1>2, <1>3

\* What is offered is announced when it is better.
LEMMA AnnouncedStep ==
    ASSUME Types, first' = first, NEW f \in Incumbents,
           inc' = IF f.key < inc.key THEN f ELSE inc
    PROVE  Announced' = IF f.key < Announced.key THEN f ELSE Announced
<1>1. /\ inc.key \in Int /\ first.start.key \in Int /\ f.key \in Int
    BY KeyFacts DEF Types, FoundTypes, Incumbents
<1> QED BY <1>1 DEF Announced

-----------------------------------------------------------------------------
(* The steps of TreeSearch, in the words of the code.                        *)

StillRuns ==
    /\ IInv /\ Types /\ Types'
    /\ pc # "returned" /\ pc' # "returned"
    /\ model' = model /\ bound' = bound
SameFound == UNCHANGED <<inc, first, aside>>

\* Nothing that the search sees.
LEMMA Stutters ==
    ASSUME StillRuns, aside' = aside, Announced' = Announced,
           OpenNodes' = OpenNodes
    PROVE  UNCHANGED Search!treeVars
PROOF BY DEF StillRuns, Search!treeVars

\* Nodes are dropped, all of them closed.
LEMMA Discards ==
    ASSUME StillRuns, SameFound, OpenNodes' \subseteq OpenNodes,
           \A n \in OpenNodes : n \in OpenNodes' \/ Closed(inc, n.key)
    PROVE  Search!Next
<1> DEFINE S == OpenNodes \ OpenNodes'
<1>1. Announced' = Announced
    BY DEF Announced, SameFound
<1>2. \A n \in S : Closed(Announced, n.key)
    BY AnnouncedFacts, OpenNodesAre DEF StillRuns, OpenIs
<1>3. S \in SUBSET OpenNodes /\ OpenNodes' = OpenNodes \ S
    OBVIOUS
<1> HIDE DEF S
<1>4. Search!Discard(S)
    BY <1>1, <1>2, <1>3
       DEF Search!Discard, Search!Running, StillRuns, SameFound,
           Search!Closed, Closed
<1> QED BY <1>3, <1>4 DEF Search!Next

\* The node in hand is done with: others cover what may matter of it.
LEMMA Explores ==
    ASSUME StillRuns, aside' = aside, Announced' = Announced, cur # NoNode,
           OpenNodes \subseteq OpenNodes' \cup Hand,
           \A p \in Box :
               \/ ~Feasible(model.cost, p)
               \/ Closed(Announced, model.cost[p])
               \/ \E m \in OpenNodes' : p \in m.box /\ m.key <= model.cost[p]
    PROVE  Search!Next
<1> DEFINE n == [box |-> Box, key |-> Larger(cur.key, key)]
<1>1. Hand = {n} /\ n.box = Box
    BY DEF Hand
<1> HIDE DEF n
<1>2. n \in OpenNodes /\ OpenNodes \ {n} \subseteq OpenNodes'
    BY <1>1, OpenNodesAre DEF StillRuns, OpenIs
<1>3. OpenNodes' \subseteq Search!Node
    BY OpenNodesNext DEF StillRuns, OpenIs
<1>4. Search!Covers(OpenNodes', n.box)
    BY <1>1
       DEF Search!Covers, Search!Feasible, Feasible, Search!Beaten,
           Search!Closed, Closed
<1>5. Search!Explore(n)
    BY <1>2, <1>3, <1>4 DEF Search!Explore, Search!Running, StillRuns
<1> QED BY <1>2, <1>5 DEF Search!Next

\* A point is offered: it is a better one of the model, or nothing changes.
LEMMA Improves ==
    ASSUME StillRuns, aside' = aside, first' = first,
           OpenNodes' = OpenNodes,
           NEW f, f = [point |-> f.point, key |-> f.key],
           f \in Incumbents, f.point \in ModelBox,
           f.key \in Relaxed, model.cost[f.point] <= f.key,
           inc' = IF f.key < inc.key THEN f ELSE inc
    PROVE  Search!Next \/ UNCHANGED Search!treeVars
<1>1. Announced' = IF f.key < Announced.key THEN f ELSE Announced
    BY AnnouncedStep DEF StillRuns
<1>2. CASE f.key < Announced.key
    <2>1. f.point \in model.root
        BY BoxFacts DEF StillRuns
    <2>2. f.key \in Search!Keys /\ Search!NegInf < f.key
        <3>1. f.key \in Keys /\ NegInf < f.key
            <4>1. f.key \in NodeKeys /\ f.key # NegInf
                BY KeyFacts
            <4>2. f.key \in Int /\ f.key \in Keys /\ NegInf <= f.key
                  /\ NegInf \in Int
                BY <4>1, KeyFacts
            <4> QED BY <4>1, <4>2
        <3> QED BY <3>1 DEF Search!Keys, Search!NegInf, Keys, NegInf
    <2>3. Search!Improve(f.point, f.key)
        BY <1>1, <1>2, <2>2 DEF Search!Improve, Search!Running, StillRuns
    <2> QED BY <2>1, <2>2, <2>3 DEF Search!Next
<1>3. CASE ~(f.key < Announced.key)
    BY <1>1, <1>3, Stutters
<1> QED BY <1>2, <1>3

\* The node in hand is set aside.
LEMMA GivesUp ==
    ASSUME StillRuns, UNCHANGED <<inc, first>>, cur # NoNode,
           OpenNodes' \subseteq OpenNodes,
           OpenNodes \subseteq OpenNodes' \cup Hand,
           NEW k, aside' = aside \cup {[box |-> Box, key |-> k]},
           IsBound(model.cost, Box, k)
    PROVE  Search!Next
<1>0. Announced' = Announced
    BY DEF Announced
<1> DEFINE S == OpenNodes \ OpenNodes'
<1>1. S \in SUBSET OpenNodes /\ OpenNodes' = OpenNodes \ S
    OBVIOUS
<1>2. \A n \in S : n.box = Box
    BY DEF Hand
<1>3. aside' \subseteq Search!Node
    <2>1. aside' \subseteq Apart
        BY DEF StillRuns, Types, CountTypes
    <2> QED BY <2>1, KeyFacts DEF Apart, Search!Node, Search!Keys,
                Search!NegInf, Keys, NegInf
<1>4. Search!Covers(aside', Box)
    <2> DEFINE m == [box |-> Box, key |-> k]
    <2>1. m \in aside' /\ m.box = Box /\ \A p \in Box : m.key <= model.cost[p]
        BY DEF IsBound
    <2> HIDE DEF m
    <2> QED BY <2>1 DEF Search!Covers
<1> HIDE DEF S
<1>5. Search!SetAside(S)
    BY <1>0, <1>1, <1>2, <1>3, <1>4
       DEF Search!SetAside, Search!Running, StillRuns
<1> QED BY <1>1, <1>5 DEF Search!Next

-----------------------------------------------------------------------------
(* Every step of the code is one of TreeSearch, or leaves its state alone.   *)

InHandStill ==
    /\ pc = "limits" \/ AtNode
    /\ UNCHANGED <<held, kept>> /\ SameFound
Still == UNCHANGED <<held, cur, key, kept, aside>>
EmptyDrop == InHandStill /\ Drops /\ Empty(model.cost, Box)
ClosedDrop == InHandStill /\ Drops /\ AtNode /\ Closed(inc, key)
Solves == InHandStill /\ Relaxing

\* A side of an unbounded relaxation without a point, where a piece was open.
LEMMA SearchDrop ==
    ASSUME NoRayUnderCutoff, IInv, SearchesPoint("INFEASIBLE"), shape.pieces
    PROVE  EmptyDrop
<1>1. /\ pc = "limits" /\ MayBeUnbounded /\ Drops /\ SearchEnds("INFEASIBLE")
      /\ UNCHANGED <<held, kept>> /\ SameFound
    BY DEF SearchesPoint, Ends, found, bounds, SameFound
<1>2. /\ <<model, shape>> \in Worlds /\ shape.ray # {}
      /\ cfg.stops \subseteq {"WORK_LIMIT", "TIME_LIMIT", "INTERRUPTED"}
    BY <1>1, RayFacts DEF IInv, HeapInv, Types, InputTypes, ConfigType
<1>3. <<model, shape>>[1] = model /\ <<model, shape>>[2] = shape
    OBVIOUS
<1>4. ~CutoffCloses
    BY <1>2, <1>3 DEF NoRayUnderCutoff, CutoffCloses
<1>5. Empty(model.cost, Box)
    BY <1>1, <1>2, <1>4 DEF SearchEnds, SolveStops, LimitsMet, Region
<1> QED BY <1>1, <1>5 DEF EmptyDrop, InHandStill

LEMMA Moves ==
    ASSUME NoRayUnderCutoff, IInv, Next, ~End
    PROVE  \/ Still \/ EmptyDrop \/ ClosedDrop \/ Solves \/ SelectNext
           \/ Resume \/ FromRound \/ StartRound \/ Picks \/ Pushes \/ Parts
           \/ NodeFails \/ StartsAgain \/ FixesSome
<1> USE DEF Still, EmptyDrop, ClosedDrop, Solves, InHandStill, SameFound,
            Stops, node, bounds, counts, found
<1>1. CASE Select
    BY <1>1 DEF Select, RoundSolves, Exhausted, Picks
<1>2. CASE Hands
    BY <1>2 DEF Hands, HandedAtTop, HandedAtStop, HandedRefused
<1>3. CASE Solve
    <2>1. CASE NodeInfeasible
        BY <2>1 DEF NodeInfeasible, Ends
    <2>2. ASSUME NEW v \in AnyStop \cup {"UNBOUNDED", "INFEASIBLE"},
                 SearchesPoint(v)
          PROVE  Still \/ EmptyDrop
        <3>1. CASE shape.pieces /\ v = "INFEASIBLE"
            BY <2>2, <3>1, SearchDrop
        <3>2. CASE ~(shape.pieces /\ v = "INFEASIBLE")
            BY <2>2, <3>2 DEF SearchesPoint
        <3> QED BY <3>1, <3>2
    <2>3. CASE \E k \in Relaxed : NodeSolved(k)
        BY <2>3 DEF NodeSolved, Ends, Relaxing
    <2>4. CASE \/ \E v \in Stopped : LimitStops(v)
               \/ \E v \in AnyStop : NodeStops(v)
        BY <2>4 DEF LimitStops, NodeStops
    <2> QED BY <1>3, <2>1, <2>2, <2>3, <2>4 DEF Solve, Pushes
<1>4. CASE Cuts
    <2>1. CASE \E k \in Relaxed : CutsSolved(k)
        BY <2>1 DEF CutsSolved, AtNode, Relaxing
    <2> QED BY <1>4, <2>1 DEF Cuts, NoCuts, CutsEmpty, CutsStop, AtNode
<1>5. CASE Heuristic
    BY <1>5 DEF Heuristic, HeuristicFinds, RoundingFinds, HeuristicFails,
                HeuristicsEnd, RoundingFails, PointFound
<1>6. CASE Callback
    <2>1. CASE \E k \in Relaxed : CallbackRow(k)
        BY <2>1 DEF CallbackRow, AddsRow, AtNode, Relaxing
    <2> QED BY <1>6, <2>1 DEF Callback, CallbackPasses, CallbackRowEmpty,
                CallbackStops, AddsRow, AtNode
<1>7. CASE Fix
    BY <1>7 DEF Fix, FixesSome, NoFix, StartsAgain
<1>8. CASE Close
    <2>1. CASE LeafDone
        BY <2>1 DEF LeafDone, AtNode, IInv, LeafIsPoint
    <2> QED BY <1>8, <2>1 DEF Close, ProgressStops, ClosedByIncumbent,
                LeafTaken, ProbesFail, Parts, AtNode
<1> QED BY <1>1, <1>2, <1>3, <1>4, <1>5, <1>6, <1>7, <1>8 DEF Next

Refined == Search!Next \/ UNCHANGED Search!treeVars

\* What waits stays as it is.
LEMMA HandOnly ==
    ASSUME StillRuns, UNCHANGED <<held, kept>>
    PROVE  \E R : OpenNodes = R \cup Hand /\ OpenNodes' = R \cup Hand'
<1>1. Waiting' = Waiting
    BY DEF Waiting, held
<1>2. /\ OpenNodes = {Bare(n, kept) : n \in Waiting} \cup Hand
      /\ OpenNodes' = {Bare(n, kept') : n \in Waiting'} \cup Hand'
    BY OpenNodesAre, OpenNodesNext DEF StillRuns, OpenIs
<1> QED BY <1>1, <1>2

LEMMA StillRefines ==
    ASSUME StillRuns, IInv, Next, Still, ~StartsAgain PROVE Refined
<1>1. OpenNodes' = OpenNodes
    <2>1. PICK R : OpenNodes = R \cup Hand /\ OpenNodes' = R \cup Hand'
        BY HandOnly DEF Still
    <2>2. Hand' = Hand
        BY DEF Still, Hand, Box
    <2> QED BY <2>1, <2>2
<1>2. CASE UNCHANGED <<inc, first>>
    BY <1>1, <1>2, Stutters DEF Announced, Still, Refined
<1>3. ASSUME first' = first, NEW f \in AnyPoint, Offered(f) PROVE Refined
    <2>1. f = [point |-> f.point, key |-> f.key]
        BY DEF AnyPoint, Found
    <2> QED BY <1>1, <1>3, <2>1, OfferedFacts, Improves
            DEF Offered, Still, StillRuns, Refined
<1>4. ASSUME NEW p \in Box, LeafTaken(p) PROVE Refined
    <2> DEFINE f == [point |-> p, key |-> key]
    <2>1. /\ inc' = f /\ first' = first /\ inc' \in Incumbents
          /\ key < inc.key /\ p \in ModelBox /\ model.cost[p] = key
        BY <1>4, LeafFacts DEF StillRuns
    <2>2. key \in Relaxed /\ key \in Int
        <3>1. key \in Relaxed
            BY <1>4 DEF LeafTaken, IInv, HeapInv, Placement, AtNode
        <3> QED BY <3>1, KeyFacts
    <2>3. f.point = p /\ f.key = key
        OBVIOUS
    <2>4. f = [point |-> f.point, key |-> f.key]
        BY <2>3
    <2> HIDE DEF f
    <2> QED BY <1>1, <2>1, <2>2, <2>3, <2>4, Improves DEF Still, Refined
<1> QED BY <1>2, <1>3, <1>4, IncumbentSteps DEF IncSteps, OffersLeaf, StillRuns

\* The node in hand is dropped: closed, or empty.
LEMMA DropRefines ==
    ASSUME StillRuns, IInv, EmptyDrop \/ ClosedDrop PROVE Refined
<1>1. PICK R : OpenNodes = R \cup Hand /\ OpenNodes' = R \cup Hand'
    BY HandOnly DEF EmptyDrop, ClosedDrop, InHandStill
<1>2. Hand' = {} /\ cur # NoNode /\ SameFound
    BY DEF EmptyDrop, ClosedDrop, InHandStill, Drops, Hand, IInv, HeapInv,
           Placement
<1>3. Announced' = Announced
    BY <1>2 DEF SameFound, Announced
<1>4. CASE EmptyDrop
    BY <1>1, <1>2, <1>3, <1>4, Explores
       DEF EmptyDrop, Empty, SameFound, Refined
<1>5. CASE ClosedDrop
    <2>1. \A n \in Hand : Closed(inc, n.key)
        BY <1>5, BoundInts DEF ClosedDrop, Hand, IInv
    <2> QED BY <1>1, <1>2, <2>1, Discards DEF Refined
<1> QED BY <1>4, <1>5

\* It is solved: its bound may rise.
LEMMA SolvesRefines ==
    ASSUME StillRuns, IInv, IInv', Solves PROVE Refined
<1>1. PICK R : OpenNodes = R \cup Hand /\ OpenNodes' = R \cup Hand'
    BY HandOnly DEF Solves, InHandStill
<1>2. PICK k \in Relaxed : Relaxes(k)
    BY DEF Solves, Relaxing
<1>3. /\ cur # NoNode /\ cur' = cur /\ kept' = kept /\ key' = k
      /\ IsBound(model.cost, Box, k) /\ SameFound
      /\ Larger(cur.key, key) <= k
    BY <1>2
       DEF Solves, InHandStill, Relaxing, Relaxes, IInv, HeapInv, Placement
<1>4. Larger(cur.key, k) = k
    <2>1. cur.key \in NodeKeys /\ key \in NodeKeys /\ k \in NodeKeys
        BY <1>3, BoxFacts, KeyFacts DEF StillRuns, Types, HandTypes
    <2>2. cur.key <= Larger(cur.key, key) /\ Larger(cur.key, key) \in NodeKeys
        BY <2>1, LargerKey
    <2>3. cur.key \in Int /\ Larger(cur.key, key) \in Int /\ k \in Int
        BY <2>1, <2>2, KeyFacts
    <2> QED BY <1>3, <2>2, <2>3 DEF Larger
<1> DEFINE m == [box |-> Box, key |-> k]
<1>5. Hand' = {m}
    BY <1>3, <1>4 DEF Hand, Box
<1>6. m.box = Box /\ m.key = k
    OBVIOUS
<1>7. Announced' = Announced
    BY <1>3 DEF SameFound, Announced
<1> HIDE DEF m
<1>8. m \in OpenNodes'
    BY <1>1, <1>5
<1>9. \A p \in Box : p \in m.box /\ m.key <= model.cost[p]
    BY <1>3, <1>6 DEF IsBound
<1> QED BY <1>1, <1>3, <1>5, <1>7, <1>8, <1>9, Explores DEF SameFound, Refined

\* The moves of nodes that wait, and of the one in hand.
LEMMA NodesMove ==
    ASSUME StillRuns, kept' = kept
    PROVE  /\ OpenNodes = {Bare(n, kept) : n \in Waiting} \cup Hand
           /\ OpenNodes' = {Bare(n, kept) : n \in Waiting'} \cup Hand'
PROOF BY OpenNodesAre, OpenNodesNext DEF StillRuns, OpenIs

TakesOneOf(n) ==
    /\ n \in Sound(model) /\ Takes(n)
    /\ Waiting = Waiting' \cup {n}
LEMMA TakesFromWaiting ==
    ASSUME StillRuns, SelectNext \/ Resume \/ FromRound
    PROVE  /\ \E n : TakesOneOf(n)
           /\ kept' = kept /\ SameFound /\ pc = "select"
<1>1. /\ dstack \in Seq(Sound(model)) /\ round \in Seq(Sound(model))
      /\ next \in Sound(model) \cup {NoNode}
    BY DEF StillRuns, Types, HeldTypes
<1>2. kept' = kept /\ SameFound /\ pc = "select"
    BY DEF SelectNext, Resume, FromRound, bounds, found, counts, SameFound
<1>3. CASE SelectNext
    <2>1. /\ next # NoNode /\ Takes(next) /\ next' = NoNode
          /\ UNCHANGED <<heap, dstack, round>>
        BY <1>3 DEF SelectNext
    <2>2. next \in Sound(model)
        BY <1>1, <2>1
    <2>3. Waiting = Waiting' \cup {next}
        BY <2>1 DEF Waiting
    <2> QED BY <1>2, <2>1, <2>2, <2>3 DEF TakesOneOf
<1>4. CASE Resume
    <2> DEFINE n == Last(dstack)
    <2>1. /\ dstack # <<>> /\ Takes(n) /\ dstack' = Front(dstack)
          /\ UNCHANGED <<heap, next, round>>
        BY <1>4 DEF Resume, MayResume
    <2>2. n \in Sound(model) /\ Range(dstack) = Range(dstack') \cup {n}
        BY <1>1, <2>1, FrontOf
    <2>3. n # NoNode
        BY <2>2, SoundFacts
    <2> HIDE DEF n
    <2>4. Waiting = Waiting' \cup {n}
        BY <2>1, <2>2, <2>3 DEF Waiting
    <2> QED BY <1>2, <2>1, <2>2, <2>4 DEF TakesOneOf
<1>5. CASE FromRound
    <2> DEFINE n == Head(round)
    <2>1. /\ round # <<>> /\ Takes(n) /\ round' = Tail(round)
          /\ UNCHANGED <<heap, next, dstack>>
        BY <1>5 DEF FromRound
    <2>2. n \in Sound(model) /\ Range(round) = Range(round') \cup {n}
        BY <1>1, <2>1, RangeOfTail
    <2>3. n # NoNode
        BY <2>2, SoundFacts
    <2> HIDE DEF n
    <2>4. Waiting = Waiting' \cup {n}
        BY <2>1, <2>2, <2>3 DEF Waiting
    <2> QED BY <1>2, <2>1, <2>2, <2>4 DEF TakesOneOf
<1> QED BY <1>2, <1>3, <1>4, <1>5

\* A node that waited is in hand, or is closed and freed.
LEMMA TakesRefines ==
    ASSUME StillRuns, IInv, SelectNext \/ Resume \/ FromRound PROVE Refined
<1>1. PICK n : TakesOneOf(n)
    BY TakesFromWaiting
<1>2. /\ n \in Sound(model) /\ Takes(n) /\ Waiting = Waiting' \cup {n}
      /\ kept' = kept /\ SameFound /\ cur = NoNode /\ key = NegInf
    BY <1>1, TakesFromWaiting DEF TakesOneOf, IInv, HeapInv, Placement
<1>3. /\ OpenNodes = {Bare(m, kept) : m \in Waiting'} \cup {Bare(n, kept)}
      /\ OpenNodes' = {Bare(m, kept) : m \in Waiting'} \cup Hand'
    BY <1>2, NodesMove DEF Hand
<1>4. Announced' = Announced /\ n # NoNode /\ n.key \in NodeKeys
    BY <1>2, SoundFacts DEF SameFound, Announced
<1>5. CASE IsOpen(n)
    <2>1. cur' = n /\ key' = key
        BY <1>2, <1>5 DEF Takes
    <2>2. Larger(n.key, NegInf) = n.key
        BY <1>4, KeyFacts, LargerKey
    <2>3. Hand' = {Bare(n, kept)}
        BY <1>2, <1>4, <2>1, <2>2 DEF Hand, Bare, Box
    <2> QED BY <1>2, <1>3, <1>4, <2>3, Stutters DEF SameFound, Refined
<1>6. CASE ~IsOpen(n)
    <2>1. Hand' = {} /\ Closed(inc, n.key)
        BY <1>2, <1>6 DEF Takes, Hand, IsOpen
    <2>2. Bare(n, kept).key = n.key
        BY DEF Bare
    <2> QED BY <1>2, <1>3, <2>1, <2>2, Discards DEF Refined
<1> QED BY <1>5, <1>6

\* The dive's stack goes to the heap.
LEMMA RoundRefines ==
    ASSUME StillRuns, IInv, StartRound PROVE Refined
<1>1. /\ heap' = heap \cup Range(dstack) /\ dstack' = <<>>
      /\ UNCHANGED <<next, round, cur, key, kept, aside, inc, first>>
    BY DEF StartRound, OpenPush, node, found, counts
<1>2. Waiting' = Waiting
    BY <1>1, RangeOfEmpty DEF Waiting
<1>3. Hand' = Hand
    BY <1>1 DEF Hand, Box
<1>4. OpenNodes' = OpenNodes
    BY <1>1, <1>2, <1>3, NodesMove
<1> QED BY <1>1, <1>4, Stutters DEF Announced, Refined

\* A node is picked, or is closed and freed.
LEMMA PickRefines ==
    ASSUME StillRuns, IInv, Picks PROVE Refined
<1>1. PICK n \in heap : Pick(n)
    BY DEF Picks
<1>2. /\ heap' = heap \ {n}
      /\ round' = IF round # <<>> /\ ~IsOpen(n) THEN round
                                                ELSE Append(round, n)
      /\ UNCHANGED <<next, dstack, cur, key, kept, aside, inc, first>>
    BY <1>1 DEF Pick, OpenPick, node, found, counts
<1>3. n \in Sound(model) /\ round \in Seq(Sound(model))
    BY DEF StillRuns, Types, HeldTypes
<1>4. Hand' = Hand /\ SameFound /\ Announced' = Announced /\ n # NoNode
    BY <1>2, <1>3, SoundFacts DEF Hand, Box, SameFound, Announced
<1>5. /\ OpenNodes = {Bare(m, kept) : m \in Waiting} \cup Hand
      /\ OpenNodes' = {Bare(m, kept) : m \in Waiting'} \cup Hand
    BY <1>2, <1>4, NodesMove
<1>6. CASE round # <<>> /\ ~IsOpen(n)
    <2>1. Waiting' \subseteq Waiting /\ Waiting \subseteq Waiting' \cup {n}
        BY <1>2, <1>6 DEF Waiting
    <2>2. Closed(inc, Bare(n, kept).key)
        BY <1>6 DEF IsOpen, Bare
    <2>3. OpenNodes \subseteq OpenNodes' \cup {Bare(n, kept)}
        BY <1>5, <2>1
    <2>4. OpenNodes' \subseteq OpenNodes
        BY <1>5, <2>1
    <2> QED BY <1>4, <2>2, <2>3, <2>4, Discards DEF Refined
<1>7. CASE ~(round # <<>> /\ ~IsOpen(n))
    <2>1. Range(round') = Range(round) \cup {n}
        BY <1>2, <1>3, <1>7, RangeOfAppend
    <2>2. Waiting' = Waiting
        BY <1>1, <1>2, <2>1 DEF Waiting
    <2> QED BY <1>2, <1>4, <1>5, <2>2, Stutters DEF Refined
<1> QED BY <1>6, <1>7

\* A node in hand that is replaced by parts of it.
LEMMA PartsRefine ==
    ASSUME StillRuns, IInv, UNCHANGED <<kept, aside, inc, first>>,
           cur # NoNode, Waiting \subseteq Waiting',
           NEW k, IsBound(model.cost, Box, k),
           \A p \in Box : Feasible(model.cost, p) =>
               \E n \in Waiting' : p \in n.box /\ n.key = k
    PROVE  Refined
<1>1. Announced' = Announced
    BY DEF Announced
<1>2. OpenNodes \subseteq OpenNodes' \cup Hand
    BY NodesMove
<1>3. ASSUME NEW p \in Box, Feasible(model.cost, p)
      PROVE  \E m \in OpenNodes' : p \in m.box /\ m.key <= model.cost[p]
    <2>1. PICK n \in Waiting' : p \in n.box /\ n.key = k
        BY <1>3
    <2>2. Bare(n, kept) \in OpenNodes' /\ p \in kept
        BY <2>1, NodesMove, BoxFacts DEF StillRuns
    <2>3. p \in Bare(n, kept).box /\ Bare(n, kept).key <= model.cost[p]
        BY <2>1, <2>2 DEF Bare, IsBound
    <2> QED BY <2>2, <2>3
<1> QED BY <1>1, <1>2, <1>3, Explores DEF Refined

LEMMA PushRefines ==
    ASSUME StillRuns, IInv, Pushes PROVE Refined
<1>1. PICK s \in OpenPieces : OpensPiece(s)
    BY DEF Pushes
<1>2. /\ heap' = heap \cup Sides(s) /\ pc = "limits"
      /\ UNCHANGED <<dstack, next, round, kept, aside, inc, first>>
    BY <1>1 DEF OpensPiece, Ends, OpenPush, found, bounds
<1>3. cur # NoNode
    BY <1>2 DEF IInv, HeapInv, Placement
<1>4. /\ Sides(s) \subseteq Sound(model)
      /\ \A n \in Sides(s) : n.key = cur.key
      /\ \A p \in Box : Feasible(model.cost, p) =>
              \E n \in Sides(s) : p \in n.box
    BY <1>1, <1>3, SidesAreSound DEF StillRuns
<1>5. IsBound(model.cost, Box, cur.key)
    BY <1>3, BoxFacts DEF StillRuns
<1>6. Waiting \subseteq Waiting' /\ Sides(s) \subseteq Waiting'
    BY <1>2, <1>4, SoundFacts DEF Waiting
<1> QED BY <1>2, <1>3, <1>4, <1>5, <1>6, PartsRefine

LEMMA BranchRefines ==
    ASSUME StillRuns, IInv, Parts PROVE Refined
<1>1. PICK s \in Splits[Box], side \in 1 .. 2, dives \in BOOLEAN :
          Branches(s, side, dives)
    BY DEF Parts
<1> DEFINE one == Halves(s)[side]
           other == Halves(s)[3 - side]
<1>2. /\ pc = "close" /\ Places(one, other, dives)
      /\ UNCHANGED <<round, kept, aside, inc, first>>
    BY <1>1 DEF Branches, found, bounds
<1>3. /\ one \in Sound(model) /\ other \in Sound(model)
      /\ one.key = key /\ other.key = key
      /\ \A p \in Box : Feasible(model.cost, p) =>
            p \in one.box \/ p \in other.box
    BY <1>2, HalvesAreSound DEF StillRuns, IInv, HeapInv
<1> HIDE DEF one, other
<1>4. cur # NoNode /\ IsBound(model.cost, Box, key) /\ AtNode
    BY <1>2 DEF IInv, HeapInv, Placement, AtNode
<1>5. one # NoNode /\ other # NoNode
    BY <1>3, SoundFacts
<1>6. next = NoNode
    BY <1>4 DEF IInv, NextIsFree
<1>7. /\ heap \subseteq heap' /\ Range(dstack) \subseteq Range(dstack')
      /\ one \in heap' \cup {next'}
      /\ other \in heap' \cup Range(dstack')
    <2>1. dstack \in Seq(Sound(model))
        BY DEF StillRuns, Types, HeldTypes
    <2>2. Range(Append(dstack, other)) = Range(dstack) \cup {other}
        BY <1>3, <2>1, RangeOfAppend
    <2> QED BY <1>2, <2>2 DEF Places, OpenPush
<1>8. /\ Waiting \subseteq Waiting' /\ one \in Waiting' /\ other \in Waiting'
    BY <1>2, <1>5, <1>6, <1>7 DEF Waiting
<1> QED BY <1>2, <1>3, <1>4, <1>8, PartsRefine

LEMMA FailureRefines ==
    ASSUME StillRuns, IInv, NodeFails PROVE Refined
<1>1. /\ aside' = aside \cup {[box |-> Box, key |-> cur.key]} /\ pc = "limits"
      /\ cur' = NoNode
      /\ UNCHANGED <<held, kept, inc, first>>
    BY DEF NodeFails, Ends, Drops, found
<1>2. cur # NoNode
    BY <1>1 DEF IInv, HeapInv, Placement
<1>3. IsBound(model.cost, Box, cur.key)
    BY <1>2, BoxFacts DEF StillRuns
<1>4. PICK R : OpenNodes = R \cup Hand /\ OpenNodes' = R \cup Hand'
    BY <1>1, HandOnly
<1>5. Hand' = {}
    BY <1>1 DEF Hand
<1>6. /\ OpenNodes' \subseteq OpenNodes
      /\ OpenNodes \subseteq OpenNodes' \cup Hand
    BY <1>4, <1>5
<1> QED BY <1>1, <1>2, <1>3, <1>6, GivesUp DEF Refined

\* The root, in a narrower box: the incumbent closes what is left out.
LEMMA NarrowingCovers ==
    ASSUME StillRuns, HasIncumbent, cur # NoNode, Waiting = {},
           Waiting' = {}, aside' = aside, Announced' = Announced,
           NEW S, Room \subseteq S, S \subseteq kept,
           NEW k, k <= key, k \in Int, cur' # NoNode,
           Hand' = {[box |-> cur.box \cap S, key |-> k]},
           key \in Int, IsBound(model.cost, Box, key)
    PROVE  Refined
<1>1. OpenNodes = Hand /\ OpenNodes' = Hand'
    BY OpenNodesAre, OpenNodesNext DEF StillRuns, OpenIs
<1>2. \A c \in Keys : Closed(inc, c) => Closed(Announced, c)
    BY AnnouncedFacts DEF StillRuns
<1>3. /\ inc \in Incumbents /\ inc.key < model.cutoff
      /\ inc.key \in Int /\ model.cutoff \in Int /\ model.cutoff <= Inf
      /\ Inf \in Int
    <2>1. inc \in Incumbents /\ model.cutoff \in Keys
        BY WorldFacts DEF StillRuns, Types, InputTypes, FoundTypes
    <2>2. inc.key < model.cutoff
        BY DEF StillRuns, IInv, IncIsReal, IsReal
    <2> QED BY <2>1, <2>2, KeyFacts DEF Incumbents
<1>4. inc.key < Inf
    BY <1>3
<1> DEFINE m == [box |-> cur.box \cap S, key |-> k]
<1>5. m \in OpenNodes' /\ m.box = cur.box \cap S /\ m.key = k
    BY <1>1
<1> HIDE DEF m
<1>6. ASSUME NEW p \in Box
      PROVE  \/ Closed(Announced, model.cost[p])
             \/ p \in m.box /\ m.key <= model.cost[p]
    <2>1. /\ p \in cur.box /\ p \in kept /\ model.cost[p] \in Keys
          /\ model.cost[p] \in Int /\ key <= model.cost[p]
        <3>1. p \in cur.box /\ p \in kept
            BY <1>6 DEF Box
        <3>2. model.cost[p] \in Keys
            BY <1>6, BoxFacts DEF StillRuns
        <3> QED BY <1>6, <3>1, <3>2, KeyFacts DEF IsBound
    <2>2. CASE p \in S
        BY <1>5, <2>1, <2>2
    <2>3. CASE p \notin S
        <3>1. inc.key <= model.cost[p]
            BY <1>3, <2>1, <2>3 DEF Room
        <3> QED BY <1>2, <1>3, <1>4, <2>1, <3>1, ClosedByItself
    <2> QED BY <2>2, <2>3
<1> QED BY <1>1, <1>5, <1>6, Explores DEF Refined

LEMMA RestartRefines ==
    ASSUME StillRuns, IInv, StartsAgain PROVE Refined
<1>1. PICK S \in SUBSET kept : Restarts(S)
    BY DEF StartsAgain
<1>2. /\ pc = "fix" /\ nodes = 1 /\ HasIncumbent /\ ~first.asked
      /\ AtRootNode /\ kept = ModelBox /\ Room \subseteq S
      /\ first' = [asked |-> TRUE, start |-> inc, box |-> S]
      /\ inc' = [key |-> model.cutoff, point |-> NoPoint]
    BY <1>1, RestartFacts DEF IInv
<1>3. NoneWaits /\ NoneWaits'
    BY AloneFacts DEF IInv
<1>4. Waiting = {} /\ Waiting' = {}
    BY <1>3, RangeOfEmpty DEF Waiting, NoneWaits
<1>5. cur = Root(ModelBox) /\ cur # NoNode /\ AtNode
      /\ key \in NodeKeys /\ IsBound(model.cost, Box, key)
    BY <1>2 DEF IInv, HeapInv, RootAlone, Placement, AtNode, Types, HandTypes
<1>6. /\ cur' = Root(S) /\ kept' = S /\ key' = NegInf /\ aside' = aside
    BY <1>1 DEF Restarts
<1>7. cur.box = kept
    BY <1>2, <1>5 DEF Root
<1>8. cur' # NoNode /\ Hand' = {[box |-> cur.box \cap S, key |-> NegInf]}
    <2>1. cur'.box = S /\ cur'.key = NegInf /\ cur' # NoNode
        BY <1>6 DEF Root, NoNode
    <2>2. Larger(NegInf, NegInf) = NegInf
        BY KeyFacts, LargerKey
    <2>3. Box' = cur.box \cap S
        BY <1>6, <1>7, <2>1 DEF Box
    <2> QED BY <1>6, <2>1, <2>2, <2>3 DEF Hand
<1>9. Announced = inc /\ Announced' = inc
    <2>1. inc.key < model.cutoff
        BY <1>2 DEF IInv, IncIsReal, IsReal
    <2>2. inc \in Incumbents /\ model.cutoff \in Keys
        BY WorldFacts DEF StillRuns, Types, InputTypes, FoundTypes
    <2>3. inc.key \in Int /\ model.cutoff \in Int
        BY <2>2, KeyFacts DEF Incumbents
    <2>4. inc.key <= model.cutoff
        BY <2>1, <2>3
    <2> QED BY <1>2, <2>4 DEF Announced
<1>10. NegInf <= key /\ NegInf \in Int /\ key \in Int
    BY <1>5, KeyFacts
<1> QED BY <1>1, <1>2, <1>4, <1>5, <1>6, <1>8, <1>9, <1>10, NarrowingCovers

LEMMA FixingRefines ==
    ASSUME StillRuns, IInv, FixesSome PROVE Refined
<1>1. PICK S \in SUBSET kept : Fixes(S)
    BY DEF FixesSome
<1>2. /\ pc = "fix" /\ nodes = 1 /\ HasIncumbent /\ Room \subseteq S
      /\ kept' = S
      /\ UNCHANGED <<held, cur, key, inc, first, aside>>
    BY <1>1 DEF Fixes, Narrows, Narrowed, node, found, counts
<1>3. AtNode /\ AtRootNode
    BY <1>2 DEF AtNode, AtRootNode
<1>4. NoneWaits /\ cur # NoNode /\ key \in NodeKeys
      /\ IsBound(model.cost, Box, key)
    BY <1>2, <1>3 DEF IInv, HeapInv, RootAlone, Placement, Types, HandTypes
<1>5. Waiting = {} /\ Waiting' = {}
    BY <1>2, <1>4, RangeOfEmpty DEF Waiting, NoneWaits, held
<1>6. Larger(cur.key, key) = key /\ key \in Int
    BY <1>3, <1>4, BoundInts, KeyFacts DEF IInv
<1>7. Hand' = {[box |-> cur.box \cap S, key |-> key]} /\ cur' # NoNode
    BY <1>2, <1>4, <1>6 DEF Hand, Box
<1>8. OpenNodes = Hand /\ OpenNodes' = Hand'
    BY <1>5, OpenNodesAre, OpenNodesNext DEF StillRuns, OpenIs
<1>9. Announced' = Announced /\ key <= key
    BY <1>2, <1>6 DEF Announced
<1> QED BY <1>2, <1>4, <1>5, <1>6, <1>7, <1>9, NarrowingCovers

-----------------------------------------------------------------------------
(* What the tree returns.                                                    *)

Verdict == IF code # "OK" THEN "ERR" ELSE outcome
Returning ==
    /\ IInv /\ Types /\ Types'
    /\ pc # "returned" /\ pc' = "returned"
    /\ UNCHANGED <<model, held, cur, key, kept, inc, first, aside>>

LEMMA ReturnsAsItIs ==
    ASSUME Returning
    PROVE  OpenNodes' = OpenNodes /\ Announced' = Announced
<1>1. Waiting' = Waiting /\ Hand' = Hand
    BY DEF Returning, Waiting, Hand, Box, held
<1>2. /\ OpenNodes = {Bare(n, kept) : n \in Waiting} \cup Hand
      /\ OpenNodes' = {Bare(n, kept) : n \in Waiting'} \cup Hand'
    BY OpenNodesAre, OpenNodesNext DEF Returning, OpenIs
<1> QED BY <1>1, <1>2 DEF Returning, Announced

\* With what it has not finished, and a bound of that.
LEMMA Returns ==
    ASSUME Returning,
           \/ Verdict' \in Search!Stops
           \/ /\ Verdict' = "UNBOUNDED"
              /\ \E p \in model.root : model.cost[p] = NegInf,
           \A n \in OpenNodes : bound' <= n.key,
           \A n \in aside : bound' <= n.key
    PROVE  Search!Next
<1>1. bound' \in {b \in Search!Keys : Search!Keeps(b)}
    <2>1. bound' \in Search!Keys
        BY DEF Returning, Types, CountTypes, Search!Keys, Search!NegInf, Keys,
               NegInf
    <2> QED BY <2>1 DEF Search!Keeps
<1> USE ReturnsAsItIs
<1>2. CASE Verdict' \in Search!Stops
    <2>1. Search!Stop(Verdict')
        BY <1>1 DEF Search!Stop, Search!Running, Returning, Verdict
    <2> QED BY <1>2, <2>1 DEF Search!Next
<1>3. CASE /\ Verdict' = "UNBOUNDED"
           /\ \E p \in model.root : model.cost[p] = NegInf
    <2>1. Search!Unbounded
        BY <1>1, <1>3 DEF Search!Unbounded, Search!Running, Search!NegInf,
              NegInf, Returning, Verdict
    <2> QED BY <2>1 DEF Search!Next
<1> QED BY <1>2, <1>3

\* An error leaves no bound.
LEMMA ErrorRefines ==
    ASSUME Returning, OutOfMemory \/ StaleRead PROVE Search!Next
<1>1. Verdict' = "ERR" /\ bound' = NegInf
    BY DEF OutOfMemory, StaleRead, Verdict, Returning, IInv, HeapInv, Placement
<1>2. \A n \in OpenNodes : n.key \in Keys
    BY OpenNodesAre DEF Returning, OpenIs
<1>3. \A n \in aside : n.key \in Keys
    BY KeyFacts DEF Returning, Types, CountTypes, Apart
<1>4. \A k \in Keys : NegInf <= k
    BY KeyFacts
<1>5. "ERR" \in Search!Stops
    BY DEF Search!Stops
<1> QED BY <1>1, <1>2, <1>3, <1>4, <1>5, Returns

\* The bound that is returned is one of all that is left.
LEMMA EndBoundKeeps ==
    ASSUME IInv, Types, pc = "finish", ~(HasIncumbent /\ outcome' = "OPTIMAL")
    PROVE  /\ \A n \in OpenNodes : EndBound <= n.key
           /\ \A n \in aside : EndBound <= n.key
<1>1. /\ EndBound \in Int /\ bestBound \in Int /\ parkedKey \in Int
      /\ EndBound <= parkedKey /\ EndBound <= bestBound
      /\ \A n \in heap \cup Range(dstack) : EndBound <= n.key
    <2>1. EndBound \in Int
        BY EndBoundFacts, KeyFacts DEF IInv, HeapInv
    <2> QED BY <2>1, EndBoundFacts, BoundInts DEF IInv, HeapInv
<1>2. /\ \A n \in Range(round) : bestBound <= n.key
      /\ next # NoNode => bestBound <= next.key
      /\ cur # NoNode => bestBound <= Larger(cur.key, key)
      /\ \A n \in aside : parkedKey <= n.key
    BY DEF IInv, BestBoundHolds, RoundIsBounded, RoundIsOld
<1>3. \A n \in Waiting : n.key \in Int
    BY WaitingFacts, KeyFacts
<1>4. ASSUME NEW n \in Waiting PROVE EndBound <= n.key
    <2>1. CASE n \in heap \cup Range(dstack)
        BY <1>1, <2>1
    <2>2. CASE n \in Range(round) \/ (n = next /\ next # NoNode)
        <3>1. bestBound <= n.key /\ n.key \in Int
            BY <1>2, <1>3, <1>4, <2>2
        <3> QED BY <1>1, <3>1
    <2> QED BY <1>4, <2>1, <2>2 DEF Waiting
<1>5. ASSUME NEW n \in Hand PROVE EndBound <= n.key
    <2>1. /\ cur # NoNode /\ n.key = Larger(cur.key, key)
          /\ Larger(cur.key, key) \in Int
        BY <1>5, BoundInts DEF Hand, IInv
    <2>2. bestBound <= n.key /\ n.key \in Int
        BY <1>2, <2>1
    <2> QED BY <1>1, <2>2
<1>6. ASSUME NEW n \in aside PROVE EndBound <= n.key
    <2>1. n.key \in Int /\ parkedKey <= n.key
        BY <1>2, KeyFacts DEF Types, CountTypes, Apart
    <2> QED BY <1>1, <2>1
<1>7. \A n \in Waiting : Bare(n, kept).key = n.key
    BY DEF Bare
<1> QED BY <1>4, <1>5, <1>6, <1>7, OpenNodesAre DEF OpenIs

LEMMA OptimumRefines ==
    ASSUME Returning, Finish, outcome' = "OPTIMAL" PROVE Search!Next
<1>1. /\ outcome = "OPTIMAL" /\ ~Unsettled /\ pc = "finish" /\ code' = "OK"
      /\ bound' = EndBound
    BY DEF Finish, Returning, IInv, HeapInv, Placement
<1>2. NoneHeld /\ HasIncumbent /\ EndBound = inc.key
    BY <1>1, EndBoundFacts DEF Returning, IInv, HeapInv, OutcomeIsSound
<1>3. OpenNodes = {}
    BY <1>2, OpenNodesAre, RangeOfEmpty
       DEF Returning, OpenIs, NoneHeld, NoneWaits, Waiting, Hand
<1>4. ASSUME NEW n \in aside PROVE Closed(Announced, n.key)
    <2>1. Closed(inc, parkedKey) /\ parkedKey <= n.key
        BY <1>1 DEF Unsettled, Returning, IInv, BestBoundHolds
    <2>2. n.key \in Keys /\ parkedKey \in Keys /\ inc \in Incumbents
        BY KeyFacts DEF Returning, Types, CountTypes, FoundTypes, Apart
    <2>3. Closed(inc, n.key)
        BY <2>1, <2>2, ClosedAbove
    <2> QED BY <2>2, <2>3, AnnouncedFacts DEF Returning
<1>5. Announced.key = inc.key /\ Announced.point # NoPoint
    <2>1. first.asked => inc.key <= first.start.key /\ IsReal(first.start)
        BY <1>1 DEF Returning, IInv, StartIsTried, IncIsReal
    <2>2. first.asked => first.start.point # NoPoint
        BY <2>1, BoxFacts DEF Returning, IsReal
    <2>3. inc.key \in Int /\ first.start.key \in Int
        BY KeyFacts DEF Returning, Types, FoundTypes, Incumbents
    <2> QED BY <1>2, <2>1, <2>2, <2>3 DEF Announced, HasIncumbent
<1>6. Search!Optimal
    BY <1>1, <1>2, <1>3, <1>4, <1>5, ReturnsAsItIs
       DEF Search!Optimal, Search!Running, Search!NoPoint, NoPoint,
           Search!Closed, Closed, Returning
<1> QED BY <1>6 DEF Search!Next

LEMMA InfeasibleRefines ==
    ASSUME Returning, Finish, outcome' = "INFEASIBLE" PROVE Search!Next
<1>1. /\ outcome = "INFEASIBLE" /\ ~Unsettled /\ pc = "finish" /\ code' = "OK"
    BY DEF Finish, Returning, IInv, HeapInv, Placement
<1>2. /\ aside = {} /\ ~first.asked /\ ~HasIncumbent
      /\ NoneHeld \/ Empty(model.cost, model.root)
    BY <1>1 DEF Unsettled, Returning, IInv, OutcomeIsSound
<1>3. NoneHeld => OpenNodes = {}
    BY OpenNodesAre, RangeOfEmpty
       DEF Returning, OpenIs, NoneHeld, NoneWaits, Waiting, Hand
<1>4. bound' \in Search!Keys
    BY DEF Returning, Types, CountTypes, Search!Keys, Search!NegInf, Keys,
           NegInf
<1>5. Announced.point = NoPoint
    BY <1>2 DEF Announced, HasIncumbent
<1>6. OpenNodes \cup aside = {} \/ Search!Empty(model.cost, model.root)
    BY <1>2, <1>3 DEF Search!Empty, Empty, Search!Feasible, Feasible
<1>7. Search!Infeasible
    BY <1>1, <1>4, <1>5, <1>6, ReturnsAsItIs
       DEF Search!Infeasible, Search!Running, Search!NoPoint, NoPoint,
           Returning
<1> QED BY <1>7 DEF Search!Next

LEMMA FinishRefines ==
    ASSUME Returning, Finish PROVE Search!Next
<1>1. /\ pc = "finish" /\ code' = "OK" /\ bound' = EndBound
      /\ outcome' = IF Unsettled THEN "NUMERICAL_ERROR" ELSE outcome
    BY DEF Finish, Returning, IInv, HeapInv, Placement
<1>2. outcome \in Outcomes \ {"NOT_RUN"}
    BY <1>1 DEF Returning, Types, CountTypes, IInv, OutcomeIsSound
<1>3. CASE outcome' \notin {"OPTIMAL", "INFEASIBLE"}
    <2>1. /\ \A n \in OpenNodes : bound' <= n.key
          /\ \A n \in aside : bound' <= n.key
        BY <1>1, <1>3, EndBoundKeeps DEF Returning
    <2>2. \/ outcome' \in Search!Stops
          \/ outcome' = "UNBOUNDED" /\ outcome = "UNBOUNDED"
        BY <1>1, <1>2, <1>3 DEF Outcomes, Stopped, Search!Stops
    <2>3. outcome = "UNBOUNDED" => \E p \in model.root : model.cost[p] = NegInf
        BY <1>1 DEF Returning, IInv, OutcomeIsSound
    <2> QED BY <1>1, <2>1, <2>2, <2>3, Returns DEF Verdict
<1> QED BY <1>3, OptimumRefines, InfeasibleRefines

-----------------------------------------------------------------------------
(* The tree is a TreeSearch.                                                 *)

LEMMA MoveRefines ==
    ASSUME NoRayUnderCutoff, StillRuns, IInv', Next, ~End PROVE Refined
<1>1. IInv
    BY DEF StillRuns
<1>2. ASSUME Still PROVE Refined
    BY <1>1, <1>2, StillRefines, RestartRefines
<1> QED BY <1>1, <1>2, Moves, DropRefines, SolvesRefines, TakesRefines,
           RoundRefines, PickRefines, PushRefines, BranchRefines,
           FailureRefines, RestartRefines, FixingRefines

LEMMA NotYetReturned ==
    ASSUME IInv, Next, ~End
    PROVE  pc # "returned" /\ pc' # "returned" /\ bound' = bound
<1> USE DEF Goes
<1>1. CASE Select
    BY <1>1 DEF Select, SelectNext, Resume, FromRound, StartRound, Pick,
                RoundSolves, Exhausted, Takes, result
<1>2. CASE Hands
    BY <1>2 DEF Hands, HandedAtTop, HandedAtStop, HandedRefused, Stops, result
<1>3. CASE Solve
    BY <1>3 DEF Solve, LimitStops, NodeInfeasible, NodeFails, NodeStops,
                SearchesPoint, NodeSolved, OpensPiece, Stops, Drops, Ends,
                result
<1>4. CASE Cuts
    BY <1>4 DEF Cuts, CutsSolved, NoCuts, CutsEmpty, CutsStop, Stops, Drops,
                AfterCuts, result
<1>5. CASE Heuristic
    BY <1>5 DEF Heuristic, HeuristicFinds, RoundingFinds, HeuristicFails,
                HeuristicsEnd, RoundingFails, PointFound, Trying, Stops, result
<1>6. CASE Callback
    BY <1>6 DEF Callback, CallbackPasses, CallbackRow, CallbackRowEmpty,
                CallbackStops, AddsRow, Stops, Drops, result
<1>7. CASE Fix
    BY <1>7 DEF Fix, Restarts, Fixes, NoFix, result
<1>8. CASE Close
    BY <1>8 DEF Close, ProgressStops, ClosedByIncumbent, LeafTaken, LeafDone,
                ProbesFail, Branches, Stops, Drops, result
<1> QED BY <1>1, <1>2, <1>3, <1>4, <1>5, <1>6, <1>7, <1>8 DEF Next

LEMMA StepRefines ==
    ASSUME NoRayUnderCutoff, IInv, IInv', [Next]_vars
    PROVE  [Search!Next]_(Search!treeVars)
<1>1. Types /\ Types'
    BY DEF IInv, HeapInv
<1>2. CASE Next /\ ~End
    <2>1. StillRuns
        BY <1>1, <1>2, NotYetReturned, NextFixes DEF StillRuns
    <2> QED BY <1>2, <2>1, MoveRefines DEF Refined
<1>3. CASE End
    <2>1. Returning
        BY <1>1, <1>3
           DEF End, Finish, OutOfMemory, StaleRead, Returning, fixed, node,
               bounds, found, counts, held, Goes, Trying
    <2> QED BY <1>3, <2>1, FinishRefines, ErrorRefines DEF End
<1>4. CASE UNCHANGED vars
    <2>1. UNCHANGED <<model, pc, cur, key, heap, dstack, next, round, inc,
                      kept, first, outcome, code, bound, aside>>
        BY <1>4 DEF vars, fixed, node, held, found, bounds, counts, result
    <2>2. Waiting' = Waiting /\ Hand' = Hand /\ Announced' = Announced
        BY <2>1 DEF Waiting, Hand, Box, Announced
    <2>3. OpenNodes' = OpenNodes
        <3>1. /\ OpenNodes = {Bare(n, kept) : n \in Waiting} \cup Hand
              /\ OpenNodes' = {Bare(n, kept') : n \in Waiting'} \cup Hand'
            BY <1>1, OpenNodesAre, OpenNodesNext DEF OpenIs
        <3> QED BY <2>1, <2>2, <3>1
    <2> QED BY <2>1, <2>2, <2>3 DEF Search!treeVars
<1> QED BY <1>2, <1>3, <1>4

LEMMA InitRefines == Init => Search!Init
<1> SUFFICES ASSUME Init PROVE Search!Init
    OBVIOUS
<1> USE DEF Init, TreeStarts, NoFirst, None
<1>1. Types
    BY HeapInit DEF HeapInv
<1>2. model \in Models
    BY <1>1, BoxFacts
<1>3. Waiting = {}
    BY RangeOfEmpty DEF Waiting
<1>4. Hand = {[box |-> model.root, key |-> NegInf]}
    <2>1. Root(model.root).box = model.root /\ Root(model.root).key = NegInf
          /\ Root(model.root) # NoNode
        BY DEF Root, NoNode
    <2>2. Larger(NegInf, NegInf) = NegInf
        BY DEF Larger
    <2> QED BY <2>1, <2>2 DEF Hand, Box
<1>5. OpenNodes = {[box |-> model.root, key |-> NegInf]}
    BY <1>1, <1>3, <1>4, OpenNodesAre DEF OpenIs
<1>6. Announced = [key |-> model.cutoff, point |-> NoPoint]
    BY DEF Announced
<1> QED BY <1>2, <1>5, <1>6 DEF Search!Init, Search!NegInf, NegInf,
                                Search!NoPoint, NoPoint

\* The branch and bound of an integer model (bb_run, bb_tree) is a TreeSearch:
\* on the way through the heap, the dive's stack, the plunge, the rounds, the
\* box that reduced costs narrow and a restart it loses no node and closes none
\* without a reason, for any models, options, splits, limits and failures.
THEOREM IntegerTreeIsSearched ==
    ASSUME NoRayUnderCutoff PROVE Spec => IsTreeSearch
<1>1. Init => Search!Init
    BY InitRefines
<1>2. IInv /\ IInv' /\ [Next]_vars => [Search!Next]_(Search!treeVars)
    BY StepRefines
<1> QED BY <1>1, <1>2, Invariant, PTL DEF Spec, IsTreeSearch, Search!Spec

-----------------------------------------------------------------------------
(* What follows.                                                             *)

\* The refinement of MipTree and the search of TreeProofs are the same
\* definitions under the same mapping.
LEMMA SameInit == Search!Init => Proved!Init
PROOF BY DEF Search!Init, Proved!Init, Search!NegInf, Proved!NegInf,
             Search!NoPoint, Proved!NoPoint

LEMMA SameStep ==
    [Search!Next]_(Search!treeVars) => [Proved!Next]_(Proved!treeVars)
<1> USE DEF Keys, NegInf, Search!Keys, Search!NegInf, Search!NoPoint,
            Search!Closed, Search!Feasible, Search!Beaten, Proved!Keys,
            Proved!NegInf, Proved!NoPoint, Proved!Closed, Proved!Feasible,
            Proved!Beaten
<1>1. Search!treeVars = Proved!treeVars
    BY DEF Search!treeVars, Proved!treeVars
<1>2. Search!treeVars' = Proved!treeVars'
    BY DEF Search!treeVars, Proved!treeVars
<1>3. Search!Next => Proved!Next
    BY DEF Search!Next, Search!Discard, Search!Explore, Search!SetAside,
           Search!Improve, Search!Optimal, Search!Infeasible,
           Search!Unbounded, Search!Stop, Search!Running, Search!Covers,
           Search!Empty, Search!Keeps, Search!Node, Search!Stops,
           Proved!Next, Proved!Discard, Proved!Explore, Proved!SetAside,
           Proved!Improve, Proved!Optimal, Proved!Infeasible,
           Proved!Unbounded, Proved!Stop, Proved!Running, Proved!Covers,
           Proved!Empty, Proved!Keeps, Proved!Node, Proved!Stops
<1> QED BY <1>1, <1>2, <1>3

\* So that what TreeProofs proves of the search holds of the code.
LEMMA SearchInv == IsTreeSearch => []Proved!TreeInv
<1>1. IsTreeSearch => Proved!Spec
    BY SameInit, SameStep, PTL DEF IsTreeSearch, Search!Spec, Proved!Spec
<1>2. /\ Proved!Keys = Keys /\ Proved!NegInf = NegInf
      /\ Proved!CostType = CostType
    BY DEF Proved!Keys, Keys, Proved!NegInf, NegInf, Proved!CostType, CostType
<1>3. Proved!Spec => []Proved!TreeInv
    BY <1>2, TreeAssumption, ModelsAssumption, Proved!TreeInvAlways
<1> QED BY <1>1, <1>3, PTL

\* The status and the incumbent that a caller of the integer branch and bound
\* reads are true of the model: an optimum is within the gap of every point,
\* an infeasible model has none better than the cutoff, and an unbounded one
\* has a point from which the objective improves for ever.
THEOREM VerdictOfTheIntegerTree ==
    ASSUME NoRayUnderCutoff PROVE Spec => []Search!VerdictHolds
<1>1. Proved!TreeInv => Search!VerdictHolds
    BY DEF Proved!TreeInv, Search!VerdictHolds, Proved!VerdictHolds,
           Search!NoPoint, Proved!NoPoint, Search!Feasible, Proved!Feasible,
           Search!Beaten, Proved!Beaten, Search!Closed, Proved!Closed,
           Search!NegInf, Proved!NegInf
<1> QED BY <1>1, IntegerTreeIsSearched, SearchInv, PTL

\* mip_bound is a bound, however the tree ended: no point of the model is below
\* it that the incumbent is not within the gap of.
THEOREM BoundOfTheIntegerTree ==
    ASSUME NoRayUnderCutoff PROVE Spec => []Search!BoundHolds
<1>1. Proved!TreeInv => Search!BoundHolds
    BY DEF Proved!TreeInv, Search!BoundHolds, Proved!BoundHolds,
           Search!Running, Proved!Running, Search!Feasible, Proved!Feasible,
           Search!Beaten, Proved!Beaten, Search!Closed, Proved!Closed
<1> QED BY <1>1, IntegerTreeIsSearched, SearchInv, PTL

\* What is announced is a point of the model, and better than the cutoff, over
\* a restart too.
THEOREM IncumbentOfTheIntegerTree ==
    ASSUME NoRayUnderCutoff PROVE Spec => []Search!IncumbentIsReal
<1>1. Proved!TreeInv => Search!IncumbentIsReal
    BY DEF Proved!TreeInv, Search!IncumbentIsReal, Proved!IncumbentIsReal,
           Search!NoPoint, Proved!NoPoint
<1> QED BY <1>1, IntegerTreeIsSearched, SearchInv, PTL

-----------------------------------------------------------------------------
(* The pool of solutions.                                                    *)

\* What spool_offer keeps true of the entries s, of which there may be n, and
\* the points O that it was offered: the entries are of O, each point once
\* and under its best key, in order; a point that has no entry has keys no
\* better than the last one of a full pool.
Bids == [point : Points, key : Keys]
InOrder(s) == \A i, j \in 1 .. Len(s) : i <= j => s[i].key <= s[j].key
Once(s) == \A i, j \in 1 .. Len(s) : s[i].point = s[j].point => i = j
AreBest(s, O) ==
    \A i \in 1 .. Len(s) :
        s[i] \in O /\ \A g \in O : g.point = s[i].point => s[i].key <= g.key
IsLeftOut(s, n, g) ==
    /\ \A i \in 1 .. Len(s) : s[i].point # g.point
    /\ ~(Len(s) = n /\ s[n].key <= g.key)
HoldsBest(s, O, n) ==
    /\ s \in Seq(Bids) /\ O \in SUBSET Bids /\ IsFiniteSet(O)
    /\ n \in Nat \ {0} /\ Len(s) <= n
    /\ InOrder(s) /\ Once(s) /\ AreBest(s, O)
    /\ \A g \in O : ~IsLeftOut(s, n, g)

LEMMA BidFacts ==
    ASSUME NEW g \in Bids
    PROVE  g.key \in Int /\ g.key \in Keys /\ g.point \in Points
PROOF BY KeyFacts DEF Bids

\* An entry taken out, one put in, the last one dropped.
LEMMA RemovedOf ==
    ASSUME NEW S, NEW s \in Seq(S), NEW i \in 1 .. Len(s)
    PROVE  /\ RemoveAt(s, i) \in Seq(S) /\ Len(RemoveAt(s, i)) = Len(s) - 1
           /\ \A k \in 1 .. Len(s) - 1 :
                RemoveAt(s, i)[k] = IF k < i THEN s[k] ELSE s[k + 1]
<1> DEFINE a == SubSeq(s, 1, i - 1)
           b == SubSeq(s, i + 1, Len(s))
<1>1. Len(s) \in Nat /\ i \in Nat /\ 1 <= i /\ i <= Len(s)
      /\ \A k \in 1 .. Len(s) : s[k] \in S
    BY LenProperties, ElementOfSeq
<1>2. /\ a \in Seq(S) /\ Len(a) = i - 1
      /\ \A k \in 1 .. i - 1 : a[k] = s[k]
    <2>1. i - 1 \in Int /\ 1 \in Int /\ \A k \in 1 .. i - 1 : s[k] \in S
        BY <1>1
    <2>2. /\ a \in Seq(S) /\ Len(a) = (IF 1 <= i - 1 THEN i - 1 - 1 + 1 ELSE 0)
          /\ \A k \in 1 .. i - 1 - 1 + 1 : a[k] = s[1 + k - 1]
        BY <2>1, SubSeqProperties
    <2> HIDE DEF a
    <2> QED BY <1>1, <2>2
<1>3. /\ b \in Seq(S) /\ Len(b) = Len(s) - i
      /\ \A k \in 1 .. Len(s) - i : b[k] = s[i + k]
    <2>1. i + 1 \in Int /\ Len(s) \in Int /\ \A k \in i + 1 .. Len(s) : s[k] \in S
        BY <1>1
    <2>2. /\ b \in Seq(S)
          /\ Len(b) = (IF i + 1 <= Len(s) THEN Len(s) - (i + 1) + 1 ELSE 0)
          /\ \A k \in 1 .. Len(s) - (i + 1) + 1 : b[k] = s[i + 1 + k - 1]
        BY <2>1, SubSeqProperties
    <2> HIDE DEF b
    <2> QED BY <1>1, <2>2
<1>4. RemoveAt(s, i) = a \o b
    BY DEF RemoveAt
<1> HIDE DEF a, b
<1>5. /\ a \o b \in Seq(S) /\ Len(a \o b) = Len(a) + Len(b)
      /\ \A k \in 1 .. Len(a) + Len(b) :
           (a \o b)[k] = IF k <= Len(a) THEN a[k] ELSE b[k - Len(a)]
    BY <1>2, <1>3, ConcatProperties
<1> QED BY <1>1, <1>2, <1>3, <1>4, <1>5

LEMMA InsertedOf ==
    ASSUME NEW S, NEW s \in Seq(S), NEW i \in 1 .. Len(s) + 1, NEW e \in S
    PROVE  /\ InsertAt(s, i, e) \in Seq(S)
           /\ Len(InsertAt(s, i, e)) = Len(s) + 1
           /\ \A k \in 1 .. Len(s) + 1 :
                InsertAt(s, i, e)[k] = IF k < i THEN s[k]
                                       ELSE IF k = i THEN e ELSE s[k - 1]
<1> DEFINE a == SubSeq(s, 1, i - 1)
           b == SubSeq(s, i, Len(s))
<1>1. Len(s) \in Nat /\ i \in Nat /\ 1 <= i /\ i <= Len(s) + 1
      /\ \A k \in 1 .. Len(s) : s[k] \in S
    BY LenProperties, ElementOfSeq
<1>2. /\ a \in Seq(S) /\ Len(a) = i - 1
      /\ \A k \in 1 .. i - 1 : a[k] = s[k]
    <2>1. i - 1 \in Int /\ 1 \in Int /\ \A k \in 1 .. i - 1 : s[k] \in S
        BY <1>1
    <2>2. /\ a \in Seq(S) /\ Len(a) = (IF 1 <= i - 1 THEN i - 1 - 1 + 1 ELSE 0)
          /\ \A k \in 1 .. i - 1 - 1 + 1 : a[k] = s[1 + k - 1]
        BY <2>1, SubSeqProperties
    <2> HIDE DEF a
    <2> QED BY <1>1, <2>2
<1>3. /\ b \in Seq(S) /\ Len(b) = Len(s) - i + 1
      /\ \A k \in 1 .. Len(s) - i + 1 : b[k] = s[i + k - 1]
    <2>1. i \in Int /\ Len(s) \in Int /\ \A k \in i .. Len(s) : s[k] \in S
        BY <1>1
    <2>2. /\ b \in Seq(S)
          /\ Len(b) = (IF i <= Len(s) THEN Len(s) - i + 1 ELSE 0)
          /\ \A k \in 1 .. Len(s) - i + 1 : b[k] = s[i + k - 1]
        BY <2>1, SubSeqProperties
    <2> HIDE DEF b
    <2> QED BY <1>1, <2>2
<1>4. InsertAt(s, i, e) = a \o <<e>> \o b /\ <<e>> \in Seq(S)
      /\ Len(<<e>>) = 1 /\ <<e>>[1] = e
    BY DEF InsertAt
<1> HIDE DEF a, b
<1>5. /\ a \o <<e>> \in Seq(S) /\ Len(a \o <<e>>) = i
      /\ \A k \in 1 .. i : (a \o <<e>>)[k] = IF k < i THEN s[k] ELSE e
    <2>1. /\ a \o <<e>> \in Seq(S) /\ Len(a \o <<e>>) = Len(a) + 1
          /\ \A k \in 1 .. Len(a) + 1 :
               (a \o <<e>>)[k] = IF k <= Len(a) THEN a[k] ELSE <<e>>[k - Len(a)]
        BY <1>2, <1>4, ConcatProperties
    <2>2. Len(a) + 1 = i
        BY <1>1, <1>2
    <2>3. ASSUME NEW k \in 1 .. i
          PROVE  (a \o <<e>>)[k] = IF k < i THEN s[k] ELSE e
        <3>1. CASE k < i
            <4>1. k <= Len(a) /\ a[k] = s[k] /\ k \in 1 .. Len(a) + 1
                BY <1>1, <1>2, <3>1
            <4> QED BY <2>1, <3>1, <4>1
        <3>2. CASE k = i
            <4>1. ~(k <= Len(a)) /\ k - Len(a) = 1 /\ k \in 1 .. Len(a) + 1
                BY <1>1, <1>2, <3>2
            <4>2. (a \o <<e>>)[k] = <<e>>[k - Len(a)]
                BY <2>1, <4>1
            <4>3. ~(k < i)
                BY <1>1, <3>2
            <4> QED BY <1>4, <4>1, <4>2, <4>3
        <3>3. k < i \/ k = i
            BY <1>1
        <3> QED BY <3>1, <3>2, <3>3
    <2> QED BY <2>1, <2>2, <2>3
<1>6. /\ (a \o <<e>>) \o b \in Seq(S)
      /\ Len((a \o <<e>>) \o b) = i + Len(b)
      /\ \A k \in 1 .. i + Len(b) :
           ((a \o <<e>>) \o b)[k] = IF k <= i THEN (a \o <<e>>)[k] ELSE b[k - i]
    <2> DEFINE c == a \o <<e>>
    <2>1. c \in Seq(S) /\ Len(c) = i
        BY <1>5
    <2> HIDE DEF c
    <2>2. /\ c \o b \in Seq(S) /\ Len(c \o b) = i + Len(b)
          /\ \A k \in 1 .. i + Len(b) :
               (c \o b)[k] = IF k <= i THEN c[k] ELSE b[k - i]
        BY <1>3, <2>1, ConcatProperties
    <2> QED BY <2>2 DEF c
<1>7. i + Len(b) = Len(s) + 1
    BY <1>1, <1>3
<1>8. ASSUME NEW k \in 1 .. Len(s) + 1
      PROVE  InsertAt(s, i, e)[k] = IF k < i THEN s[k]
                                    ELSE IF k = i THEN e ELSE s[k - 1]
    <2>1. CASE k <= i
        BY <1>1, <1>4, <1>5, <1>6, <1>7, <2>1
    <2>2. CASE k > i
        <3>1. k - i \in 1 .. Len(s) - i + 1 /\ i + (k - i) - 1 = k - 1
            BY <1>1, <2>2
        <3>2. b[k - i] = s[k - 1]
            BY <1>3, <3>1
        <3> QED BY <1>1, <1>4, <1>6, <1>7, <2>2, <3>2
    <2> QED BY <1>1, <2>1, <2>2
<1> QED BY <1>4, <1>6, <1>7, <1>8

\* The place of a key among entries in order.
LEMMA PlaceOf ==
    ASSUME NEW s \in Seq(Bids), InOrder(s), NEW k \in Keys
    PROVE  /\ PlaceFor(k, s) \in 1 .. Len(s) + 1
           /\ \A i \in 1 .. PlaceFor(k, s) - 1 : s[i].key <= k
           /\ \A i \in PlaceFor(k, s) .. Len(s) : k < s[i].key
<1> DEFINE IsPlace(q) == /\ \A i \in 1 .. q - 1 : s[i].key <= k
                         /\ q <= Len(s) => k < s[q].key
           Q == {q \in 1 .. Len(s) + 1 : q <= Len(s) => k < s[q].key}
<1>1. Len(s) \in Nat /\ k \in Int /\ \A i \in 1 .. Len(s) : s[i].key \in Int
    BY LenProperties, ElementOfSeq, BidFacts, KeyFacts
<1>2. Q \in SUBSET Nat /\ Len(s) + 1 \in Q
    BY <1>1
<1>3. PICK q \in Q : \A j \in Q : q <= j
    <2> HIDE DEF Q
    <2> QED BY <1>2, LeastNat
<1>4. ASSUME NEW i \in 1 .. q - 1 PROVE s[i].key <= k
    <2>1. i \in 1 .. Len(s) /\ ~(q <= i)
        BY <1>1, <1>3
    <2>2. i \notin Q
        BY <1>3, <2>1
    <2> QED BY <1>1, <2>1, <2>2
<1>5. q \in 1 .. Len(s) + 1 /\ IsPlace(q)
    BY <1>3, <1>4
<1>6. PlaceFor(k, s) = CHOOSE p \in 1 .. Len(s) + 1 : IsPlace(p)
    BY DEF PlaceFor
<1> DEFINE p == PlaceFor(k, s)
<1>7. p \in 1 .. Len(s) + 1 /\ IsPlace(p)
    <2> HIDE DEF IsPlace
    <2>1. \E u \in 1 .. Len(s) + 1 : IsPlace(u)
        BY <1>5
    <2>2. p = CHOOSE u \in 1 .. Len(s) + 1 : IsPlace(u)
        BY <1>6
    <2> HIDE DEF p
    <2> QED BY <2>1, <2>2
<1> HIDE DEF p
<1>8. ASSUME NEW i \in p .. Len(s) PROVE k < s[i].key
    <2>1. p \in 1 .. Len(s) /\ i \in 1 .. Len(s) /\ p <= i /\ p <= Len(s)
        BY <1>1, <1>7
    <2>2. s[p].key <= s[i].key /\ k < s[p].key
        BY <1>7, <2>1 DEF InOrder
    <2> QED BY <1>1, <2>1, <2>2
<1> QED BY <1>7, <1>8 DEF p

\* What is left when the entry of a point is taken out is still held so, but
\* for that point.
LEMMA OneEntry ==
    ASSUME NEW n, HoldsBest(pool, offers, n), NEW i \in 1 .. Len(pool)
    PROVE  EntriesOf(pool[i].point) = {i}
<1>1. DOMAIN pool = 1 .. Len(pool)
    BY LenProperties DEF HoldsBest
<1> QED BY <1>1 DEF EntriesOf, HoldsBest, Once

\* The entries without those of a point: of the others, nothing is lost.
LEMMA RestOf ==
    ASSUME NEW n, HoldsBest(pool, offers, n), NEW p
    PROVE  LET r == PoolWithout(p)
           IN /\ r \in Seq(Bids) /\ Len(r) \in Nat /\ InOrder(r) /\ Once(r)
              /\ AreBest(r, offers)
              /\ \A i \in 1 .. Len(r) : r[i].point # p
              /\ \A i \in 1 .. Len(pool) :
                   pool[i].point # p => \E j \in 1 .. Len(r) : r[j] = pool[i]
              /\ \A j \in 1 .. Len(r) : \E i \in 1 .. Len(pool) : r[j] = pool[i]
              /\ IF EntriesOf(p) = {} THEN r = pool ELSE Len(r) = Len(pool) - 1
<1> DEFINE r == PoolWithout(p)
<1>1. /\ pool \in Seq(Bids) /\ Len(pool) \in Nat /\ DOMAIN pool = 1 .. Len(pool)
      /\ \A i \in 1 .. Len(pool) : pool[i] \in Bids
    BY LenProperties, ElementOfSeq DEF HoldsBest
<1>2. CASE EntriesOf(p) = {}
    <2>1. r = pool
        BY <1>2 DEF PoolWithout
    <2>2. \A i \in 1 .. Len(pool) : pool[i].point # p
        BY <1>1, <1>2 DEF EntriesOf
    <2> HIDE DEF r
    <2> QED BY <1>1, <1>2, <2>1, <2>2 DEF HoldsBest, r
<1>3. CASE EntriesOf(p) # {}
    <2>1. PICK i \in 1 .. Len(pool) : pool[i].point = p
        BY <1>1, <1>3 DEF EntriesOf
    <2>2. EntriesOf(p) = {i}
        BY <2>1, OneEntry
    <2>3. r = RemoveAt(pool, i)
        BY <2>2 DEF PoolWithout
    <2>4. /\ r \in Seq(Bids) /\ Len(r) = Len(pool) - 1
          /\ \A k \in 1 .. Len(pool) - 1 :
               r[k] = IF k < i THEN pool[k] ELSE pool[k + 1]
        BY <1>1, <2>3, RemovedOf
    <2> HIDE DEF r
    <2> DEFINE At(k) == IF k < i THEN k ELSE k + 1
    <2>5. \A k \in 1 .. Len(r) :
            At(k) \in 1 .. Len(pool) /\ r[k] = pool[At(k)] /\ At(k) # i
        BY <1>1, <2>1, <2>4
    <2>6. \A j, k \in 1 .. Len(r) :
            /\ j <= k => At(j) <= At(k)
            /\ At(j) = At(k) => j = k
        BY <1>1, <2>1, <2>4
    <2>7. Len(r) \in Nat
        BY <2>4, LenProperties
    <2>8. ASSUME NEW j \in 1 .. Len(pool), pool[j].point # p
          PROVE  \E k \in 1 .. Len(r) : r[k] = pool[j]
        <3>1. j # i
            BY <2>1, <2>8
        <3>2. CASE j < i
            <4>1. j \in 1 .. Len(r) /\ At(j) = j
                BY <1>1, <2>1, <2>4, <3>2
            <4> QED BY <2>5, <4>1
        <3>3. CASE j > i
            <4>1. j - 1 \in 1 .. Len(r) /\ At(j - 1) = j
                BY <1>1, <2>1, <2>4, <3>3
            <4> QED BY <2>5, <4>1
        <3> QED BY <1>1, <2>1, <3>1, <3>2, <3>3
    <2> HIDE DEF At
    <2>9. InOrder(r)
        BY <2>5, <2>6 DEF InOrder, HoldsBest
    <2>10. Once(r)
        BY <2>5, <2>6 DEF Once, HoldsBest
    <2>11. AreBest(r, offers)
        BY <2>5 DEF AreBest, HoldsBest
    <2>12. \A k \in 1 .. Len(r) : r[k].point # p
        BY <2>1, <2>5 DEF Once, HoldsBest
    <2> QED BY <1>3, <2>4, <2>5, <2>7, <2>8, <2>9, <2>10, <2>11, <2>12 DEF r
<1> QED BY <1>2, <1>3

\* The pool with a point put into its place.
LEMMA PlacedHolds ==
    ASSUME NEW n, HoldsBest(pool, offers, n), NEW f \in Bids,
           ~IsBetterHeld(f), ~(Len(pool) = n /\ f.key >= Last(pool).key)
    PROVE  LET t == Placed(f)
           IN /\ t \in Seq(Bids) /\ Len(t) \in Nat
              /\ InOrder(t) /\ Once(t) /\ AreBest(t, offers \cup {f})
              /\ \E i \in 1 .. Len(t) : t[i] = f
              /\ \A i \in 1 .. Len(pool) :
                   pool[i].point # f.point
                   => \E j \in 1 .. Len(t) : t[j] = pool[i]
              /\ Len(pool) = n => \A j \in 1 .. Len(t) : t[j].key <= pool[n].key
              /\ Len(t) <= Len(pool) + 1
              /\ Len(t) >= Len(pool)
<1> DEFINE r == PoolWithout(f.point)
           q == PlaceFor(f.key, r)
           t == InsertAt(r, q, f)
<1>1. /\ r \in Seq(Bids) /\ Len(r) \in Nat /\ InOrder(r) /\ Once(r)
      /\ AreBest(r, offers)
      /\ \A i \in 1 .. Len(r) : r[i].point # f.point
      /\ \A i \in 1 .. Len(pool) :
           pool[i].point # f.point => \E j \in 1 .. Len(r) : r[j] = pool[i]
      /\ \A j \in 1 .. Len(r) : \E i \in 1 .. Len(pool) : r[j] = pool[i]
      /\ Len(r) \in {Len(pool), Len(pool) - 1}
    BY RestOf
<1>2. f.key \in Int /\ f.key \in Keys /\ \A i \in 1 .. Len(r) : r[i].key \in Int
    BY <1>1, ElementOfSeq, BidFacts
<1>3. /\ pool \in Seq(Bids) /\ Len(pool) \in Nat /\ DOMAIN pool = 1 .. Len(pool)
      /\ \A i \in 1 .. Len(pool) : pool[i] \in Bids /\ pool[i].key \in Int
      /\ n \in Nat \ {0}
    BY LenProperties, ElementOfSeq, BidFacts DEF HoldsBest
<1> HIDE DEF r
<1>4. /\ q \in 1 .. Len(r) + 1
      /\ \A i \in 1 .. q - 1 : r[i].key <= f.key
      /\ \A i \in q .. Len(r) : f.key < r[i].key
    BY <1>1, <1>2, PlaceOf
<1> HIDE DEF q
<1>5. /\ t \in Seq(Bids) /\ Len(t) = Len(r) + 1
      /\ \A k \in 1 .. Len(r) + 1 :
           t[k] = IF k < q THEN r[k] ELSE IF k = q THEN f ELSE r[k - 1]
    BY <1>1, <1>4, InsertedOf
<1>6. Placed(f) = t
    BY DEF Placed, r, q
<1> HIDE DEF t
<1>7. q \in 1 .. Len(t) /\ t[q] = f
    BY <1>1, <1>4, <1>5
\* Before the place is r as it was, after it r moved by one.
<1>8. ASSUME NEW k \in 1 .. Len(t)
      PROVE  \/ k < q /\ k \in 1 .. Len(r) /\ t[k] = r[k]
             \/ k = q /\ t[k] = f
             \/ k > q /\ k - 1 \in 1 .. Len(r) /\ t[k] = r[k - 1]
    BY <1>1, <1>4, <1>5
<1>9. ASSUME NEW j \in 1 .. Len(t), NEW k \in 1 .. Len(t), j < k
      PROVE  t[j].key <= t[k].key /\ t[j].point # t[k].point
    <2>4. \A a, b \in 1 .. Len(r) : a < b =>
            r[a].key <= r[b].key /\ r[a].point # r[b].point
        <3>1. \A a, b \in 1 .. Len(r) : a < b => a <= b /\ a # b
            OBVIOUS
        <3> QED BY <1>1, <3>1 DEF InOrder, Once
    <2>1. CASE k < q
        <3>1. /\ j \in 1 .. Len(r) /\ t[j] = r[j]
              /\ k \in 1 .. Len(r) /\ t[k] = r[k]
            BY <1>1, <1>4, <1>8, <1>9, <2>1
        <3> QED BY <1>9, <2>4, <3>1
    <2>2. CASE k = q
        <3>1. j \in 1 .. Len(r) /\ j \in 1 .. q - 1 /\ t[j] = r[j] /\ t[k] = f
            BY <1>1, <1>4, <1>8, <1>9, <2>2
        <3> QED BY <1>1, <1>4, <3>1
    <2>3. CASE k > q
        <3>1. k - 1 \in 1 .. Len(r) /\ t[k] = r[k - 1] /\ k - 1 \in q .. Len(r)
            BY <1>1, <1>4, <1>8, <2>3
        <3>2. CASE j < q
            <4>1. j \in 1 .. Len(r) /\ t[j] = r[j] /\ j < k - 1
                BY <1>1, <1>4, <1>8, <1>9, <2>3, <3>2
            <4> QED BY <2>4, <3>1, <4>1
        <3>3. CASE j = q
            <4>1. t[j] = f
                BY <1>7, <3>3
            <4>2. f.key < r[k - 1].key /\ r[k - 1].point # f.point
                BY <1>1, <1>4, <3>1
            <4>3. f.key <= r[k - 1].key
                BY <1>2, <3>1, <4>2
            <4> QED BY <3>1, <4>1, <4>2, <4>3
        <3>4. CASE j > q
            <4>1. /\ j - 1 \in 1 .. Len(r) /\ t[j] = r[j - 1]
                  /\ j - 1 < k - 1
                BY <1>1, <1>4, <1>8, <1>9, <2>3, <3>4
            <4> QED BY <2>4, <3>1, <4>1
        <3> QED BY <1>4, <3>2, <3>3, <3>4
    <2> QED BY <1>4, <2>1, <2>2, <2>3
<1>10. \A k \in 1 .. Len(t) : t[k] \in Bids /\ t[k].key \in Int
    BY <1>5, ElementOfSeq, BidFacts
<1>11. InOrder(t)
    <2>1. ASSUME NEW j \in 1 .. Len(t), NEW k \in 1 .. Len(t), j <= k
          PROVE  t[j].key <= t[k].key
        <3>1. j < k \/ j = k
            BY <2>1
        <3> QED BY <1>9, <1>10, <3>1
    <2> QED BY <2>1 DEF InOrder
<1>12. Once(t)
    <2>1. ASSUME NEW j \in 1 .. Len(t), NEW k \in 1 .. Len(t),
                 t[j].point = t[k].point
          PROVE  j = k
        <3>1. ~(j < k) /\ ~(k < j)
            BY <1>9, <2>1
        <3> QED BY <3>1
    <2> QED BY <2>1 DEF Once
\* What was offered of the point before was no better.
<1>13. ASSUME NEW g \in offers, g.point = f.point PROVE f.key <= g.key
    <2>1. g.key \in Int
        BY BidFacts DEF HoldsBest
    <2>2. CASE \E i \in 1 .. Len(pool) : pool[i].point = f.point
        <3>1. PICK i \in 1 .. Len(pool) : pool[i].point = f.point
            BY <2>2
        <3>2. ~(f.key >= pool[i].key)
            BY <1>3, <3>1 DEF IsBetterHeld, EntriesOf
        <3>3. pool[i].key <= g.key
            BY <1>13, <3>1 DEF HoldsBest, AreBest
        <3> QED BY <1>2, <1>3, <2>1, <3>2, <3>3
    <2>3. CASE \A i \in 1 .. Len(pool) : pool[i].point # f.point
        <3>1. Len(pool) = n /\ pool[n].key <= g.key
            BY <1>13, <2>3 DEF HoldsBest, IsLeftOut
        <3>2. Last(pool) = pool[n]
            BY <3>1 DEF Last
        <3>3. n \in 1 .. Len(pool) /\ pool[n].key \in Int
            BY <1>3, <3>1
        <3> QED BY <1>2, <2>1, <3>1, <3>2, <3>3
    <2> QED BY <2>2, <2>3
<1>14. AreBest(t, offers \cup {f})
    <2>1. ASSUME NEW k \in 1 .. Len(t), NEW j \in 1 .. Len(r), t[k] = r[j]
          PROVE  /\ t[k] \in offers \cup {f}
                 /\ \A g \in offers \cup {f} :
                      g.point = t[k].point => t[k].key <= g.key
        BY <1>1, <2>1 DEF AreBest
    <2>2. ASSUME NEW g \in offers \cup {f}, g.point = f.point
          PROVE  f.key <= g.key
        BY <1>2, <1>13, <2>2
    <2> QED BY <1>8, <2>1, <2>2 DEF AreBest
<1>15. ASSUME NEW i \in 1 .. Len(pool), pool[i].point # f.point
       PROVE  \E j \in 1 .. Len(t) : t[j] = pool[i]
    <2>1. PICK j \in 1 .. Len(r) : r[j] = pool[i]
        BY <1>1, <1>15
    <2>2. CASE j < q
        <3>1. j \in 1 .. Len(t) /\ j \in 1 .. Len(r) + 1
            BY <1>1, <1>5
        <3>2. t[j] = r[j]
            BY <1>5, <2>2, <3>1
        <3> QED BY <2>1, <3>1, <3>2
    <2>3. CASE ~(j < q)
        <3>1. /\ j + 1 \in 1 .. Len(r) + 1 /\ ~(j + 1 < q) /\ j + 1 # q
              /\ j + 1 - 1 = j
            BY <1>1, <1>4, <2>3
        <3>2. j + 1 \in 1 .. Len(t) /\ t[j + 1] = r[j]
            BY <1>5, <3>1
        <3> QED BY <2>1, <3>2
    <2> QED BY <2>2, <2>3
<1>16. ASSUME Len(pool) = n, NEW j \in 1 .. Len(t)
       PROVE  t[j].key <= pool[n].key
    <2>1. n \in 1 .. Len(pool) /\ pool[n].key \in Int /\ Last(pool) = pool[n]
        BY <1>3, <1>16 DEF Last
    <2>2. f.key <= pool[n].key
        BY <1>2, <1>16, <2>1
    <2>3. ASSUME NEW k \in 1 .. Len(r) PROVE r[k].key <= pool[n].key
        <3>1. PICK i \in 1 .. Len(pool) : r[k] = pool[i]
            BY <1>1
        <3>2. i <= n
            BY <1>16
        <3> QED BY <2>1, <3>1, <3>2 DEF HoldsBest, InOrder
    <2> QED BY <1>8, <2>2, <2>3
<1>17. Len(t) \in Nat /\ Len(t) <= Len(pool) + 1 /\ Len(t) >= Len(pool)
    <2>1. Len(r) = Len(pool) \/ Len(r) = Len(pool) - 1
        BY <1>1
    <2>2. Len(t) = Len(r) + 1 /\ Len(r) \in Nat /\ Len(pool) \in Nat
        BY <1>1, <1>3, <1>5
    <2> QED BY <2>1, <2>2
<1> QED BY <1>5, <1>6, <1>7, <1>11, <1>12, <1>14, <1>15, <1>16, <1>17

\* A point is offered.
LEMMA OfferKeeps ==
    ASSUME cfg.pool \in Nat, HoldsBest(pool, offers, cfg.pool), NEW f \in Bids
    PROVE  HoldsBest(SpoolOffer(f), offers \cup {f}, cfg.pool)
<1> DEFINE n == cfg.pool
           O == offers \cup {f}
<1>1. /\ pool \in Seq(Bids) /\ Len(pool) \in Nat /\ DOMAIN pool = 1 .. Len(pool)
      /\ \A i \in 1 .. Len(pool) : pool[i] \in Bids /\ pool[i].key \in Int
      /\ n \in Nat \ {0} /\ Len(pool) <= n
    BY LenProperties, ElementOfSeq, BidFacts DEF HoldsBest
<1>2. O \in SUBSET Bids /\ IsFiniteSet(O)
    BY FS_AddElement DEF HoldsBest
<1>3. f.key \in Int /\ \A g \in O : g.key \in Int
    BY <1>2, BidFacts
<1>4. CASE Len(pool) = n /\ f.key >= Last(pool).key
    <2>1. SpoolOffer(f) = pool
        BY <1>4 DEF SpoolOffer
    <2>2. Last(pool) = pool[n] /\ n \in 1 .. Len(pool) /\ pool[n].key \in Int
        BY <1>1, <1>4 DEF Last
    <2>3. pool[n].key <= f.key
        BY <1>3, <1>4, <2>2
    <2>4. \A i \in 1 .. Len(pool) : pool[i].key <= f.key
        <3>1. \A i \in 1 .. Len(pool) : pool[i].key <= pool[n].key
            BY <1>1, <1>4, <2>2 DEF HoldsBest, InOrder
        <3> QED BY <1>1, <1>3, <2>2, <2>3, <3>1
    <2>5. AreBest(pool, O)
        BY <2>4 DEF AreBest, HoldsBest
    <2>6. ~IsLeftOut(pool, n, f)
        BY <1>4, <2>3 DEF IsLeftOut
    <2> QED BY <1>2, <2>1, <2>5, <2>6 DEF HoldsBest
<1>5. CASE IsBetterHeld(f)
    <2>1. SpoolOffer(f) = pool
        BY <1>5 DEF SpoolOffer
    <2>2. PICK i \in 1 .. Len(pool) : pool[i].point = f.point /\ f.key >= pool[i].key
        BY <1>1, <1>5 DEF IsBetterHeld, EntriesOf
    <2>3. AreBest(pool, O)
        <3>1. ASSUME NEW j \in 1 .. Len(pool), pool[j].point = f.point
              PROVE  pool[j].key <= f.key
            <4>1. j = i
                BY <2>2, <3>1 DEF HoldsBest, Once
            <4> QED BY <1>1, <1>3, <2>2, <4>1
        <3> QED BY <3>1 DEF AreBest, HoldsBest
    <2>4. ~IsLeftOut(pool, n, f)
        BY <2>2 DEF IsLeftOut
    <2> QED BY <1>2, <2>1, <2>3, <2>4 DEF HoldsBest
<1>6. CASE ~IsBetterHeld(f) /\ ~(Len(pool) = n /\ f.key >= Last(pool).key)
    <2> DEFINE t == Placed(f)
    <2>1. /\ t \in Seq(Bids) /\ Len(t) \in Nat
          /\ InOrder(t) /\ Once(t) /\ AreBest(t, O)
          /\ \E i \in 1 .. Len(t) : t[i] = f
          /\ \A i \in 1 .. Len(pool) :
               pool[i].point # f.point
               => \E j \in 1 .. Len(t) : t[j] = pool[i]
          /\ Len(pool) = n => \A j \in 1 .. Len(t) : t[j].key <= pool[n].key
          /\ Len(t) <= Len(pool) + 1
          /\ Len(t) >= Len(pool)
        BY <1>6, PlacedHolds
    <2>2. SpoolOffer(f) = IF Len(t) > n THEN Front(t) ELSE t
        BY <1>6 DEF SpoolOffer
    <2> HIDE DEF t
    <2>3. \A k \in 1 .. Len(t) : t[k].key \in Int
        BY <2>1, ElementOfSeq, BidFacts
    \* What has no entry is worse than a pool that was full.
    <2>4. ASSUME NEW g \in O, \A j \in 1 .. Len(t) : t[j].point # g.point
          PROVE  /\ Len(pool) = n
                 /\ \A j \in 1 .. Len(t) : t[j].key <= g.key
        <3>1. g \in offers /\ g.point # f.point
            BY <2>1, <2>4
        <3>2. \A i \in 1 .. Len(pool) : pool[i].point # g.point
            BY <2>1, <2>4, <3>1
        <3>3. Len(pool) = n /\ pool[n].key <= g.key
            BY <3>1, <3>2 DEF HoldsBest, IsLeftOut
        <3>4. n \in 1 .. Len(pool) /\ pool[n].key \in Int /\ g.key \in Int
            BY <1>1, <1>3, <3>3
        <3>5. \A j \in 1 .. Len(t) : t[j].key <= pool[n].key
            BY <2>1, <3>3
        <3> QED BY <2>3, <3>3, <3>4, <3>5
    <2>5. CASE Len(t) <= n
        <3>1. SpoolOffer(f) = t
            BY <1>1, <2>1, <2>2, <2>5
        <3>2. ASSUME NEW g \in O PROVE ~IsLeftOut(t, n, g)
            <4>1. SUFFICES ASSUME \A j \in 1 .. Len(t) : t[j].point # g.point
                           PROVE  Len(t) = n /\ t[n].key <= g.key
                BY DEF IsLeftOut
            <4>2. Len(t) = n
                BY <1>1, <2>1, <2>4, <2>5, <4>1
            <4>3. n \in 1 .. Len(t)
                BY <1>1, <4>2
            <4> QED BY <2>4, <4>1, <4>2, <4>3
        <3> QED BY <1>1, <1>2, <2>1, <2>5, <3>1, <3>2 DEF HoldsBest
    <2>6. CASE Len(t) > n
        <3> DEFINE u == Front(t)
        <3>1. Len(t) = n + 1 /\ Len(pool) = n /\ t # <<>>
            BY <1>1, <2>1, <2>6
        <3>2. /\ u \in Seq(Bids) /\ Len(u) = n
              /\ \A i \in 1 .. n : u[i] = t[i]
            <4>1. /\ Front(t) \in Seq(Bids) /\ Len(Front(t)) = Len(t) - 1
                  /\ \A i \in 1 .. Len(t) - 1 : Front(t)[i] = t[i]
                BY <2>1, <3>1, FrontOf
            <4>2. Len(t) - 1 = n
                BY <1>1, <3>1
            <4> QED BY <4>1, <4>2
        <3>3. SpoolOffer(f) = u
            BY <2>2, <2>6
        <3> HIDE DEF u
        <3>4. \A i \in 1 .. n : i \in 1 .. Len(t)
            BY <1>1, <3>1
        <3>5. InOrder(u) /\ Once(u) /\ AreBest(u, O)
            BY <2>1, <3>2, <3>4 DEF InOrder, Once, AreBest
        <3>6. ASSUME NEW g \in O PROVE ~IsLeftOut(u, n, g)
            <4>1. SUFFICES ASSUME \A j \in 1 .. n : u[j].point # g.point
                           PROVE  u[n].key <= g.key
                BY <3>2 DEF IsLeftOut
            <4>2. n \in 1 .. n /\ u[n] = t[n] /\ n \in 1 .. Len(t)
                  /\ n + 1 \in 1 .. Len(t) /\ n <= n + 1
                BY <1>1, <3>1, <3>2
            <4>3. CASE t[n + 1].point = g.point
                <5>1. t[n + 1].key <= g.key
                    BY <2>1, <4>2, <4>3 DEF AreBest
                <5>2. t[n].key <= t[n + 1].key
                    BY <2>1, <4>2 DEF InOrder
                <5> QED BY <1>3, <2>3, <4>2, <5>1, <5>2
            <4>4. CASE t[n + 1].point # g.point
                <5>1. \A j \in 1 .. Len(t) : j \in 1 .. n \/ j = n + 1
                    BY <1>1, <3>1
                <5>2. \A j \in 1 .. Len(t) : t[j].point # g.point
                    BY <3>2, <4>1, <4>4, <5>1
                <5> QED BY <2>4, <4>2, <5>2
            <4> QED BY <4>3, <4>4
        <3>7. Len(u) <= n
            BY <1>1, <3>2
        <3> QED BY <1>1, <1>2, <3>2, <3>3, <3>5, <3>6, <3>7 DEF HoldsBest
    <2> QED BY <1>1, <2>1, <2>5, <2>6
<1> QED BY <1>4, <1>5, <1>6

\* The steps that reach the pool offer it one point, or start a second tree.
OffersOne ==
    \E f \in Bids : pool' = SpoolOffer(f) /\ offers' = offers \cup {f}
PoolSteps ==
    \/ UNCHANGED <<pool, offers>>
    \/ OffersOne
    \/ pool' = <<>> /\ offers' = {}

LEMMA FoundIsBid ==
    ASSUME Types, NEW f \in AnyPoint
    PROVE  f \in Bids
<1>1. f \in [point : ModelBox, key : Relaxed]
    BY DEF AnyPoint, Found
<1>2. ModelBox \subseteq Points /\ Relaxed \subseteq Keys
    BY BoxFacts, KeyFacts DEF NodeKeys
<1> QED BY <1>1, <1>2 DEF Bids

LEMMA PoolStepsOf == Types /\ Next => PoolSteps
<1> SUFFICES ASSUME Types, Next PROVE PoolSteps
    OBVIOUS
<1> USE DEF PoolSteps, found
<1>1. CASE Select
    BY <1>1 DEF Select, SelectNext, Resume, FromRound, StartRound, Pick,
                RoundSolves, Exhausted
<1>2. CASE Hands
    <2>1. ASSUME NEW f \in AnyPoint, TakesHanded(f) PROVE OffersOne
        BY <2>1, FoundIsBid DEF TakesHanded, Offer, OffersOne
    <2> QED BY <1>2, <2>1 DEF Hands, HandedAtTop, HandedAtStop, HandedRefused
<1>3. CASE Solve
    BY <1>3 DEF Solve, LimitStops, NodeInfeasible, NodeFails, NodeStops,
                SearchesPoint, NodeSolved, OpensPiece
<1>4. CASE Cuts
    BY <1>4 DEF Cuts, CutsSolved, NoCuts, CutsEmpty, CutsStop
<1>5. CASE Heuristic
    <2>1. ASSUME NEW f \in AnyPoint, NEW e, NEW place, PointFound(f, e, place)
          PROVE  PoolSteps
        <3>1. CASE cfg.callback /\ CutOff(f)
            BY <2>1, <3>1 DEF PointFound
        <3>2. CASE ~(cfg.callback /\ CutOff(f))
            BY <2>1, <3>2, FoundIsBid DEF PointFound, Offer, OffersOne
        <3> QED BY <3>1, <3>2
    <2>2. ASSUME NEW f \in AnyPoint, HeuristicFinds(f) PROVE PoolSteps
        BY <2>1, <2>2 DEF HeuristicFinds
    <2>3. ASSUME NEW f \in AnyPoint, RoundingFinds(f) PROVE PoolSteps
        BY <2>1, <2>3 DEF RoundingFinds
    <2> QED BY <1>5, <2>2, <2>3 DEF Heuristic, HeuristicFails, HeuristicsEnd,
                                    RoundingFails
<1>6. CASE Callback
    BY <1>6 DEF Callback, CallbackPasses, CallbackRow, CallbackRowEmpty,
                CallbackStops
<1>7. CASE Fix
    BY <1>7 DEF Fix, Fixes, NoFix, Restarts
<1>8. CASE Close
    <2>1. ASSUME NEW p \in Box, LeafTaken(p) PROVE OffersOne
        <3>1. p \in Points /\ key \in Keys
            BY BoxFacts, KeyFacts DEF Types, HandTypes
        <3>2. [point |-> p, key |-> key] \in Bids
            BY <3>1 DEF Bids
        <3> QED BY <2>1, <3>2 DEF LeafTaken, Offer, OffersOne
    <2> QED BY <1>8, <2>1
               DEF Close, ProgressStops, ClosedByIncumbent, LeafDone,
                   ProbesFail, Branches
<1>9. CASE End
    BY <1>9 DEF End, Finish, OutOfMemory, StaleRead
<1> QED BY <1>1, <1>2, <1>3, <1>4, <1>5, <1>6, <1>7, <1>8, <1>9 DEF Next

LEMMA EmptyHoldsBest ==
    ASSUME NEW n \in Nat \ {0}
    PROVE  HoldsBest(<<>>, {}, n)
<1>1. <<>> \in Seq(Bids) /\ Len(<<>>) = 0 /\ \A i \in 1 .. Len(<<>>) : FALSE
    OBVIOUS
<1>2. IsFiniteSet({})
    BY FS_EmptySet
<1> QED BY <1>1, <1>2 DEF HoldsBest, InOrder, Once, AreBest

\* The pool's part of the inductive invariant.
PoolHolds == HoldsBest(pool, offers, cfg.pool)

LEMMA PoolInit == Init => PoolHolds
<1> SUFFICES ASSUME Init PROVE PoolHolds
    OBVIOUS
<1>1. cfg \in ConfigType /\ pool = <<>> /\ offers = {}
    BY MipTreeAssumption DEF Init, TreeStarts
<1>2. cfg.pool \in Nat \ {0}
    BY <1>1 DEF ConfigType
<1> QED BY <1>1, <1>2, EmptyHoldsBest DEF PoolHolds

LEMMA PoolStep == Types /\ PoolHolds /\ [Next]_vars => PoolHolds'
<1> SUFFICES ASSUME Types, PoolHolds, [Next]_vars PROVE PoolHolds'
    OBVIOUS
<1>1. cfg.pool \in Nat \ {0}
    BY DEF Types, InputTypes, ConfigType
<1>2. CASE Next
    <2>1. cfg' = cfg
        BY <1>2, NextFixes
    <2>2. PoolSteps
        BY <1>2, PoolStepsOf
    <2>3. CASE UNCHANGED <<pool, offers>>
        BY <2>1, <2>3 DEF PoolHolds
    <2>4. CASE OffersOne
        <3>1. PICK f \in Bids : /\ pool' = SpoolOffer(f)
                                /\ offers' = offers \cup {f}
            BY <2>4 DEF OffersOne
        <3>2. HoldsBest(SpoolOffer(f), offers \cup {f}, cfg.pool)
            BY <1>1, OfferKeeps DEF PoolHolds
        <3> QED BY <2>1, <3>1, <3>2 DEF PoolHolds
    <2>5. CASE pool' = <<>> /\ offers' = {}
        BY <1>1, <2>1, <2>5, EmptyHoldsBest DEF PoolHolds
    <2> QED BY <2>2, <2>3, <2>4, <2>5 DEF PoolSteps
<1>3. CASE UNCHANGED vars
    BY <1>3 DEF vars, fixed, found, PoolHolds
<1> QED BY <1>2, <1>3

\* The best key that a point was offered under.
LEMMA BestFacts ==
    ASSUME offers \in SUBSET Bids, NEW p, NEW g \in offers, g.point = p
    PROVE  /\ \E f \in offers : f.point = p /\ BestOf(p) = f.key
           /\ \A f \in offers : f.point = p => BestOf(p) <= f.key
<1> DEFINE K == {f.key : f \in {h \in offers : h.point = p}}
<1>1. K \in SUBSET Keys /\ g.key \in K
    BY BidFacts
<1>2. MinKey(K) \in K /\ \A j \in K : MinKey(K) <= j
    <2> HIDE DEF K
    <2> QED BY <1>1, LeastKey
<1> QED BY <1>2 DEF BestOf

LEMMA PoolIsBest == PoolHolds => PoolHoldsTheBest
<1> SUFFICES ASSUME PoolHolds PROVE PoolHoldsTheBest
    OBVIOUS
<1> DEFINE n == cfg.pool
           points == {f.point : f \in offers}
           inPool == {pool[i].point : i \in DOMAIN pool}
<1>1. /\ pool \in Seq(Bids) /\ Len(pool) \in Nat /\ DOMAIN pool = 1 .. Len(pool)
      /\ \A i \in 1 .. Len(pool) : pool[i] \in Bids /\ pool[i].key \in Int
      /\ n \in Nat \ {0} /\ Len(pool) <= n
      /\ offers \in SUBSET Bids /\ IsFiniteSet(offers)
    BY LenProperties, ElementOfSeq, BidFacts DEF PoolHolds, HoldsBest
<1>2. /\ InOrder(pool) /\ Once(pool) /\ AreBest(pool, offers)
      /\ \A g \in offers : ~IsLeftOut(pool, n, g)
    BY DEF PoolHolds, HoldsBest
<1>3. IsFiniteSet(inPool) /\ Cardinality(inPool) = Len(pool)
    <2> DEFINE b == [i \in 1 .. Len(pool) |-> pool[i].point]
    <2>1. b \in Bijection(1 .. Len(pool), inPool)
        BY <1>1, <1>2 DEF Bijection, Injection, Surjection, IsInjective, Once
    <2>2. ExistsBijection(1 .. Len(pool), inPool)
        BY <2>1 DEF ExistsBijection
    <2>3. IsFiniteSet(1 .. Len(pool)) /\ Cardinality(1 .. Len(pool)) = Len(pool)
        <3> DEFINE m == Len(pool)
        <3>1. m \in Nat /\ m \in Int /\ 1 \in Int
            BY <1>1
        <3> HIDE DEF m
        <3>2. /\ IsFiniteSet(1 .. m)
              /\ Cardinality(1 .. m) = IF 1 > m THEN 0 ELSE m - 1 + 1
            BY <3>1, FS_Interval
        <3>3. IsFiniteSet(1 .. m) /\ Cardinality(1 .. m) = m
            BY <3>1, <3>2
        <3> QED BY <3>3 DEF m
    <2> QED BY <2>2, <2>3, FS_Bijection
<1>4. IsFiniteSet(points)
    <2> DEFINE h == [g \in offers |-> g.point]
    <2>1. h \in Surjection(offers, points)
        BY DEF Surjection
    <2> QED BY <1>1, <2>1, FS_Surjection
<1>5. inPool \in SUBSET points
    BY <1>1, <1>2 DEF AreBest
\* A point without an entry is worse than a pool that is full.
<1>6. ASSUME NEW g \in offers, g.point \notin inPool
      PROVE  Len(pool) = n /\ pool[n].key <= g.key
    BY <1>1, <1>2, <1>6 DEF IsLeftOut
<1>7. Len(pool) = LeastOf(n, Cardinality(points))
    <2>1. /\ Cardinality(points) \in Nat
          /\ Cardinality(inPool) <= Cardinality(points)
        BY <1>4, <1>5, FS_CardinalityType, FS_Subset
    <2>2. CASE Len(pool) = n
        BY <1>1, <1>3, <2>1, <2>2 DEF LeastOf
    <2>3. CASE Len(pool) # n
        <3>1. points = inPool
            BY <1>5, <1>6, <2>3
        <3>2. ~(n < Len(pool))
            BY <1>1
        <3> HIDE DEF points, inPool
        <3>3. Cardinality(points) = Len(pool)
            BY <1>3, <3>1
        <3> QED BY <3>2, <3>3 DEF LeastOf
    <2> QED BY <2>2, <2>3
<1>8. ASSUME NEW i \in DOMAIN pool
      PROVE  /\ pool[i].key = BestOf(pool[i].point)
             /\ \A j \in 1 .. i : pool[j].key <= pool[i].key
             /\ \A p \in points \ inPool : pool[i].key <= BestOf(p)
    <2>1. i \in 1 .. Len(pool) /\ pool[i] \in offers /\ pool[i].key \in Int
        BY <1>1, <1>2 DEF AreBest
    <2>2. pool[i].key = BestOf(pool[i].point)
        <3>1. PICK f \in offers : /\ f.point = pool[i].point
                                  /\ BestOf(pool[i].point) = f.key
            BY <1>1, <2>1, BestFacts
        <3>2. pool[i].key <= f.key
            BY <1>2, <2>1, <3>1 DEF AreBest
        <3>3. f.key <= pool[i].key
            BY <1>1, <2>1, <3>1, BestFacts
        <3>4. f.key \in Int
            BY <1>1, BidFacts
        <3> QED BY <2>1, <3>1, <3>2, <3>3, <3>4
    <2>3. ASSUME NEW j \in 1 .. i PROVE pool[j].key <= pool[i].key
        <3>1. j \in 1 .. Len(pool) /\ j <= i
            BY <1>1, <2>1
        <3> QED BY <1>2, <2>1, <3>1 DEF InOrder
    <2>4. ASSUME NEW p \in points \ inPool PROVE pool[i].key <= BestOf(p)
        <3>1. PICK g \in offers : g.point = p
            OBVIOUS
        <3>2. PICK f \in offers : f.point = p /\ BestOf(p) = f.key
            BY <1>1, <3>1, BestFacts
        <3>3. Len(pool) = n /\ pool[n].key <= f.key
            BY <1>6, <3>2
        <3>4. i <= n /\ n \in 1 .. Len(pool)
            BY <1>1, <2>1, <3>3
        <3>5. pool[i].key <= pool[n].key /\ pool[n].key \in Int
            BY <1>1, <1>2, <2>1, <3>4 DEF InOrder
        <3>6. f.key \in Int
            BY <1>1, BidFacts
        <3> QED BY <2>1, <3>2, <3>3, <3>5, <3>6
    <2> QED BY <2>2, <2>3, <2>4
<1> QED BY <1>3, <1>7, <1>8 DEF PoolHoldsTheBest

\* The pool holds the best of the points it was offered, each once and under
\* its best objective, in order (spool_offer, bb_offer).
THEOREM PoolKeepsTheBest == Spec => []PoolHoldsTheBest
<1>1. Init => HeapInv /\ PoolHolds
    BY HeapInit, PoolInit
<1>2. HeapInv /\ PoolHolds /\ [Next]_vars => (HeapInv /\ PoolHolds)'
    BY HeapStep, PoolStep DEF HeapInv
<1>3. HeapInv /\ PoolHolds => PoolHoldsTheBest
    BY PoolIsBest
<1> QED BY <1>1, <1>2, <1>3, PTL DEF Spec

-----------------------------------------------------------------------------
(* What a restart keeps.                                                     *)

\* A tree that goes on has no outcome yet.
RunsOn == ~Over => outcome = "NOT_RUN"

\* Where a step can count a node, and where it can name how the tree ended.
KeepStep ==
    /\ nodes' = nodes \/ (pc = "limits" /\ nodes' = nodes + 1)
    /\ ~Over' => outcome' = outcome
    /\ outcome' \in {"OPTIMAL", "NODE_LIMIT"} /\ outcome' # outcome =>
          \/ pc' = "finish" /\ outcome' = "OPTIMAL"
          \/ /\ pc = "limits" /\ outcome' = "NODE_LIMIT"
             /\ nodes > 0 \/ MayBeUnbounded
LEMMA KeepSteps == Types /\ Next /\ ~StartsAgain => KeepStep
<1> SUFFICES ASSUME Types, Next, ~StartsAgain PROVE KeepStep
    OBVIOUS
<1>0. /\ nodes \in Nat /\ limit \in Nat
      /\ cfg.stops \subseteq {"WORK_LIMIT", "TIME_LIMIT", "INTERRUPTED"}
    BY DEF Types, CountTypes, InputTypes, ConfigType
<1> USE DEF KeepStep, Over, Goes, Drops, Stops, result, counts
<1>1. CASE Select
    BY <1>1 DEF Select, SelectNext, Resume, FromRound, StartRound, Pick,
                Takes, RoundSolves, Exhausted
<1>2. CASE Hands
    BY <1>2 DEF Hands, HandedAtTop, HandedAtStop, HandedRefused
<1>3. CASE Solve
    BY <1>0, <1>3 DEF Solve, LimitStops, NodeInfeasible, NodeFails, NodeStops,
                SearchesPoint, NodeSolved, OpensPiece, NodesSpent, LimitsMet,
                SolveStops, UserMayStop, Counts, Ends
<1>4. CASE Cuts
    BY <1>0, <1>4 DEF Cuts, CutsSolved, NoCuts, CutsEmpty, CutsStop, AfterCuts,
                SolveStops, UserMayStop, LimitsMet
<1>5. CASE Heuristic
    BY <1>5 DEF Heuristic, HeuristicFinds, RoundingFinds, HeuristicFails,
                HeuristicsEnd, RoundingFails, PointFound, Trying
<1>6. CASE Callback
    BY <1>0, <1>6 DEF Callback, CallbackPasses, CallbackRow, CallbackRowEmpty,
                CallbackStops, AddsRow, SolveStops, UserMayStop, LimitsMet
<1>7. CASE Fix
    BY <1>7 DEF Fix, StartsAgain, Fixes, NoFix
<1>8. CASE Close
    BY <1>8 DEF Close, ProgressStops, ClosedByIncumbent, LeafTaken, LeafDone,
                ProbesFail, Branches
<1>9. CASE End
    BY <1>9 DEF End, Finish, OutOfMemory, StaleRead
<1> QED BY <1>1, <1>2, <1>3, <1>4, <1>5, <1>6, <1>7, <1>8, <1>9 DEF Next

LEMMA KeptStep ==
    ASSUME IInv, IInv', RunsOn, IncumbentIsKept, Next
    PROVE  RunsOn' /\ IncumbentIsKept'
<1>0. HeapInv /\ Types /\ IncIsReal /\ StartIsTried /\ nodes \in Nat
    BY DEF IInv, HeapInv, Types, CountTypes
<1>1. CASE StartsAgain
    <2>1. PICK S \in SUBSET kept : Restarts(S)
        BY <1>1 DEF StartsAgain
    <2>2. pc = "fix" /\ nodes' = 0 /\ outcome' = outcome
        BY <1>0, <2>1, RestartFacts DEF Restarts, result
    <2>3. outcome' = "NOT_RUN"
        BY <2>2 DEF RunsOn, Over
    <2> QED BY <2>2, <2>3 DEF RunsOn, IncumbentIsKept
<1>2. CASE ~StartsAgain
    <2>1. KeepStep
        BY <1>0, <1>2, KeepSteps
    <2>2. RunsOn'
        BY <2>1, OverStays DEF RunsOn, KeepStep
    <2>3. /\ first' = first
          /\ inc'.key \in Int /\ inc.key \in Int /\ inc'.key <= inc.key
          /\ HasIncumbent => HasIncumbent'
        BY <1>0, <1>2, IncImproves
    <2>4. ASSUME first.asked, HasIncumbent, inc.key <= first.start.key
          PROVE  HasIncumbent' /\ inc'.key <= first'.start.key
        <3>1. first.start.key \in Int
            BY <1>0, <2>4, KeyFacts DEF Types, FoundTypes, Incumbents
        <3> QED BY <2>3, <2>4, <3>1
    <2>5. ASSUME first.asked, nodes' > 1 \/ outcome' \in {"OPTIMAL", "NODE_LIMIT"}
          PROVE  HasIncumbent' /\ inc'.key <= first'.start.key
        <3>1. CASE nodes > 1 \/ outcome \in {"OPTIMAL", "NODE_LIMIT"}
            BY <2>4, <2>5, <3>1 DEF IncumbentIsKept
        <3>2. CASE ~(nodes > 1) /\ outcome \notin {"OPTIMAL", "NODE_LIMIT"}
            <4>1. CASE nodes' > 1 \/ (pc = "limits" /\ nodes > 0)
                <5>1. pc = "limits" /\ nodes > 0
                    BY <1>0, <2>1, <3>2, <4>1 DEF KeepStep
                <5>2. ~StartIsToTry /\ ~Over
                    BY <1>0, <5>1 DEF StartIsToTry, Over
                <5> QED BY <1>0, <2>4, <2>5, <5>2 DEF StartIsTried
            <4>2. CASE ~(nodes' > 1) /\ ~(pc = "limits" /\ nodes > 0)
                <5>1. ~MayBeUnbounded
                    BY <1>0, <2>5, RayFacts
                <5>2. pc' = "finish" /\ outcome' = "OPTIMAL"
                    BY <2>1, <2>5, <3>2, <4>2, <5>1 DEF KeepStep
                <5> QED BY <2>3, <2>5, <5>2
                        DEF IInv, OutcomeIsSound, StartIsTried
            <4> QED BY <4>1, <4>2
        <3> QED BY <3>1, <3>2
    <2> QED BY <2>2, <2>3, <2>5 DEF IncumbentIsKept
<1> QED BY <1>1, <1>2

\* The incumbent announced before a restart, or a better one, is what the call
\* has once the second tree is past its root or has ended by itself, whatever
\* heuristics fail, rows are added and points are offered (bb_run, bb_tree).
THEOREM IncumbentOutlivesRestart ==
    ASSUME NoRayUnderCutoff PROVE Spec => []IncumbentIsKept
<1>1. Init => RunsOn /\ IncumbentIsKept
    BY DEF Init, TreeStarts, NoFirst, RunsOn, IncumbentIsKept
<1>2. IInv /\ IInv' /\ RunsOn /\ IncumbentIsKept /\ [Next]_vars
        => RunsOn' /\ IncumbentIsKept'
    <2>1. CASE Next
        BY <2>1, KeptStep
    <2>2. CASE UNCHANGED vars
        BY <2>2 DEF vars, fixed, node, held, found, locals, bounds, counts,
                    result, RunsOn, Over, IncumbentIsKept, HasIncumbent
    <2> QED BY <2>1, <2>2
<1> QED BY <1>1, <1>2, Invariant, PTL DEF Spec
=============================================================================
