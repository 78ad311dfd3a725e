----------------------------- MODULE ConicTree -----------------------------
(* jm_conic_branch_and_bound (src/src/conictree.c): the heap, the stack and  *)
(* the plunge that hold the open nodes, rounds of relaxations solved on      *)
(* lanes, what each relaxation's end does to its node, the incumbent, the    *)
(* limits and the callbacks, and the verdict and bound of the end.           *)
(*                                                                           *)
(* The conic solver is an oracle: how a solve ends is chosen among the ends  *)
(* that its certificates allow, and it bills a few units, cut to its budget. *)
(* A node's box is the set of points in it; Splits gives the pairs of boxes  *)
(* a column, an SOS set or an indicator can cut it into.                     *)
EXTENDS TreeTerms, Sequences, FiniteSets, Functions

CONSTANTS
    Worlds,         \* models with their shapes: see ShapeType
    Configs,        \* batch, threads, limits and heuristics: see ConfigType
    Splits,         \* the ways a box can be cut
    PieceSplits,    \* those at an open SOS set or indicator
    Relaxed,        \* the values a relaxation may have
    Needs,          \* the units a solve may need
    ClockMayRunOut, \* a time limit is set and may be reached
    UserMayStop,    \* a callback may answer STOP
    SolveMayFail,   \* a solve may end as a numerical error
    SolveMayErr     \* jaos_solve may return an error

Pairs == [down : SUBSET Points, up : SUBSET Points]

\* pieces: the model has SOS sets or indicators; semi: it has semi-continuous
\* columns; ray: the points in whose piece the objective improves for ever.
ShapeType == [pieces : BOOLEAN, semi : BOOLEAN, ray : SUBSET Points]

ConfigType ==
    [batch : Nat \ {0}, threads : Nat \ {0}, nodeLimit : Nat, workLimit : Nat,
     rounding : BOOLEAN, dive : Nat]

\* A ray of one piece that some point satisfies improves that point for ever.
\* Without SOS sets and indicators there is one piece.
RaysStand(w, s) ==
    \A B \in SUBSET w.root :
        /\ B \cap s.ray # {} /\ (s.pieces => PieceSplits[B] = {})
        /\ ~Empty(w.cost, IF s.pieces THEN B ELSE w.root)
        => \E p \in w.root : w.cost[p] = NegInf

\* Each side of a split is smaller, and what is on neither has crossed bounds;
\* a box of one point is settled.
ASSUME ConicTreeAssumption ==
    /\ Worlds \subseteq Models \X ShapeType
    /\ \A w \in Worlds : RaysStand(w[1], w[2])
    /\ Configs \subseteq ConfigType
    /\ Splits \in [SUBSET Points -> SUBSET Pairs]
    /\ PieceSplits \in [SUBSET Points -> SUBSET Pairs]
    /\ \A B \in SUBSET Points :
         /\ PieceSplits[B] \subseteq Splits[B]
         /\ \A s \in Splits[B] :
              /\ s.down \cup s.up \subseteq B /\ B \notin {s.down, s.up}
              /\ \A w \in Models : Empty(w.cost, B \ (s.down \cup s.up))
         /\ Splits[B] = {} <=> Single(B)
    /\ Relaxed \subseteq Keys \ {NegInf, Inf}
    /\ Needs \subseteq Nat \ {0}
    /\ {ClockMayRunOut, UserMayStop, SolveMayFail, SolveMayErr}
         \subseteq BOOLEAN

VARIABLES
    model, shape, cfg,      \* the call's inputs: fixed
    pc,                     \* where the call is
    heap, stack, next, cur, \* the open nodes
    batch, at,              \* the round's nodes and the one being processed
    lane, res,              \* where each lane is, and what it has solved
    key, rough, leaf, closed,   \* locals of a node's processing
    dived,                  \* the solves of the root's dive
    inc,                    \* the incumbent; the cutoff before there is one
    bestBound, parkedKey, stoppedKey,
    nodes, nextId, work,
    outcome, code,
    told,                   \* the bound of the last event
    bound,                  \* mip_bound
    aside                   \* history: the nodes behind parked and stopped keys

fixed == <<model, shape, cfg>>
held == <<heap, stack, next, cur>>
round == <<batch, at, lane, res>>
locals == <<key, rough, leaf, closed, dived>>
bounds == <<bestBound, parkedKey, stoppedKey>>
counts == <<nodes, nextId, work>>
result == <<outcome, code, bound>>
vars == <<fixed, pc, held, round, locals, inc, bounds, counts, result, told,
          aside>>

NoNode == [id |-> -1, box |-> {}, key |-> Inf]
Root == [id |-> 0, box |-> model.root, key |-> NegInf]
NoResult == [times |-> 0, units |-> 0, cut |-> FALSE]

Init ==
    /\ \E w \in Worlds : model = w[1] /\ shape = w[2]
    /\ cfg \in Configs
    /\ pc = "start"
    /\ heap = {} /\ stack = <<>> /\ next = NoNode /\ cur = Root
    /\ batch = <<>> /\ at = 1
    /\ lane = <<>> /\ res = <<>>
    /\ key = NegInf /\ rough = FALSE /\ leaf = FALSE /\ closed = FALSE
    /\ dived = 0
    /\ inc = [key |-> model.cutoff, point |-> NoPoint]
    /\ bestBound = NegInf /\ parkedKey = Inf /\ stoppedKey = Inf
    /\ nodes = 0 /\ nextId = 1 /\ work = 0
    /\ outcome = "NOT_RUN" /\ code = "OK" /\ bound = NegInf
    /\ told = NegInf
    /\ aside = {}

Goes(place) == pc' = place
HasIncumbent == inc.point # NoPoint
IsOpen(n) == ~Closed(inc, n.key)

\* ct_budget_share: what each of n solves may use; a unit when nothing is
\* left, since no units would be no limit.
Budget(n) == Larger((cfg.workLimit - work) \div n, 1)

\* One solve under that budget: the units it bills and whether they cut it.
\* Nothing reads the units when there is no limit.
Bills(n) ==
    IF cfg.workLimit = 0 THEN {[units |-> 0, cut |-> FALSE]}
    ELSE {[units |-> IF u > Budget(n) THEN Budget(n) ELSE u,
           cut |-> u > Budget(n)] : u \in Needs}

\* What a solve with the integer columns fixed finds in a box: a point, under
\* the objective of the solution that the checker accepts.
None == [point |-> NoPoint, key |-> Inf]
Found(box) ==
    {f \in [point : box, key : Relaxed] : model.cost[f.point] <= f.key}

-----------------------------------------------------------------------------
(* Before the first node.                                                    *)

EmptyBox ==
    /\ pc = "start"
    /\ model.root = {}
    /\ outcome' = "INFEASIBLE"
    /\ Goes("finish")
    /\ UNCHANGED <<fixed, held, round, locals, inc, bounds, counts, code,
                   bound, told, aside>>

NoStart ==
    /\ pc = "start"
    /\ model.root # {}
    /\ Goes("limits")
    /\ UNCHANGED <<fixed, held, round, locals, inc, bounds, counts, result,
                   told, aside>>

\* The caller's start, with its integer columns fixed: what it finds is the
\* incumbent when it is better than the cutoff.
Start(f, b) ==
    /\ pc = "start"
    /\ model.root # {}
    /\ b.cut => f = None
    /\ inc' = IF f.key < inc.key THEN f ELSE inc
    /\ work' = work + b.units
    /\ Goes("limits")
    /\ UNCHANGED <<fixed, held, round, locals, bounds, nodes, nextId, result,
                   told, aside>>

-----------------------------------------------------------------------------
(* Which nodes a round takes.                                                *)

\* Where the topmost node of the stack is that the incumbent leaves open.
OpenAt == {i \in 1 .. Len(stack) : IsOpen(stack[i])}
IsTop(i) == i \in OpenAt /\ \A j \in OpenAt : j <= i

\* ct_before.
IsLeast(n) ==
    \A h \in heap : n.key < h.key \/ (n.key = h.key /\ n.id <= h.id)

NextIsClosed == next = NoNode \/ ~IsOpen(next)

SelectNext ==
    /\ pc = "select"
    /\ ~NextIsClosed
    /\ cur' = next
    /\ next' = NoNode
    /\ Goes("limits")
    /\ UNCHANGED <<fixed, heap, stack, round, locals, inc, bounds, counts,
                   result, told, aside>>

\* Fault: the top of the stack is taken for the least key too.
SelectTop_AsBound(i) ==
    /\ pc = "select"
    /\ NextIsClosed
    /\ IsTop(i)
    /\ cur' = stack[i]
    /\ next' = NoNode
    /\ stack' = SubSeq(stack, 1, i - 1)
    /\ bestBound' = cur'.key
    /\ Goes("limits")
    /\ UNCHANGED <<fixed, heap, round, locals, inc, parkedKey, stoppedKey,
                   counts, result, told, aside>>

SelectTop(i) ==
    /\ pc = "select"
    /\ NextIsClosed
    /\ IsTop(i)
    /\ cur' = stack[i]
    /\ next' = NoNode
    /\ stack' = SubSeq(stack, 1, i - 1)
    /\ Goes("limits")
    /\ UNCHANGED <<fixed, heap, round, locals, inc, bounds, counts, result,
                   told, aside>>

\* Everything open is in the heap: its least key is a bound of the search.
SelectLeast(n) ==
    /\ pc = "select"
    /\ NextIsClosed
    /\ OpenAt = {}
    /\ n \in heap /\ IsLeast(n) /\ IsOpen(n)
    /\ cur' = n
    /\ heap' = heap \ {n}
    /\ next' = NoNode
    /\ stack' = <<>>
    /\ bestBound' = n.key
    /\ Goes("limits")
    /\ UNCHANGED <<fixed, round, locals, inc, parkedKey, stoppedKey, counts,
                   result, told, aside>>

\* Fault: closed nodes keep the search from ending.
NoneOpen_ClosedCount == stack = <<>> /\ heap = {}

NoneOpen == OpenAt = {} /\ \A n \in heap : ~IsOpen(n)

Exhausted ==
    /\ pc = "select"
    /\ NextIsClosed
    /\ NoneOpen
    /\ heap' = {} /\ stack' = <<>> /\ next' = NoNode
    /\ cur' = NoNode
    /\ outcome' = IF HasIncumbent THEN "OPTIMAL" ELSE "INFEASIBLE"
    /\ Goes("finish")
    /\ UNCHANGED <<fixed, round, locals, inc, bounds, counts, code, bound,
                   told, aside>>

WorkSpent == cfg.workLimit > 0 /\ work >= cfg.workLimit
NodesSpent == cfg.nodeLimit > 0 /\ nodes >= cfg.nodeLimit

LimitStops(v) ==
    /\ pc = "limits"
    /\ \/ v = "WORK_LIMIT" /\ WorkSpent
       \/ v = "TIME_LIMIT" /\ ~WorkSpent /\ ClockMayRunOut
       \/ v = "NODE_LIMIT" /\ ~WorkSpent /\ NodesSpent
    /\ outcome' = v
    /\ Goes("finish")
    /\ UNCHANGED <<fixed, held, round, locals, inc, bounds, counts, code,
                   bound, told, aside>>

BeginsRound ==
    /\ pc = "limits"
    /\ ~WorkSpent /\ ~NodesSpent
    /\ batch' = <<cur>>
    /\ cur' = NoNode
    /\ Goes("fill")
    /\ UNCHANGED <<fixed, heap, stack, next, at, lane, res, locals, inc,
                   bounds, counts, result, told, aside>>

RoundIsFull ==
    \/ Len(batch) >= cfg.batch
    \/ cfg.nodeLimit > 0 /\ nodes + Len(batch) >= cfg.nodeLimit

FillFromTop(i) ==
    /\ pc = "fill"
    /\ ~RoundIsFull
    /\ IsTop(i)
    /\ batch' = Append(batch, stack[i])
    /\ stack' = SubSeq(stack, 1, i - 1)
    /\ UNCHANGED <<fixed, pc, heap, next, cur, at, lane, res, locals, inc,
                   bounds, counts, result, told, aside>>

FillFromLeast(n) ==
    /\ pc = "fill"
    /\ ~RoundIsFull
    /\ OpenAt = {}
    /\ n \in heap /\ IsLeast(n) /\ IsOpen(n)
    /\ batch' = Append(batch, n)
    /\ heap' = heap \ {n}
    /\ stack' = <<>>
    /\ UNCHANGED <<fixed, pc, next, cur, at, lane, res, locals, inc, bounds,
                   counts, result, told, aside>>

\* ct_solve_batch: lane k solves the nodes k, k + lanes, k + 2 lanes, ...
Lanes == IF cfg.threads < Len(batch) THEN cfg.threads ELSE Len(batch)

Launch ==
    /\ pc = "fill"
    /\ RoundIsFull \/ NoneOpen
    /\ IF RoundIsFull THEN UNCHANGED <<heap, stack>>
                      ELSE heap' = {} /\ stack' = <<>>
    /\ lane' = [k \in 1 .. Lanes |-> k]
    /\ res' = [b \in 1 .. Len(batch) |-> NoResult]
    /\ at' = 1
    /\ Goes("solve")
    /\ UNCHANGED <<fixed, next, cur, batch, locals, inc, bounds, counts,
                   result, told, aside>>

\* Lane k solves its next node.  A lane whose thread did not start runs on
\* the calling thread, which is one of these interleavings.
LaneSolves(k, b) ==
    /\ pc = "solve"
    /\ lane[k] <= Len(batch)
    /\ res' = [res EXCEPT ![lane[k]] =
                   [times |-> @.times + 1, units |-> b.units, cut |-> b.cut]]
    /\ lane' = [lane EXCEPT ![k] = @ + Lanes]
    /\ UNCHANGED <<fixed, pc, held, batch, at, locals, inc, bounds, counts,
                   result, told, aside>>

Units == FoldFunction(+, 0, [b \in DOMAIN res |-> res[b].units])

Join ==
    /\ pc = "solve"
    /\ \A k \in 1 .. Lanes : lane[k] > Len(batch)
    /\ work' = work + Units
    /\ Goes("consume")
    /\ UNCHANGED <<fixed, held, round, locals, inc, bounds, nodes, nextId,
                   result, told, aside>>

-----------------------------------------------------------------------------
(* The nodes of the round, in order: how the relaxation ended.               *)

Taken == IF at \in DOMAIN batch THEN batch[at] ELSE NoNode
Box == Taken.box
Ends == pc = "consume" /\ at <= Len(batch)
Counts == nodes' = nodes + 1

Continue == at' = at + 1 /\ Goes("consume") /\ UNCHANGED outcome
Break(v) == outcome' = v /\ Goes("leftover") /\ UNCHANGED at

\* The children of a split, the down side first; one without a box is not made.
Child(box, id, k) ==
    IF box = {} THEN NoNode ELSE [id |-> id, box |-> box, key |-> k]
Down(s, k) == Child(s.down, nextId, k)
Up(s, k) == Child(s.up, nextId + (IF s.down = {} THEN 0 ELSE 1), k)
Children(s, k) == {Down(s, k), Up(s, k)} \ {NoNode}

\* Both children go to the heap under the key of their parent (ct_push_pair).
Halves(s) ==
    /\ heap' = heap \cup Children(s, Taken.key)
    /\ nextId' = nextId + Cardinality(Children(s, Taken.key))
    /\ Continue
    /\ UNCHANGED <<fixed, stack, next, cur, batch, lane, res, locals, inc,
                   bounds, work, code, bound, told, aside>>

\* Nothing comes of the node.
Drop ==
    /\ Continue
    /\ UNCHANGED <<fixed, held, batch, lane, res, locals, inc, bounds, nextId,
                   work, code, bound, told, aside>>

\* The node cannot be split any more: only its bound is kept.
Park(k) ==
    /\ parkedKey' = IF k < parkedKey THEN k ELSE parkedKey
    /\ aside' = aside \cup {[box |-> Box, key |-> k]}
    /\ Continue
    /\ UNCHANGED <<fixed, held, batch, lane, res, locals, inc, bestBound,
                   stoppedKey, nextId, work, code, bound, told>>

NodeErrs ==
    /\ Ends /\ SolveMayErr
    /\ code' = "ERR"
    /\ Goes("returned")
    /\ Counts
    /\ UNCHANGED <<fixed, held, round, locals, inc, bounds, nextId, work,
                   outcome, bound, told, aside>>

NodeInfeasible ==
    /\ Ends /\ ~res[at].cut
    /\ Empty(model.cost, Box)
    /\ Counts
    /\ Drop

\* The open SOS sets and indicators of the node's box (jm_open_piece).
OpenPieces == IF shape.pieces THEN PieceSplits[Box] ELSE {}

\* A ray of the relaxation: of the box's piece, or of several put together.
MayBeUnbounded ==
    IF OpenPieces = {} THEN Box \cap shape.ray # {} ELSE shape.ray # {}

NodeUnbounded == Ends /\ ~res[at].cut /\ MayBeUnbounded

OpensPiece(s) ==
    /\ NodeUnbounded
    /\ s \in OpenPieces
    /\ Counts
    /\ Halves(s)

\* ct_feasible: a tree of its own over the model without an objective, with
\* the caller's cutoff and limits.  Its root's relaxation is 0.
Region == IF shape.pieces THEN Box ELSE model.root
CutoffCloses == Closed([key |-> model.cutoff], 0)

SearchEnds(fs) ==
    \/ fs = "OPTIMAL" /\ ~CutoffCloses /\ ~Empty(model.cost, Region)
    \/ fs = "INFEASIBLE" /\ (CutoffCloses \/ Empty(model.cost, Region))
    \/ fs = "NUMERICAL_ERROR" /\ SolveMayFail
    \/ fs = "TIME_LIMIT" /\ ClockMayRunOut
    \/ fs = "NODE_LIMIT" /\ cfg.nodeLimit > 0

\* No piece is open: the ray stands when there is a feasible point for it.
SearchesPoint(fs, b) ==
    /\ NodeUnbounded
    /\ OpenPieces = {}
    /\ IF b.cut THEN fs = "WORK_LIMIT" ELSE SearchEnds(fs)
    /\ work' = work + b.units
    /\ Counts
    /\ IF shape.pieces /\ fs = "INFEASIBLE" THEN Continue
       ELSE Break(IF fs = "OPTIMAL" THEN "UNBOUNDED" ELSE fs)
    /\ UNCHANGED <<fixed, held, batch, lane, res, locals, inc, bounds, nextId,
                   code, bound, told, aside>>

NodeFails == Ends /\ ~res[at].cut /\ SolveMayFail

\* The cones' bounds leave the box nothing.
FailsEmpty == NodeFails /\ Empty(model.cost, Box) /\ Counts /\ Drop

FailsAndSplits(s) ==
    NodeFails /\ s \in Splits[Box] /\ Counts /\ Halves(s)

FailsAndParks == NodeFails /\ Splits[Box] = {} /\ Counts /\ Park(Taken.key)

NodeStops(v) ==
    /\ Ends
    /\ \/ v = "WORK_LIMIT" /\ res[at].cut
       \/ v = "TIME_LIMIT" /\ ClockMayRunOut
    /\ Counts
    /\ Break(v)
    /\ UNCHANGED <<fixed, held, batch, lane, res, locals, inc, bounds, nextId,
                   work, code, bound, told, aside>>

\* Solved, within tolerances or short of them: then the bound is the one its
\* duals give, or its parent's.  The progress callback is told.
Event(b) == IF HasIncumbent /\ inc.key < b THEN inc.key ELSE b

NodeSolved(k) ==
    /\ Ends /\ ~res[at].cut
    /\ IsBound(model.cost, Box, k)
    /\ Single(Box) => leaf'
    /\ key' = k
    /\ Counts
    /\ bestBound' = IF nodes = 0 THEN k ELSE bestBound
    /\ told' = Event(bestBound')
    /\ Goes("node")
    /\ UNCHANGED <<fixed, held, round, closed, dived, inc, parkedKey,
                   stoppedKey, nextId, work, result, aside>>

\* Is its point integral, with every piece settled?  A point of a relaxation
\* that passed the checker then costs what the relaxation says.
Solved(k) ==
    /\ k \in Relaxed
    /\ rough' = FALSE
    /\ leaf' \in BOOLEAN
    /\ leaf' => \E p \in Box : model.cost[p] = k
    /\ NodeSolved(k)

Rough(lb) ==
    /\ SolveMayFail
    /\ lb \in Relaxed \cup {NegInf}
    /\ rough' = TRUE
    /\ leaf' \in BOOLEAN
    /\ NodeSolved(Larger(lb, Taken.key))

EventStops ==
    /\ pc = "node"
    /\ UserMayStop
    /\ Break("INTERRUPTED")
    /\ UNCHANGED <<fixed, held, batch, lane, res, locals, inc, bounds, counts,
                   code, bound, told, aside>>

ClosedByIncumbent ==
    /\ pc \in {"node", "branch"}
    /\ Closed(inc, key)
    /\ Drop
    /\ UNCHANGED nodes

-----------------------------------------------------------------------------
(* A node whose relaxation leaves it open: feasible points are looked for,   *)
(* with the integer columns fixed, and the node is closed or split.          *)

\* ct_offer.  An incumbent moves the stack to the heap, and its callback may
\* answer STOP.
Offer(f) ==
    IF f.key < inc.key
    THEN inc' = f /\ heap' = heap \cup Range(stack) /\ stack' = <<>>
    ELSE UNCHANGED <<inc, heap, stack>>

OfferEnds(f, place) ==
    \/ Goes(place) /\ UNCHANGED <<outcome, at>>
    \/ f.key < inc.key /\ UserMayStop /\ Break("INTERRUPTED")

Rounding == ~leaf /\ nodes = 1 /\ cfg.rounding

RoundingSolve(f, b) ==
    /\ pc = "node" /\ ~Closed(inc, key)
    /\ Rounding
    /\ b.cut => f = None
    /\ work' = work + b.units
    /\ Offer(f)
    /\ OfferEnds(f, "dive")
    /\ UNCHANGED <<fixed, next, cur, batch, lane, res, locals, bounds, nodes,
                   nextId, code, bound, told, aside>>

NoRounding ==
    /\ pc = "node" /\ ~Closed(inc, key)
    /\ ~leaf /\ ~Rounding
    /\ Goes("dive")
    /\ UNCHANGED <<fixed, held, round, locals, inc, bounds, counts, result,
                   told, aside>>

\* The dive from the root: each solve fixes half of the fractional columns.
Dives == nodes = 1 /\ ~HasIncumbent /\ cfg.dive > 0

DiveStep(b) ==
    /\ pc = "dive" /\ Dives
    /\ dived < cfg.dive
    /\ work' = work + b.units
    /\ dived' = dived + 1
    /\ Goes(IF b.cut THEN "branch" ELSE "dive")
    /\ UNCHANGED <<fixed, held, round, key, rough, leaf, closed, inc, bounds,
                   nodes, nextId, result, told, aside>>

DiveSolve(f, b) ==
    /\ pc = "dive" /\ Dives
    /\ b.cut => f = None
    /\ work' = work + b.units
    /\ Offer(f)
    /\ OfferEnds(f, "branch")
    /\ UNCHANGED <<fixed, next, cur, batch, lane, res, locals, bounds, nodes,
                   nextId, code, bound, told, aside>>

\* No dive, or one whose solve fails.
DiveEnds ==
    /\ pc = "dive"
    /\ Dives => dived > 0
    /\ Goes("branch")
    /\ UNCHANGED <<fixed, held, round, locals, inc, bounds, counts, result,
                   told, aside>>

\* Every column of the node fixed and every piece settled (ct_settled), and
\* the solve is the node's own: with no pieces, or for a rough relaxation.
Whole == Single(Box) /\ (shape.pieces \/ shape.semi => rough)

\* How the solve at a leaf's point ends.
FixedEnds(fs, f) ==
    \/ /\ fs = "OPTIMAL"
       /\ f \in Found(Box) /\ f.key = model.cost[f.point]
       /\ ~rough => f.key = key
    \/ fs = "INFEASIBLE" /\ f = None /\ \E p \in Box : ~Feasible(model.cost, p)
    \/ /\ fs = "NUMERICAL_ERROR" /\ SolveMayFail
       /\ f \in Found(Box) \cup {None}
    \/ fs = "TIME_LIMIT" /\ f = None /\ ClockMayRunOut

Settles(fs) ==
    \/ fs = "OPTIMAL" /\ (~rough \/ Whole)
    \/ fs = "INFEASIBLE" /\ Whole

\* A solve that does not settle its leaf may show the box empty, or improve
\* its bound to lb, when it is the whole of it.
LeafSolve(fs, f, lb, b) ==
    /\ pc = "node" /\ ~Closed(inc, key)
    /\ leaf
    /\ IF b.cut THEN fs = "WORK_LIMIT" /\ f = None ELSE FixedEnds(fs, f)
    /\ Offer(f)
    /\ \E emptied \in BOOLEAN :
         /\ emptied => Whole /\ Empty(model.cost, Box)
         /\ key' = IF Whole /\ ~Settles(fs) /\ ~emptied THEN Larger(key, lb)
                                                        ELSE key
         /\ IsBound(model.cost, Box, key')
         /\ closed' = (Settles(fs) \/ emptied \/ Closed(inc', key'))
    /\ work' = work + b.units
    /\ OfferEnds(f, "leaf")
    /\ UNCHANGED <<fixed, next, cur, batch, lane, res, rough, leaf, dived,
                   bounds, nodes, nextId, code, bound, told, aside>>

LeafClosed == pc = "leaf" /\ closed /\ Drop /\ UNCHANGED nodes

LeafSplits(s) ==
    pc = "leaf" /\ ~closed /\ s \in Splits[Box] /\ Halves(s) /\ UNCHANGED nodes

LeafParks ==
    pc = "leaf" /\ ~closed /\ Splits[Box] = {} /\ Park(key) /\ UNCHANGED nodes

Waiting(n) == IF n = NoNode THEN <<>> ELSE <<n>>
Other(s, first) == IF first = Down(s, key) THEN Up(s, key) ELSE Down(s, key)

\* Fault: the node that a later one displaces is lost.
Kept_NotTheDisplaced(s, first) == Waiting(Other(s, first))

\* The child on the nearer side is next; the other one, and the child that
\* another node of the round left as next, are kept: on the stack while there
\* is no incumbent, and in the heap after.
Kept(s, first) == Waiting(Other(s, first)) \o Waiting(next)

Keep(ns) ==
    IF HasIncumbent THEN heap' = heap \cup Range(ns) /\ UNCHANGED stack
                    ELSE stack' = stack \o ns /\ UNCHANGED heap

Branch(s, first) ==
    /\ pc = "branch" /\ ~Closed(inc, key)
    /\ first \in Children(s, key)
    /\ next' = first
    /\ Keep(Kept(s, first))
    /\ nextId' = nextId + Cardinality(Children(s, key))
    /\ Continue
    /\ UNCHANGED <<fixed, cur, batch, lane, res, locals, inc, bounds, nodes,
                   work, code, bound, told, aside>>

\* Both sides have crossed bounds.
BranchesNowhere(s) ==
    /\ pc = "branch" /\ ~Closed(inc, key)
    /\ Children(s, key) = {}
    /\ Drop
    /\ UNCHANGED nodes

-----------------------------------------------------------------------------
(* The end of a round, and of the search.                                    *)

\* A stop leaves the rest of the round with its bounds.  The locals of the
\* last node are gone.
Leftover ==
    /\ pc = "leftover" \/ (pc = "consume" /\ at > Len(batch))
    /\ LET left == {batch[b] : b \in at .. Len(batch)}
       IN /\ stoppedKey' = MinKey({stoppedKey} \cup {n.key : n \in left})
          /\ aside' = aside \cup {[box |-> n.box, key |-> n.key] : n \in left}
    /\ batch' = <<>> /\ at' = 1 /\ lane' = <<>> /\ res' = <<>>
    /\ key' = NegInf /\ rough' = FALSE /\ leaf' = FALSE /\ closed' = FALSE
    /\ dived' = 0
    /\ Goes(IF outcome = "NOT_RUN" THEN "select" ELSE "finish")
    /\ UNCHANGED <<fixed, held, inc, bestBound, parkedKey, counts,
                   result, told>>

\* Nothing is proved of the nodes set aside.
Unsettled ==
    /\ parkedKey < Inf
    /\ \/ outcome = "INFEASIBLE"
       \/ outcome = "OPTIMAL" /\ ~Closed(inc, parkedKey)

\* Fault: what a stop left of the round is forgotten.
OpenKeys_NotTheRound ==
    {n.key : n \in heap \cup Range(stack) \cup {next}
                   \cup (IF outcome = "OPTIMAL" THEN {} ELSE {cur})}
    \cup {parkedKey}

OpenKeys ==
    {n.key : n \in heap \cup Range(stack) \cup {next}
                   \cup (IF outcome = "OPTIMAL" THEN {} ELSE {cur})}
    \cup {parkedKey, stoppedKey}

EndBound ==
    LET least == MinKey(OpenKeys)
        b == IF least < Inf THEN least ELSE bestBound
    IN IF HasIncumbent /\ (outcome' = "OPTIMAL" \/ b > inc.key) THEN inc.key
                                                                ELSE b

Finish ==
    /\ pc = "finish"
    /\ outcome' = IF Unsettled THEN "NUMERICAL_ERROR" ELSE outcome
    /\ bound' = EndBound
    /\ told' = IF outcome' = "INTERRUPTED" THEN told ELSE bound'
    /\ Goes("returned")
    /\ UNCHANGED <<fixed, held, round, locals, inc, bounds, counts, code,
                   aside>>

-----------------------------------------------------------------------------
Searched == {"OPTIMAL", "INFEASIBLE", "UNBOUNDED", "WORK_LIMIT", "TIME_LIMIT",
             "NUMERICAL_ERROR", "NODE_LIMIT"}

Select ==
    \/ SelectNext
    \/ \E i \in 1 .. Len(stack) : SelectTop(i)
    \/ \E n \in heap : SelectLeast(n)
    \/ Exhausted

Fill ==
    \/ \E i \in 1 .. Len(stack) : FillFromTop(i)
    \/ \E n \in heap : FillFromLeast(n)
    \/ Launch

Consume ==
    \/ NodeErrs
    \/ NodeInfeasible
    \/ \E s \in OpenPieces : OpensPiece(s)
    \/ \E fs \in Searched, b \in Bills(1) : SearchesPoint(fs, b)
    \/ FailsEmpty
    \/ \E s \in Splits[Box] : FailsAndSplits(s)
    \/ FailsAndParks
    \/ \E v \in {"WORK_LIMIT", "TIME_LIMIT"} : NodeStops(v)
    \/ \E k \in Relaxed : Solved(k)
    \/ \E lb \in Relaxed \cup {NegInf} : Rough(lb)

Open ==
    \/ EventStops
    \/ ClosedByIncumbent
    \/ NoRounding
    \/ \E f \in Found(model.root) \cup {None}, b \in Bills(1) :
          RoundingSolve(f, b)
    \/ \E b \in Bills(1) : DiveStep(b)
    \/ \E f \in Found(model.root) \cup {None}, b \in Bills(1) : DiveSolve(f, b)
    \/ DiveEnds
    \/ \E fs \in Searched, f \in Found(Box) \cup {None},
          lb \in Relaxed \cup {NegInf}, b \in Bills(1) : LeafSolve(fs, f, lb, b)
    \/ LeafClosed
    \/ \E s \in Splits[Box] : LeafSplits(s)
    \/ LeafParks
    \/ \E s \in Splits[Box] : \E n \in Children(s, key) : Branch(s, n)
    \/ \E s \in Splits[Box] : BranchesNowhere(s)

Next ==
    \/ EmptyBox
    \/ NoStart
    \/ \E f \in Found(model.root) \cup {None}, b \in Bills(1) : Start(f, b)
    \/ Select
    \/ \E v \in {"WORK_LIMIT", "TIME_LIMIT", "NODE_LIMIT"} : LimitStops(v)
    \/ BeginsRound
    \/ Fill
    \/ \E k \in DOMAIN lane : \E b \in Bills(Len(batch)) : LaneSolves(k, b)
    \/ Join
    \/ Consume
    \/ Open
    \/ Leftover
    \/ Finish

\* The search is sequential code and lanes that the round joins: no step waits
\* for anything but steps that are enabled.
Spec == Init /\ [][Next]_vars /\ WF_vars(Next)

-----------------------------------------------------------------------------
(* What the search promises, and that it is a TreeSearch.                    *)

\* The nodes still to be explored, wherever the code holds them.
Strip(N) == {[box |-> n.box, key |-> n.key] : n \in N \ {NoNode}}
InRound == {batch[b] : b \in at .. Len(batch)}
OpenNodes == Strip(heap \cup Range(stack) \cup InRound \cup {next, cur})

Search == INSTANCE TreeSearch WITH
    open <- OpenNodes,
    verdict <- IF pc # "returned" THEN "RUNNING"
               ELSE IF code = "ERR" THEN "ERR" ELSE outcome

\* The heap, the stack, the plunge, the rounds and their lanes implement the
\* abstract search: no node is lost or closed without a reason on the way.
IsTreeSearch == Search!Spec

\* The status and the incumbent that a caller reads are true of the model.
VerdictHolds == Search!VerdictHolds

\* The incumbent is a point of the model that is better than the cutoff.
IncumbentIsReal == Search!IncumbentIsReal

\* mip_bound is a bound: no feasible point is below it that the incumbent is
\* not within the gap of.
BoundHolds == Search!BoundHolds

\* What a caller reads at the end is true of the model.
AnswerHolds == VerdictHolds /\ BoundHolds

\* The bound of every progress event is one for the points of the nodes that
\* have not been set aside.
EventBoundHolds ==
    \A p \in model.root :
        \/ ~Feasible(model.cost, p)
        \/ Closed(inc, model.cost[p])
        \/ told <= model.cost[p]
        \/ \E n \in aside : p \in n.box

\* INFEASIBLE: the model has no feasible point that is better than the cutoff.
InfeasibleMeansNoBetter ==
    pc = "returned" /\ outcome = "INFEASIBLE" =>
        \A p \in model.root : ~Feasible(model.cost, p) \/ Closed(inc, model.cost[p])

\* The search ends.
Termination == <>(pc = "returned")

=============================================================================
