------------------------------ MODULE MipTree ------------------------------
(* bb_run and bb_tree (src/src/mip.c): the open nodes in a heap by bound or  *)
(* by estimate (the second one with a heap by bound beside it), in a dive's  *)
(* stack, in a round and in the plunge; what a relaxation's end does to its  *)
(* node; heuristics, callbacks, the incumbent and the pool of solutions; the *)
(* limits; a restart from the root; the verdict and the bound of the end.    *)
(*                                                                           *)
(* The solver of the relaxations is an oracle, as in ConicTree: a solve ends *)
(* in any way that its certificate allows.  Work and time are not counted:   *)
(* their limits may be met wherever they are looked at.  Estimates only      *)
(* order nodes, so that any order is possible.                               *)
EXTENDS TreeTerms, Sequences, FiniteSets, Functions, SequencesExt

CONSTANTS
    Worlds,         \* models with their shapes: see ShapeType
    Configs,        \* options of the call: see ConfigType
    Splits,         \* the ways a box can be cut
    PieceSplits,    \* those at an open SOS set or indicator
    Relaxed,        \* the values a relaxation or a heuristic's point may have
    EstimateBoundEvery,     \* MIP_ESTIMATE_BOUND_EVERY
    NoIncDiveAfter,         \* MIP_NOINC_DIVE_AFTER
    NoIncDiveBacktracks,    \* MIP_NOINC_DIVE_BACKTRACKS
    SteerRounds,            \* MIP_STEER_ROUNDS
    SolveMayFail,   \* a solve may end as a numerical error
    MemoryMayEnd    \* an allocation may fail

Pairs == [down : SUBSET Points, up : SUBSET Points]

\* pieces, ray: as in ConicTree; unseen: what satisfies the rows but is cut off
\* by a row of the node callback, with its objective.
ShapeType ==
    [pieces : BOOLEAN, ray : SUBSET Points, unseen : SUBSET (Points \X Keys)]

HeuristicNames == {"quadratic", "locks", "jump", "dive", "pump", "submip",
                   "rins", "local"}

\* start: mip_start; backtrack: 0 is no bound, and -1 no stack; diveGap: 0 is
\* no bound; rcfix: a root's reduced costs fix; pool: mip_pool_size; stops: the
\* limits that are set, and INTERRUPTED when a callback may answer STOP.
ConfigType ==
    [byEst : BOOLEAN, batch : Nat \ {0}, dive : BOOLEAN, backtrack : Int,
     diveGap : Nat, rcfix : BOOLEAN, restart : BOOLEAN, callback : BOOLEAN,
     resolves : BOOLEAN, start : BOOLEAN, heuristics : Seq(HeuristicNames),
     rounding : BOOLEAN, nodeLimit : Nat, pool : Nat \ {0},
     stops : SUBSET {"WORK_LIMIT", "TIME_LIMIT", "INTERRUPTED"}]

\* A ray of one piece that some point satisfies improves that point for ever.
RaysStand(w, s) ==
    \A B \in SUBSET w.root :
        /\ B \cap s.ray # {} /\ (s.pieces => PieceSplits[B] = {})
        /\ ~Empty(w.cost, IF s.pieces THEN B ELSE w.root)
        => \E p \in w.root : w.cost[p] = NegInf

ASSUME MipTreeAssumption ==
    /\ Worlds \subseteq Models \X ShapeType
    /\ \A w \in Worlds : RaysStand(w[1], w[2]) /\ w[2].ray \subseteq w[1].root
    /\ Configs \subseteq ConfigType
    /\ Splits \in [SUBSET Points -> SUBSET Pairs]
    /\ PieceSplits \in [SUBSET Points -> SUBSET Pairs]
    /\ \A B \in SUBSET Points :
         /\ \A s \in Splits[B] \cup PieceSplits[B] :
              /\ s.down \cup s.up \subseteq B /\ B \notin {s.down, s.up}
              /\ \A w \in Models : Empty(w.cost, B \ (s.down \cup s.up))
         /\ Splits[B] = {} <=> Single(B)
    /\ Relaxed \subseteq Keys \ {NegInf, Inf}
    /\ {EstimateBoundEvery, NoIncDiveAfter, NoIncDiveBacktracks, SteerRounds}
         \subseteq Nat
    /\ EstimateBoundEvery > 0
    /\ {SolveMayFail, MemoryMayEnd} \subseteq BOOLEAN

VARIABLES
    model, shape, cfg,      \* the call's inputs: fixed
    pc,                     \* where the call is
    heap, dstack, next, cur, round,     \* the open nodes
    keyHeap, byId,          \* kheap: entries by bound, and which are live
    kept,                   \* ilo, ihi: the box that reduced costs leave
    inc,                    \* the incumbent; the cutoff before there is one
    pool,                   \* the solutions kept, the best first
    key, leaf, answer,      \* of the node: bound, integral, lp has its answer
    turn,                   \* which heuristic, or round of the callback
    handed,                 \* the callback has handed a point
    bestBound, parkedKey, backtracks, picks,
    nodes, nextId, limit,
    first,                  \* what a second tree has of the first one
    outcome, code, bound,
    told,           \* history: the largest bound an incumbent came with
    offers,                 \* history: every point the pool was offered
    aside                   \* history: the nodes behind parkedKey

fixed == <<model, shape, cfg>>
held == <<heap, dstack, next, round, keyHeap, byId>>
found == <<inc, pool, offers, told>>
node == <<cur, key, leaf>>
locals == <<answer, turn>>
bounds == <<kept, bestBound, parkedKey, backtracks, picks>>
counts == <<nodes, nextId, limit, first>>
result == <<outcome, code, bound>>
vars == <<fixed, pc, node, held, found, locals, handed, bounds, counts, result,
          aside>>

NoNode == [id |-> -1, box |-> {}, key |-> Inf, depth |-> 0]
Root(box) == [id |-> 0, box |-> box, key |-> NegInf, depth |-> 0]
None == [point |-> NoPoint, key |-> Inf]
NoFirst == [asked |-> FALSE, start |-> None, box |-> {}]

TreeStarts(box) ==
    /\ pc = "limits"
    /\ heap = {} /\ dstack = <<>> /\ round = <<>> /\ next = NoNode
    /\ cur = Root(box) /\ kept = box
    /\ keyHeap = {} /\ byId = {}
    /\ inc = [key |-> model.cutoff, point |-> NoPoint]
    /\ pool = <<>>
    /\ key = NegInf /\ leaf = FALSE /\ answer = FALSE /\ turn = 1
    /\ handed = FALSE
    /\ bestBound = NegInf /\ parkedKey = Inf /\ backtracks = 0 /\ picks = 0
    /\ nodes = 0 /\ nextId = 1
    /\ outcome = "NOT_RUN"

Init ==
    /\ \E w \in Worlds : model = w[1] /\ shape = w[2]
    /\ cfg \in Configs /\ (shape.unseen # {} => cfg.callback)
    /\ TreeStarts(model.root)
    /\ limit = cfg.nodeLimit
    /\ first = NoFirst
    /\ code = "OK" /\ bound = NegInf /\ told = NegInf
    /\ offers = {} /\ aside = {}

Goes(place) == pc' = place
HasIncumbent == inc.point # NoPoint
IsOpen(n) == ~Closed(inc, n.key)

\* The box the tree was given: narrowed when it is the second one.
ModelBox == IF first.asked THEN first.box ELSE model.root
Box == cur.box \cap kept

LimitsMet == cfg.stops \ {"INTERRUPTED"}
UserMayStop == "INTERRUPTED" \in cfg.stops
NodesSpent == limit > 0 /\ nodes >= limit

-----------------------------------------------------------------------------
(* The open list.                                                            *)

Entry(n) == [key |-> n.key, id |-> n.id]
Before(e, f) == e.key < f.key \/ (e.key = f.key /\ e.id <= f.id)

\* open_push, of one node or more.
OpenPush(N) ==
    /\ heap' = heap \cup N
    /\ IF cfg.byEst THEN /\ keyHeap' = keyHeap \cup {Entry(n) : n \in N}
                         /\ byId' = byId \cup {n.id : n \in N}
                    ELSE UNCHANGED <<keyHeap, byId>>

\* kheap_prune: entries of nodes that have left the heap go once they are on
\* top of it.
Live == {e \in keyHeap : e.id \in byId}
Pruned == {e \in keyHeap : \E l \in Live : Before(l, e)}

\* open_pick: the best node by bound, when the heap is by bound or it is the
\* turn of the heap by bound; else the best by estimate.
ByBound == ~cfg.byEst \/ picks % EstimateBoundEvery = 0
IsBest(n) == \A h \in heap : Before(Entry(n), Entry(h))
MayPick(n) ==
    /\ n \in heap
    /\ IF cfg.byEst /\ ByBound
       THEN Live # {} /\ n.id = (CHOOSE e \in Live :
                                   \A f \in Live : Before(e, f)).id
       ELSE ByBound => IsBest(n)

\* Fault: the entry by bound is left live.
OpenPick_LeavesEntry(n) ==
    /\ heap' = heap \ {n}
    /\ keyHeap' = IF cfg.byEst /\ ByBound THEN Pruned ELSE keyHeap
    /\ UNCHANGED byId

OpenPick(n) ==
    /\ heap' = heap \ {n}
    /\ keyHeap' = IF cfg.byEst /\ ByBound THEN Pruned ELSE keyHeap
    /\ byId' = byId \ {n.id}

\* open_bound.
OpenBound ==
    MinKey({n.key : n \in Range(dstack)}
           \cup (IF cfg.byEst THEN {e.key : e \in Live}
                              ELSE {n.key : n \in heap}))

-----------------------------------------------------------------------------
(* The incumbent and the pool.                                               *)

\* The pool without its entry of a point; where a key goes: before the first
\* entry that is worse.
EntriesOf(p) == {i \in DOMAIN pool : pool[i].point = p}
PoolWithout(p) == IF EntriesOf(p) = {} THEN pool
                  ELSE RemoveAt(pool, CHOOSE i \in EntriesOf(p) : TRUE)
PlaceFor(k, s) ==
    CHOOSE q \in 1 .. Len(s) + 1 :
        /\ \A i \in 1 .. q - 1 : s[i].key <= k
        /\ q <= Len(s) => k < s[q].key
Placed(f) ==
    LET rest == PoolWithout(f.point)
    IN InsertAt(rest, PlaceFor(f.key, rest), f)
IsBetterHeld(f) == \E i \in EntriesOf(f.point) : f.key >= pool[i].key

\* Fault: a full pool takes what is worse than its last.
SpoolOffer_NoCutOff(f) ==
    IF IsBetterHeld(f) THEN pool
    ELSE IF Len(Placed(f)) > cfg.pool
    THEN Append(Front(Front(Placed(f))), f) ELSE Placed(f)

\* spool_offer: the best cfg.pool points, equal ones once, in order.
SpoolOffer(f) ==
    IF \/ Len(pool) = cfg.pool /\ f.key >= Last(pool).key
       \/ IsBetterHeld(f)
    THEN pool
    ELSE IF Len(Placed(f)) > cfg.pool THEN Front(Placed(f)) ELSE Placed(f)

\* A point that a check of the model has accepted, under its objective.
Seen(p, k) == model.cost[p] <= k \/ <<p, k>> \in shape.unseen
Found(box) == {f \in [point : box, key : Relaxed] : Seen(f.point, f.key)}
CutOff(f) == f.key < model.cost[f.point]

\* Points whose objective reaches the pool, the incumbent and its callback,
\* which is given event as the best bound.
Offer(f, event) ==
    /\ pool' = SpoolOffer(f)
    /\ offers' = offers \cup {f}
    /\ inc' = IF f.key < inc.key THEN f ELSE inc
    /\ told' = IF f.key < inc.key THEN Larger(told, event) ELSE told

AnnounceStops(f) == UserMayStop /\ f.key < inc.key

LeastOf(a, b) == IF a < b THEN a ELSE b

-----------------------------------------------------------------------------
(* The choice of the next node.                                              *)

NoIncDive == ~cfg.dive /\ ~HasIncumbent /\ nodes >= NoIncDiveAfter
StackDive == cfg.dive /\ (cfg.backtrack > 0 \/ cfg.diveGap > 0)

\* resume_within.
Within(n) ==
    \/ cfg.diveGap = 0
    \/ OpenBound \in {NegInf, Inf}
    \/ n.key - OpenBound <= cfg.diveGap

MayResume ==
    /\ dstack # <<>>
    /\ StackDive \/ NoIncDive
    /\ IF NoIncDive THEN backtracks < NoIncDiveBacktracks
                    ELSE cfg.backtrack = 0 \/ backtracks < cfg.backtrack
    /\ Within(Last(dstack))

\* A node that the incumbent has closed is freed, and the next one chosen.
Takes(n) ==
    /\ IF IsOpen(n) THEN cur' = n /\ Goes("limits")
                    ELSE cur' = NoNode /\ Goes("select")
    /\ UNCHANGED <<key, leaf>>

SelectNext ==
    /\ pc = "select" /\ ~handed
    /\ next # NoNode
    /\ Takes(next)
    /\ next' = NoNode
    /\ UNCHANGED <<fixed, heap, dstack, round, keyHeap, byId, found, locals,
                   handed, bounds, counts, result, aside>>

Resume ==
    /\ pc = "select" /\ ~handed
    /\ next = NoNode
    /\ MayResume
    /\ Takes(Last(dstack))
    /\ dstack' = Front(dstack)
    /\ backtracks' = backtracks + (IF IsOpen(Last(dstack)) THEN 1 ELSE 0)
    /\ UNCHANGED <<fixed, heap, next, round, keyHeap, byId, found, locals,
                   handed, kept, bestBound, parkedKey, picks, counts, result,
                   aside>>

\* bb_round_bound: the least bound of the round, with the node taken.
RoundBound == MinKey({n.key : n \in Range(round)})

FromRound ==
    /\ pc = "select" /\ ~handed
    /\ next = NoNode /\ ~MayResume
    /\ round # <<>>
    /\ Takes(Head(round))
    /\ round' = Tail(round)
    /\ bestBound' = RoundBound
    /\ UNCHANGED <<fixed, heap, dstack, next, keyHeap, byId, found, locals,
                   handed, kept, parkedKey, backtracks, picks, counts, result,
                   aside>>

\* The dive is over: its stack goes to the heap, and a round is picked.
StartRound ==
    /\ pc = "select" /\ ~handed
    /\ next = NoNode /\ ~MayResume
    /\ round = <<>>
    /\ OpenPush(Range(dstack))
    /\ dstack' = <<>>
    /\ backtracks' = 0
    /\ Goes("fill")
    /\ UNCHANGED <<fixed, next, node, round, found, locals, handed, kept,
                   bestBound, parkedKey, picks, counts, result, aside>>

\* How many nodes the round may hold: one when a limit has been met.
MaxWant == IF limit = 0 THEN cfg.batch
           ELSE LeastOf(cfg.batch, Larger(limit - nodes, 1))
Wants == {MaxWant} \cup (IF LimitsMet = {} THEN {} ELSE {1})

\* After the first node, one that the incumbent has closed is freed.
Pick(n) ==
    /\ pc = "fill"
    /\ Len(round) < MaxWant
    /\ MayPick(n)
    /\ OpenPick(n)
    /\ picks' = IF cfg.byEst THEN (picks + 1) % EstimateBoundEvery ELSE 0
    /\ round' = IF round # <<>> /\ ~IsOpen(n) THEN round ELSE Append(round, n)
    /\ UNCHANGED <<fixed, pc, dstack, next, node, found, locals, handed, kept,
                   bestBound, parkedKey, backtracks, counts, result, aside>>

RoundIsFull == Len(round) \in Wants \/ heap = {}

\* bb_round_solve: the relaxations of a round are solved on lanes, each under
\* a share of what is left, for the bases they end on; the tree solves the
\* nodes again, so that nothing of it is seen but the work.
RoundSolves ==
    /\ pc = "fill"
    /\ RoundIsFull /\ round # <<>>
    /\ Goes("select")
    /\ UNCHANGED <<fixed, node, held, found, locals, handed, bounds, counts,
                   result, aside>>

Exhausted ==
    /\ pc = "fill"
    /\ RoundIsFull /\ round = <<>>
    /\ outcome' = IF HasIncumbent THEN "OPTIMAL" ELSE "INFEASIBLE"
    /\ Goes("finish")
    /\ UNCHANGED <<fixed, node, held, found, locals, handed, bounds, counts,
                   code, bound, aside>>

-----------------------------------------------------------------------------
(* A point that a callback has handed, and the limits.                       *)

\* The event of a point handed: what is open, and the round or the root.
HandedEvent == LeastOf(OpenBound, bestBound)

\* steer_take: a point that the model's check accepts is offered; taking it
\* copies the duals and the basis of the last relaxation.  A callback hands no
\* point that it would cut off, for it is not asked again.
TakesHanded(f) ==
    /\ handed /\ ~CutOff(f)
    /\ f.key < inc.key => answer
    /\ handed' = FALSE
    /\ Offer(f, HandedEvent)

Stops(v) == outcome' = v /\ Goes("finish") /\ UNCHANGED node
Stopped == {"WORK_LIMIT", "TIME_LIMIT", "NODE_LIMIT", "INTERRUPTED"}

HandedAtTop(f) ==
    /\ pc = "select"
    /\ TakesHanded(f)
    /\ \/ UNCHANGED <<pc, node, outcome>>
       \/ AnnounceStops(f) /\ Stops("INTERRUPTED")
    /\ UNCHANGED <<fixed, held, locals, bounds, counts, code, bound, aside>>

HandedAtStop(f) ==
    /\ pc = "finish" /\ outcome \in Stopped
    /\ TakesHanded(f)
    /\ UNCHANGED <<fixed, pc, node, held, locals, bounds, counts, result,
                   aside>>

HandedRefused ==
    /\ \/ pc = "select"
       \/ pc = "finish" /\ outcome \in Stopped
    /\ handed
    /\ handed' = FALSE
    /\ UNCHANGED <<fixed, pc, node, held, found, locals, bounds, counts,
                   result, aside>>

LimitStops(v) ==
    /\ pc = "limits"
    /\ v \in LimitsMet \/ (v = "NODE_LIMIT" /\ NodesSpent)
    /\ Stops(v)
    /\ UNCHANGED <<fixed, held, found, locals, handed, bounds, counts, code,
                   bound, aside>>

-----------------------------------------------------------------------------
(* How a node's relaxation ends.                                             *)

Ends == pc = "limits" /\ ~NodesSpent
Counts == nodes' = nodes + 1
AtRoot == nodes = 0

\* The node is done with.
Drops ==
    /\ Goes("select")
    /\ cur' = NoNode /\ key' = NegInf /\ leaf' = FALSE
    /\ UNCHANGED outcome

\* By an integer column without a value, by parity, a clique, propagation or
\* the relaxation: the node's box holds nothing.
NodeInfeasible ==
    /\ Ends
    /\ Empty(model.cost, Box)
    /\ Counts
    /\ \/ Drops
       \/ AtRoot /\ Stops("INFEASIBLE")
    /\ UNCHANGED <<fixed, held, found, locals, handed, bounds, nextId, limit,
                   first, code, bound, aside>>

\* A relaxation that fails: the node is set aside with its bound.
NodeFails ==
    /\ Ends /\ SolveMayFail
    /\ ~AtRoot
    /\ parkedKey' = LeastOf(parkedKey, cur.key)
    /\ aside' = aside \cup {[box |-> Box, key |-> cur.key]}
    /\ Counts
    /\ Drops
    /\ UNCHANGED <<fixed, held, found, locals, handed, kept, bestBound,
                   backtracks, picks, nextId, limit, first, code, bound>>

\* The root's failure, and the stops of a solve, end the tree.
SolveStops(v) ==
    \/ v \in LimitsMet
    \/ v = "INTERRUPTED" /\ UserMayStop
    \/ v = "NUMERICAL_ERROR" /\ SolveMayFail

NodeStops(v) ==
    /\ Ends
    /\ SolveStops(v)
    /\ v = "NUMERICAL_ERROR" => AtRoot
    /\ Counts
    /\ Stops(v)
    /\ UNCHANGED <<fixed, held, found, locals, handed, bounds, nextId, limit,
                   first, code, bound, aside>>

OpenPieces == IF shape.pieces THEN PieceSplits[Box] ELSE {}
MayBeUnbounded ==
    IF OpenPieces = {} THEN Box \cap shape.ray # {} ELSE shape.ray # {}

Child(box, id, k) ==
    [id |-> id, box |-> box, key |-> k, depth |-> cur.depth + 1]

\* open_split: an unbounded relaxation with a piece open; a side whose bounds
\* are crossed is not made.
Sides(s) ==
    LET down == Child(s.down, nextId, cur.key)
        up == Child(s.up, nextId + (IF s.down = {} THEN 0 ELSE 1), cur.key)
    IN {n \in {down, up} : n.box # {}}

OpensPiece(s) ==
    /\ Ends /\ MayBeUnbounded
    /\ s \in OpenPieces
    /\ OpenPush(Sides(s))
    /\ nextId' = nextId + Cardinality(Sides(s))
    /\ Counts
    /\ Drops
    /\ UNCHANGED <<fixed, dstack, next, round, found, locals, handed, bounds,
                   limit, first, code, bound, aside>>

\* unbounded_or_infeasible: a tree of its own over the model without an
\* objective, with the caller's cutoff and limits.
Region == IF shape.pieces THEN Box ELSE ModelBox
CutoffCloses == Closed([key |-> model.cutoff], 0)

SearchEnds(v) ==
    \/ v = "UNBOUNDED" /\ ~CutoffCloses /\ ~Empty(model.cost, Region)
    \/ v = "INFEASIBLE" /\ (CutoffCloses \/ Empty(model.cost, Region))
    \/ v = "NODE_LIMIT" /\ limit > 0
    \/ SolveStops(v)

SearchesPoint(v) ==
    /\ Ends /\ MayBeUnbounded
    /\ OpenPieces = {}
    /\ SearchEnds(v)
    /\ Counts
    /\ IF shape.pieces /\ v = "INFEASIBLE" THEN Drops ELSE Stops(v)
    /\ UNCHANGED <<fixed, held, found, locals, handed, bounds, nextId, limit,
                   first, code, bound, aside>>

\* Solved: a bound for the box, no worse than what it had; its point may be
\* integral, with every piece settled, and is then one of the box at that
\* objective.
LeafPoints(k) == {p \in Box : model.cost[p] = k}
MayBeLeaf(k) ==
    LeafPoints(k) # {} \/ \E p \in Box : <<p, k>> \in shape.unseen
Relaxes(k) ==
    /\ k \in Relaxed
    /\ IsBound(model.cost, Box, k)
    /\ Larger(cur.key, key) <= k
    /\ key' = k
    /\ leaf' \in BOOLEAN
    /\ leaf' => MayBeLeaf(k)
    /\ Single(Box) => leaf'
    /\ answer' = TRUE

NodeSolved(k) ==
    /\ Ends /\ ~MayBeUnbounded
    /\ Relaxes(k)
    /\ turn' = 1
    /\ Counts
    /\ Goes(IF AtRoot THEN "cuts" ELSE "heuristics")
    /\ UNCHANGED <<fixed, cur, held, found, handed, bounds, nextId, limit,
                   first, result, aside>>

\* Probing and the rounds of cuts of the root, or a node's cuts, end in a
\* relaxation again, which takes the place of the first.
CutsHere == cfg.resolves /\ ~leaf
AfterCuts == IF nodes = 1 THEN "heuristics" ELSE "callback"

CutsSolved(k) ==
    /\ pc = "cuts" /\ CutsHere
    /\ Relaxes(k)
    /\ bestBound' = IF nodes = 1 THEN k ELSE bestBound
    /\ turn' = 1
    /\ Goes(AfterCuts)
    /\ UNCHANGED <<fixed, cur, held, found, handed, kept, parkedKey,
                   backtracks, picks, counts, result, aside>>

NoCuts ==
    /\ pc = "cuts"
    /\ bestBound' = IF nodes = 1 THEN key ELSE bestBound
    /\ turn' = 1
    /\ Goes(AfterCuts)
    /\ UNCHANGED <<fixed, node, held, found, answer, handed, kept, parkedKey,
                   backtracks, picks, counts, result, aside>>

CutsEmpty ==
    /\ pc = "cuts" /\ CutsHere
    /\ Empty(model.cost, Box)
    /\ IF nodes = 1 THEN Stops("INFEASIBLE") ELSE Drops
    /\ UNCHANGED <<fixed, held, found, locals, handed, bounds, counts, code,
                   bound, aside>>

CutsStop(v) ==
    /\ pc = "cuts" /\ CutsHere
    /\ SolveStops(v)
    /\ Stops(v)
    /\ UNCHANGED <<fixed, held, found, locals, handed, bounds, counts, code,
                   bound, aside>>

-----------------------------------------------------------------------------
(* The heuristics, the node callback and the rounding.                       *)

\* Fault: only a start of the caller's is tried.
Heuristics_CallersStart ==
    IF ~first.asked /\ cfg.start THEN <<"start">> \o cfg.heuristics
                                 ELSE cfg.heuristics

\* Each heuristic where the code tries it, in its order; a second tree has
\* the incumbent of the first one as its start.
Heuristics ==
    IF first.asked \/ cfg.start THEN <<"start">> \o cfg.heuristics
                                ELSE cfg.heuristics

MayRun(h) ==
    CASE h = "start" -> nodes = 1
      [] h \in {"quadratic", "jump"} -> nodes = 1 /\ ~leaf /\ ~HasIncumbent
      [] h \in {"locks", "pump"} -> nodes = 1 /\ ~leaf
      [] h = "dive" -> ~leaf
      [] h = "submip" -> ~leaf /\ (nodes = 1 \/ HasIncumbent)
      [] h \in {"rins", "local"} -> ~leaf /\ HasIncumbent

\* steer_point: the node callback sees the point before it counts, and may
\* cut it off with a row, which leaves lp without an answer; it may hand a
\* point of its own.
MayHand == handed' \in {handed} \cup (IF cfg.callback THEN {TRUE} ELSE {})

PointFound(f, event, place) ==
    /\ f \in Found(ModelBox)
    /\ MayHand
    /\ IF cfg.callback /\ CutOff(f)
       THEN /\ answer' = FALSE
            /\ Goes(place)
            /\ UNCHANGED <<node, found, outcome>>
       ELSE /\ f.key < inc.key => answer
            /\ Offer(f, event)
            /\ \/ Goes(place) /\ UNCHANGED <<node, outcome>>
               \/ AnnounceStops(f) /\ Stops("INTERRUPTED")
            /\ UNCHANGED answer

Trying == pc = "heuristics" /\ turn <= Len(Heuristics)
Tried == Heuristics[turn]
AgainFirst == first.asked /\ Tried = "start"

\* A heuristic's incumbent is announced with the node's own bound.
HeuristicFinds(f) ==
    /\ Trying /\ MayRun(Tried)
    /\ AgainFirst => f = first.start
    /\ PointFound(f, key, "heuristics")
    /\ turn' = turn + 1
    /\ UNCHANGED <<fixed, held, bounds, counts, code, bound, aside>>

\* Nothing is found, or there is no work left for it.
HeuristicFails ==
    /\ Trying
    /\ MayRun(Tried) => ~AgainFirst /\ answer
    /\ turn' = turn + 1
    /\ UNCHANGED <<fixed, pc, node, held, found, answer, handed, bounds,
                   counts, result, aside>>

HeuristicsEnd ==
    /\ pc = "heuristics" /\ turn > Len(Heuristics)
    /\ Goes(IF nodes = 1 THEN "callback" ELSE "cuts")
    /\ turn' = 1
    /\ UNCHANGED <<fixed, node, held, found, answer, handed, bounds, counts,
                   result, aside>>

\* The callback lets the node's point pass: an integral one is then a point
\* of the model that it describes.
CallbackPasses ==
    /\ pc = "callback"
    /\ cfg.callback => answer /\ (leaf => LeafPoints(key) # {})
    /\ MayHand
    /\ bestBound' = IF nodes = 1 THEN key ELSE bestBound
    /\ Goes("rounding")
    /\ UNCHANGED <<fixed, node, held, found, locals, kept, parkedKey,
                   backtracks, picks, counts, result, aside>>

\* A row that the point does not satisfy: the node is solved again and shown
\* again.  SteerRounds is more than this callback needs.
AddsRow == pc = "callback" /\ cfg.callback /\ turn < SteerRounds

\* Fault: the rows a point is answered with are not counted.
CallbackRow_NotCounted(k) ==
    /\ AddsRow /\ shape.unseen # {}
    /\ MayHand
    /\ Relaxes(k)
    /\ UNCHANGED <<fixed, pc, cur, held, found, turn, bounds, counts, result,
                   aside>>

CallbackRow(k) ==
    /\ AddsRow /\ shape.unseen # {}
    /\ MayHand
    /\ Relaxes(k)
    /\ turn' = turn + 1
    /\ turn' = SteerRounds /\ leaf' => LeafPoints(k) # {}
    /\ UNCHANGED <<fixed, pc, cur, held, found, bounds, counts, result, aside>>

CallbackRowEmpty ==
    /\ AddsRow
    /\ Empty(model.cost, Box)
    /\ MayHand
    /\ Drops
    /\ UNCHANGED <<fixed, held, found, locals, bounds, counts, code, bound,
                   aside>>

CallbackStops(v) ==
    /\ cfg.callback
    /\ \/ pc \in {"heuristics", "callback", "rounding"}
          /\ v = "INTERRUPTED" /\ UserMayStop
       \/ AddsRow /\ SolveStops(v)
    /\ MayHand
    /\ Stops(v)
    /\ UNCHANGED <<fixed, held, found, locals, bounds, counts, code, bound,
                   aside>>

\* The node's point, rounded: announced with what is open as well.
NodeEvent == LeastOf(OpenBound, key)

RoundingFinds(f) ==
    /\ pc = "rounding" /\ cfg.rounding /\ ~leaf
    /\ PointFound(f, NodeEvent, "fix")
    /\ UNCHANGED <<fixed, held, turn, bounds, counts, code, bound, aside>>

RoundingFails ==
    /\ pc = "rounding"
    /\ Goes("fix")
    /\ UNCHANGED <<fixed, node, held, found, locals, handed, bounds, counts,
                   result, aside>>

-----------------------------------------------------------------------------
(* Reduced costs at the root, and the restart.                               *)

Narrows == nodes = 1 /\ HasIncumbent /\ ~leaf /\ inc.key >= key

\* What the reduced costs may not take away: points as good as the incumbent.
Room == {p \in kept : model.cost[p] <= inc.key}
Narrowed(S) == Room \subseteq S /\ S \subseteq kept

MayRestart == cfg.restart /\ ~first.asked /\ Narrows

\* bb_run: the tree starts again, over a narrower box, with the incumbent as
\* its start and what is left of the limits.
Restarts(S) ==
    /\ pc = "fix" /\ MayRestart
    /\ answer
    /\ Narrowed(S) /\ S # kept
    /\ first' = [asked |-> TRUE, start |-> inc, box |-> S]
    /\ limit' = IF limit = 0 THEN 0 ELSE Larger(limit - nodes, 1)
    /\ cur' = Root(S) /\ kept' = S
    /\ inc' = [key |-> model.cutoff, point |-> NoPoint]
    /\ pool' = <<>> /\ offers' = {}
    /\ key' = NegInf /\ leaf' = FALSE /\ answer' = FALSE /\ turn' = 1
    /\ handed' = FALSE
    /\ bestBound' = NegInf
    /\ nodes' = 0 /\ nextId' = 1
    /\ Goes("limits")
    /\ UNCHANGED <<fixed, heap, dstack, next, round, keyHeap, byId, parkedKey,
                   backtracks, picks, result, told, aside>>

Fixes(S) ==
    /\ pc = "fix"
    /\ cfg.rcfix /\ Narrows
    /\ answer
    /\ Narrowed(S)
    /\ kept' = S
    /\ Goes("close")
    /\ UNCHANGED <<fixed, node, held, found, locals, handed, bestBound,
                   parkedKey, backtracks, picks, counts, result, aside>>

NoFix ==
    /\ pc = "fix"
    /\ ~(cfg.rcfix /\ Narrows)
    /\ MayRestart => answer
    /\ Goes("close")
    /\ UNCHANGED <<fixed, node, held, found, locals, handed, bounds, counts,
                   result, aside>>

-----------------------------------------------------------------------------
(* The node's end: progress, the incumbent's test, its leaf or its children. *)

ProgressStops ==
    /\ pc = "close" /\ UserMayStop
    /\ Stops("INTERRUPTED")
    /\ UNCHANGED <<fixed, held, found, locals, handed, bounds, counts, code,
                   bound, aside>>

ClosedByIncumbent ==
    /\ pc = "close"
    /\ Closed(inc, key)
    /\ Drops
    /\ UNCHANGED <<fixed, held, found, locals, handed, bounds, counts, code,
                   bound, aside>>

LeafTaken(p) ==
    /\ pc = "close" /\ ~Closed(inc, key)
    /\ leaf /\ answer
    /\ p \in LeafPoints(key)
    /\ Offer([point |-> p, key |-> key], NodeEvent)
    /\ \/ Goes("taken") /\ UNCHANGED <<node, outcome>>
       \/ UserMayStop /\ Stops("INTERRUPTED")
    /\ UNCHANGED <<fixed, held, locals, handed, bounds, counts, code, bound,
                   aside>>

LeafDone ==
    /\ pc = "taken"
    /\ Drops
    /\ UNCHANGED <<fixed, held, found, locals, handed, bounds, counts, code,
                   bound, aside>>

\* Strong branching solves relaxations of its own, and may fail.
ProbesFail ==
    /\ pc = "close" /\ ~Closed(inc, key)
    /\ ~leaf /\ cfg.resolves /\ SolveMayFail
    /\ answer
    /\ Stops("NUMERICAL_ERROR")
    /\ UNCHANGED <<fixed, held, found, locals, handed, bounds, counts, code,
                   bound, aside>>

\* The two sides, the nearer one first; the dive goes on with it, and the
\* other one waits on its stack or in the heap.
Halves(s) == <<Child(s.down, nextId, key), Child(s.up, nextId + 1, key)>>

\* Fault: a dive that keeps no stack forgets the other side.
Places_NoOther(one, other, dives) ==
    IF dives
    THEN /\ next' = one
         /\ dstack' = IF StackDive \/ NoIncDive THEN Append(dstack, other)
                                                ELSE dstack
         /\ UNCHANGED <<heap, keyHeap, byId>>
    ELSE OpenPush({one, other}) /\ UNCHANGED <<next, dstack>>

Places(one, other, dives) ==
    IF dives
    THEN /\ next' = one
         /\ IF StackDive \/ NoIncDive
            THEN /\ dstack' = Append(dstack, other)
                 /\ UNCHANGED <<heap, keyHeap, byId>>
            ELSE OpenPush({other}) /\ UNCHANGED dstack
    ELSE OpenPush({one, other}) /\ UNCHANGED <<next, dstack>>

Branches(s, side, dives) ==
    /\ pc = "close" /\ ~Closed(inc, key)
    /\ ~leaf /\ answer
    /\ dives => cfg.dive \/ NoIncDive
    /\ Places(Halves(s)[side], Halves(s)[3 - side], dives)
    /\ nextId' = nextId + 2
    /\ Drops
    /\ UNCHANGED <<fixed, round, found, locals, handed, bounds, nodes, limit,
                   first, code, bound, aside>>

-----------------------------------------------------------------------------
(* How the tree ends.                                                        *)

\* Nothing is proved of the nodes set aside.
Unsettled ==
    /\ aside # {}
    /\ \/ outcome = "INFEASIBLE"
       \/ outcome = "OPTIMAL" /\ ~Closed(inc, parkedKey)

EndBound ==
    LET b == MinKey({OpenBound, parkedKey, bestBound})
    IN IF HasIncumbent /\ (outcome' = "OPTIMAL" \/ b > inc.key) THEN inc.key
                                                                ELSE b

Finish ==
    /\ pc = "finish"
    /\ handed => outcome \notin Stopped
    /\ outcome' = IF Unsettled THEN "NUMERICAL_ERROR" ELSE outcome
    /\ bound' = EndBound
    /\ Goes("returned")
    /\ UNCHANGED <<fixed, node, held, found, locals, handed, bounds, counts,
                   code, aside>>

OutOfMemory ==
    /\ pc # "returned" /\ MemoryMayEnd
    /\ code' = "ERR"
    /\ Goes("returned")
    /\ UNCHANGED <<fixed, node, held, found, locals, handed, bounds, counts,
                   outcome, bound, aside>>

\* What a row of the callback leaves of lp's answer is read: by a heuristic
\* that ends or takes its point, the callback's block, the reduced costs, the
\* children, or a point handed.
StaleRead ==
    /\ ~answer
    /\ \/ Trying /\ MayRun(Tried)
       \/ pc = "callback" /\ cfg.callback
       \/ pc = "fix" /\ (MayRestart \/ (cfg.rcfix /\ Narrows))
       \/ pc = "close" /\ ~Closed(inc, key)
       \/ pc = "select" /\ handed
    /\ code' = "STALE"
    /\ Goes("returned")
    /\ UNCHANGED <<fixed, node, held, found, locals, handed, bounds, counts,
                   outcome, bound, aside>>

-----------------------------------------------------------------------------
AnyPoint == Found(ModelBox)
AnyStop == Stopped \cup {"NUMERICAL_ERROR"}

Select ==
    \/ SelectNext
    \/ Resume
    \/ FromRound
    \/ StartRound
    \/ \E n \in heap : Pick(n)
    \/ RoundSolves
    \/ Exhausted

Hands ==
    \/ \E f \in AnyPoint : HandedAtTop(f) \/ HandedAtStop(f)
    \/ HandedRefused

Solve ==
    \/ \E v \in Stopped : LimitStops(v)
    \/ NodeInfeasible
    \/ NodeFails
    \/ \E v \in AnyStop : NodeStops(v)
    \/ \E s \in OpenPieces : OpensPiece(s)
    \/ \E v \in AnyStop \cup {"UNBOUNDED", "INFEASIBLE"} : SearchesPoint(v)
    \/ \E k \in Relaxed : NodeSolved(k)

Cuts ==
    \/ \E k \in Relaxed : CutsSolved(k)
    \/ NoCuts
    \/ CutsEmpty
    \/ \E v \in AnyStop : CutsStop(v)

Heuristic ==
    \/ \E f \in AnyPoint : HeuristicFinds(f) \/ RoundingFinds(f)
    \/ HeuristicFails
    \/ HeuristicsEnd
    \/ RoundingFails

Callback ==
    \/ CallbackPasses
    \/ \E k \in Relaxed : CallbackRow(k)
    \/ CallbackRowEmpty
    \/ \E v \in AnyStop : CallbackStops(v)

Fix ==
    \/ \E S \in SUBSET kept : Restarts(S) \/ Fixes(S)
    \/ NoFix

Close ==
    \/ ProgressStops
    \/ ClosedByIncumbent
    \/ \E p \in Box : LeafTaken(p)
    \/ LeafDone
    \/ ProbesFail
    \/ \E s \in Splits[Box], side \in 1 .. 2, dives \in BOOLEAN :
         Branches(s, side, dives)

End == Finish \/ OutOfMemory \/ StaleRead

Next ==
    Select \/ Hands \/ Solve \/ Cuts \/ Heuristic \/ Callback \/ Fix \/ Close
    \/ End

Spec == Init /\ [][Next]_vars

\* The calling thread goes on while it can.
FairSpec == Spec /\ WF_vars(Next)

------------------------------------------------------------------------------
(* What the search promises, and that it is a TreeSearch, over a restart.    *)

Strip(N) == {[box |-> n.box \cap kept, key |-> n.key] : n \in N \ {NoNode}}
InHand == IF cur = NoNode THEN cur
          ELSE [cur EXCEPT !.key = Larger(cur.key, key)]
OpenNodes ==
    Strip(heap \cup Range(dstack) \cup Range(round) \cup {next, InHand})

\* What has been announced: a second tree starts without the incumbent of the
\* first one.
Announced == IF first.asked /\ first.start.key <= inc.key THEN first.start
                                                          ELSE inc

Search == INSTANCE TreeSearch WITH
    open <- OpenNodes,
    inc <- Announced,
    verdict <- IF pc # "returned" THEN "RUNNING"
               ELSE IF code # "OK" THEN "ERR" ELSE outcome

\* The heap by bound or by estimate, the dive's stack, the plunge, the rounds,
\* the box that reduced costs narrow and the restart implement the abstract
\* search: no node is lost or closed without a reason on the way.
IsTreeSearch == Search!Spec

\* Under selection by estimate the heap by bound holds what is open and no
\* more: its live entries are the nodes of the other heap.
KeyHeapAgrees ==
    cfg.byEst => /\ Live = {Entry(n) : n \in heap}
                 /\ byId = {n.id : n \in heap}

\* The pool holds the best of the points offered to it, each once and under
\* its best objective, in order.
BestOf(p) == MinKey({f.key : f \in {g \in offers : g.point = p}})
PoolHoldsTheBest ==
    LET points == {f.point : f \in offers}
        inPool == {pool[i].point : i \in DOMAIN pool}
    IN /\ Cardinality(inPool) = Len(pool)
       /\ Len(pool) = LeastOf(cfg.pool, Cardinality(points))
       /\ \A i \in DOMAIN pool :
            /\ pool[i].key = BestOf(pool[i].point)
            /\ \A j \in 1 .. i : pool[j].key <= pool[i].key
            /\ \A p \in points \ inPool : pool[i].key <= BestOf(p)

\* A restart gives up the tree but not the incumbent it has announced: from
\* the second node on, and when the search ends OPTIMAL or at the node limit
\* (docs/api.md, "and keeps its incumbent"), the second tree has one as good.
\* A limit of work or time, a stop or a failure at its root may come before it
\* has tried its start.
IncumbentIsKept ==
    first.asked /\ (nodes > 1 \/ outcome \in {"OPTIMAL", "NODE_LIMIT"}) =>
        HasIncumbent /\ inc.key <= first.start.key

\* The search ends.
Termination == <>(pc = "returned")
=============================================================================
