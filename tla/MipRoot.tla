------------------------------- MODULE MipRoot -------------------------------
(***************************************************************************)
(* The order in which branch and bound (jm_branch_and_bound, bb_tree of    *)
(* src/src/mip.c) puts its reasoning to work on one model, and what each   *)
(* step leaves for the next: the tree's box, the rows, the relaxation's    *)
(* bounds, the clique table, the cuts of the root, the conflict rows, and  *)
(* on the way down a path of branchings with bounds and cuts of its own.   *)
(*                                                                         *)
(* The relaxation's point is any corner of it that lies on the grid: the   *)
(* objective that picks one is left open.  Of a round's cuts any one is    *)
(* kept; the ranking that keeps several is left out.  The incumbent and    *)
(* what follows from it is in MipTree.                                     *)
(***************************************************************************)
EXTENDS MipContract

CONSTANTS
    Models,         \* the models, a sequence
    Width,          \* no model has a point past it
    MaxCuts,        \* bound: so many cuts are added at the root, and so
                    \*   many at a node
    MaxDepth        \* bound: so many branchings on a path

VARIABLES
    mi,             \* the model that was asked about
    sub,            \* the tree runs on the contracted model
    m,              \* the model the tree runs on
    phase,          \* what happens next, or the verdict
    box,            \* ilo, ihi
    rows,           \* the rows of the relaxation, tightened
    lp,             \* the bounds of the relaxation's columns
    edges,          \* the clique table: pairs of literals in conflict
    cuts,           \* the root's cuts
    perm,           \* the conflict rows
    path,           \* the branchings that lead to the node
    local,          \* the cuts of the node
    x               \* the relaxation's point, << >> before there is one

vars == <<mi, sub, m, phase, box, rows, lp, edges, cuts, perm, path, local, x>>

Contracted == [i \in DOMAIN Models |->
                 IF Eligible(Models[i]) THEN Contract(Models[i])
                 ELSE Contract([Models[i] EXCEPT !.rows = << >>])]
Shrinks(i) == Eligible(Models[i]) /\ Contracted[i].subs # << >>

\* What the tree runs on.
TreeModels == [i \in DOMAIN Models |->
                 [s \in BOOLEAN |->
                    IF s /\ Shrinks(i) THEN Built(Contracted[i])
                    ELSE Models[i]]]

Box(lo, hi) == [lo |-> lo, hi |-> hi]
Empty(b) == \E j \in m.int : b.lo[j] > b.hi[j]

\* The relaxation of the node: rows that are asked for, cuts, bounds.
NodeRows(r, b) == Listed([i \in DOMAIN r |-> Applied(r[i], b)])
CutRows(K) ==
    LET s == SetToSeq(K) IN Listed([i \in DOMAIN s |-> CutRow(s[i])])
AllRows == NodeRows(rows, lp) \o CutRows(cuts \cup perm \cup local)

Window(lo, hi) == Larger(lo, -Width) .. Smaller(hi, Width)
GridPoints(b) ==
    FoldLeft(LAMBDA V, j : {Append(v, z) : v \in V,
                                           z \in Window(b.lo[j], b.hi[j])},
             {<< >>}, InOrder(m.n))
RelaxedPoints(r, b, K) ==
    LET live == NodeRows(r, b)
    IN {v \in GridPoints(b) :
          /\ \A i \in DOMAIN live : Holds(live[i], v)
          /\ \A k \in K : CutHolds(k, v)}

\* A corner of R: not halfway between two other points of it.
Corners(R) ==
    {v \in R : \A w \in R \ {v} : [j \in DOMAIN v |-> 2 * v[j] - w[j]] \notin R}

Reset == /\ path' = << >>
         /\ local' = {}

Init ==
    /\ mi \in DOMAIN Models
    /\ sub = FALSE
    /\ m = Models[mi]
    /\ phase = "new"
    /\ box = Box(Models[mi].lo, Models[mi].hi)
    /\ rows = Models[mi].rows
    /\ lp = box
    /\ edges = {} /\ cuts = {} /\ perm = {}
    /\ path = << >> /\ local = {} /\ x = << >>

\* jm_branch_and_bound: contracts the model where it can and is asked to.
Presolve ==
    /\ phase = "new"
    /\ \E on \in BOOLEAN : sub' = (on /\ Shrinks(mi))
    /\ phase' = "load"
    /\ m' = TreeModels[mi][sub']
    /\ rows' = m'.rows
    /\ UNCHANGED <<mi, box, lp, edges, cuts, perm, path, local, x>>

\* bb_tree: the box of the tree, integer columns' bounds rounded inwards.
LoadBox ==
    Boxed(m, LAMBDA j : IF j \in m.semi THEN 0
                        ELSE IF j \in m.int /\ Finite(m.lo[j])
                             THEN CeilOf(m.lo[j]) ELSE m.lo[j],
             LAMBDA j : IF j \in m.int /\ Finite(m.hi[j])
                        THEN FloorOf(m.hi[j]) ELSE m.hi[j])

Load ==
    /\ phase = "load"
    /\ box' = LoadBox
    /\ phase' = IF \E j \in m.int \ m.semi : LoadBox.lo[j] > LoadBox.hi[j]
                THEN "infeasible" ELSE "loaded"
    /\ UNCHANGED <<mi, sub, m, rows, lp, edges, cuts, perm, path, local, x>>

\* tighten_coefficients, then parity_fix; or neither.
Tighten ==
    /\ phase = "loaded"
    /\ \/ /\ phase' = "tightened"
          /\ UNCHANGED <<box, rows>>
       \/ \E c \in {ImpliedBox(m, rows, box)} :
             /\ rows' = Listed([i \in DOMAIN rows |->
                          TightenRow(m, JudgedBy(m, box, c), rows[i])])
             /\ IF ParityContradicts(m, rows', BoxAfter(m, box, c))
                THEN /\ box' = BoxAfter(m, box, c)
                     /\ phase' = "infeasible"
                ELSE /\ box' = ParityBox(m, rows', BoxAfter(m, box, c))
                     /\ phase' = IF Empty(box') THEN "infeasible"
                                 ELSE "tightened"
    /\ UNCHANGED <<mi, sub, m, lp, edges, cuts, perm, path, local, x>>

\* The first node: its bounds, propagated or not, which the tree's box then
\* takes over.  Its relaxation is solved next.
Root ==
    /\ phase = "tightened"
    /\ \E b \in {Propagate(m, box, passes) : passes \in {0, Passes}} :
          IF b.dead
          THEN /\ phase' = "infeasible"
               /\ UNCHANGED <<box, lp>>
          ELSE /\ phase' = "root"
               /\ lp' = Box(b.lo, b.hi)
               /\ box' = Box(b.lo, b.hi)
    /\ UNCHANGED <<mi, sub, m, rows, edges, cuts, perm, path, local, x>>

\* jaos_solve on the root's relaxation.  One without a corner on the grid is
\* not followed.
SolveRoot ==
    /\ phase = "root"
    /\ \/ /\ x' \in Corners(RelaxedPoints(rows, lp, {}))
          /\ phase' = "solved"
       \/ /\ RelaxedPoints(rows, lp, {}) = {}
          /\ phase' = "off the grid"
          /\ x' = x
    /\ UNCHANGED <<mi, sub, m, box, rows, lp, edges, cuts, perm, path, local>>

\* probe_root over the fractional binaries, cut short or not, and
\* clique_table_build from its conflicts and the rows; the relaxation is
\* solved again if a bound moved.
ProbeOrder ==
    SelectSeq(InOrder(m.n),
              LAMBDA j : j \in Fractional(m, x) /\ IsBinary(m, box, j))
Probed(n) ==
    FoldLeft(LAMBDA s, j : ProbeColumn(m, s, j),
             [lp |-> lp, box |-> box, edges |-> {}, dead |-> FALSE],
             SubSeq(ProbeOrder, 1, n))

Probe ==
    /\ phase = "solved"
    /\ \E n \in 0 .. Len(ProbeOrder) : \E s \in {Probed(n)} :
          IF s.dead
          THEN /\ phase' = "infeasible"
               /\ UNCHANGED <<box, lp, edges, x>>
          ELSE /\ box' = s.box
               /\ lp' = s.lp
               /\ edges' = s.edges \cup
                           RowEdges(m, s.box, NodeRows(rows, lp))
               /\ \/ /\ s.lp = lp
                     /\ x' = x
                     /\ phase' = "cutting"
                  \/ /\ s.lp # lp
                     /\ x' \in Corners(RelaxedPoints(rows, s.lp, {}))
                     /\ phase' = "cutting"
                  \/ /\ s.lp # lp
                     /\ RelaxedPoints(rows, s.lp, {}) = {}
                     /\ x' = x
                     /\ phase' = "off the grid"
    /\ UNCHANGED <<mi, sub, m, rows, cuts, perm, path, local>>

\* The separators of a round of cuts at the root.
RootCuts ==
    LET own == NodeRows(rows, lp)
        B == MirBounds(m, own, box)
    IN UNION {GomoryCuts(m, AllRows, lp, x), CoverCuts(m, own, box, x),
              CliqueCuts(m, edges, x), ZeroHalfCuts(m, own, lp, x),
              FlowCuts(m, own, box, lp, x), HullCuts(m, own, box, lp, x),
              MirRound(m, own, {}, box, lp, x),
              MirRound(m, AllRows, B, box, lp, x),
              AggregateCuts(m, own, {}, box, lp, x),
              AggregateCuts(m, AllRows, B, box, lp, x)}

CutRoot ==
    /\ phase = "cutting"
    /\ Cardinality(cuts) < MaxCuts
    /\ Fractional(m, x) # {}
    /\ \E k \in RootCuts :
          /\ cuts' = cuts \cup {k}
          /\ \/ /\ x' \in Corners(RelaxedPoints(rows, lp, cuts'))
                /\ phase' = phase
             \/ /\ RelaxedPoints(rows, lp, cuts') = {}
                /\ x' = x
                /\ phase' = "off the grid"
    /\ UNCHANGED <<mi, sub, m, box, rows, lp, edges, perm, path, local>>

------------------------------------------------------------------------------
(* Below the root.                                                           *)

\* A semicontinuous column between zero and its lower bound.
Broken(j) == j \in m.semi /\ 0 < x[j] /\ x[j] < m.lo[j]

Branchable == {j \in Cols(m) : j \in Fractional(m, x) \/ Broken(j)}

\* The two children of a branching on column j.
Children(j) ==
    IF j \in m.int /\ ~Whole(x[j])
    THEN {[j |-> j, lo |-> lp.lo[j], hi |-> FloorOf(x[j])],
          [j |-> j, lo |-> CeilOf(x[j]), hi |-> lp.hi[j]]}
    ELSE {[j |-> j, lo |-> lp.lo[j], hi |-> 0],
          [j |-> j, lo |-> IF j \in m.int THEN CeilOf(m.lo[j]) ELSE m.lo[j],
           hi |-> lp.hi[j]]}

\* node_apply: the tree's box, and the path's bounds over it in order.
PathBox(p) ==
    FoldLeft(LAMBDA b, f : [b EXCEPT !.lo[f.j] = f.lo, !.hi[f.j] = f.hi],
             box, p)

\* The code picks one of the columns it may branch on; a child that is popped
\* has its bounds set, then the clique table and the propagation tighten them.
Branch ==
    /\ phase \in {"cutting", "node", "again"}
    /\ Len(path) < MaxDepth
    /\ \E j \in Branchable :
         \E f \in Children(j), passes \in {0, Passes} :
           \E b \in {PathBox(Append(path, f))} :
             \E d \in {Propagate(m, CliqueBox(m, edges, b), passes)} :
               LET dead == CliqueDead(m, edges, b) \/ d.dead
               IN /\ path' = Append(path, f)
                  /\ phase' = IF dead THEN "dead" ELSE "entered"
                  /\ lp' = IF dead THEN b ELSE Box(d.lo, d.hi)
    /\ UNCHANGED <<mi, sub, m, box, rows, edges, cuts, perm, local, x>>

\* jaos_solve on the node's relaxation.
SolveNode ==
    /\ phase = "entered"
    /\ x' \in Corners(RelaxedPoints(rows, lp, cuts \cup perm \cup local))
    /\ phase' = "node"
    /\ UNCHANGED <<mi, sub, m, box, rows, lp, edges, cuts, perm, path, local>>

\* Gomory and MIR cuts by the node's own bounds: they go with its subtree.
CutNode ==
    /\ phase = "node"
    /\ Cardinality(local) < MaxCuts
    /\ \E k \in GomoryCuts(m, AllRows, lp, x)
                  \cup MirRound(m, NodeRows(rows, lp), {}, lp, lp, x) :
          /\ local' = local \cup {k}
          /\ x' \in Corners(RelaxedPoints(rows, lp,
                                          cuts \cup perm \cup local'))
    /\ UNCHANGED <<mi, sub, m, phase, box, rows, lp, edges, cuts, perm, path>>

\* A ray proves the node's relaxation infeasible: a multiplier for every row,
\* positive where the lower side is taken.
RaySide(r, y) == IF y > 0 THEN r.lo ELSE r.hi
RayRows(R, y) == MapThenSumSet(LAMBDA i : y[i] * RaySide(R[i], y[i]), DOMAIN y)
RayCol(R, y, j) == MapThenSumSet(LAMBDA i : y[i] * R[i].a[j], DOMAIN y)
Rays(R) ==
    {y \in UNION {[S -> {-1, 1}] : S \in SUBSET (DOMAIN R)} :
       \A i \in DOMAIN y : Finite(RaySide(R[i], y[i]))}
ColMost(a, b, j) ==
    IF a = 0 THEN 0 ELSE IF a > 0 THEN a * b.hi[j] ELSE a * b.lo[j]
Closes(b, a) == \A j \in Cols(m) : a[j] = 0 \/ Finite(HighEnd(a, b, j))
GapOf(R, y, a, b) ==
    RayRows(R, y) - MapThenSumSet(LAMBDA j : ColMost(a[j], b, j), Cols(m))

\* conflict_row: a branching the gap survives without is left out.
Drops(gap, delta) == gap - delta > 0

\* The last branching on each column, and the columns the proof needs.
LastBranchings ==
    SelectSeq(InOrder(Len(path)),
              LAMBDA k : \A h \in k + 1 .. Len(path) : path[h].j # path[k].j)
NeededBy(a, gap) ==
    LET Delta(j) == ColMost(a[j], box, j) - ColMost(a[j], PathBox(path), j)
        Wide(j) == a[j] # 0 /\ ~Finite(HighEnd(a, box, j))
    IN FoldRight(LAMBDA k, s :
                   LET j == path[k].j IN
                   IF ~Wide(j) /\ Drops(s.gap, Delta(j))
                   THEN [s EXCEPT !.gap = @ - Delta(j)]
                   ELSE [s EXCEPT !.need = @ \cup {j}],
                 LastBranchings, [gap |-> gap, need |-> {}]).need

\* Of the needed binaries one has to differ.
ConflictRow(J) ==
    Cut([j \in Cols(m) |-> IF j \notin J THEN 0
                           ELSE IF PathBox(path).lo[j] = Grid THEN -1 ELSE 1],
        Grid * (1 - Cardinality({j \in J : PathBox(path).lo[j] = Grid})))

\* The rows a conflict may come from: those that hold in the whole tree.
LastingRows == NodeRows(rows, lp) \o CutRows(cuts \cup perm)

Conflict ==
    /\ phase = "entered"
    /\ \A r \in Range(m.rows) : r.ind = 0
    /\ \E y \in Rays(LastingRows) :
          LET a == Listed([j \in Cols(m) |-> RayCol(LastingRows, y, j)])
              b == PathBox(path)
              gap == GapOf(LastingRows, y, a, b)
              J == NeededBy(a, gap)
          IN /\ Closes(b, a) /\ gap > 0 /\ J # {}
             /\ \A j \in J : IsBinary(m, box, j) /\ Fixed(b, j)
             /\ perm' = perm \cup {ConflictRow(J)}
    /\ Reset
    /\ lp' = box
    /\ x' \in Corners(RelaxedPoints(rows, box, cuts \cup perm'))
    /\ phase' = "again"
    /\ UNCHANGED <<mi, sub, m, box, rows, edges, cuts>>

Next == \/ Presolve \/ Load \/ Tighten \/ Root \/ SolveRoot \/ Probe
        \/ CutRoot \/ Branch \/ SolveNode \/ CutNode \/ Conflict

Spec == Init /\ [][Next]_vars

------------------------------------------------------------------------------
(* What the reasoning may never do to the model's points.                   *)

\* The points of the model the tree runs on.
PointsOf == [i \in DOMAIN Models |->
               [s \in BOOLEAN |-> PointsWithin(TreeModels[i][s], Width)]]
Points == PointsOf[mi][sub]

True(l, v) == v[l[1]] = Grid * l[2]

\* No bound, tightened row, cut, conflict row or pair of the clique table that
\* the whole tree uses takes a point of the model away, whatever order the
\* steps found them in and whatever each took from the ones before; and the
\* tree is given up as infeasible only when the model has no point.
NothingIsLost ==
    \A v \in Points :
        /\ phase # "infeasible"
        /\ phase \notin {"new", "load"} => InBox(box, v)
        /\ \A i \in DOMAIN rows : RowAsked(rows[i], v) => Holds(rows[i], v)
        /\ \A k \in cuts \cup perm : CutHolds(k, v)
        /\ \A e \in edges : \E l \in e : ~True(l, v)

\* A node keeps the points of the model its branchings leave, under the bounds
\* the clique table and the propagation gave it and under cuts that are valid
\* at the node alone; it is dropped only when there is none; and whichever
\* column is branched on, one of the children keeps each of them.
NodeKeepsItsPoints ==
    phase \in {"node", "entered", "dead", "cutting", "again"} =>
        \A v \in {u \in Points : InBox(PathBox(path), u)} :
            /\ phase # "dead"
            /\ InBox(lp, v)
            /\ \A k \in local : CutHolds(k, v)
            /\ phase # "entered" =>
                  \A j \in Branchable : \E f \in Children(j) :
                      f.lo <= v[j] /\ v[j] <= f.hi

\* The contracted model and the model have the same points and the same
\* objective: what postsolve makes of the one's points are the other's.
SameObjective(n, v, n2, w) ==
    LET Over(k) == FoldLeft(LAMBDA p, j : p * k.cost[j][2], 1, InOrder(k.n))
        Value(k, u, d) ==
            MapThenSumSet(LAMBDA j :
                              k.cost[j][1] * (d \div k.cost[j][2]) * u[j],
                          Cols(k))
        d == Over(n) * Over(n2)
    IN Value(n, v, d) = Value(n2, w, d)
ContractionIsExact ==
    phase = "load" /\ sub =>
        /\ PointsOf[mi][FALSE] = {Postsolve(Contracted[mi], v) : v \in Points}
        /\ \A v \in Points :
              SameObjective(Models[mi], Postsolve(Contracted[mi], v), m, v)
==============================================================================
