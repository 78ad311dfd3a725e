------------------------------- MODULE Cholesky -------------------------------
(***************************************************************************)
(* One factorisation of a symmetric pattern (src/src/chol.c): the choice   *)
(* between two orders, the symbolic analysis, and the numeric factor, whose *)
(* heavy blocks of rows are computed on lanes.                             *)
(*                                                                         *)
(* A number is what it was computed from.  The value in row k of column i  *)
(* is the sequence of the columns subtracted from it, in that order: two   *)
(* factors with the same sequences are equal to the last bit.              *)
(***************************************************************************)
EXTENDS FillOrder

CONSTANTS
    Inputs,     \* what the caller may ask for: pattern, dense limit, threads,
                \* whether the pattern is large, and which factor
    Trigger,    \* CHOL_ND_TRY: eliminations above which a large one dissects
    Block,      \* CHOL_BLOCK
    BlockWork   \* CHOL_BLOCK_WORK

\* A pattern's diagonal is no edge: both orders leave it out.
ASSUME FactorAssumption ==
    /\ Trigger \in Nat \ {0} /\ Block \in Nat \ {0} /\ BlockWork \in Nat
    /\ \A a \in Inputs : a.threads \in Nat \ {0} /\ a.dense \in Nat
    /\ \A a \in Inputs : \A v \in V : {v} \notin a.graph

VARIABLES
    in, pc,
    md, nd,     \* the two orders
    cap, kept,  \* the race between them: its limit, and the one that won
    ana,        \* what the last chol_analyse left in the structure
    col,        \* col[i]: the rows of column i so far, each with its value
    x,          \* the row being gathered
    k0,         \* rows done
    lane, front, at,
    billed, status

order == <<md, nd, cap, kept>>
lanes == <<lane, front, at>>
vars == <<in, pc, order, ana, col, x, k0, lanes, billed, status>>

Blank == [j \in V |-> << >>]
NoCap == N * N * N

-----------------------------------------------------------------------------
(* chol_analyse.                                                             *)

\* The entries of row k left of the diagonal, as the caller's columns list
\* them.
RowsOf(G, perm) ==
    LET inv == [v \in V |-> CHOOSE i \in V : perm[i] = v]
        Before(k) == Ascending({v \in Neighbours(G, perm[k]) :
                                  inv[v] \in 1 .. k - 1})
    IN  Listed([k \in V |-> [p \in DOMAIN Before(k) |-> inv[Before(k)[p]]]])

\* What a walk from i visits of what is known of its tree before row k.
Climb(up, k) ==
    LET c[i \in 0 .. N] == IF i = 0 \/ i >= k THEN {} ELSE {i} \cup c[up[i]]
    IN  c

\* The elimination tree: row k is hung over the end of the walk from each of
\* its entries, and the walk is cut short to k for the next time.
Hung(a, i, k) ==
    LET path == Climb(a.up, k)[i]
    IN  [up |-> Listed([j \in V |-> IF j \in path THEN k ELSE a.up[j]]),
         parent |-> Listed([j \in V |-> IF j \in path /\ a.up[j] = 0 THEN k
                                        ELSE a.parent[j]])]
EntriesHung(a, row, k) ==
    LET h[p \in 0 .. Len(row)] == IF p = 0 THEN a ELSE Hung(h[p - 1], row[p], k)
    IN  h
Bare == [up |-> [i \in V |-> 0], parent |-> [i \in V |-> 0]]
RowsHung(rows) ==
    LET h[k \in 0 .. N] ==
            IF k = 0 THEN Bare
            ELSE EntriesHung(h[k - 1], rows[k], k)[Len(rows[k])]
    IN  h
Parents(rows) == RowsHung(rows)[N].parent

\* Fault: a path goes behind the ones before it.
Chained_Behind(path, s) == s \o path
Chained(path, s) == path \o s

\* ereach: the columns that row k has an entry in, each after those that
\* subtract from it.  From each entry a path goes up to what is marked; none
\* goes past a root.
Path(parent, mark) ==
    LET p[j \in 0 .. N] == IF j = 0 \/ j \in mark THEN << >>
                           ELSE <<j>> \o p[parent[j]]
    IN  p
Reached1(a, parent, i) ==
    LET path == Path(parent, a.mark)[i]
    IN  [s |-> Chained(path, a.s), mark |-> a.mark \cup ToSet(path)]
Reaches(parent, row, k) ==
    LET r[p \in 0 .. Len(row)] ==
            IF p = 0 THEN [s |-> << >>, mark |-> {k}]
            ELSE Reached1(r[p - 1], parent, row[p])
    IN  r
Reach(parent, row, k) == Reaches(parent, row, k)[Len(row)].s

\* How many eliminations each row takes: the entries its columns have so far.
Counted(a, s) ==
    [fill |-> Listed([i \in V |-> IF i \in ToSet(s) THEN a.fill[i] + 1
                                  ELSE a.fill[i]]),
     work |-> Append(a.work, Total([q \in DOMAIN s |-> a.fill[s[q]]]))]
RowsCounted(parent, rows) ==
    LET c[k \in 0 .. N] ==
            IF k = 0 THEN [fill |-> [i \in V |-> 0], work |-> << >>]
            ELSE Counted(c[k - 1], Reach(parent, rows[k], k))
    IN  c
RowWork(parent, rows) == RowsCounted(parent, rows)[N].work

\* Given up once the total passes the limit.
Analyse(which, limit) ==
    LET perm == IF which = "md" THEN MdPerm(md) ELSE nd.perm
        rows == RowsOf(in.graph, perm)
        parent == Parents(rows)
        work == RowWork(parent, rows)
    IN  [of |-> which, full |-> Total(work) <= limit, perm |-> perm,
         rows |-> rows, parent |-> parent, work |-> work]
Ops(a) == Total(a.work)

-----------------------------------------------------------------------------
(* jm_chol_symbolic_dense: the order.                                        *)

OrderByDegree ==
    /\ pc = "md"
    /\ IF MdDone(md) THEN pc' = "first" /\ UNCHANGED md
                     ELSE md' = MdStep(md) /\ UNCHANGED pc
    /\ UNCHANGED <<in, nd, cap, kept, ana, col, x, k0, lanes, billed, status>>

\* A small pattern keeps minimum degree, a large one when it is cheap.
FirstAnalysis ==
    /\ pc = "first"
    /\ ana' = Analyse("md", IF in.large THEN Trigger ELSE NoCap)
    /\ kept' = "md"
    /\ IF ana'.full THEN pc' = "block" /\ UNCHANGED nd
                    ELSE pc' = "nd" /\ nd' = NdStart(in.graph, in.dense)
    /\ UNCHANGED <<in, md, cap, col, x, k0, lanes, billed, status>>

Dissect ==
    /\ pc = "nd"
    /\ IF NdDone(nd)
       THEN pc' = "race" /\ cap' = 2 * Trigger /\ UNCHANGED nd
       ELSE nd' = NdStep(in.graph, nd) /\ UNCHANGED <<pc, cap>>
    /\ UNCHANGED <<in, md, kept, ana, col, x, k0, lanes, billed, status>>

\* Whether the analysis just made is the winner's.
InPlace(winner, a) == a.of = winner

\* Both orders under a limit that grows: the first to finish within it sets
\* the limit for the other, and minimum degree wins a tie.
Race ==
    /\ pc = "race"
    /\ LET m == Analyse("md", cap)
           d == Analyse("nd", cap)
           beside == IF m.full THEN Analyse("nd", Ops(m))
                     ELSE Analyse("md", Ops(d))
       IN  IF m.full
           THEN /\ ana' = beside
                /\ kept' = IF beside.full /\ Ops(beside) < Ops(m) THEN "nd"
                           ELSE "md"
                /\ pc' = IF InPlace(kept', beside) THEN "block" ELSE "redo"
                /\ UNCHANGED cap
           ELSE IF d.full
           THEN /\ ana' = beside
                /\ kept' = IF beside.full THEN "md" ELSE "nd"
                /\ pc' = IF InPlace(kept', beside) THEN "block" ELSE "redo"
                /\ UNCHANGED cap
           ELSE cap' = 4 * cap /\ ana' = d /\ UNCHANGED <<pc, kept>>
    /\ UNCHANGED <<in, md, nd, col, x, k0, lanes, billed, status>>

\* The winner's analysis is not the one left in place.
Redo ==
    /\ pc = "redo"
    /\ ana' = Analyse(kept, NoCap)
    /\ pc' = "block"
    /\ UNCHANGED <<in, order, col, x, k0, lanes, billed, status>>

-----------------------------------------------------------------------------
(* jm_chol_numeric.                                                          *)

\* Column i, from its entry number p on, taken off the row gathered in r.
Subtract(r, c, i, p) ==
    Listed([j \in V |-> IF \E q \in p .. Len(c[i]) : c[i][q].row = j
                        THEN Append(r[j], i) ELSE r[j]])
Put(c, i, k, v) == [c EXCEPT ![i] = Append(@, [row |-> k, from |-> v])]

\* Column i is eliminated from row k.
Eliminate(a, i, k) ==
    [x |-> Subtract([a.x EXCEPT ![i] = << >>], a.col, i, 1),
     col |-> Put(a.col, i, k, a.x[i]),
     bill |-> a.bill + Len(a.col[i])]

\* chol_row: row k of the analysis a on the calling thread.
ReachOf(a, k) == Reach(a.parent, a.rows[k], k)
RowSteps(f, s, k) ==
    LET g[q \in 0 .. Len(s)] == IF q = 0 THEN f
                                ELSE Eliminate(g[q - 1], s[q], k)
    IN  g
RowOf(a, f, k) == LET s == ReachOf(a, k) IN RowSteps(f, s, k)[Len(s)]

\* The rows that follow row k, n of them.
RowsAfter(a, f, k) ==
    LET g[n \in 0 .. N - k] == IF n = 0 THEN f ELSE RowOf(a, g[n - 1], k + n)
    IN  g
Unfactored == [x |-> Blank, col |-> Blank, bill |-> 0]

Factor == [x |-> x, col |-> col, bill |-> billed]
Becomes(f) == x' = f.x /\ col' = f.col /\ billed' = f.bill

Lanes == IF in.kind = "ldlt" THEN 1 ELSE in.threads
k1 == IF N - k0 > Block THEN k0 + Block ELSE N
Heavy == /\ Lanes > 1
         /\ Total([q \in 1 .. k1 - k0 |-> ana.work[k0 + q]]) >= BlockWork

\* jm_ldlt_numeric does all its rows like this, and so does a light block.
RowsInOrder ==
    /\ pc = "block" /\ k0 < N /\ ~Heavy
    /\ Becomes(RowsAfter(ana, Factor, k0)[k1 - k0])
    /\ k0' = k1
    /\ UNCHANGED <<in, pc, order, ana, lanes, status>>

\* A lane whose thread does not start is run by the caller in its place of
\* the joins.
Launch ==
    /\ pc = "block" /\ k0 < N /\ Heavy
    /\ \E started \in SUBSET (2 .. Lanes) :
           lane' = [t \in 1 .. Lanes |->
                      [row |-> k0 + t, x |-> lane[t].x, failed |-> FALSE,
                       own |-> t \in started]]
    /\ at' = 1 /\ front' = [k \in V |-> << >>]
    /\ pc' = "lanes"
    /\ UNCHANGED <<in, order, ana, col, x, k0, billed, status>>

\* chol_front: the part of row k that the columns c before the block, those
\* up to b, decide.  Of each it keeps the value and how many entries the
\* column had.
FrontStep(c, b, a, i) ==
    IF i > b THEN [a EXCEPT !.l = Append(@, << >>), !.p = Append(@, 0)]
    ELSE [x |-> Subtract([a.x EXCEPT ![i] = << >>], c, i, 1),
          l |-> Append(a.l, a.x[i]), p |-> Append(a.p, Len(c[i])),
          bill |-> a.bill + Len(c[i])]
FrontSteps(c, b, r, s) ==
    LET g[q \in 0 .. Len(s)] ==
            IF q = 0 THEN [x |-> r, l |-> << >>, p |-> << >>, bill |-> 0]
            ELSE FrontStep(c, b, g[q - 1], s[q])
    IN  g
Inside(b, j, k) == b < j /\ j < k
FrontRow(c, b, r, s, k) ==
    LET f == FrontSteps(c, b, r, s)[Len(s)]
    IN  [row |-> [s |-> s, l |-> f.l, p |-> f.p,
                  x |-> [j \in V |-> IF Inside(b, j, k) THEN f.x[j]
                                     ELSE << >>]],
         x |-> [j \in V |-> IF Inside(b, j, k) THEN << >> ELSE f.x[j]],
         bill |-> f.bill]
FrontOf(k, r) == FrontRow(col, k0, r, ReachOf(ana, k), k)

Ended(t) == lane[t].row > k1 \/ lane[t].failed
Runs(t) == ~Ended(t) /\ (lane[t].own \/ at = t)

\* A row of a lane; it may run out of memory, and the lane ends there.
LaneRow(t) ==
    /\ pc = "lanes" /\ Runs(t)
    /\ LET k == lane[t].row
           f == FrontOf(k, lane[t].x)
       IN  \/ /\ lane' = [lane EXCEPT ![t].row = @ + Lanes, ![t].x = f.x]
              /\ front' = [front EXCEPT ![k] = f.row]
              /\ billed' = billed + f.bill
           \/ /\ lane' = [lane EXCEPT ![t].failed = TRUE]
              /\ UNCHANGED <<front, billed>>
    /\ UNCHANGED <<in, pc, order, ana, col, x, k0, at, status>>

\* The caller has ended its own lane, or joined or run the one it is at.
NextLane ==
    /\ pc = "lanes" /\ at <= Lanes /\ Ended(at)
    /\ at' = at + 1
    /\ UNCHANGED <<in, pc, order, ana, col, x, k0, lane, front, billed, status>>

\* Fault: the values of the columns left of the block are taken as they are,
\* but all that the columns had is subtracted again.
Known_Nothing(r, q) == 0
\* How many entries of the column in place q the front has subtracted.
Known(r, q) == r.p[q]

\* chol_back: the rest of a row of the block, in the order of chol_row.
BackStep(a, r, q, k) ==
    LET i == r.s[q]
        before == i <= k0
        v == IF before THEN r.l[q] ELSE a.x[i]
        p == IF before THEN Known(r, q) ELSE 0
        y == IF before THEN a.x ELSE [a.x EXCEPT ![i] = << >>]
    IN  [x |-> Subtract(y, a.col, i, p + 1),
         col |-> Put(a.col, i, k, v),
         bill |-> a.bill + Len(a.col[i]) - p]
BackSteps(f, r, k) ==
    LET g[q \in 0 .. Len(r.s)] == IF q = 0 THEN f
                                  ELSE BackStep(g[q - 1], r, q, k)
    IN  g
Loaded(f, r, k) ==
    [f EXCEPT !.x = [j \in V |-> IF Inside(k0, j, k) THEN r.x[j]
                                  ELSE f.x[j]]]
BackOf(f, k) ==
    LET r == front[k]
    IN  BackSteps(Loaded(f, r, k), r, k)[Len(r.s)]
BackAfter(f, k) ==
    LET g[n \in 0 .. k1 - k] == IF n = 0 THEN f ELSE BackOf(g[n - 1], k + n)
    IN  g

Back ==
    /\ pc = "lanes" /\ at > Lanes
    /\ IF \E t \in 1 .. Lanes : lane[t].failed
       THEN /\ status' = "OUT_OF_MEMORY" /\ pc' = "done" /\ billed' = 0
            /\ UNCHANGED <<x, col, k0>>
       ELSE /\ Becomes(BackAfter(Factor, k0)[k1 - k0])
            /\ k0' = k1 /\ pc' = "block"
            /\ UNCHANGED status
    /\ UNCHANGED <<in, order, ana, lanes>>

Finish ==
    /\ pc = "block" /\ k0 = N
    /\ pc' = "done" /\ status' = "OK"
    /\ UNCHANGED <<in, order, ana, col, x, k0, lanes, billed>>

Init ==
    /\ in \in Inputs
    /\ pc = "md" /\ md = MdBuild(V, in.graph, in.dense)
    /\ nd = [parts |-> << >>, perm |-> << >>]
    /\ cap = 0 /\ kept = "md" /\ ana = << >>
    /\ col = Blank /\ x = Blank /\ k0 = 0
    /\ lane = [t \in 1 .. Lanes |-> [row |-> 0, x |-> Blank, failed |-> FALSE,
                                     own |-> FALSE]]
    /\ front = [k \in V |-> << >>] /\ at = 1
    /\ billed = 0 /\ status = "NONE"

Symbolic == OrderByDegree \/ FirstAnalysis \/ Dissect \/ Race \/ Redo
Numeric == \/ RowsInOrder \/ Launch \/ NextLane \/ Back \/ Finish
           \/ \E t \in 1 .. Lanes : LaneRow(t)
Done == pc = "done" /\ UNCHANGED vars
Next == Symbolic \/ Numeric \/ Done
Spec == Init /\ [][Next]_vars

-----------------------------------------------------------------------------
(* Properties.                                                               *)

\* The graph that eliminating the vertices of s, in order, leaves: neighbours
\* of a vertex become neighbours of each other.
Joining(H, v) ==
    H \cup {e \in SUBSET Neighbours(H, v) : Cardinality(e) = 2}
Eliminating(G, s) ==
    LET h[q \in 0 .. Len(s)] == IF q = 0 THEN G ELSE Joining(h[q - 1], s[q])
    IN  h
Eliminated(G, s) == Eliminating(G, s)[Len(s)]

\* Minimum degree knows of each vertex all its neighbours after the
\* eliminations so far, and never thinks it has fewer.  (chol.c keeps neither
\* graph nor degrees: only cliques and a bound.)
QuotientHolds ==
    \A v \in MdLive(md) :
        LET H == Eliminated(in.graph, md.perm)
            real == Neighbours(H, v) \cap MdLive(md)
            known == md.var[v] \cup UNION {md.var[e] : e \in
                         {u \in md.elt[v] : md.state[u] = "elt"}}
        IN  /\ (known \cap MdLive(md)) \ {v} = real
            /\ md.deg[v] >= Cardinality(real)

\* Two parts on the stack of the dissection share no edge, so ordering one
\* before the other fills nothing between them.
PartsApart ==
    \A k, h \in DOMAIN nd.parts : k < h =>
        \A u \in ToSet(nd.parts[k].s), v \in ToSet(nd.parts[h].s) :
            u # v /\ {u, v} \notin in.graph

\* Each order that ended lists every vertex once.
IsOrder(perm) == Len(perm) = N /\ ToSet(perm) = V
OrderingHolds ==
    /\ QuotientHolds /\ PartsApart
    /\ pc # "md" => IsOrder(MdPerm(md))
    /\ pc \notin {"md", "first", "nd"} => nd.perm = << >> \/ IsOrder(nd.perm)

\* The orders are orders, and the numeric factor works on a whole analysis, the
\* one of the order with the fewer eliminations; a cheap pattern and a tie keep
\* minimum degree.  (Analyses of the loser overwrite the same arrays.)
AnalysisHolds ==
    /\ OrderingHolds
    /\ pc = "block" =>
        /\ ana.full /\ ana = Analyse(kept, NoCap)
        /\ kept = "nd" => Ops(ana) < Ops(Analyse("md", NoCap))
        /\ kept = "md" /\ nd.perm # << >> =>
               Ops(ana) <= Ops(Analyse("nd", NoCap))

\* The pattern of the factor by its definition, in the places of ana.perm: what
\* eliminating the columns in order adds to the pattern.
Pattern(G, perm) == {e \in SUBSET V : Cardinality(e) = 2
                                      /\ {perm[i] : i \in e} \in G}
Filling(G, perm) ==
    LET h[i \in 0 .. N] ==
            IF i = 0 THEN Pattern(G, perm)
            ELSE h[i - 1] \cup
                     {e \in SUBSET (Neighbours(h[i - 1], i) \cap i + 1 .. N) :
                         Cardinality(e) = 2}
    IN  h
Filled == Filling(in.graph, ana.perm)[N]

\* The factor is the Cholesky factor of the matrix: each column has exactly
\* the rows that fill in, ascending, and the value in row k of column i has
\* had subtracted, once each, the columns that both rows have an entry in.
ColumnHolds(c, F, i) ==
    /\ {c[q].row : q \in DOMAIN c} = {k \in i + 1 .. N : {i, k} \in F}
    /\ \A q, r \in DOMAIN c : q < r => c[q].row < c[r].row
    /\ \A q \in DOMAIN c :
           /\ ToSet(c[q].from) = {h \in 1 .. i - 1 :
                                    {h, i} \in F /\ {h, c[q].row} \in F}
           /\ IsInjective(c[q].from)
FactorIsCholesky ==
    status = "OK" => \A i \in V : ColumnHolds(col[i], Filled, i)

\* On any number of threads, whichever start, and in blocks or row by row, the
\* factor is the same to the last bit and the work billed is the same.
\* (docs/tolerances.md, CHOL_BLOCK.)
SameAtAnyThreads ==
    status = "OK" =>
        LET one == RowsAfter(ana, Unfactored, 0)[N]
        IN  col = one.col /\ billed = one.bill /\ billed = Ops(ana)
=============================================================================
