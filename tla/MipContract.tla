---------------------------- MODULE MipContract ----------------------------
(***************************************************************************)
(* The presolve of branch and bound (mp_contract, mp_build, mp_postsolve): *)
(* a row that says two continuous columns are equal goes, and one of the   *)
(* columns with it; the tree runs on what is left.                         *)
(***************************************************************************)
EXTENDS MipCuts

CONSTANTS ContractPasses        \* MIP_PRESOLVE_PASSES

\* mp_eligible, of what a model here can hold.
Eligible(m) == m.semi = {} /\ \A i \in Rows(m) : m.rows[i].ind = 0

\* s = [m, gone, rowGone, subs, used, dirty]: the row says x_p = x_q.
Joins(s, i, p, q) ==
    LET r == s.m.rows[i] IN
    /\ i \notin s.rowGone \cup s.dirty
    /\ p < q /\ Support(r) = {p, q} /\ r.a[p] = -r.a[q]
    /\ r.lo = 0 /\ r.hi = 0
    /\ {p, q} \cap (s.m.int \cup s.used) = {}
    /\ Larger(s.m.lo[p], s.m.lo[q]) <= Smaller(s.m.hi[p], s.m.hi[q])

\* Two fractions added.
Plus(f, g) == <<f[1] * g[2] + g[1] * f[2], f[2] * g[2]>>

JoinBounds(m, p, q) ==
    [lo |-> Larger(m.lo[p], m.lo[q]), hi |-> Smaller(m.hi[p], m.hi[q])]

\* Column q becomes column p.
Join(s, i, p, q) ==
    [s EXCEPT
       !.m.lo[p] = JoinBounds(s.m, p, q).lo,
       !.m.hi[p] = JoinBounds(s.m, p, q).hi,
       !.m.cost[p] = Plus(@, s.m.cost[q]),
       !.m.rows = [h \in DOMAIN @ |->
                     IF h = i THEN @[h]
                     ELSE [@[h] EXCEPT !.a[p] = @ + s.m.rows[h].a[q],
                                       !.a[q] = 0]],
       !.dirty = @ \cup {h \in DOMAIN s.m.rows : h # i /\ s.m.rows[h].a[q] # 0},
       !.used = @ \cup {p, q},
       !.gone = @ \cup {q},
       !.rowGone = @ \cup {i},
       !.subs = Append(@, [keep |-> p, drop |-> q])]

JoinRow(s, i) ==
    LET pairs == {e \in Cols(s.m) \X Cols(s.m) : Joins(s, i, e[1], e[2])}
    IN IF pairs = {} THEN s
       ELSE LET e == CHOOSE d \in pairs : TRUE IN Join(s, i, e[1], e[2])

Pass(s) ==
    FoldLeft(JoinRow, [s EXCEPT !.used = {}, !.dirty = {}],
             InOrder(Len(s.m.rows)))

Contract(m) ==
    FoldLeft(LAMBDA s, k : Pass(s),
             [m |-> m, gone |-> {}, rowGone |-> {}, subs |-> <<>>,
              used |-> {}, dirty |-> {}], InOrder(ContractPasses))

\* mp_build: the columns and rows that are left, in their order.
KeptCols(s) == SelectSeq(InOrder(s.m.n), LAMBDA j : j \notin s.gone)
KeptRows(s) ==
    SelectSeq(InOrder(Len(s.m.rows)), LAMBDA i : i \notin s.rowGone)

Built(s) ==
    LET map == KeptCols(s)
        keep == KeptRows(s)
        K == 1 .. Len(map)
        OfCols(f) == [k \in K |-> f[map[k]]]
    IN [n |-> Len(map),
        lo |-> OfCols(s.m.lo), hi |-> OfCols(s.m.hi), cost |-> OfCols(s.m.cost),
        int |-> {k \in K : map[k] \in s.m.int},
        semi |-> {},
        rows |-> [h \in 1 .. Len(keep) |->
                    [s.m.rows[keep[h]] EXCEPT !.a = OfCols(@)]]]

\* Fault: the substitutions are undone in the order they were made.
Postsolve_Forward(s, v) ==
    FoldLeft(LAMBDA x, t : [x EXCEPT ![t.drop] = x[t.keep]],
             [j \in Cols(s.m) |->
                IF j \in s.gone THEN 0
                ELSE v[SelectInSeq(KeptCols(s), LAMBDA k : k = j)]], s.subs)

\* mp_postsolve: the values of the columns kept, and then the substitutions,
\* last to first.
Postsolve(s, v) ==
    FoldRight(LAMBDA t, x : [x EXCEPT ![t.drop] = x[t.keep]], s.subs,
              [j \in Cols(s.m) |->
                 IF j \in s.gone THEN 0
                 ELSE v[SelectInSeq(KeptCols(s), LAMBDA k : k = j)]])
============================================================================
