------------------------------ MODULE FillOrder ------------------------------
(***************************************************************************)
(* The two orders in which a factor may eliminate the vertices of a        *)
(* symmetric pattern (src/src/chol.c): minimum degree on a quotient graph  *)
(* and nested dissection.  A graph is a set of edges {u, v}.               *)
(***************************************************************************)
EXTENDS Integers, FiniteSets, SequencesExt, FiniteSetsExt

CONSTANTS
    N,      \* vertices 1 .. N
    Leaf    \* CHOL_ND_LEAF: a part this small is ordered by degree

ASSUME OrderAssumption == N \in Nat \ {0} /\ Leaf \in Nat \ {0}

V == 1 .. N
Neighbours(G, v) == {u \in V : {u, v} \in G}
Degree(G, v) == Cardinality(Neighbours(G, v))
Vertices == [k \in V |-> k]

\* The members of S up to k, and all, in order.
Listing(S) ==
    LET a[k \in 0 .. N] == IF k = 0 THEN << >>
                           ELSE IF k \in S THEN Append(a[k - 1], k)
                           ELSE a[k - 1]
    IN  a
Ascending(S) == Listing(S)[N]

\* A function on V as the list of its values.
Listed(f) == Tail(<<0>> \o f)

Sums(s) ==
    LET t[q \in 0 .. Len(s)] == IF q = 0 THEN 0 ELSE t[q - 1] + s[q]
    IN  t
Total(s) == Sums(s)[Len(s)]

-----------------------------------------------------------------------------
(* Minimum degree.  A vertex is live, has become an element (a clique of    *)
(* live vertices it joined when it was eliminated), or is dead.             *)

\* md_build of the graph on U: vertices of more than `dense` neighbours are
\* left for the end.
MdBuild(U, G, dense) ==
    LET last == {v \in U : Degree(G, v) > dense}
        live == U \ last
        var == Listed([v \in V |-> IF v \in live
                                   THEN Neighbours(G, v) \cap live ELSE {}])
    IN  [state |-> Listed([v \in V |-> IF v \in live THEN "var" ELSE "dead"]),
         var |-> var, elt |-> Listed([v \in V |-> {}]),
         deg |-> Listed([v \in V |-> Cardinality(var[v])]),
         perm |-> << >>, last |-> Ascending(last)]

MdLive(g) == {v \in V : g.state[v] = "var"}

\* The heap pops the least degree, the lower index among equals (md_before).
MdNext(g) ==
    CHOOSE p \in MdLive(g) : \A v \in MdLive(g) :
        g.deg[p] < g.deg[v] \/ (g.deg[p] = g.deg[v] /\ p <= v)

\* The live elements that the vertices of lp belong to.
MdTouched(g, lp) == {e \in UNION {g.elt[i] : i \in lp} : g.state[e] = "elt"}
\* Fault: one too few.
MdOutside_OffByOne(g, lp, e) ==
    Cardinality(g.var[e]) - Cardinality({i \in lp : e \in g.elt[i]}) - 1
\* How many of the members of e are outside lp.
MdOutside(g, lp, e) ==
    Cardinality(g.var[e]) - Cardinality({i \in lp : e \in g.elt[i]})

\* Vertex p and its neighbours lp become one element; p's own elements go.
MdJoined(g, p, own, lp) ==
    [g EXCEPT
        !.state = Listed([v \in V |-> IF v \in own THEN "dead"
                                      ELSE IF v = p THEN "elt" ELSE @[v]]),
        !.var = Listed([v \in V |-> IF v \in own THEN {}
                                    ELSE IF v = p THEN lp ELSE @[v]]),
        !.elt = Listed([v \in V |-> IF v = p THEN {} ELSE @[v]]),
        !.perm = Append(@, p)]

\* How many neighbours vertex i can have, of the elements elts and otherwise.
MdBound(g, lp, elts, i) ==
    LET var == (g.var[i] \cap MdLive(g)) \ lp
        beyond == Total([e \in V |-> IF e \in elts THEN MdOutside(g, lp, e)
                                     ELSE 0])
    IN  Max({0, Min({Cardinality(var) + (Cardinality(lp) - 1) + beyond,
                     g.deg[i] + Cardinality(lp) - 1,
                     Cardinality(MdLive(g))})})

\* What eliminating p makes: its neighbours lp, direct ones and those through
\* its elements, become one element; an element inside lp is absorbed.
MdEliminate(g, p) ==
    LET own == {e \in g.elt[p] : g.state[e] = "elt"}
        lp == (MdLive(g) \cap (g.var[p] \cup UNION {g.var[e] : e \in own}))
                  \ {p}
        joined == MdJoined(g, p, own, lp)
        touched == MdTouched(joined, lp)
        inside == {e \in touched : MdOutside(joined, lp, e) = 0}
        elt(i) == {e \in joined.elt[i] : e \in touched \ inside}
        var(i) == (joined.var[i] \cap MdLive(joined)) \ lp
    IN  [joined EXCEPT
            !.state = Listed([v \in V |-> IF v \in inside THEN "dead"
                                          ELSE @[v]]),
            !.elt = Listed([v \in V |-> IF v \in lp THEN elt(v) \cup {p}
                                        ELSE @[v]]),
            !.var = Listed([v \in V |-> IF v \in inside THEN {}
                                        ELSE IF v \in lp THEN var(v)
                                        ELSE @[v]]),
            !.deg = Listed([v \in V |-> IF v \in lp
                                        THEN MdBound(joined, lp, elt(v), v)
                                        ELSE @[v]])]

MdDone(g) == MdLive(g) = {}
MdStep(g) == MdEliminate(g, MdNext(g))
MdPerm(g) == g.perm \o g.last

MdSteps(g) ==
    LET h[k \in 0 .. N] == IF k = 0 THEN g
                           ELSE IF MdDone(h[k - 1]) THEN h[k - 1]
                           ELSE MdStep(h[k - 1])
    IN  h

\* The whole order of a part, whose vertices are numbered as it lists them.
MdOrder(G, s) ==
    LET local == {e \in SUBSET DOMAIN s : {s[k] : k \in e} \in G}
        perm == MdPerm(MdSteps(MdBuild(DOMAIN s, local, Len(s)))[N])
    IN  [k \in DOMAIN s |-> s[perm[k]]]

-----------------------------------------------------------------------------
(* Nested dissection: a stack of parts, each with its place in the order.   *)

NdStart(G, dense) ==
    LET last == {v \in V : Degree(G, v) > dense}
        live == V \ last
    IN  [parts |-> <<[s |-> Ascending(live), pos |-> 0]>>,
         perm |-> [k \in V |-> IF k <= Cardinality(live) THEN 0
                    ELSE Ascending(last)[k - Cardinality(live)]]]

\* nd_bfs from root inside S: w[d] is the vertices within distance d.
Beside(G, S, B) == B \cup {v \in S : Neighbours(G, v) \cap B # {}}
Within(G, S, root) ==
    LET w[d \in 0 .. N] == IF d = 0 THEN {root} ELSE Beside(G, S, w[d - 1])
    IN  w
Reached(w) == w[N]
Level(w, v) == Min({d \in 0 .. N : v \in w[d]})
Height(w) == Min({d \in 0 .. N : w[d] = w[N]})

\* At most eight walks to an end of the part: from the vertex of least degree
\* in the last level, for as long as the levels grow in number.
NdRoot(G, s) ==
    LET S == ToSet(s)
        Step(a, k) ==
            LET w == Within(G, S, a.root)
                h == Height(w)
                far == {v \in Reached(w) : Level(w, v) = h}
            IN  IF a.stop \/ h <= a.height THEN [a EXCEPT !.stop = TRUE]
                ELSE [root |-> CHOOSE v \in far : \A u \in far :
                          \/ Degree(G, v) < Degree(G, u)
                          \/ Degree(G, v) = Degree(G, u) /\ v <= u,
                      height |-> h, stop |-> FALSE]
    IN  FoldLeft(Step, [root |-> s[1], height |-> -1, stop |-> FALSE],
                 [k \in 1 .. 8 |-> k]).root

Placed(perm, pos, s) ==
    [k \in V |-> IF k - pos \in DOMAIN s THEN s[k - pos] ELSE perm[k]]

\* The members of the part s that are in S, as s lists them: up to each
\* place, and all.
Choosing(s, S) ==
    LET c[k \in 0 .. Len(s)] == IF k = 0 THEN << >>
                                ELSE IF s[k] \in S THEN Append(c[k - 1], s[k])
                                ELSE c[k - 1]
    IN  c
Chosen(s, S) == Choosing(s, S)[Len(s)]

\* The two sides of a part and what separates them: none when it is not
\* connected, else the vertices of the middle level that touch the next one.
NdSides(G, s, w) ==
    LET S == ToSet(s)
        h == Height(w)
        half == Min({d \in 0 .. N : 2 * Cardinality(w[d]) >= Cardinality(S)})
        j == Min({Max({half, 1}), h - 1})
        after == {v \in S : Level(w, v) > j}
        cut == {v \in S \ after :
                   Level(w, v) = j /\ \E u \in Neighbours(G, v) \cap S :
                                          Level(w, u) = j + 1}
    IN  IF Reached(w) # S
        THEN [a |-> Chosen(s, S \cap Reached(w)),
              b |-> Chosen(s, S \ Reached(w)), c |-> << >>]
        ELSE [a |-> Chosen(s, S \ (after \cup cut)), b |-> Chosen(s, after),
              c |-> Chosen(s, cut)]

NdDone(nd) == nd.parts = << >>
NdStep(G, nd) ==
    LET top == Last(nd.parts)
        rest == Front(nd.parts)
        s == top.s
        w == Within(G, ToSet(s), NdRoot(G, s))
        cut == NdSides(G, s, w)
        b == top.pos + Len(cut.a)
        leaf == Len(s) <= Leaf \/ (Reached(w) = ToSet(s) /\ Height(w) < 2)
    IN  IF s = << >> THEN [nd EXCEPT !.parts = rest]
        ELSE IF leaf
        THEN [parts |-> rest, perm |-> Placed(nd.perm, top.pos, MdOrder(G, s))]
        ELSE [parts |-> rest \o <<[s |-> cut.b, pos |-> b],
                                  [s |-> cut.a, pos |-> top.pos]>>,
              perm |-> Placed(nd.perm, b + Len(cut.b), cut.c)]
=============================================================================
