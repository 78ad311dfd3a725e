----------------------------- MODULE ModelStore -----------------------------
(* The model store (src/src/model.c): the arrays of jaos_model, which refer  *)
(* to columns and rows by position, and what every call does to them and to  *)
(* what hangs on them: the answer, the parked walk, the starting basis, the  *)
(* starting point, the row-wise copy and the map from names to positions.    *)
(*                                                                           *)
(* Numbers are left out but for their identity: a column or row carries a    *)
(* tag that no other ever has, and altered says its costs or bounds have     *)
(* been set again.  Any allocation may fail.                                 *)
EXTENDS Naturals, Sequences, FiniteSets, SequencesExt

CONSTANTS
    NULL,
    Starts,         \* models the caller has built before the first call
    NewCols,        \* what AddCols is called with: rows and bound of each
    NewRows,        \* what AddRows is called with: columns of each
    Lists,          \* the columns that sets and cones are made of
    Terms,          \* the quadratic terms set: <<larger, smaller or equal>>
    Names,          \* names beside the positional ones; k stands for "Ck"
    MaxCalls,       \* bound on the calls made
    MemoryRunsOut,  \* an allocation may fail
    IndicatorsFail  \* so may the two that grow the indicators

Fields == {"col", "row", "a", "cost", "bound", "sense", "integer", "semi",
           "quad", "q", "ind", "sos", "cone", "rq", "name"}

VARIABLES
    m,          \* the arrays: the members of jaos_model
    start,      \* start_col_status and start_row_status: TRUE is basic
    mipStart,   \* mip_start: each value as the tag of the column it is for
    rowwise,    \* rowwise_valid and the copy
    map,        \* name_map_valid, col_map and row_map
    answer,     \* the model that the answer in the sol_ arrays is of
    parked,     \* the model, basis and options that the parked walk is on
    cfg,        \* the options a walk depends on: two settings of them
    ret, calls, fresh

attached == <<start, mipStart, rowwise, map>>
results == <<answer, parked>>
vars == <<m, attached, results, cfg, ret, calls, fresh>>

NumCol == Len(m.col)
NumRow == Len(m.row)
Cols == 1 .. NumCol
Rows == 1 .. NumRow

\* Optional arrays: absent, or as long as they should be.
Held(s) == IF s = NULL THEN {} ELSE {s[k] : k \in DOMAIN s}
Marked(s, k) == s # NULL /\ s[k]
Blank(n) == [k \in 1 .. n |-> FALSE]
Grown(s, n, v) == IF s = NULL THEN NULL ELSE s \o [k \in 1 .. n |-> v]

\* The positions a deletion keeps; each goes to the place that counts those
\* kept up to it, and the arrays close up.
KeptOf(n, gone) == (1 .. n) \ gone
NewIndex(kept, k) == Cardinality({p \in kept : p <= k})
Nth(kept, k) == CHOOSE p \in kept : NewIndex(kept, p) = k
Only(s, kept) == [k \in 1 .. Cardinality(kept) |-> s[Nth(kept, k)]]
Compact(s, kept) == IF s = NULL THEN NULL ELSE Only(s, kept)

\* What the arrays say, by identity: the relations of ModelData.
Holders(mm, s) ==
    IF s = NULL THEN {} ELSE {mm.col[j] : j \in {k \in DOMAIN s : s[k]}}
Members(mm, sets) ==
    UNION {{<<s.tag, mm.col[s.col[t]], s.weight[t]>> : t \in DOMAIN s.col} :
             s \in Range(sets)}
EntriesOf(mm) ==
    UNION {{<<mm.row[i], mm.col[j]>> : i \in mm.a[j]} : j \in DOMAIN mm.col}
AlteredOf(mm) ==
    Holders(mm, mm.cost)
      \cup {mm.row[i] : i \in {k \in DOMAIN mm.row : mm.bound[k]}}
      \cup (IF mm.sense THEN {0} ELSE {})
PairsOf(mm) == {<<mm.col[p[1]], mm.col[p[2]]>> : p \in mm.q}
IndOf(mm) ==
    IF mm.ind = NULL THEN {}
    ELSE {<<mm.row[i], mm.col[mm.ind[i].col], mm.ind[i].val>> :
            i \in {k \in DOMAIN mm.row : mm.ind[k].col > 0}}
RowQuadOf(mm) ==
    IF mm.rq = NULL THEN {}
    ELSE UNION {{<<mm.row[i], mm.col[p[1]], mm.col[p[2]]>> : p \in mm.rq[i]} :
                  i \in DOMAIN mm.rq}

Relations(mm) ==
    <<mm.col, mm.row, EntriesOf(mm), AlteredOf(mm), Holders(mm, mm.integer),
      Holders(mm, mm.semi), Holders(mm, mm.quad), PairsOf(mm), IndOf(mm),
      Members(mm, mm.sos), Members(mm, mm.cone), RowQuadOf(mm)>>

Entries == {e \in Rows \X Cols : e[1] \in m.a[e[2]]}

\* What the arrays of jaos_model always are: each absent or as long as the
\* columns or rows it is for, every position in one that of a column or row,
\* and every tag given out before next.
Optional(s, n, S) == s = NULL \/ s \in [1 .. n -> S]
Labels == Names \cup {1, NULL}
Indicators(n) == [col : 0 .. n, val : {0, 1}]
SetFits(s, n, next) ==
    /\ s.tag \in 1 .. next - 1
    /\ s.col \in Seq(1 .. n)
    /\ s.weight \in [DOMAIN s.col -> Nat]
SetsFit(sets, n, next) ==
    /\ sets \in Seq(Range(sets))
    /\ \A k \in DOMAIN sets : SetFits(sets[k], n, next)
TagsFit(mm, next) ==
    /\ mm.col \in Seq(1 .. next - 1) /\ mm.row \in Seq(1 .. next - 1)
    /\ IsInjective(mm.col) /\ IsInjective(mm.row)
    /\ Range(mm.col) \cap Range(mm.row) = {}
ColsFit(mm, n, k) ==
    /\ mm.a \in [1 .. n -> SUBSET (1 .. k)]
    /\ mm.cost \in [1 .. n -> BOOLEAN]
    /\ Optional(mm.integer, n, BOOLEAN) /\ Optional(mm.semi, n, BOOLEAN)
    /\ Optional(mm.quad, n, BOOLEAN) /\ Optional(mm.name.col, n, Labels)
    /\ mm.q \subseteq (1 .. n) \X (1 .. n)
    /\ \A p \in mm.q : p[1] > p[2]
RowsFit(mm, n, k) ==
    /\ mm.bound \in [1 .. k -> BOOLEAN]
    /\ Optional(mm.name.row, k, Labels)
    /\ Optional(mm.ind, k, Indicators(n))
    /\ Optional(mm.rq, k, SUBSET ((1 .. n) \X (1 .. n)))
ConesFit(mm, n, next) ==
    /\ SetsFit(mm.sos, n, next) /\ SetsFit(mm.cone, n, next)
    /\ \A k, l \in DOMAIN mm.cone :
         mm.cone[k].tag = mm.cone[l].tag => k = l
Shape(mm, next) ==
    /\ DOMAIN mm = Fields /\ DOMAIN mm.name = {"col", "row"}
    /\ mm.sense \in BOOLEAN
    /\ TagsFit(mm, next)
    /\ ColsFit(mm, Len(mm.col), Len(mm.row))
    /\ RowsFit(mm, Len(mm.col), Len(mm.row))
    /\ ConesFit(mm, Len(mm.col), next)

\* The column of an indicator is integer.
DriversAreInteger(mm) ==
    mm.ind # NULL =>
      \A i \in DOMAIN mm.ind :
        mm.ind[i].col > 0 => Marked(mm.integer, mm.ind[i].col)

\* The first tag that no start has.
First == 1 + Cardinality(UNION {Range(s.col) \cup Range(s.row) : s \in Starts})

\* Models are built as the calls of this module build them; what is given to
\* a call is of its type, and an absent array is no array.
ASSUME ModelStoreAssumption ==
    /\ \A s \in Starts : Shape(s, First) /\ DriversAreInteger(s)
    /\ First \in Nat \ {0}
    /\ NewCols \subseteq Seq([rows : SUBSET Nat, bounded : BOOLEAN])
    /\ NewRows \subseteq Seq(SUBSET Nat)
    /\ Lists \subseteq Seq(Nat)
    /\ \A terms \in Terms :
         terms \subseteq Nat \X Nat /\ \A p \in terms : p[1] >= p[2]
    /\ MaxCalls \in Nat
    /\ {MemoryRunsOut, IndicatorsFail} \subseteq BOOLEAN
ASSUME NullAssumption ==
    /\ NULL \notin Seq(BOOLEAN)
    /\ NULL \notin Seq(Labels)
    /\ NULL \notin Seq([col : Nat, val : {0, 1}])
    /\ NULL \notin Seq(SUBSET (Nat \X Nat))

NoBasis == [col |-> NULL, row |-> NULL]
NoMap == [valid |-> FALSE, col |-> <<>>, row |-> <<>>]
NoCopy == [valid |-> FALSE, of |-> {}]
NoIndicator == [col |-> 0, val |-> 0]

\* A model without anything but columns, rows and entries.
Bare(col, row, a) ==
    [col |-> col, row |-> row, a |-> a,
     cost |-> Blank(Len(col)), bound |-> Blank(Len(row)), sense |-> FALSE,
     integer |-> NULL, semi |-> NULL, quad |-> NULL, q |-> {}, ind |-> NULL,
     sos |-> <<>>, cone |-> <<>>, rq |-> NULL,
     name |-> [col |-> NULL, row |-> NULL]]

Init ==
    /\ m \in Starts
    /\ start = NoBasis /\ mipStart = NULL
    /\ rowwise = NoCopy /\ map = NoMap
    /\ answer = NULL /\ parked = NULL
    /\ cfg = 0
    /\ ret = "OK" /\ calls = 0
    /\ fresh = First

Returns(code) == ret' = code
Refuse(code) ==
    Returns(code) /\ UNCHANGED <<m, attached, results, cfg, fresh>>
OutOfMemory == MemoryRunsOut /\ Refuse("OUT_OF_MEMORY")
Invalid == Refuse("INVALID_INPUT")
Nothing == Refuse("OK")

\* Fault: an edit drops the walk and keeps the answer.
AnswerIsStale_AnswerStays == UNCHANGED answer /\ parked' = NULL

\* model_answer_is_stale: the answer goes and the parked walk with it.
AnswerIsStale == answer' = NULL /\ parked' = NULL

\* model_matrix_is_stale
MatrixIsStale == AnswerIsStale /\ rowwise' = [rowwise EXCEPT !.valid = FALSE]

\* name_map_is_stale
NamesAreStale == map' = NoMap

\* An edit of the data alone: nothing that is attached changes.
Edits(new) ==
    /\ m' = new /\ AnswerIsStale
    /\ Returns("OK")
    /\ UNCHANGED <<attached, cfg, fresh>>

-----------------------------------------------------------------------------
(* The starting basis.                                                       *)

BasicIn(s) == Cardinality({k \in DOMAIN s : s[k]})
Paired(b) == b.col # NULL /\ b.row # NULL

\* Fault: a basis is kept whatever the number of its basic entries.
Survives_Always(b, nrow) == b

\* basis_survives_or_goes
Survives(b, nrow) ==
    IF Paired(b) /\ BasicIn(b.col) + BasicIn(b.row) # nrow THEN NoBasis ELSE b

\* The bases the caller may give and a solve may end on: all rows basic, or
\* one column in the place of a row.
Slack == [col |-> Blank(NumCol), row |-> [i \in Rows |-> TRUE]]
InPlaceOf(i, j) == [Slack EXCEPT !.col[j] = TRUE, !.row[i] = FALSE]
Bases == {Slack} \cup {InPlaceOf(i, j) : i \in Rows, j \in Cols}

\* jaos_set_basis; one whose basic entries are not as many as the rows is
\* refused.
SetBasis ==
    /\ parked' = NULL
    /\ \/ \E b \in Bases : start' = b
       \/ MemoryRunsOut /\ ~Paired(start) /\ start' = NoBasis
    /\ Returns(IF start' = NoBasis THEN "OUT_OF_MEMORY" ELSE "OK")
    /\ UNCHANGED <<m, mipStart, rowwise, map, answer, cfg, fresh>>

ClearBasis ==
    /\ start' = NoBasis /\ parked' = NULL
    /\ Returns("OK")
    /\ UNCHANGED <<m, mipStart, rowwise, map, answer, cfg, fresh>>

\* jaos_set_mip_start: the old point goes before the new one is looked at.
SetMipStart ==
    /\ \/ mipStart' = m.col /\ Returns("OK")
       \/ mipStart' = NULL /\ Returns("OK")
       \/ mipStart' = NULL /\ Returns("INVALID_INPUT")
       \/ MemoryRunsOut /\ mipStart' = NULL /\ Returns("OUT_OF_MEMORY")
    /\ UNCHANGED <<m, start, rowwise, map, results, cfg, fresh>>

-----------------------------------------------------------------------------
(* Names and the row-wise copy.                                              *)

NameOf(side, k) ==
    IF m.name[side] # NULL /\ m.name[side][k] # NULL
    THEN m.name[side][k] ELSE k
Count(side) == IF side = "col" THEN NumCol ELSE NumRow

\* set_name: NULL takes a name away.
SetName(side, k, name) ==
    \/ /\ m.name[side] = NULL /\ name = NULL
       /\ Nothing
    \/ /\ ~(m.name[side] = NULL /\ name = NULL)
       /\ \/ OutOfMemory
          \/ LET names == IF m.name[side] = NULL
                          THEN [i \in 1 .. Count(side) |-> NULL]
                          ELSE m.name[side]
             IN /\ m' = [m EXCEPT !.name[side] = [names EXCEPT ![k] = name]]
                /\ NamesAreStale
                /\ Returns("OK")
                /\ UNCHANGED <<start, mipStart, rowwise, results, cfg, fresh>>

\* build_name_map: of two equal names the first has it.
MapOf(names) ==
    IF names = NULL THEN <<>>
    ELSE LET given == Range(names) \ {NULL}
         IN [n \in given |->
               CHOOSE k \in DOMAIN names :
                 names[k] = n /\ \A i \in 1 .. k - 1 : names[i] # n]

\* find_by_name, positional: a positional name is the column's that has no
\* other; 0 for a name nobody has.
Lookup(side, name) ==
    IF name \in DOMAIN map[side] THEN map[side][name]
    ELSE IF name \in 1 .. Count(side)
            /\ (m.name[side] = NULL \/ m.name[side][name] = NULL)
    THEN name ELSE 0

FindByName ==
    \/ ~map.valid /\ OutOfMemory
    \/ /\ map' = IF map.valid THEN map
                 ELSE [valid |-> TRUE, col |-> MapOf(m.name.col),
                       row |-> MapOf(m.name.row)]
       /\ Returns("OK")
       /\ UNCHANGED <<m, start, mipStart, rowwise, results, cfg, fresh>>

\* jm_model_ensure_rowwise
EnsureRowwise ==
    \/ ~rowwise.valid /\ OutOfMemory
    \/ /\ rowwise' = IF rowwise.valid THEN rowwise
                     ELSE [valid |-> TRUE, of |-> Entries]
       /\ Returns("OK")
       /\ UNCHANGED <<m, start, mipStart, map, results, cfg, fresh>>

-----------------------------------------------------------------------------
(* Numbers, marks and structure.                                             *)

SetColNumbers(j) == Edits([m EXCEPT !.cost[j] = ~@])
SetRowBounds(i) == Edits([m EXCEPT !.bound[i] = ~@])
SetObjective == Edits([m EXCEPT !.sense = ~@])

\* jaos_set_coefficient: an entry appears, goes, or was not there to go.
SetCoefficient(i, j, zero) ==
    \/ zero /\ i \notin m.a[j] /\ Nothing
    \/ ~zero /\ i \notin m.a[j] /\ OutOfMemory
    \/ /\ ~(zero /\ i \notin m.a[j])
       /\ m' = [m EXCEPT !.a[j] = IF zero THEN @ \ {i} ELSE @ \cup {i},
                         !.cost[j] = IF i \in m.a[j] /\ ~zero THEN ~@ ELSE @]
       /\ MatrixIsStale
       /\ Returns("OK")
       /\ UNCHANGED <<start, mipStart, map, cfg, fresh>>

Drives(j) == \E r \in Held(m.ind) : r.col = j

\* Fault: an indicator's column may stop being integer.
SetInteger_Unguarded(j, on) ==
    IF Marked(m.integer, j) = on THEN Nothing
    ELSE Edits([m EXCEPT !.integer =
             [(IF @ = NULL THEN Blank(NumCol) ELSE @) EXCEPT ![j] = on]])

\* jaos_set_col_integer
SetInteger(j, on) ==
    \/ ~on /\ Drives(j) /\ Invalid
    \/ on /\ m.integer = NULL /\ OutOfMemory
    \/ /\ on \/ ~Drives(j)
       /\ Marked(m.integer, j) = on
       /\ Nothing
    \/ /\ on \/ ~Drives(j)
       /\ Marked(m.integer, j) # on
       /\ Edits([m EXCEPT !.integer =
             [(IF @ = NULL THEN Blank(NumCol) ELSE @) EXCEPT ![j] = on]])

\* jaos_set_col_semicontinuous: the marks of integer columns are there too.
SetSemi(j, on) ==
    LET semis == IF m.semi = NULL /\ on THEN Blank(NumCol) ELSE m.semi
        integers == IF m.integer = NULL /\ on THEN Blank(NumCol)
                    ELSE m.integer
        made == [m EXCEPT !.semi = semis, !.integer = integers]
    IN \/ on /\ m.semi = NULL /\ OutOfMemory
       \/ /\ MemoryRunsOut /\ on /\ m.integer = NULL
          /\ m' = [m EXCEPT !.semi = semis]
          /\ Returns("OUT_OF_MEMORY")
          /\ UNCHANGED <<attached, results, cfg, fresh>>
       \/ /\ Marked(semis, j) = on
          /\ m' = made
          /\ Returns("OK")
          /\ UNCHANGED <<attached, results, cfg, fresh>>
       \/ /\ Marked(semis, j) # on
          /\ Edits([made EXCEPT !.semi[j] = on])

\* jaos_set_quadratic replaces all of it: the diagonal where it is not zero,
\* and the other pairs, the larger position first.
SetQuadratic(terms) ==
    \/ ~(terms \subseteq Cols \X Cols) /\ Invalid
    \/ terms \subseteq Cols \X Cols /\ OutOfMemory
    \/ /\ terms \subseteq Cols \X Cols
       /\ Edits([m EXCEPT
             !.quad = IF \E j \in Cols : <<j, j>> \in terms
                      THEN [j \in Cols |-> <<j, j>> \in terms] ELSE NULL,
             !.q = {p \in terms : p[1] # p[2]}])

\* jaos_set_col_quadratic: one diagonal term.
SetColQuadratic(j, on) ==
    \/ on /\ m.quad = NULL /\ OutOfMemory
    \/ Marked(m.quad, j) = on /\ Nothing
    \/ /\ Marked(m.quad, j) # on
       /\ Edits([m EXCEPT !.quad =
             [(IF @ = NULL THEN Blank(NumCol) ELSE @) EXCEPT ![j] = on]])

CanBeSet(col) == IsInjective(col) /\ Range(col) \subseteq Cols
Set(col) == [tag |-> fresh, col |-> col, weight |-> [k \in DOMAIN col |-> k]]

\* An edit that takes a fresh tag.
WithTag(new) ==
    /\ m' = new /\ AnswerIsStale
    /\ fresh' = fresh + 1
    /\ Returns("OK")
    /\ UNCHANGED <<attached, cfg>>

\* jaos_add_sos: members in the order of their weights.
AddSos(col) ==
    \/ ~CanBeSet(col) /\ Invalid
    \/ CanBeSet(col) /\ OutOfMemory
    \/ /\ CanBeSet(col)
       /\ WithTag([m EXCEPT !.sos = Append(@, Set(col)),
                          !.integer = IF @ = NULL THEN Blank(NumCol) ELSE @])

\* jaos_set_row_indicator: col 0 takes the indicator away.
SetIndicator(i, col, val) ==
    \/ /\ col = 0
       /\ IF m.ind # NULL /\ m.ind[i].col > 0
          THEN Edits([m EXCEPT !.ind[i].col = 0]) ELSE Nothing
    \/ col > 0 /\ ~Marked(m.integer, col) /\ Invalid
    \/ col > 0 /\ Marked(m.integer, col) /\ m.ind = NULL /\ OutOfMemory
    \/ /\ col > 0 /\ Marked(m.integer, col)
       /\ Edits([m EXCEPT !.ind =
             [(IF @ = NULL THEN [r \in Rows |-> NoIndicator] ELSE @)
                EXCEPT ![i] = [col |-> col, val |-> val]]])

\* jaos_add_cone
AddCone(col) ==
    \/ ~CanBeSet(col) /\ Invalid
    \/ OutOfMemory
    \/ CanBeSet(col) /\ WithTag([m EXCEPT !.cone = Append(@, Set(col))])

\* jaos_delete_cones
DeleteCones(gone) ==
    \/ OutOfMemory
    \/ Edits([m EXCEPT !.cone = Only(@, KeptOf(Len(@), gone))])

\* jaos_set_row_quadratic: the row's part is replaced, also by nothing.
SetRowQuadratic(i, terms) ==
    \/ ~(terms \subseteq Cols \X Cols) /\ Invalid
    \/ OutOfMemory
    \/ /\ MemoryRunsOut /\ terms \subseteq Cols \X Cols
       /\ m' = [m EXCEPT !.rq = IF @ = NULL THEN [r \in Rows |-> {}] ELSE @]
       /\ Returns("OUT_OF_MEMORY")
       /\ UNCHANGED <<attached, results, cfg, fresh>>
    \/ /\ terms \subseteq Cols \X Cols
       /\ Edits([m EXCEPT !.rq = [(IF @ = NULL THEN [r \in Rows |-> {}] ELSE @)
                                    EXCEPT ![i] = terms]])

-----------------------------------------------------------------------------
(* Columns and rows arrive and go.                                           *)

Tagged(n) == [k \in 1 .. n |-> fresh + k - 1]

\* names_grow, and the attribute arrays, which grow by one blank each.
ColsGrown(new) ==
    LET n == Len(new)
    IN [m EXCEPT !.col = @ \o Tagged(n),
                 !.cost = @ \o Blank(n),
                 !.a = @ \o [k \in 1 .. n |-> new[k].rows],
                 !.integer = Grown(@, n, FALSE),
                 !.semi = Grown(@, n, FALSE),
                 !.quad = Grown(@, n, FALSE),
                 !.name.col = Grown(@, n, NULL)]

HasColArrays ==
    \/ {m.integer, m.semi, m.quad} # {NULL} \/ m.q # {}
    \/ m.name.col # NULL \/ mipStart # NULL

\* arriving_status: a column without a finite bound has no place in a basis.
Arrives(new) == \A k \in DOMAIN new : new[k].bounded

\* basis_extend: new columns wait at a bound.
BasisOfCols(new) ==
    IF Arrives(new) THEN [start EXCEPT !.col = Grown(@, Len(new), FALSE)]
    ELSE NoBasis

\* Fault: the columns are in place when an array of theirs cannot grow.
ColsCannotGrow_After(new) ==
    /\ MemoryRunsOut /\ HasColArrays /\ start.col # NULL
    /\ m' = ColsGrown(new)
    /\ start' = NoBasis /\ parked' = NULL
    /\ Returns("OUT_OF_MEMORY")
    /\ UNCHANGED <<mipStart, rowwise, map, answer, cfg, fresh>>

\* The basis went for a free column, or for memory, and then an array of the
\* columns could not grow.
ColsCannotGrow(new) ==
    /\ MemoryRunsOut /\ HasColArrays /\ start.col # NULL
    /\ start' = NoBasis /\ parked' = NULL
    /\ Returns("OUT_OF_MEMORY")
    /\ UNCHANGED <<m, mipStart, rowwise, map, answer, cfg, fresh>>

\* jaos_add_cols.  The basis goes, for a free column or for memory, before
\* the arrays grow, so it is gone also when one of them cannot.
AddCols(new) ==
    \/ /\ \E k \in DOMAIN new : ~(new[k].rows \subseteq Rows)
       /\ Invalid
    \/ /\ \A k \in DOMAIN new : new[k].rows \subseteq Rows
       /\ \/ OutOfMemory
          \/ ColsCannotGrow(new)
          \/ /\ m' = ColsGrown(new)
             /\ mipStart' = IF mipStart = NULL THEN NULL
                            ELSE mipStart \o Tagged(Len(new))
             /\ \/ start' = Survives(BasisOfCols(new), NumRow)
                \/ MemoryRunsOut /\ start' = NoBasis
             /\ MatrixIsStale /\ NamesAreStale
             /\ fresh' = fresh + Len(new)
             /\ Returns("OK")
             /\ UNCHANGED cfg

RowsGrown(new) ==
    LET n == Len(new)
    IN [m EXCEPT !.row = @ \o Tagged(n),
                 !.bound = @ \o Blank(n),
                 !.a = [j \in Cols |-> @[j] \cup
                          {NumRow + k : k \in {p \in 1 .. n : j \in new[p]}}],
                 !.rq = Grown(@, n, {}),
                 !.ind = Grown(@, n, NoIndicator),
                 !.name.row = Grown(@, n, NULL)]

\* A new row is basic.
RowsOfBasis(new) ==
    Survives([start EXCEPT !.row = Grown(@, Len(new), TRUE)],
             NumRow + Len(new))

\* jaos_add_rows.  The rows are in place when the basis and the indicators
\* grow; where those cannot, they go and the call still succeeds.
AddRows(new) ==
    \/ /\ \E k \in DOMAIN new : ~(new[k] \subseteq Cols)
       /\ Invalid
    \/ /\ \A k \in DOMAIN new : new[k] \subseteq Cols
       /\ \/ OutOfMemory
          \/ /\ \/ m' = RowsGrown(new)
                \/ /\ IndicatorsFail /\ m.ind # NULL
                   /\ m' = [RowsGrown(new) EXCEPT !.ind = NULL]
             /\ \/ start' = RowsOfBasis(new)
                \/ MemoryRunsOut /\ start' = NoBasis
             /\ MatrixIsStale /\ NamesAreStale
             /\ fresh' = fresh + Len(new)
             /\ Returns("OK")
             /\ UNCHANGED <<mipStart, cfg>>

\* Fault: the sets keep the positions of before.
SetsWithout_NotRenumbered(sets, kept) ==
    [k \in DOMAIN sets |->
       LET on == {t \in DOMAIN sets[k].col : sets[k].col[t] \in kept}
       IN [sets[k] EXCEPT !.col = Only(@, on), !.weight = Only(@, on)]]

\* The SOS sets, or the cones, without the columns that went, and without a
\* set that has none left.
MembersLeft(s, kept) == {t \in DOMAIN s.col : s.col[t] \in kept}
SetWithout(s, kept) ==
    LET on == MembersLeft(s, kept)
        col == [t \in DOMAIN s.col |-> NewIndex(kept, s.col[t])]
    IN [tag |-> s.tag, col |-> Only(col, on), weight |-> Only(s.weight, on)]
SetsWithout(sets, kept) ==
    Only([k \in DOMAIN sets |-> SetWithout(sets[k], kept)],
         {k \in DOMAIN sets : MembersLeft(sets[k], kept) # {}})

PairsWithout(pairs, kept) ==
    {<<NewIndex(kept, p[1]), NewIndex(kept, p[2])>> :
       p \in {r \in pairs : {r[1], r[2]} \subseteq kept}}

\* An indicator whose column stays.
Renumbered(r, kept) ==
    IF r.col = 0 THEN r ELSE [col |-> NewIndex(kept, r.col), val |-> r.val]

\* Every column array without the columns that went, and what the rows and
\* sets refer to renumbered.
ColsWithout(kept) ==
    [m EXCEPT !.col = Only(@, kept), !.cost = Only(@, kept),
              !.a = Only(@, kept),
              !.integer = Compact(@, kept), !.semi = Compact(@, kept),
              !.quad = Compact(@, kept), !.name.col = Compact(@, kept),
              !.q = PairsWithout(@, kept),
              !.sos = SetsWithout(@, kept),
              !.cone = SetsWithout(@, kept),
              !.ind = IF @ = NULL THEN NULL
                      ELSE [i \in Rows |-> Renumbered(@[i], kept)],
              !.rq = IF @ = NULL THEN NULL
                     ELSE [i \in Rows |-> PairsWithout(@[i], kept)]]

InCone(j) == \E s \in Range(m.cone) : j \in Range(s.col)

\* jaos_delete_cols.  A column that drives an indicator row, or belongs to a
\* cone, is not deleted.
DeleteCols(gone) ==
    LET kept == KeptOf(NumCol, gone)
    IN \/ /\ \E j \in gone : Drives(j) \/ InCone(j)
          /\ Invalid
       \/ OutOfMemory
       \/ /\ \A j \in gone : ~Drives(j) /\ ~InCone(j)
          /\ m' = ColsWithout(kept)
          /\ start' = Survives([start EXCEPT !.col = Compact(@, kept)], NumRow)
          /\ mipStart' = Compact(mipStart, kept)
          /\ MatrixIsStale /\ NamesAreStale
          /\ Returns("OK")
          /\ UNCHANGED <<cfg, fresh>>

\* Fault: the quadratic parts of the rows stay where they were.
RowsWithout_QuadStays(kept) ==
    [m EXCEPT !.row = Only(@, kept), !.bound = Only(@, kept),
              !.a = [j \in Cols |->
                       {NewIndex(kept, i) : i \in @[j] \cap kept}],
              !.ind = Compact(@, kept),
              !.rq = Compact(@, 1 .. Cardinality(kept)),
              !.name.row = Compact(@, kept)]

RowsWithout(kept) ==
    [m EXCEPT !.row = Only(@, kept), !.bound = Only(@, kept),
              !.a = [j \in Cols |->
                       {NewIndex(kept, i) : i \in @[j] \cap kept}],
              !.ind = Compact(@, kept), !.rq = Compact(@, kept),
              !.name.row = Compact(@, kept)]

\* jaos_delete_rows
DeleteRows(gone) ==
    LET kept == KeptOf(NumRow, gone)
    IN \/ OutOfMemory
       \/ /\ m' = RowsWithout(kept)
          /\ start' = Survives([start EXCEPT !.row = Compact(@, kept)],
                               Cardinality(kept))
          /\ MatrixIsStale /\ NamesAreStale
          /\ Returns("OK")
          /\ UNCHANGED <<mipStart, cfg, fresh>>

-----------------------------------------------------------------------------
(* Whole models, options and solves.                                         *)

\* jaos_load_lp: the options stay and everything else is replaced.
Load(a, nrow) ==
    \/ Invalid
    \/ OutOfMemory
    \/ /\ m' = Bare(Tagged(Len(a)),
                   [i \in 1 .. nrow |-> fresh + Len(a) + i - 1], a)
       /\ start' = NoBasis /\ mipStart' = NULL
       /\ rowwise' = NoCopy /\ map' = NoMap
       /\ AnswerIsStale
       /\ fresh' = fresh + Len(a) + nrow
       /\ Returns("OK")
       /\ UNCHANGED cfg

\* jaos_model_copy, the caller going on with the copy: it has no answer, no
\* parked walk, and neither copy nor map.
Copy ==
    \/ OutOfMemory
    \/ /\ rowwise' = NoCopy /\ map' = NoMap
       /\ AnswerIsStale
       /\ start' = IF Paired(start) THEN start ELSE NoBasis
       /\ Returns("OK")
       /\ UNCHANGED <<m, mipStart, cfg, fresh>>

\* set_tolerance, jaos_set_algorithm
SetOptions ==
    /\ cfg' = 1 - cfg /\ parked' = NULL
    /\ Returns("OK") /\ UNCHANGED <<m, attached, answer, fresh>>

\* jm_model_has_integer, and what routes to the other solvers.
Discrete ==
    \/ TRUE \in Held(m.integer) \cup Held(m.semi)
    \/ m.sos # <<>>
Conic == m.cone # <<>> \/ Held(m.rq) \ {{}} # {}
Quadratic == m.q # {} \/ TRUE \in Held(m.quad)

\* jaos_solve: refused, it leaves the last answer; a linear program's end
\* leaves its basis as the next start, and a walk when a limit stopped it.
Solve ==
    \/ (Conic \/ Quadratic \/ Discrete) /\ Invalid
    \/ /\ Conic \/ Quadratic \/ Discrete
       /\ answer' = Relations(m) /\ parked' = NULL
       /\ Returns("OK")
       /\ UNCHANGED <<m, attached, cfg, fresh>>
    \/ /\ ~Conic /\ ~Quadratic /\ ~Discrete
       /\ \E b \in Bases, stopped \in BOOLEAN :
            /\ start' = b
            /\ parked' = IF stopped
                         THEN [of |-> Relations(m), from |-> b, cfg |-> cfg]
                         ELSE NULL
       /\ answer' = Relations(m)
       /\ Returns("OK")
       /\ UNCHANGED <<m, mipStart, rowwise, map, cfg, fresh>>

-----------------------------------------------------------------------------

Call(A) == calls < MaxCalls /\ calls' = calls + 1 /\ A

Attributes ==
    \/ \E j \in Cols : SetColNumbers(j)
    \/ \E i \in Rows : SetRowBounds(i)
    \/ SetObjective
    \/ \E i \in Rows, j \in Cols, zero \in BOOLEAN : SetCoefficient(i, j, zero)
    \/ \E j \in Cols, on \in BOOLEAN :
         SetInteger(j, on) \/ SetSemi(j, on) \/ SetColQuadratic(j, on)
    \/ \E terms \in Terms : SetQuadratic(terms)
Structure ==
    \/ \E col \in Lists : AddSos(col) \/ AddCone(col)
    \/ \E i \in Rows, j \in {0} \cup Cols :
         SetIndicator(i, j, 1)
    \/ \E gone \in SUBSET (DOMAIN m.cone) : gone # {} /\ DeleteCones(gone)
    \/ \E i \in Rows, terms \in Terms : SetRowQuadratic(i, terms)
Edit ==
    \/ \E new \in NewCols : AddCols(new)
    \/ \E new \in NewRows : AddRows(new)
    \/ \E gone \in SUBSET Cols : gone # {} /\ DeleteCols(gone)
    \/ \E gone \in SUBSET Rows : gone # {} /\ DeleteRows(gone)
    \/ \E s \in Starts : Load(s.a, Len(s.row))
Attach ==
    \/ SetBasis \/ ClearBasis \/ SetMipStart \/ SetOptions
    \/ \E side \in {"col", "row"} :
         \E k \in 1 .. Count(side), n \in Names \cup {1, NULL} :
           SetName(side, k, n)
    \/ FindByName \/ EnsureRowwise \/ Copy \/ Solve

Next == Call(Attributes \/ Structure \/ Edit \/ Attach)

Spec == Init /\ [][Next]_vars

=============================================================================
