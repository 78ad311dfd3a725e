----------------------------- MODULE ModelData -----------------------------
(* What a model holds, whatever the arrays that hold it: a relational view.  *)
(* Columns, rows, SOS sets and cones are identities; every other relation    *)
(* refers to them.  An edit adds or removes identities, or changes one       *)
(* relation, and what refers to a removed identity goes with it or forbids   *)
(* its removal (src/src/model.c, docs/api.md).                               *)
EXTENDS Naturals

CONSTANT Tags           \* the identities that columns, rows and sets may have

VARIABLES
    cols, rows,     \* the identities that are there
    entries,        \* <<row, column>>: the matrix
    altered,        \* those whose numbers (costs, bounds) have been set again
    integer, semi, quad,    \* marks of columns, and diagonal quadratic terms
    pairs,          \* <<column, column>>: the objective's other terms
    ind,            \* <<row, column, value>>: indicator rows
    sos,            \* <<set, column, weight>>
    cone,           \* <<cone, column, place>>
    rowquad         \* <<row, column, column>>

marks == <<integer, semi, quad>>
discrete == <<ind, sos>>
conic == <<cone, rowquad>>
data == <<cols, rows, entries, altered, marks, pairs, discrete, conic>>

Init ==
    /\ cols = {} /\ rows = {} /\ entries = {} /\ altered = {}
    /\ integer = {} /\ semi = {} /\ quad = {} /\ pairs = {}
    /\ ind = {} /\ sos = {} /\ cone = {} /\ rowquad = {}

\* A new model, of a file or of the caller's arrays.
Load ==
    /\ cols' \subseteq Tags /\ rows' \subseteq Tags
    /\ entries' \subseteq rows' \X cols'
    /\ altered' = {}
    /\ marks' = <<{}, {}, {}>> /\ pairs' = {}
    /\ discrete' = <<{}, {}>> /\ conic' = <<{}, {}>>

\* Columns arrive with entries in the rows that are there.
AddCols ==
    /\ cols \subseteq cols' /\ cols' \subseteq Tags
    /\ entries \subseteq entries'
    /\ entries' \ entries \subseteq rows \X (cols' \ cols)
    /\ UNCHANGED <<rows, altered, marks, pairs, discrete, conic>>

AddRows ==
    /\ rows \subseteq rows' /\ rows' \subseteq Tags
    /\ entries \subseteq entries'
    /\ entries' \ entries \subseteq (rows' \ rows) \X cols
    /\ UNCHANGED <<cols, altered, marks, pairs, discrete, conic>>

\* Columns go with what refers to them; one that an indicator or a cone needs
\* may not go.
DeleteCols ==
    /\ cols' \subseteq cols
    /\ \A t \in ind \cup cone : t[2] \in cols'
    /\ entries' = {t \in entries : t[2] \in cols'}
    /\ altered' = altered \ (cols \ cols')
    /\ integer' = integer \cap cols'
    /\ semi' = semi \cap cols'
    /\ quad' = quad \cap cols'
    /\ pairs' = {t \in pairs : t[1] \in cols' /\ t[2] \in cols'}
    /\ sos' = {t \in sos : t[2] \in cols'}
    /\ rowquad' = {t \in rowquad : t[2] \in cols' /\ t[3] \in cols'}
    /\ UNCHANGED <<rows, ind, cone>>

DeleteRows ==
    /\ rows' \subseteq rows
    /\ entries' = {t \in entries : t[1] \in rows'}
    /\ altered' = altered \ (rows \ rows')
    /\ ind' = {t \in ind : t[1] \in rows'}
    /\ rowquad' = {t \in rowquad : t[1] \in rows'}
    /\ UNCHANGED <<cols, marks, pairs, sos, cone>>

SetNumbers ==
    /\ altered' \subseteq Tags
    /\ UNCHANGED <<cols, rows, entries, marks, pairs, discrete, conic>>

SetEntry ==
    /\ entries' \subseteq rows \X cols
    /\ UNCHANGED <<cols, rows, altered, marks, pairs, discrete, conic>>

\* The column of an indicator stays integer.
MarkInteger ==
    /\ integer' \subseteq cols
    /\ \A t \in ind : t[2] \in integer'
    /\ UNCHANGED <<cols, rows, entries, altered, semi, quad, pairs, discrete,
                   conic>>

MarkSemi ==
    /\ semi' \subseteq cols
    /\ UNCHANGED <<cols, rows, entries, altered, integer, quad, pairs,
                   discrete, conic>>

SetQuadratic ==
    /\ quad' \subseteq cols /\ pairs' \subseteq cols \X cols
    /\ UNCHANGED <<cols, rows, entries, altered, integer, semi, discrete,
                   conic>>

AddSos ==
    /\ sos \subseteq sos' /\ sos' \subseteq Tags \X cols \X Nat
    /\ UNCHANGED <<cols, rows, entries, altered, marks, pairs, ind, conic>>

SetIndicator ==
    /\ ind' \subseteq rows \X integer \X {0, 1}
    /\ \A t, u \in ind' : t[1] = u[1] => t = u
    /\ UNCHANGED <<cols, rows, entries, altered, marks, pairs, sos, conic>>

AddCone ==
    /\ cone \subseteq cone' /\ cone' \subseteq Tags \X cols \X Nat
    /\ UNCHANGED <<cols, rows, entries, altered, marks, pairs, discrete,
                   rowquad>>

\* Whole cones go.
DeleteCones ==
    /\ cone' \subseteq cone
    /\ \A t \in cone', u \in cone : t[1] = u[1] => u \in cone'
    /\ UNCHANGED <<cols, rows, entries, altered, marks, pairs, discrete,
                   rowquad>>

\* The quadratic part of one row is replaced.
SetRowQuadratic ==
    /\ rowquad' \subseteq rows \X cols \X cols
    /\ \A t \in (rowquad \ rowquad') \cup (rowquad' \ rowquad),
          u \in (rowquad \ rowquad') \cup (rowquad' \ rowquad) : t[1] = u[1]
    /\ UNCHANGED <<cols, rows, entries, altered, marks, pairs, discrete, cone>>

Next ==
    \/ Load \/ AddCols \/ AddRows \/ DeleteCols \/ DeleteRows
    \/ SetNumbers \/ SetEntry
    \/ MarkInteger \/ MarkSemi \/ SetQuadratic \/ AddSos \/ SetIndicator
    \/ AddCone \/ DeleteCones \/ SetRowQuadratic

Spec == Init /\ [][Next]_data

-----------------------------------------------------------------------------

\* What refers to a column or a row refers to one that is there, and a row's
\* indicator is one and integer: what every reader of the model relies on.
Integrity ==
    /\ cols \subseteq Tags /\ rows \subseteq Tags
    /\ entries \subseteq rows \X cols
    /\ integer \subseteq cols /\ semi \subseteq cols /\ quad \subseteq cols
    /\ pairs \subseteq cols \X cols
    /\ ind \subseteq rows \X integer \X {0, 1}
    /\ \A t, u \in ind : t[1] = u[1] => t = u
    /\ sos \subseteq Tags \X cols \X Nat
    /\ cone \subseteq Tags \X cols \X Nat
    /\ rowquad \subseteq rows \X cols \X cols

=============================================================================
