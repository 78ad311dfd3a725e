------------------------------ MODULE FileTerms ------------------------------
(***************************************************************************)
(* What the model file writers (src/src/write.c) and readers share: the   *)
(* model a file carries, the names it is written under, and the numbers.  *)
(*                                                                         *)
(* A model is a record with                                                *)
(*   sense, offset, obj   "min"/"max", a number, the objective's name      *)
(*   cols   a sequence of [name, lo, up, cost, int, semi]                  *)
(*   rows   a sequence of [name, lo, up, coef, q, ind, on]: coef has one   *)
(*          number for each column, q holds <<h, k, v>> with h >= k, ind   *)
(*          is the indicator column (0: none) and on its active value      *)
(*   q      the quadratic objective, <<h, k, v>> with h >= k               *)
(*   sos    a sequence of [type, mem], mem a sequence of <<column, weight>>*)
(*   cones  a sequence of [type, mem], mem a sequence of columns           *)
(* A name is NoName where nobody named the item.                           *)
(*                                                                         *)
(* Numbers are integers.  Inf stands for infinity and Huge for a finite    *)
(* number past the value that QPLIB and OSiL files use for infinity.       *)
(***************************************************************************)
EXTENDS Integers, FiniteSetsExt, SequencesExt

CONSTANTS Inf, Huge, NoName

NumCol(m) == Len(m.cols)
NumRow(m) == Len(m.rows)
Cols(m) == 1 .. NumCol(m)
Rows(m) == 1 .. NumRow(m)

Finite(v) == v # Inf /\ v # -Inf

\* The positional names of an item nobody named.
ColWord == <<"C1", "C2", "C3", "C4">>
RowWord == <<"R1", "R2", "R3", "R4", "R5", "R6">>

ColName(m, j) == IF m.cols[j].name = NoName THEN ColWord[j] ELSE m.cols[j].name
RowName(m, i) == IF m.rows[i].name = NoName THEN RowWord[i] ELSE m.rows[i].name
ObjName(m) == IF m.obj = NoName THEN "COST" ELSE m.obj

\* No two columns, and no two of the rows and the objective, share a name.
NamesUnique(m) ==
    /\ \A j, h \in Cols(m) : ColName(m, j) = ColName(m, h) => j = h
    /\ \A i, h \in Rows(m) : RowName(m, i) = RowName(m, h) => i = h
    /\ \A i \in Rows(m) : RowName(m, i) # ObjName(m)

HasQuadratic(m) == m.q # {}
HasRowQuadratic(m) == \E i \in Rows(m) : m.rows[i].q # {}
HasConic(m) == Len(m.cones) > 0 \/ HasRowQuadratic(m)
HasSemi(m) == \E j \in Cols(m) : m.cols[j].semi
HasIndicator(m) == \E i \in Rows(m) : m.rows[i].ind # 0

\* The model under names of its own: what a file that carries names gives
\* back for a model some of whose items have none.
Named(m) ==
    [m EXCEPT !.obj = ObjName(m),
              !.cols = [j \in Cols(m) |-> [@[j] EXCEPT !.name = ColName(m, j)]],
              !.rows = [i \in Rows(m) |-> [@[i] EXCEPT !.name = RowName(m, i)]]]

\* The positive numbers of a set in ascending order.
Ascending(S) ==
    IF S = {} THEN << >>
    ELSE SelectSeq([k \in 1 .. Max(S) |-> k], LAMBDA k : k \in S)

\* A reader that refuses the file.
Refused == [bad |-> TRUE]
Read(m) == [bad |-> FALSE, model |-> m]
=============================================================================
