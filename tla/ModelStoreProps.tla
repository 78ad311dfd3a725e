--------------------------- MODULE ModelStoreProps ---------------------------
(* What makes the model store correct: its arrays are always those of one    *)
(* relational model, edited as docs/api.md says, and nothing attached to it  *)
(* outlives what it was about.                                               *)
EXTENDS ModelStore

\* Every array is absent or exactly as long as the columns or rows it is for,
\* every position in one exists, and no tag is given out twice.
TypeOK ==
    /\ Shape(m, fresh) /\ fresh \in Nat
    /\ Optional(mipStart, NumCol, Nat)
    /\ ret \in {"OK", "OUT_OF_MEMORY", "INVALID_INPUT"}

D == Relations(m)
Data == INSTANCE ModelData WITH
    Tags <- Nat,
    cols <- Range(m.col), rows <- Range(m.row),
    entries <- EntriesOf(m), altered <- AlteredOf(m),
    integer <- Holders(m, m.integer), semi <- Holders(m, m.semi),
    quad <- Holders(m, m.quad), pairs <- PairsOf(m), ind <- IndOf(m),
    sos <- Members(m, m.sos), cone <- Members(m, m.cone),
    rowquad <- RowQuadOf(m)

\* Whatever calls are made in whatever order, the arrays refer to the columns
\* and rows that they were set for: an edit by position is an edit of the
\* relations by identity (all of model.c; renumbering in jaos_delete_cols).
IsModelData == [][Data!Next]_(Data!data)

\* After a deletion nothing refers to what is gone, and an indicator's column
\* is integer.
Integrity == Data!Integrity

\* The answer a getter gives is of the model as it is now (every edit calls
\* model_answer_is_stale).
AnswerIsOfThisModel == answer # NULL => answer = D

\* A solve goes on only with a walk over this model, from this basis, under
\* these options.
WalkIsOfThisModel ==
    parked # NULL =>
      /\ parked.of = D /\ parked.from = start /\ parked.cfg = cfg

\* Nothing that an edit should have dropped is still there to be read.
KeptIsOfThisModel == AnswerIsOfThisModel /\ WalkIsOfThisModel

\* The starting basis is whole, has a status for every column and row, and as
\* many basic entries as there are rows; the starting point has every
\* column's own value.
StartFits ==
    /\ (start.col = NULL) = (start.row = NULL)
    /\ Paired(start) =>
         /\ Len(start.col) = NumCol /\ Len(start.row) = NumRow
         /\ BasicIn(start.col) + BasicIn(start.row) = NumRow
    /\ mipStart # NULL => mipStart = m.col

\* The row-wise copy is never read after the matrix has moved on.
RowwiseAgrees == rowwise.valid => rowwise.of = Entries

\* While the map of names stands, every column and row is found under the
\* name it shows, or another that shows the same name is.
NamesFindTheirOwner ==
    map.valid =>
      \A side \in {"col", "row"} : \A k \in 1 .. Count(side) :
        LET found == Lookup(side, NameOf(side, k))
        IN found \in 1 .. Count(side) /\ NameOf(side, found) = NameOf(side, k)

\* What is kept over an edit fits the model after it: the start of the next
\* solve, and the two copies of the model made when they are first asked for.
KeptFits == StartFits /\ RowwiseAgrees /\ NamesFindTheirOwner

\* A call that fails has changed nothing a caller can read: neither the model
\* nor its answer.
FailureChangesNothing ==
    [][ret' # "OK" /\ calls' # calls => UNCHANGED <<D, answer, m.name>>]_vars

=============================================================================
